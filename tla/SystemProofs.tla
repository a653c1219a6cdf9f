---------------------------- MODULE SystemProofs ----------------------------
(***************************************************************************)
(* Proofs about System, for any documents, command lines and budgets.      *)
(*                                                                         *)
(* A step of the whole is a step of Orchestration, seen from docling-serve,*)
(* and a step of Starter, seen from the command lines.  So both invariants *)
(* hold, and what is new is what relates Temporal's record to tasks that   *)
(* ended long ago.                                                         *)
(***************************************************************************)
EXTENDS System, OrchestrationProofs

SP == INSTANCE StarterProofs

-----------------------------------------------------------------------------
\* System and the proofs of Starter read the same command lines.
LEMMA SameStarterInit == S!StarterInit => SP!StarterInit
BY DEF S!StarterInit, SP!StarterInit, S!Init, SP!Init, S!FreshRun, SP!FreshRun,
       S!NotInvoked, SP!NotInvoked, S!Latest, SP!Latest, S!NoVerdict,
       SP!NoVerdict, S!NoStatus, SP!NoStatus

LEMMA SameRecorded == S!Recorded <=> SP!Recorded
BY DEF S!Recorded, SP!Recorded

LEMMA SameInvoked ==
  ASSUME NEW c, S!Invoked(c)
  PROVE  SP!Invoked(c) /\ (S!StartConversion(c) => SP!StartConversion(c))
BY SameRecorded
DEF S!Invoked, SP!Invoked, S!List, SP!List, S!StartConversion,
    SP!StartConversion, S!AlreadyRunning, SP!AlreadyRunning, S!Attach,
    SP!Attach, S!HearResult, SP!HearResult, S!Aborts, SP!Aborts, S!At, SP!At,
    S!Current, SP!Current, S!Exit, SP!Exit, S!Dispatched, SP!Dispatched,
    S!Latest, SP!Latest, S!Start, SP!Start, S!Open, SP!Open, S!OpenPhases,
    SP!OpenPhases, S!FreshRun, SP!FreshRun, S!NoVerdict, SP!NoVerdict,
    S!NoStatus, SP!NoStatus

LEMMA SameProgress ==
  ASSUME NEW d, S!Progress(d)
  PROVE  SP!Progress(d)
BY DEF S!Progress, SP!Progress, S!SubmitSucceeds, SP!SubmitSucceeds,
       S!SubmitRejected, SP!SubmitRejected, S!TaskCompletedSignal,
       SP!TaskCompletedSignal, S!Wake, SP!Wake, S!TimerFires, SP!TimerFires,
       S!CheckTerminal, SP!CheckTerminal, S!CheckInProgress,
       SP!CheckInProgress, S!CheckLost, SP!CheckLost, S!CheckUnanswered,
       SP!CheckUnanswered, S!CheckRejected, SP!CheckRejected, S!FetchOutcome,
       SP!FetchOutcome, S!FetchRejected, SP!FetchRejected, S!CollectOutputs,
       SP!CollectOutputs, S!Terminal, SP!Terminal, S!StillInProgress,
       SP!StillInProgress, S!Close, SP!Close, S!Open, SP!Open, S!Told, SP!Told,
       S!TaskStatus, SP!TaskStatus, S!Outcomes, SP!Outcomes, S!OpenPhases,
       SP!OpenPhases, S!NoStatus, SP!NoStatus

LEMMA SameStarterStep ==
  ASSUME [S!StarterNext]_(S!starterVars)
  PROVE  [SP!StarterNext]_(SP!starterVars)
BY SameInvoked, SameProgress, SameRecorded
DEF S!StarterNext, SP!StarterNext, S!WorkflowRuns, SP!WorkflowRuns,
    S!starterVars, SP!starterVars

\* Orchestration's workflows progress as those of Starter do.
LEMMA ProgressIsStarters ==
  ASSUME NEW d, W!Progress(d)
  PROVE  S!Progress(d)
BY DEF W!Progress, S!Progress, W!SubmitSucceeds, S!SubmitSucceeds,
       W!SubmitRejected, S!SubmitRejected, W!TaskCompletedSignal,
       S!TaskCompletedSignal, W!Wake, S!Wake, W!TimerFires, S!TimerFires,
       W!CheckTerminal, S!CheckTerminal, W!CheckInProgress, S!CheckInProgress,
       W!CheckLost, S!CheckLost, W!CheckUnanswered, S!CheckUnanswered,
       W!CheckRejected, S!CheckRejected, W!FetchOutcome, S!FetchOutcome,
       W!FetchRejected, S!FetchRejected, W!CollectOutputs, S!CollectOutputs,
       W!Terminal, S!Terminal, W!StillInProgress, S!StillInProgress, W!Close,
       S!Close, W!Open, S!Open, W!Told, S!Told, W!TaskStatus, S!TaskStatus,
       W!Outcomes, S!Outcomes, W!OpenPhases, S!OpenPhases, W!NoStatus,
       S!NoStatus

LEMMA StartIsStarters ==
  ASSUME NEW d, S!Start(d)
  PROVE  W!Start(d)
BY DEF S!Start, W!Start, S!Open, W!Open, S!OpenPhases, W!OpenPhases,
       S!FreshRun, W!FreshRun, S!NoVerdict, W!NoVerdict, S!NoStatus, W!NoStatus

\* What the proofs of Starter assume of its constants.
LEMMA StarterConstants ==
  /\ NoTask \notin Tasks
  /\ MaxSubmissions \in Nat \ {0} /\ MaxSafetyPolls \in Nat
  /\ CheckAttempts \in Nat \ {0} /\ MaxRuns \in Nat
BY NoTaskIsNone, MaxSubmissionsAssumption, MaxSafetyPollsAssumption,
   CheckAttemptsAssumption, MaxRunsAssumption

-----------------------------------------------------------------------------
\* One step of the whole is one of Orchestration and one of Starter, or leaves
\* either as it was.
LEMMA StepIsBoth ==
  ASSUME Inv, SP!SInv, [SystemNext]_systemVars
  PROVE  [Next]_vars /\ [S!StarterNext]_(S!starterVars)
<1>1. CASE Converts
  <2>1. Next /\ S!Recorded /\ UNCHANGED cli
    BY <1>1 DEF Converts, Recorded, Next
  <2>2. CASE \E d \in Docs : W!Progress(d)
    BY <2>1, <2>2, ProgressIsStarters DEF S!StarterNext, S!WorkflowRuns
  <2>3. CASE UNCHANGED wf
    <3>1. ASSUME NEW d \in Docs, NEW n \in 1 .. MaxRuns
          PROVE  history[d][n] = IF n = wf[d].run THEN wf[d].verdict
                                 ELSE history[d][n]
      BY DEF SP!SInv, SP!HistoryInv
    <3>2. history = [d \in Docs |-> [n \in 1 .. MaxRuns |-> history[d][n]]]
      BY DEF SP!SInv, SP!HistoryInv
    <3>3. history' = [d \in Docs |-> [n \in 1 .. MaxRuns |-> history[d][n]]]
      BY <2>1, <2>3, <3>1 DEF S!Recorded
    <3> QED
      BY <2>1, <2>3, <3>2, <3>3 DEF S!starterVars
  <2>4. (\E d \in Docs : W!Progress(d)) \/ UNCHANGED wf
    BY <1>1, ConversionsProgress DEF Converts
  <2> QED
    BY <2>1, <2>2, <2>3, <2>4
<1>2. ASSUME NEW c \in Clis, S!Invoked(c), UNCHANGED beside
      PROVE  [Next]_vars /\ S!StarterNext
  <2>1. S!StarterNext
    BY <1>2 DEF S!StarterNext
  <2>2. CASE S!StartConversion(c)
    <3>1. PICK d : d = S!Current(c)
      OBVIOUS
    <3>2. cli[c].phase = "starting" /\ S!Start(d)
      BY <2>2, <3>1 DEF S!StartConversion, S!At
    <3>3. cli[c].keys \in Listings /\ cli[c].at \in 1 .. Len(cli[c].keys)
      BY <3>2 DEF SP!SInv, SP!InvocationInv
    <3>4. d \in Docs
      BY <3>1, <3>3, ListingsAssumption DEF S!Current
    <3>5. Start(d)
      BY <1>2, <3>2, StartIsStarters DEF Start, beside
    <3> QED
      BY <2>1, <3>4, <3>5 DEF Next
  <2>3. CASE ~S!StartConversion(c)
    <3>1. UNCHANGED wf
      BY <1>2, <2>3
      DEF S!Invoked, S!List, S!AlreadyRunning, S!Attach, S!HearResult, S!Aborts
    <3> QED
      BY <1>2, <2>1, <3>1 DEF beside, vars
  <2> QED
    BY <2>2, <2>3
<1>3. CASE UNCHANGED systemVars
  BY <1>3 DEF systemVars, vars, S!starterVars
<1> QED
  BY <1>1, <1>2, <1>3 DEF SystemNext, Commands

LEMMA SystemInvariance == SystemSpec => [](Inv /\ SP!SInv)
<1>1. SystemInit => Inv /\ SP!SInv
  BY InitEstablishes, SameStarterInit, SP!StarterInitEstablishes,
     StarterConstants, WaitingAssumption, ListingsAssumption
  DEF SystemInit
<1>2. Inv /\ SP!SInv /\ [SystemNext]_systemVars => (Inv /\ SP!SInv)'
  <2> SUFFICES ASSUME Inv, SP!SInv, [SystemNext]_systemVars
               PROVE  Inv' /\ SP!SInv'
    OBVIOUS
  <2>1. [Next]_vars /\ [SP!StarterNext]_(SP!starterVars)
    BY StepIsBoth, SameStarterStep
  <2>2. Inv'
    BY <2>1, NextKeeps
  <2>3. SP!SInv'
    BY <2>1, SP!StarterNextKeeps, StarterConstants, WaitingAssumption,
       ListingsAssumption
  <2> QED
    BY <2>2, <2>3
<1> QED
  BY <1>1, <1>2, PTL DEF SystemSpec

\* Seen from docling-serve, the command lines are dispatchers like any other.
THEOREM SystemImplementsOrchestration == SystemSpec => Spec
<1>1. SystemInit => Init
  BY DEF SystemInit
<1>2. Inv /\ SP!SInv /\ [SystemNext]_systemVars => [Next]_vars
  BY StepIsBoth
<1> QED
  BY <1>1, <1>2, SystemInvariance, PTL DEF SystemSpec, Spec

\* Seen from the command lines, all of docling-serve, the relay and the submit
\* slot only chooses among the answers a workflow may be given.
THEOREM SystemImplementsStarter == SystemSpec => S!StarterSpec
<1>1. SystemInit => S!StarterInit
  BY DEF SystemInit
<1>2. Inv /\ SP!SInv /\ [SystemNext]_systemVars =>
        [S!StarterNext]_(S!starterVars)
  BY StepIsBoth
<1> QED
  BY <1>1, <1>2, SystemInvariance, PTL DEF SystemSpec, S!StarterSpec

-----------------------------------------------------------------------------
\* A task that accounts for the ending of a run goes on doing so: the run is
\* over, so that its submit can no longer be abandoned, and nothing that
\* became of the task is taken back.
LEMMA AccountStays ==
  ASSUME Inv, SP!SInv, [Next]_vars, NEW d \in Docs, NEW n \in 1 .. MaxRuns,
         NEW v, v = history[d][n], v \notin {S!NoVerdict, "SubmitRejected"},
         NEW t \in Sent(d, n), Accounts(t, v)
  PROVE  t \in Sent(d, n)' /\ Accounts(t, v)'
<1>1. v \in W!Verdicts
  <2>1. history[d] \in [1 .. MaxRuns -> SP!Verdicts \cup {SP!NoVerdict}]
    BY DEF SP!SInv, SP!HistoryInv
  <2> QED
    BY <2>1 DEF SP!Verdicts, W!Verdicts, SP!NoVerdict, S!NoVerdict
<1>2. /\ t \in DOMAIN tasks /\ tasks[t].doc = d /\ tasks[t].run = n
      /\ ~tasks[t].orphan
  BY DEF Sent
<1>3. Grows /\ (json[d] # NoTask => json'[d] # NoTask)
  BY NextGrows
<1>4. t # slot
  <2> SUFFICES ASSUME t = slot PROVE FALSE
    OBVIOUS
  <2>1. slot # NoTask
    BY <1>2, TaskTypes DEF Inv
  <2>2. wf[d].phase = "submitting" /\ n = wf[d].run
    BY <1>2, <2>1 DEF Inv, DocInv, OwnSlot
  <2>3. wf[d].verdict = W!NoVerdict
    BY <2>2, WorkflowFields DEF Inv
  <2>4. history[d][n] = wf[d].verdict
    BY <2>2 DEF SP!SInv, SP!HistoryInv
  <2> QED
    BY <2>3, <2>4 DEF W!NoVerdict, S!NoVerdict
<1>5. t \in Sent(d, n)'
  BY <1>2, <1>3, <1>4 DEF Grows, Sent
<1>6. Accounts(t, v)'
  <2>1. Ended(t) => Ended(t)' /\ tasks'[t].state = tasks[t].state
    BY <1>2, <1>3 DEF Grows, Ended
  <2>2. /\ ~tasks[t].known => ~tasks'[t].known
        /\ tasks'[t].doc = d
    BY <1>2, <1>3 DEF Grows
  <2>3. tasks[t].state # "queued" => Ended(t)
    BY <1>2, TaskTypes DEF Inv, TaskRecord, Ended
  <2>4. CASE v = "Completed"
    BY <1>2, <1>3, <2>1, <2>2, <2>4 DEF Accounts, Status
  <2>5. CASE v = "ConversionFailed"
    BY <2>1, <2>3, <2>5 DEF Accounts
  <2>6. CASE v = "MissingOutputs"
    BY <2>1, <2>3, <2>6 DEF Accounts
  <2>7. CASE v = "TaskLost"
    BY <2>2, <2>7 DEF Accounts
  <2>8. CASE v = "PollBudgetExhausted"
    BY <2>8 DEF Accounts
  <2> QED
    BY <1>1, <2>4, <2>5, <2>6, <2>7, <2>8 DEF W!Verdicts
<1> QED
  BY <1>5, <1>6

\* What is new in the record was just decided, and is honest by what
\* Orchestration's invariant says of verdicts.
LEMMA RecordKept ==
  ASSUME Inv, Inv', SP!SInv, SP!SInv', RecordHonest,
         [SystemNext]_systemVars
  PROVE  RecordHonest'
<1> SUFFICES ASSUME NEW d \in Docs, NEW n \in 1 .. MaxRuns,
                    NEW v, v = history'[d][n],
                    v \notin {S!NoVerdict, "SubmitRejected"}
             PROVE  \E t \in Sent(d, n)' : Accounts(t, v)'
  BY DEF RecordHonest
<1>1. CASE n = wf'[d].run
  <2>1. v = wf'[d].verdict
    BY <1>1 DEF SP!SInv, SP!HistoryInv
  <2>2. PICK t : t = wf'[d].task
    OBVIOUS
  <2>3. v \in W!Verdicts
    BY <2>1 DEF Inv, WP!IInv, WP!WorkflowState, WP!Verdicts, WP!NoVerdict,
                W!Verdicts, S!NoVerdict
  <2>4. OwnTask(d, wf[d])' /\ Honest(d, wf[d])'
    BY DEF Inv, DocInv
  <2>5. /\ t \in DOMAIN tasks' /\ tasks'[t].doc = d /\ tasks'[t].run = n
        /\ ~tasks'[t].orphan
    BY <1>1, <2>1, <2>2, <2>3, <2>4
    DEF OwnTask, HasTask, Honest, IsOf, S!NoVerdict, W!NoVerdict
  <2>6. Accounts(t, v)'
    BY <2>1, <2>2, <2>3, <2>4, <2>5 DEF Honest, Accounts, W!Verdicts
  <2> QED
    BY <2>5, <2>6 DEF Sent
<1>2. CASE n # wf'[d].run
  <2>1. history'[d][n] = history[d][n]
    <3>1. CASE S!Recorded
      BY <1>2, <3>1 DEF S!Recorded
    <3>2. CASE UNCHANGED history
      BY <3>2
    <3> QED
      BY <3>1, <3>2
      DEF SystemNext, Converts, Recorded, Commands, S!Invoked, S!List,
          S!StartConversion, S!AlreadyRunning, S!Attach, S!HearResult,
          S!Aborts, systemVars
  <2>2. v = history[d][n]
    BY <2>1
  <2>3. PICK t \in Sent(d, n) : Accounts(t, v)
    BY <2>2 DEF RecordHonest
  <2> QED
    BY <2>2, <2>3, AccountStays, StepIsBoth
<1> QED
  BY <1>1, <1>2

\* The ending of every run there ever was is accounted for by a task that run
\* submitted, whatever came after it (workflows.py:116-177, dispatch.py:14-27).
THEOREM RecordStaysHonest == SystemSpec => []RecordHonest
<1>1. SystemInit => RecordHonest
  BY DEF SystemInit, S!StarterInit, RecordHonest
<1>2. (Inv /\ SP!SInv) /\ (Inv /\ SP!SInv)' /\ RecordHonest
        /\ [SystemNext]_systemVars => RecordHonest'
  <2> SUFFICES ASSUME Inv, Inv', SP!SInv, SP!SInv', RecordHonest,
                      [SystemNext]_systemVars
               PROVE  RecordHonest'
    OBVIOUS
  <2> QED
    BY RecordKept
<1> QED
  BY <1>1, <1>2, SystemInvariance, PTL DEF SystemSpec

\* Exit code 0 of a command line that waits means that docling-serve really
\* converted each document listed, in the run the command line answers for
\* (starter.py:52-98, workflows.py:128-177).
THEOREM SuccessIsEarned == SystemSpec => []SuccessIsReal
<1>1. ASSUME SP!SInv, RecordHonest PROVE SuccessIsReal
  <2> SUFFICES ASSUME NEW c \in Waiting, cli[c].phase = "exited",
                      cli[c].code = 0, NEW r, r = cli[c],
                      NEW i \in 1 .. Len(r.keys), NEW d, d = r.keys[i]
               PROVE  /\ S!Answers(c, d)
                      /\ \E t \in Sent(d, r.handle[d]) :
                           Accounts(t, "Completed")
    BY DEF SuccessIsReal
  <2>1. SP!Finished(r)
    BY <1>1, SP!ExitedFinished, StarterConstants, WaitingAssumption,
       ListingsAssumption
  <2>2. d \in Docs /\ SP!Asked(r, d) /\ SP!Settled(r, d) /\ SP!Converted(r, d)
    BY <1>1, <2>1, SP!FinishedKnows, StarterConstants, WaitingAssumption,
       ListingsAssumption
  <2>3. r.handle[d] \in 1 .. MaxRuns
    <3>1. r.handle \in [Docs -> 0 .. MaxRuns]
      BY <1>1, WaitingAssumption DEF SP!SInv, SP!Invocation
    <3> QED
      BY <2>2, <3>1, MaxRunsAssumption DEF SP!Settled, SP!Latest
  <2>4. S!Answers(c, d)
    BY <2>2 DEF SP!Asked, SP!Settled, S!Answers
  <2>5. \E t \in Sent(d, r.handle[d]) : Accounts(t, "Completed")
    BY <1>1, <2>2, <2>3 DEF RecordHonest, SP!Converted, S!NoVerdict
  <2> QED
    BY <2>4, <2>5
<1> QED
  BY <1>1, SystemInvariance, RecordStaysHonest, PTL
=============================================================================
