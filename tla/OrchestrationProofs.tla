------------------------- MODULE OrchestrationProofs -------------------------
(***************************************************************************)
(* Proofs about Orchestration, for any documents, budgets and bounds.      *)
(*                                                                         *)
(* Orchestration implements ConvertWorkflow, so that what is proved there  *)
(* of one workflow holds of each workflow here, its contract included.     *)
(* What a verdict says of docling-serve's tasks needs an invariant over    *)
(* both: DocInv, one document's workflow and status check against all the  *)
(* tasks.  A step moves one workflow while the tasks stay as they are, or  *)
(* lets the tasks grow while the workflows stay as they are; few do both.  *)
(***************************************************************************)
EXTENDS Orchestration, SequenceTheorems, FiniteSetTheorems, TLAPS

WP == INSTANCE ConvertWorkflowProofs

-----------------------------------------------------------------------------
TaskRecord ==
  [doc : Docs, run : 1 .. MaxRuns, state : Endings \cup {"queued"},
   known : BOOLEAN, callbacks : 0 .. CallbackAttempts, acked : BOOLEAN,
   orphan : BOOLEAN]

\* The types of what surrounds the workflows.
Types ==
  /\ tasks \in Seq(TaskRecord)
  /\ Len(tasks) <= MaxTasks
  /\ slot \in {NoTask} \cup DOMAIN tasks
  /\ reply \in [Docs -> Replies \cup {NoReply}]
  /\ json \in [Docs -> {NoTask} \cup DOMAIN tasks]
  /\ abandoned \in 0 .. MaxAbandoned

\* A callback is due, and acknowledged, only of a task that has ended; what a
\* task exported is under its document's prefix, or was replaced there.
TaskInv(t) ==
  /\ tasks[t].callbacks > 0 \/ tasks[t].acked => Ended(t)
  /\ tasks[t].state = "converted" => json[tasks[t].doc] # NoTask

\* No other task of its run stands in the way of submitting t once more.
Gone(t) == ~tasks[t].known \/ tasks[t].orphan
IsOf(t, d, n) == t \in DOMAIN tasks /\ tasks[t].doc = d /\ tasks[t].run = n

\* A run that awaits something of its task, or ended after it did.
HasTask(r) ==
  \/ r.phase \in {"waiting", "checking", "fetching", "collecting"}
  \/ r.phase = "closed" /\ r.verdict # "SubmitRejected"

\* The task of a run is one the run itself submitted.
OwnTask(d, r) ==
  HasTask(r) => IsOf(r.task, d, r.run) /\ ~tasks[r.task].orphan

\* The submit slot is held for a run that still awaits its submit.
OwnSlot(d, r) ==
  slot # NoTask /\ tasks[slot].doc = d =>
    r.phase = "submitting" /\ tasks[slot].run = r.run /\ ~tasks[slot].orphan

\* Of the tasks of an open run, only the one awaited or being submitted may
\* still be known.
OthersGone(d, r) ==
  \A t \in DOMAIN tasks :
    IsOf(t, d, r.run) /\ ~Gone(t) =>
      \/ r.phase = "closed"
      \/ r.phase = "submitting" /\ t = slot
      \/ r.phase # "submitting" /\ t = r.task

\* What a run was told of a task is how the task ended.
ToldTrue(r) ==
  \A t \in Tasks :
    r.completed[t] # W!NoStatus =>
      t \in DOMAIN tasks /\ Ended(t) /\ r.completed[t] = Status(t)

AckedTold(d, r) ==
  \A t \in DOMAIN tasks :
    IsOf(t, d, r.run) /\ tasks[t].acked /\ r.phase \in W!OpenPhases =>
      r.completed[t] = Status(t)

\* An answer to a status check that is still on its way holds for good, save
\* "progress".
ReplyTrue(r, q) ==
  /\ q # NoReply => r.phase = "checking"
  /\ q = "lost" => ~tasks[r.task].known
  /\ q \in W!TaskStatus => Ended(r.task) /\ Status(r.task) = q

\* What a run knows when it fetches the outcome and collects the outputs.
Learned(r) ==
  /\ r.phase \in {"fetching", "collecting"} =>
       Ended(r.task) /\ Status(r.task) = "success"
  /\ r.phase = "collecting" /\ tasks[r.task].state = "empty" =>
       ~tasks[r.task].known

\* VerdictHonest of one run, but for whose task it is.
Honest(d, r) ==
  LET t == r.task IN
  /\ r.verdict # W!NoVerdict => r.phase = "closed"
  /\ r.verdict = "Completed" => /\ Ended(t) /\ Status(t) = "success"
                                /\ tasks[t].state = "empty" => ~tasks[t].known
                                /\ json[d] # NoTask
  /\ r.verdict = "ConversionFailed" => tasks[t].state \in {"failed", "empty"}
  /\ r.verdict = "MissingOutputs" => tasks[t].state \in {"unexported", "empty"}
  /\ r.verdict = "TaskLost" => ~tasks[t].known

RunsCounted(d, r) ==
  /\ r.phase # "idle" => r.run >= 1
  /\ \A t \in DOMAIN tasks : tasks[t].doc = d => tasks[t].run <= r.run

DocInv(d, r, q) ==
  /\ RunsCounted(d, r)
  /\ OwnTask(d, r)
  /\ OwnSlot(d, r)
  /\ OthersGone(d, r)
  /\ ToldTrue(r)
  /\ AckedTold(d, r)
  /\ ReplyTrue(r, q)
  /\ Learned(r)
  /\ Honest(d, r)

Inv ==
  /\ WP!IInv
  /\ Types
  /\ \A t \in DOMAIN tasks : TaskInv(t)
  /\ \A d \in Docs : DocInv(d, wf[d], reply[d])
  /\ NoNeedlessConversion

-----------------------------------------------------------------------------
\* Orchestration and the proofs of ConvertWorkflow read the same workflow.
LEMMA SameStep ==
  ASSUME NEW d \in Docs, W!Step(d)
  PROVE  WP!Step(d)
BY DEF W!Step, W!Progress, WP!Step, WP!Progress, W!Start, WP!Start, W!SubmitSucceeds,
       WP!SubmitSucceeds, W!SubmitRejected, WP!SubmitRejected,
       W!TaskCompletedSignal, WP!TaskCompletedSignal, W!Wake, WP!Wake,
       W!TimerFires, WP!TimerFires, W!CheckTerminal, WP!CheckTerminal,
       W!CheckInProgress, WP!CheckInProgress, W!CheckLost, WP!CheckLost,
       W!CheckUnanswered, WP!CheckUnanswered, W!CheckRejected,
       WP!CheckRejected, W!FetchOutcome, WP!FetchOutcome, W!FetchRejected,
       WP!FetchRejected, W!CollectOutputs, WP!CollectOutputs, W!Terminal,
       WP!Terminal, W!StillInProgress, WP!StillInProgress, W!Close, WP!Close,
       W!Open, WP!Open, W!Told, WP!Told, W!FreshRun, WP!FreshRun,
       W!TaskStatus, WP!TaskStatus, W!Outcomes, WP!Outcomes, W!OpenPhases,
       WP!OpenPhases, W!NoStatus, WP!NoStatus, W!NoVerdict, WP!NoVerdict

LEMMA SameInit == W!Init => WP!Init
BY DEF W!Init, WP!Init, W!FreshRun, WP!FreshRun, W!NoStatus, WP!NoStatus,
       W!NoVerdict, WP!NoVerdict

LEMMA NoTaskIsNone == NoTask \notin Tasks
BY DEF NoTask, Tasks

LEMMA WorkflowKeeps ==
  ASSUME WP!IInv, NEW d \in Docs, W!Step(d)
  PROVE  WP!IInv'
BY SameStep, NoTaskIsNone, WP!StepKeeps, MaxSubmissionsAssumption,
   MaxSafetyPollsAssumption, CheckAttemptsAssumption, MaxRunsAssumption

\* What the type of a workflow says, field by field.
LEMMA WorkflowFields ==
  ASSUME WP!IInv, NEW d \in Docs
  PROVE  /\ wf = [e \in Docs |-> wf[e]]
         /\ wf[d].phase \in W!OpenPhases \cup {"idle", "closed"}
         /\ wf[d].run \in 0 .. MaxRuns
         /\ wf[d].task \in Tasks \cup {NoTask}
         /\ wf[d].verdict \in W!Verdicts \cup {W!NoVerdict}
         /\ wf[d].completed \in [Tasks -> W!TaskStatus \cup {W!NoStatus}]
         /\ wf[d].phase # "closed" => wf[d].verdict = W!NoVerdict
BY DEF WP!IInv, WP!RunInv, WP!WorkflowState, WP!OpenPhases, W!OpenPhases,
       WP!Verdicts, W!Verdicts, WP!NoVerdict, W!NoVerdict, WP!TaskStatus,
       W!TaskStatus, WP!NoStatus, W!NoStatus

\* The tasks, as a function from their positions.
LEMMA TaskTypes ==
  ASSUME Types
  PROVE  /\ Len(tasks) \in Nat
         /\ DOMAIN tasks = 1 .. Len(tasks)
         /\ DOMAIN tasks \subseteq Tasks
         /\ NoTask \notin DOMAIN tasks
         /\ \A t \in DOMAIN tasks : tasks[t] \in TaskRecord
BY BoundsAssumption DEF Types, Tasks, NoTask

-----------------------------------------------------------------------------
\* What every step does to the tasks there are: a task keeps its document and
\* run, an ended one its ending, and none is known again or taken back.
Grows ==
  \A t \in DOMAIN tasks :
    /\ t \in DOMAIN tasks'
    /\ tasks'[t].doc = tasks[t].doc /\ tasks'[t].run = tasks[t].run
    /\ Ended(t) => tasks'[t].state = tasks[t].state
    /\ ~tasks[t].known => ~tasks'[t].known
    /\ tasks[t].orphan => tasks'[t].orphan
    /\ tasks'[t].orphan /\ ~tasks[t].orphan => t = slot /\ slot' = NoTask

\* What it may do to a document e whose own run r it does not move: any new
\* task is another document's, and so is a change of the submit slot unless
\* the submit is abandoned; r was told what is newly acknowledged of its task.
Elsewhere(e, r) ==
  /\ \A t \in DOMAIN tasks' \ DOMAIN tasks : tasks'[t].doc # e
  /\ \/ slot' = slot
     \/ slot' # NoTask /\ tasks'[slot'].doc # e
     \/ slot' = NoTask /\ (tasks[slot].doc # e \/ tasks'[slot].orphan)
  /\ slot = NoTask \/ slot' = slot \/ slot' = NoTask
  /\ json[e] # NoTask => json'[e] # NoTask
  /\ \A t \in DOMAIN tasks :
       IsOf(t, e, r.run) /\ tasks'[t].acked /\ r.phase \in W!OpenPhases =>
         tasks[t].acked \/ (Ended(t) /\ r.completed[t] = Status(t))

\* What was known of tasks that have ended stays so.
LEMMA EndedStays ==
  ASSUME Types, Grows, NEW t \in DOMAIN tasks, Ended(t)
  PROVE  t \in DOMAIN tasks' /\ Ended(t)' /\ Status(t)' = Status(t)
BY DEF Grows, Ended, Status

LEMMA DocStays ==
  ASSUME Types, Types', NEW e \in Docs, NEW r, NEW q, DocInv(e, r, q),
         \A t \in DOMAIN tasks : TaskInv(t), Grows, Elsewhere(e, r)
  PROVE  DocInv(e, r, q)'
<1>0. /\ NoTask \notin DOMAIN tasks /\ NoTask \notin DOMAIN tasks'
      /\ slot \in {NoTask} \cup DOMAIN tasks
  BY TaskTypes DEF Types, NoTask
<1>1. \A t \in DOMAIN tasks :
        /\ t \in DOMAIN tasks'
        /\ tasks'[t].doc = tasks[t].doc /\ tasks'[t].run = tasks[t].run
  BY DEF Grows
<1>2. ASSUME NEW t \in DOMAIN tasks', tasks'[t].doc = e
      PROVE  t \in DOMAIN tasks /\ tasks[t].doc = e
                /\ tasks'[t].run = tasks[t].run
  BY <1>1, <1>2 DEF Elsewhere
<1>3. RunsCounted(e, r)'
  BY <1>2 DEF DocInv, RunsCounted
<1>4. OwnTask(e, r)'
  <2> SUFFICES ASSUME HasTask(r)
               PROVE  IsOf(r.task, e, r.run)' /\ ~tasks'[r.task].orphan
    BY DEF OwnTask, HasTask
  <2>1. IsOf(r.task, e, r.run) /\ ~tasks[r.task].orphan
    BY DEF DocInv, OwnTask
  <2>2. r.task # slot
    BY <1>0, <2>1 DEF DocInv, OwnSlot, HasTask, IsOf
  <2> QED
    BY <2>1, <2>2 DEF Grows, IsOf
<1>5. OwnSlot(e, r)'
  <2> SUFFICES ASSUME slot' # NoTask, tasks'[slot'].doc = e
               PROVE  /\ r.phase = "submitting" /\ tasks'[slot'].run = r.run
                      /\ ~tasks'[slot'].orphan
    BY DEF OwnSlot
  <2>1. slot' = slot
    BY DEF Elsewhere
  <2>2. slot \in DOMAIN tasks /\ tasks[slot].doc = e
    BY <1>0, <1>1, <2>1
  <2>3. /\ r.phase = "submitting" /\ tasks[slot].run = r.run
        /\ ~tasks[slot].orphan
    BY <1>0, <2>2 DEF DocInv, OwnSlot
  <2> QED
    BY <1>1, <2>1, <2>2, <2>3 DEF Grows
<1>6. OthersGone(e, r)'
  BY <1>0, <1>2 DEF DocInv, OthersGone, IsOf, Gone, Grows, Elsewhere
<1>7. ToldTrue(r)'
  BY EndedStays DEF DocInv, ToldTrue
<1>8. AckedTold(e, r)'
  BY <1>2, EndedStays DEF DocInv, AckedTold, IsOf, Elsewhere, TaskInv
<1>9. ReplyTrue(r, q)'
  <2>1. q # NoReply => IsOf(r.task, e, r.run)
    BY DEF DocInv, ReplyTrue, OwnTask, HasTask
  <2> QED
    BY <2>1, EndedStays
    DEF DocInv, ReplyTrue, IsOf, Grows, NoReply, W!TaskStatus
<1>10. Learned(r)' /\ Honest(e, r)'
  <2>1. r.phase \in {"fetching", "collecting"} => r.task \in DOMAIN tasks
    BY DEF DocInv, OwnTask, HasTask, IsOf
  <2>2. r.verdict \notin {W!NoVerdict, "SubmitRejected"} =>
          r.task \in DOMAIN tasks
    BY DEF DocInv, Honest, OwnTask, HasTask, IsOf
  <2>3. Learned(r)'
    BY <2>1, EndedStays DEF DocInv, Learned, Grows
  <2>4. Honest(e, r)'
    BY <2>2, EndedStays
    DEF DocInv, Honest, Grows, Elsewhere, Ended, Endings, W!NoVerdict
  <2> QED
    BY <2>3, <2>4
<1> QED
  BY <1>3, <1>4, <1>5, <1>6, <1>7, <1>8, <1>9, <1>10 DEF DocInv

-----------------------------------------------------------------------------
\* One workflow moves, with its status check, and nothing else does.
LEMMA RunMoves ==
  ASSUME Inv, WP!IInv', NEW d \in Docs, NEW r,
         NEW q \in Replies \cup {NoReply},
         wf' = [wf EXCEPT ![d] = r], reply' = [reply EXCEPT ![d] = q],
         UNCHANGED <<tasks, slot, json, abandoned>>, DocInv(d, r, q)
  PROVE  Inv'
<1>0. tasks' = tasks /\ slot' = slot /\ json' = json /\ abandoned' = abandoned
  OBVIOUS
<1>1. Types'
  BY <1>0 DEF Inv, Types
<1>2. \A t \in DOMAIN tasks' : TaskInv(t)'
  BY <1>0 DEF Inv, TaskInv, Ended
<1>3. NoNeedlessConversion'
  BY <1>0 DEF Inv, NoNeedlessConversion
<1>4. ASSUME NEW e \in Docs PROVE DocInv(e, wf[e], reply[e])'
  <2>1. /\ wf'[e] = IF e = d THEN r ELSE wf[e]
        /\ reply'[e] = IF e = d THEN q ELSE reply[e]
    BY WorkflowFields DEF Inv, Types
  <2>2. PICK r0, q0 : r0 = wf'[e] /\ q0 = reply'[e]
    OBVIOUS
  <2>3. DocInv(e, r0, q0)
    BY <2>1, <2>2 DEF Inv
  <2>4. DocInv(e, r0, q0)'
    BY <1>0, <2>3
    DEF DocInv, RunsCounted, OwnTask, OwnSlot, OthersGone, ToldTrue, AckedTold,
        ReplyTrue, Learned, Honest, HasTask, IsOf, Gone, Ended, Status
  <2> QED
    BY <2>2, <2>4
<1> QED
  BY <1>1, <1>2, <1>3, <1>4 DEF Inv

\* A workflow moves to another await of the same run, with the same task.
LEMMA PhaseMoves ==
  ASSUME Inv, NEW d \in Docs, NEW r, NEW q,
         r.run = wf[d].run, r.task = wf[d].task, r.verdict = wf[d].verdict,
         r.completed = wf[d].completed,
         wf[d].phase \in {"waiting", "checking", "fetching", "collecting"},
         r.phase \in {"waiting", "checking", "fetching", "collecting"},
         ReplyTrue(r, q), Learned(r)
  PROVE  DocInv(d, r, q)
<1>1. DocInv(d, wf[d], reply[d]) /\ wf[d].verdict = W!NoVerdict
  BY WorkflowFields DEF Inv
<1>2. RunsCounted(d, r) /\ OwnTask(d, r)
  BY <1>1 DEF DocInv, RunsCounted, OwnTask, HasTask
<1>3. OwnSlot(d, r) /\ OthersGone(d, r)
  BY <1>1 DEF DocInv, OwnSlot, OthersGone
<1>4. ToldTrue(r) /\ AckedTold(d, r)
  BY <1>1 DEF DocInv, ToldTrue, AckedTold, W!OpenPhases
<1>5. Honest(d, r)
  BY <1>1 DEF Honest, W!NoVerdict
<1> QED
  BY <1>2, <1>3, <1>4, <1>5 DEF DocInv

\* A run closes with a verdict that says the truth of its task.
LEMMA Closes ==
  ASSUME Inv, NEW d \in Docs, NEW v \in W!Verdicts, W!Close(d, v), W!Open(d),
         v # "SubmitRejected" =>
           wf[d].phase \in {"waiting", "checking", "fetching", "collecting"},
         slot = NoTask \/ wf[d].phase # "submitting",
         NEW t, t = wf[d].task,
         v = "Completed" => /\ Ended(t) /\ Status(t) = "success"
                            /\ tasks[t].state = "empty" => ~tasks[t].known
                            /\ json[d] # NoTask,
         v = "ConversionFailed" => tasks[t].state \in {"failed", "empty"},
         v = "MissingOutputs" => tasks[t].state \in {"unexported", "empty"},
         v = "TaskLost" => ~tasks[t].known
  PROVE  \E r : wf' = [wf EXCEPT ![d] = r] /\ DocInv(d, r, NoReply)
<1>1. PICK r : r = [wf[d] EXCEPT !.phase = "closed", !.verdict = v]
  OBVIOUS
<1>2. wf[d] \in WP!WorkflowState
  BY DEF Inv, WP!IInv
<1>3. /\ r.phase = "closed" /\ r.verdict = v /\ r.run = wf[d].run
      /\ r.task = t /\ r.completed = wf[d].completed
  BY <1>1, <1>2 DEF WP!WorkflowState
<1>4. DocInv(d, wf[d], reply[d]) /\ wf[d].phase \in W!OpenPhases
  BY DEF Inv, W!Open
<1>5. RunsCounted(d, r)
  BY <1>3, <1>4 DEF DocInv, RunsCounted, W!OpenPhases
<1>6. OwnTask(d, r)
  BY <1>3, <1>4 DEF DocInv, OwnTask, HasTask
<1>7. OwnSlot(d, r) /\ OthersGone(d, r)
  BY <1>3, <1>4 DEF DocInv, OwnSlot, OthersGone
<1>8. ToldTrue(r) /\ AckedTold(d, r)
  BY <1>3, <1>4 DEF DocInv, ToldTrue, AckedTold, W!OpenPhases
<1>9. ReplyTrue(r, NoReply) /\ Learned(r)
  BY <1>3 DEF ReplyTrue, Learned, NoReply, W!TaskStatus
<1>10. Honest(d, r)
  BY <1>3 DEF Honest
<1>11. wf' = [wf EXCEPT ![d] = r]
  BY <1>1 DEF W!Close
<1> QED
  BY <1>5, <1>6, <1>7, <1>8, <1>9, <1>10, <1>11 DEF DocInv

\* A run that learned how its task ended closes, or goes on to the outcome.
LEMMA Learns ==
  ASSUME Inv, NEW d \in Docs, NEW status \in W!TaskStatus,
         W!Terminal(d, status), wf[d].phase \in {"waiting", "checking"},
         NEW t, t = wf[d].task, Ended(t), Status(t) = status
  PROVE  \E r : wf' = [wf EXCEPT ![d] = r] /\ DocInv(d, r, NoReply)
<1>1. CASE status = "failure"
  <2>1. tasks[t].state = "failed"
    BY <1>1 DEF Status
  <2>2. W!Close(d, "ConversionFailed")
    BY <1>1 DEF W!Terminal
  <2> QED
    BY <2>1, <2>2, Closes DEF W!Open, W!OpenPhases, W!Verdicts
<1>2. CASE status # "failure"
  <2>1. PICK r : r = [wf[d] EXCEPT !.phase = "fetching"]
    OBVIOUS
  <2>2. wf[d] \in WP!WorkflowState
    BY DEF Inv, WP!IInv
  <2>3. /\ r.phase = "fetching" /\ r.verdict = wf[d].verdict
        /\ r.run = wf[d].run /\ r.task = t /\ r.completed = wf[d].completed
    BY <2>1, <2>2 DEF WP!WorkflowState
  <2>4. ReplyTrue(r, NoReply) /\ Learned(r)
    BY <1>2, <2>3 DEF ReplyTrue, Learned, NoReply, W!TaskStatus
  <2>5. wf' = [wf EXCEPT ![d] = r]
    BY <1>2, <2>1 DEF W!Terminal
  <2> QED
    BY <2>3, <2>4, <2>5, PhaseMoves
<1> QED
  BY <1>1, <1>2

\* A run that learned nothing closes, its budget spent, or sleeps again.
LEMMA LearnsNothing ==
  ASSUME Inv, NEW d \in Docs, W!StillInProgress(d), wf[d].phase = "checking"
  PROVE  \E r : wf' = [wf EXCEPT ![d] = r] /\ DocInv(d, r, NoReply)
<1>1. CASE wf[d].polls >= MaxSafetyPolls
  <2>1. W!Close(d, "PollBudgetExhausted")
    BY <1>1 DEF W!StillInProgress
  <2> QED
    BY <2>1, Closes DEF W!Open, W!OpenPhases, W!Verdicts
<1>2. CASE ~(wf[d].polls >= MaxSafetyPolls)
  <2>1. PICK r : r = [wf[d] EXCEPT !.phase = "waiting"]
    OBVIOUS
  <2>2. wf[d] \in WP!WorkflowState
    BY DEF Inv, WP!IInv
  <2>3. /\ r.phase = "waiting" /\ r.verdict = wf[d].verdict
        /\ r.run = wf[d].run /\ r.task = wf[d].task
        /\ r.completed = wf[d].completed
    BY <2>1, <2>2 DEF WP!WorkflowState
  <2>4. ReplyTrue(r, NoReply) /\ Learned(r)
    BY <2>3 DEF ReplyTrue, Learned, NoReply, W!TaskStatus
  <2>5. wf' = [wf EXCEPT ![d] = r]
    BY <1>2, <2>1 DEF W!StillInProgress
  <2> QED
    BY <2>3, <2>4, <2>5, PhaseMoves
<1> QED
  BY <1>1, <1>2

\* A move that leaves no answer to a status check on its way.
LEMMA RunMovesUnasked ==
  ASSUME Inv, NEW d \in Docs, W!Step(d),
         \E r : wf' = [wf EXCEPT ![d] = r] /\ DocInv(d, r, NoReply),
         UNCHANGED <<tasks, slot, json, abandoned>>,
         \/ reply' = [reply EXCEPT ![d] = NoReply]
         \/ reply' = reply /\ wf[d].phase # "checking"
  PROVE  Inv'
<1>1. reply' = [reply EXCEPT ![d] = NoReply]
  <2>1. wf[d].phase # "checking" => reply[d] = NoReply
    BY DEF Inv, DocInv, ReplyTrue
  <2>2. reply = [e \in Docs |-> reply[e]]
    BY DEF Inv, Types
  <2> QED
    BY <2>1, <2>2
<1>2. WP!IInv'
  BY WorkflowKeeps DEF Inv
<1> QED
  BY <1>1, <1>2, RunMoves

\* The actions of one workflow, its surroundings staying as they are.
LEMMA StartKeeps ==
  ASSUME Inv, NEW d \in Docs, Start(d)
  PROVE  Inv'
<1>1. PICK r : r = W!FreshRun(wf[d].run + 1, "submitting", 1)
  OBVIOUS
<1>2. /\ r.phase = "submitting" /\ r.run = wf[d].run + 1
      /\ r.verdict = W!NoVerdict /\ r.task = NoTask
      /\ r.completed = [t \in Tasks |-> W!NoStatus]
  BY <1>1 DEF W!FreshRun
<1>3. /\ DocInv(d, wf[d], reply[d]) /\ wf[d].run \in Nat
      /\ wf[d].phase \notin W!OpenPhases
  BY WorkflowFields, MaxRunsAssumption DEF Inv, Start, W!Start, W!Open
<1>4. \A t \in DOMAIN tasks : tasks[t].doc = d => tasks[t].run < r.run
  BY <1>2, <1>3, TaskTypes, MaxRunsAssumption
  DEF Inv, DocInv, RunsCounted, TaskRecord
<1>5. RunsCounted(d, r)
  BY <1>2, <1>3, <1>4, TaskTypes, MaxRunsAssumption
  DEF RunsCounted, TaskRecord, Inv
<1>6. OwnTask(d, r)
  BY <1>2 DEF OwnTask, HasTask
<1>7. slot = NoTask \/ tasks[slot].doc # d
  BY <1>3 DEF DocInv, OwnSlot, W!OpenPhases
<1>8. OwnSlot(d, r)
  BY <1>7 DEF OwnSlot
<1>9. \A t \in DOMAIN tasks : ~IsOf(t, d, r.run)
  <2>1. r.run \in Nat /\ \A t \in DOMAIN tasks : tasks[t].run \in Nat
    BY <1>2, <1>3, TaskTypes, MaxRunsAssumption DEF Inv, TaskRecord
  <2> QED
    BY <1>4, <2>1 DEF IsOf
<1>10. OthersGone(d, r) /\ AckedTold(d, r) /\ ToldTrue(r)
  BY <1>2, <1>9 DEF OthersGone, AckedTold, ToldTrue
<1>11. ReplyTrue(r, NoReply) /\ Learned(r) /\ Honest(d, r)
  BY <1>2 DEF ReplyTrue, Learned, Honest, NoReply, W!TaskStatus, W!NoVerdict
<1>12. DocInv(d, r, NoReply)
  BY <1>5, <1>6, <1>8, <1>10, <1>11 DEF DocInv
<1>13. wf' = [wf EXCEPT ![d] = r] /\ W!Step(d)
  BY <1>1 DEF Start, W!Start, W!Step, W!Progress
<1>14. wf[d].phase # "checking"
  BY <1>3 DEF W!OpenPhases
<1> QED
  BY <1>12, <1>13, <1>14, RunMovesUnasked DEF Start

LEMMA SubmitRejectedKeeps ==
  ASSUME Inv, NEW d \in Docs, SubmitRejected(d)
  PROVE  Inv'
<1>1. W!Close(d, "SubmitRejected") /\ W!Open(d) /\ wf[d].phase = "submitting"
  BY DEF SubmitRejected, W!SubmitRejected, W!Open, W!OpenPhases
<1>2. \E r : wf' = [wf EXCEPT ![d] = r] /\ DocInv(d, r, NoReply)
  BY <1>1, Closes DEF SubmitRejected, W!Verdicts
<1>3. W!Step(d)
  BY DEF SubmitRejected, W!Step, W!Progress
<1> QED
  BY <1>1, <1>2, <1>3, RunMovesUnasked DEF SubmitRejected

LEMMA WakeKeeps ==
  ASSUME Inv, NEW d \in Docs, Wake(d)
  PROVE  Inv'
<1>1. PICK t : t = wf[d].task
  OBVIOUS
<1>2. PICK status : status = wf[d].completed[t]
  OBVIOUS
<1>3. /\ wf[d].phase = "waiting" /\ W!Terminal(d, status)
      /\ t \in Tasks /\ status # W!NoStatus
  BY <1>1, <1>2 DEF Wake, W!Wake, W!Told
<1>4. status \in W!TaskStatus
  BY <1>2, <1>3, WorkflowFields DEF Inv
<1>5. Ended(t) /\ Status(t) = status
  BY <1>2, <1>3 DEF Inv, DocInv, ToldTrue
<1>6. \E r : wf' = [wf EXCEPT ![d] = r] /\ DocInv(d, r, NoReply)
  BY <1>1, <1>3, <1>4, <1>5, Learns
<1>7. W!Step(d)
  BY DEF Wake, W!Step, W!Progress
<1> QED
  BY <1>3, <1>6, <1>7, RunMovesUnasked DEF Wake

LEMMA TimerFiresKeeps ==
  ASSUME Inv, NEW d \in Docs, TimerFires(d)
  PROVE  Inv'
<1>1. PICK r : r = [wf[d] EXCEPT !.phase = "checking", !.polls = @ + 1,
                                 !.safetyPolls = @ + 1, !.attempt = 1]
  OBVIOUS
<1>2. wf[d] \in WP!WorkflowState /\ wf[d].phase = "waiting"
  BY DEF Inv, WP!IInv, TimerFires, W!TimerFires
<1>3. /\ r.phase = "checking" /\ r.verdict = wf[d].verdict
      /\ r.run = wf[d].run /\ r.task = wf[d].task
      /\ r.completed = wf[d].completed
  BY <1>1, <1>2 DEF WP!WorkflowState
<1>4. ReplyTrue(r, NoReply) /\ Learned(r)
  BY <1>3 DEF ReplyTrue, Learned, NoReply, W!TaskStatus
<1>5. DocInv(d, r, NoReply)
  BY <1>2, <1>3, <1>4, PhaseMoves
<1>6. wf' = [wf EXCEPT ![d] = r] /\ W!Step(d)
  BY <1>1 DEF TimerFires, W!TimerFires, W!Step, W!Progress
<1> QED
  BY <1>2, <1>5, <1>6, RunMovesUnasked DEF TimerFires

LEMMA CheckReadsKeeps ==
  ASSUME Inv, NEW d \in Docs, CheckReads(d)
  PROVE  Inv'
<1>1. PICK r, q : /\ r = wf[d]
                  /\ q = IF ~tasks[r.task].known THEN "lost"
                         ELSE IF Ended(r.task) THEN Status(r.task)
                         ELSE "progress"
  OBVIOUS
<1>2. /\ r.phase = "checking" /\ reply' = [reply EXCEPT ![d] = q]
      /\ UNCHANGED <<wf, tasks, slot, json, abandoned>>
  BY <1>1 DEF CheckReads
<1>3. /\ q \in Replies \cup {NoReply}
      /\ q = "lost" => ~tasks[r.task].known
      /\ q \in W!TaskStatus => Ended(r.task) /\ Status(r.task) = q
  BY <1>1 DEF Replies, Status, W!TaskStatus
<1>4. ReplyTrue(r, q) /\ Learned(r)
  BY <1>2, <1>3 DEF ReplyTrue, Learned
<1>5. DocInv(d, r, q)
  BY <1>1, <1>2, <1>4, PhaseMoves
<1>6. wf' = [wf EXCEPT ![d] = r]
  BY <1>1, <1>2, WorkflowFields DEF Inv
<1>7. WP!IInv'
  BY <1>2 DEF Inv, WP!IInv, WP!RunInv, WP!Spent
<1> QED
  BY <1>2, <1>3, <1>5, <1>6, <1>7, RunMoves

\* A lost task is given up: another submission, or none left.
LEMMA LosesTask ==
  ASSUME Inv, NEW d \in Docs, W!CheckLost(d), ~tasks[wf[d].task].known
  PROVE  \E r : wf' = [wf EXCEPT ![d] = r] /\ DocInv(d, r, NoReply)
<1>1. CASE wf[d].submissions >= MaxSubmissions
  <2>1. W!Close(d, "TaskLost") /\ wf[d].phase = "checking"
    BY <1>1 DEF W!CheckLost
  <2> QED
    BY <2>1, Closes DEF W!Open, W!OpenPhases, W!Verdicts
<1>2. CASE ~(wf[d].submissions >= MaxSubmissions)
  <2>1. PICK r : r = [wf[d] EXCEPT !.phase = "submitting", !.submissions = @ + 1]
    OBVIOUS
  <2>2. wf[d] \in WP!WorkflowState /\ wf[d].phase = "checking"
    BY DEF Inv, WP!IInv, W!CheckLost
  <2>3. /\ r.phase = "submitting" /\ r.verdict = wf[d].verdict
        /\ r.run = wf[d].run /\ r.completed = wf[d].completed
    BY <2>1, <2>2 DEF WP!WorkflowState
  <2>4. DocInv(d, wf[d], reply[d]) /\ wf[d].verdict = W!NoVerdict
    BY <2>2, WorkflowFields DEF Inv
  <2>5. RunsCounted(d, r) /\ OwnTask(d, r)
    BY <2>2, <2>3, <2>4 DEF DocInv, RunsCounted, OwnTask, HasTask
  <2>6. OwnSlot(d, r) /\ OthersGone(d, r)
    BY <2>2, <2>3, <2>4 DEF DocInv, OwnSlot, OthersGone, Gone
  <2>7. ToldTrue(r) /\ AckedTold(d, r)
    BY <2>2, <2>3, <2>4 DEF DocInv, ToldTrue, AckedTold, W!OpenPhases
  <2>8. ReplyTrue(r, NoReply) /\ Learned(r) /\ Honest(d, r)
    BY <2>3, <2>4
    DEF ReplyTrue, Learned, Honest, NoReply, W!TaskStatus, W!NoVerdict
  <2>9. wf' = [wf EXCEPT ![d] = r]
    BY <1>2, <2>1 DEF W!CheckLost
  <2> QED
    BY <2>5, <2>6, <2>7, <2>8, <2>9 DEF DocInv
<1> QED
  BY <1>1, <1>2

LEMMA CheckAnswersKeeps ==
  ASSUME Inv, NEW d \in Docs, CheckAnswers(d)
  PROVE  Inv'
<1>1. PICK q, t : q = reply[d] /\ t = wf[d].task
  OBVIOUS
<1>2. ReplyTrue(wf[d], q)
  BY <1>1 DEF Inv, DocInv
<1>3. CASE q \in W!TaskStatus /\ W!CheckTerminal(d, q)
  <2>1. W!Terminal(d, q) /\ wf[d].phase = "checking" /\ W!Step(d)
    BY <1>3 DEF W!CheckTerminal, W!Step, W!Progress
  <2>2. Ended(t) /\ Status(t) = q
    BY <1>1, <1>2, <1>3 DEF ReplyTrue
  <2>3. \E r : wf' = [wf EXCEPT ![d] = r] /\ DocInv(d, r, NoReply)
    BY <1>1, <1>3, <2>1, <2>2, Learns
  <2> QED
    BY <2>1, <2>3, RunMovesUnasked DEF CheckAnswers
<1>4. CASE q = "progress" /\ W!CheckInProgress(d)
  BY <1>4, LearnsNothing, RunMovesUnasked
  DEF CheckAnswers, W!CheckInProgress, W!Step, W!Progress
<1>5. CASE q = "lost" /\ W!CheckLost(d)
  BY <1>2, <1>5, LosesTask, RunMovesUnasked DEF CheckAnswers, ReplyTrue, W!Step, W!Progress
<1> QED
  BY <1>1, <1>3, <1>4, <1>5 DEF CheckAnswers

LEMMA CheckUnansweredKeeps ==
  ASSUME Inv, NEW d \in Docs, CheckUnanswered(d)
  PROVE  Inv'
<1>1. CASE W!CheckRejected(d)
  BY <1>1, LearnsNothing, RunMovesUnasked
  DEF CheckUnanswered, W!CheckRejected, W!Step, W!Progress
<1>2. CASE W!CheckUnanswered(d)
  <2>1. W!Step(d) /\ wf[d].phase = "checking"
    BY <1>2 DEF W!Step, W!Progress, W!CheckUnanswered
  <2>2. CASE ~(wf[d].attempt < CheckAttempts)
    BY <1>2, <2>1, <2>2, LearnsNothing, RunMovesUnasked
    DEF CheckUnanswered, W!CheckUnanswered
  <2>3. CASE wf[d].attempt < CheckAttempts
    <3>1. PICK r : r = [wf[d] EXCEPT !.attempt = @ + 1]
      OBVIOUS
    <3>2. wf[d] \in WP!WorkflowState
      BY DEF Inv, WP!IInv
    <3>3. /\ r.phase = "checking" /\ r.verdict = wf[d].verdict
          /\ r.run = wf[d].run /\ r.task = wf[d].task
          /\ r.completed = wf[d].completed
      BY <2>1, <3>1, <3>2 DEF WP!WorkflowState
    <3>4. ReplyTrue(r, NoReply) /\ Learned(r)
      BY <3>3 DEF ReplyTrue, Learned, NoReply, W!TaskStatus
    <3>5. DocInv(d, r, NoReply)
      BY <2>1, <3>3, <3>4, PhaseMoves
    <3>6. wf' = [wf EXCEPT ![d] = r]
      BY <1>2, <2>3, <3>1 DEF W!CheckUnanswered
    <3> QED
      BY <2>1, <3>5, <3>6, RunMovesUnasked DEF CheckUnanswered
  <2> QED
    BY <2>2, <2>3
<1> QED
  BY <1>1, <1>2 DEF CheckUnanswered

LEMMA FetchOutcomeKeeps ==
  ASSUME Inv, NEW d \in Docs, FetchOutcome(d)
  PROVE  Inv'
<1>1. PICK t, o : /\ t = wf[d].task
                  /\ o = IF ~tasks[t].known THEN "expired"
                         ELSE IF tasks[t].state = "empty" THEN "nothing"
                         ELSE "produced"
  OBVIOUS
<1>2. /\ W!FetchOutcome(d, o) /\ wf[d].phase = "fetching"
      /\ o \in W!Outcomes
  BY <1>1 DEF FetchOutcome, W!FetchOutcome, W!Outcomes
<1>3. W!Step(d)
  BY <1>2 DEF W!Step, W!Progress
<1>4. \E r : wf' = [wf EXCEPT ![d] = r] /\ DocInv(d, r, NoReply)
  <2>1. CASE o = "nothing"
    <3>1. tasks[t].state = "empty"
      BY <1>1, <2>1
    <3>2. W!Close(d, "ConversionFailed")
      BY <1>2, <2>1 DEF W!FetchOutcome
    <3> QED
      BY <1>1, <1>2, <3>1, <3>2, Closes DEF W!Open, W!OpenPhases, W!Verdicts
  <2>2. CASE o # "nothing"
    <3>1. PICK r : r = [wf[d] EXCEPT !.phase = "collecting"]
      OBVIOUS
    <3>2. wf[d] \in WP!WorkflowState
      BY DEF Inv, WP!IInv
    <3>3. /\ r.phase = "collecting" /\ r.verdict = wf[d].verdict
          /\ r.run = wf[d].run /\ r.task = t
          /\ r.completed = wf[d].completed
      BY <1>1, <3>1, <3>2 DEF WP!WorkflowState
    <3>4. Ended(t) /\ Status(t) = "success"
      BY <1>1, <1>2 DEF Inv, DocInv, Learned
    <3>5. ReplyTrue(r, NoReply) /\ Learned(r)
      BY <1>1, <2>2, <3>3, <3>4
      DEF ReplyTrue, Learned, NoReply, W!TaskStatus
    <3>6. wf' = [wf EXCEPT ![d] = r]
      BY <1>2, <2>2, <3>1 DEF W!FetchOutcome
    <3> QED
      BY <1>1, <1>2, <3>3, <3>5, <3>6, PhaseMoves
  <2> QED
    BY <2>1, <2>2
<1> QED
  BY <1>2, <1>3, <1>4, RunMovesUnasked DEF FetchOutcome

LEMMA FetchRejectedKeeps ==
  ASSUME Inv, NEW d \in Docs, FetchRejected(d)
  PROVE  Inv'
<1>1. W!Close(d, "SubmitRejected") /\ wf[d].phase = "fetching" /\ W!Step(d)
  BY DEF FetchRejected, W!FetchRejected, W!Step, W!Progress
<1>2. \E r : wf' = [wf EXCEPT ![d] = r] /\ DocInv(d, r, NoReply)
  BY <1>1, Closes DEF W!Open, W!OpenPhases, W!Verdicts
<1> QED
  BY <1>1, <1>2, RunMovesUnasked DEF FetchRejected

LEMMA CollectOutputsKeeps ==
  ASSUME Inv, NEW d \in Docs, CollectOutputs(d)
  PROVE  Inv'
<1>1. PICK t : t = wf[d].task
  OBVIOUS
<1>2. /\ wf[d].phase = "collecting" /\ W!Step(d)
      /\ W!Close(d, IF json[d] # NoTask THEN "Completed" ELSE "MissingOutputs")
  BY DEF CollectOutputs, W!CollectOutputs, W!Step, W!Progress
<1>3. /\ t \in DOMAIN tasks /\ tasks[t].doc = d
      /\ Ended(t) /\ Status(t) = "success"
      /\ tasks[t].state = "empty" => ~tasks[t].known
  BY <1>1, <1>2 DEF Inv, DocInv, Learned, OwnTask, HasTask, IsOf
<1>4. \E r : wf' = [wf EXCEPT ![d] = r] /\ DocInv(d, r, NoReply)
  <2>1. CASE json[d] # NoTask
    <3>1. W!Close(d, "Completed")
      BY <1>2, <2>1
    <3> QED
      BY <1>1, <1>2, <1>3, <2>1, <3>1, Closes
      DEF W!Open, W!OpenPhases, W!Verdicts
  <2>2. CASE json[d] = NoTask
    <3>1. W!Close(d, "MissingOutputs")
      BY <1>2, <2>2
    <3>2. tasks[t].state # "converted" /\ tasks[t].state # "failed"
      BY <1>3, <2>2 DEF Inv, TaskInv, Status
    <3>3. tasks[t].state \in {"unexported", "empty"}
      BY <1>3, <3>2 DEF Ended, Endings
    <3> QED
      BY <1>1, <1>2, <3>1, <3>3, Closes DEF W!Open, W!OpenPhases, W!Verdicts
  <2> QED
    BY <2>1, <2>2
<1> QED
  BY <1>2, <1>4, RunMovesUnasked DEF CollectOutputs

-----------------------------------------------------------------------------
\* The tasks grow, and the workflow of d moves at most.
LEMMA OthersStay ==
  ASSUME Inv, WP!IInv', Types', \A t \in DOMAIN tasks' : TaskInv(t)',
         NoNeedlessConversion', Grows, NEW d \in Docs, NEW r,
         NEW q, q = reply[d], wf' = [wf EXCEPT ![d] = r], reply' = reply,
         DocInv(d, r, q)',
         \A e \in Docs \ {d} : \A s : s = wf[e] => Elsewhere(e, s)
  PROVE  Inv'
<1>1. ASSUME NEW e \in Docs PROVE DocInv(e, wf[e], reply[e])'
  <2>1. /\ wf'[e] = IF e = d THEN r ELSE wf[e]
        /\ reply'[e] = reply[e]
    BY WorkflowFields DEF Inv
  <2>2. PICK r0, q0 : r0 = wf'[e] /\ q0 = reply'[e]
    OBVIOUS
  <2>3. CASE e = d
    <3>1. r0 = r /\ q0 = q
      BY <2>1, <2>2, <2>3
    <3>2. DocInv(e, r0, q0)'
      BY <2>3, <3>1
    <3> QED
      BY <2>2, <3>2
  <2>4. CASE e # d
    <3>1. r0 = wf[e] /\ q0 = reply[e]
      BY <2>1, <2>2, <2>4
    <3>2. DocInv(e, r0, q0)
      BY <3>1 DEF Inv
    <3>3. Elsewhere(e, r0)
      BY <2>4, <3>1
    <3>4. DocInv(e, r0, q0)'
      BY <3>2, <3>3, DocStays DEF Inv
    <3> QED
      BY <2>2, <3>4
  <2> QED
    BY <2>3, <2>4
<1> QED
  BY <1>1 DEF Inv

\* One task changes, and nothing is added.
LEMMA OneTaskChanges ==
  ASSUME Types, NEW t \in DOMAIN tasks, NEW u \in TaskRecord,
         tasks' = [tasks EXCEPT ![t] = u]
  PROVE  /\ tasks' \in Seq(TaskRecord) /\ Len(tasks') = Len(tasks)
         /\ DOMAIN tasks' = DOMAIN tasks
         /\ \A s \in DOMAIN tasks :
              tasks'[s] = IF s = t THEN u ELSE tasks[s]
<1>1. t \in 1 .. Len(tasks) /\ tasks \in Seq(TaskRecord)
  BY TaskTypes DEF Types
<1>2. /\ [tasks EXCEPT ![t] = u] \in Seq(TaskRecord)
      /\ Len([tasks EXCEPT ![t] = u]) = Len(tasks)
  BY <1>1, ExceptSeq
<1> QED
  BY <1>1, <1>2

\* A task that changes alone: it keeps whose it is, an ending and what was
\* forgotten of it; nothing is acknowledged, no slot given away.
LEMMA OneTaskGrows ==
  ASSUME Inv, NEW t \in DOMAIN tasks, NEW u \in TaskRecord,
         tasks' = [tasks EXCEPT ![t] = u], Types',
         u.doc = tasks[t].doc, u.run = tasks[t].run,
         Ended(t) => u.state = tasks[t].state,
         ~tasks[t].known => ~u.known,
         tasks[t].orphan => u.orphan,
         u.orphan /\ ~tasks[t].orphan => t = slot /\ slot' = NoTask,
         u.acked => tasks[t].acked,
         u.callbacks > 0 \/ u.acked => u.state \in Endings,
         u.state = "converted" => json'[u.doc] # NoTask,
         \A e \in Docs : json[e] # NoTask => json'[e] # NoTask,
         slot' = slot \/ (slot = t /\ slot' = NoTask /\ u.orphan),
         UNCHANGED <<wf, reply>>
  PROVE  Inv'
<1>1. /\ DOMAIN tasks' = DOMAIN tasks
      /\ \A s \in DOMAIN tasks : tasks'[s] = IF s = t THEN u ELSE tasks[s]
      /\ \A s \in DOMAIN tasks : tasks[s] \in TaskRecord
  BY OneTaskChanges, TaskTypes DEF Inv
<1>2. Grows
  BY <1>1 DEF Grows
<1>3. ASSUME NEW e \in Docs, NEW r PROVE Elsewhere(e, r)
  <2>1. slot' = slot \/ (slot' = NoTask /\ tasks'[slot].orphan)
    BY <1>1
  <2> QED
    BY <1>1, <2>1 DEF Elsewhere, IsOf
<1>4. \A s \in DOMAIN tasks' : TaskInv(s)'
  <2> SUFFICES ASSUME NEW s \in DOMAIN tasks PROVE TaskInv(s)'
    BY <1>1
  <2>1. TaskInv(s) /\ tasks[s].doc \in Docs
    BY <1>1 DEF Inv, TaskRecord
  <2> QED
    BY <1>1, <2>1 DEF TaskInv, Ended
<1>5. NoNeedlessConversion'
  BY <1>1 DEF Inv, NoNeedlessConversion
<1>6. PICK d, r, q : /\ d \in Docs /\ d = tasks[t].doc
                     /\ r = wf[d] /\ q = reply[d]
  BY <1>1 DEF TaskRecord
<1>7. wf' = [wf EXCEPT ![d] = r] /\ reply' = reply
  BY <1>6, WorkflowFields DEF Inv
<1>8. DocInv(d, r, q) /\ Types
  BY <1>6 DEF Inv
<1>9. DocInv(d, r, q)'
  BY <1>2, <1>3, <1>6, <1>8, DocStays DEF Inv
<1>10. WP!IInv'
  BY DEF Inv, WP!IInv, WP!RunInv, WP!Spent
<1> QED
  BY <1>2, <1>3, <1>4, <1>5, <1>6, <1>7, <1>9, <1>10, OthersStay

LEMMA SubmitAbandonedKeeps ==
  ASSUME Inv, SubmitAbandoned
  PROVE  Inv'
<1>1. slot \in DOMAIN tasks /\ tasks[slot] \in TaskRecord
  BY TaskTypes DEF Inv, Types, SubmitAbandoned
<1>2. PICK t, u : t = slot /\ u = [tasks[t] EXCEPT !.orphan = TRUE]
  OBVIOUS
<1>3. u \in TaskRecord
  BY <1>1, <1>2 DEF TaskRecord
<1>4. /\ u.doc = tasks[t].doc /\ u.run = tasks[t].run /\ u.orphan
      /\ u.state = tasks[t].state /\ u.known = tasks[t].known
      /\ u.acked = tasks[t].acked /\ u.callbacks = tasks[t].callbacks
  BY <1>1, <1>2 DEF TaskRecord
<1>5. /\ tasks' = [tasks EXCEPT ![t] = u] /\ slot' = NoTask
      /\ abandoned' \in 0 .. MaxAbandoned
      /\ UNCHANGED <<wf, reply, json>>
  BY <1>2, BoundsAssumption DEF SubmitAbandoned, Inv, Types
<1>6. Types'
  BY <1>1, <1>2, <1>3, <1>5, OneTaskChanges DEF Inv, Types
<1>7. TaskInv(t)
  BY <1>1, <1>2 DEF Inv
<1> QED
  BY <1>1, <1>2, <1>3, <1>4, <1>5, <1>6, <1>7, OneTaskGrows
  DEF TaskInv, Ended

LEMMA TaskEndsKeeps ==
  ASSUME Inv, NEW t \in DOMAIN tasks, NEW ending \in Endings,
         TaskEnds(t, ending)
  PROVE  Inv'
<1>1. tasks[t] \in TaskRecord /\ tasks[t].state = "queued"
  BY TaskTypes DEF Inv, TaskEnds
<1>2. PICK u : u = [tasks[t] EXCEPT !.state = ending,
                                    !.callbacks = CallbackAttempts]
  OBVIOUS
<1>3. u \in TaskRecord
  <2>1. CallbackAttempts \in 0 .. CallbackAttempts
    BY CallbackAttemptsAssumption
  <2> QED
    BY <1>1, <1>2, <2>1 DEF TaskRecord
<1>4. /\ u.doc = tasks[t].doc /\ u.run = tasks[t].run
      /\ u.orphan = tasks[t].orphan /\ u.state = ending
      /\ u.known = tasks[t].known /\ u.acked = tasks[t].acked
      /\ u.doc \in Docs
  BY <1>1, <1>2 DEF TaskRecord
<1>5. /\ tasks' = [tasks EXCEPT ![t] = u]
      /\ UNCHANGED <<wf, slot, reply, abandoned>>
  BY <1>2 DEF TaskEnds
<1>6. /\ json' \in [Docs -> {NoTask} \cup DOMAIN tasks]
      /\ \A e \in Docs : json[e] # NoTask => json'[e] # NoTask
      /\ ending = "converted" => json'[u.doc] # NoTask
  <2>1. t # NoTask /\ json \in [Docs -> {NoTask} \cup DOMAIN tasks]
    BY TaskTypes DEF Inv, Types
  <2> QED
    BY <1>4, <2>1 DEF TaskEnds
<1>7. Types'
  BY <1>3, <1>5, <1>6, OneTaskChanges DEF Inv, Types
<1>8. ~Ended(t)
  BY <1>1 DEF Ended, Endings
<1> QED
  BY <1>3, <1>4, <1>5, <1>6, <1>7, <1>8, OneTaskGrows

LEMMA TaskForgottenKeeps ==
  ASSUME Inv, NEW t \in DOMAIN tasks, TaskForgotten(t)
  PROVE  Inv'
<1>1. tasks[t] \in TaskRecord /\ TaskInv(t)
  BY TaskTypes DEF Inv
<1>2. PICK u : u = [tasks[t] EXCEPT !.known = FALSE]
  OBVIOUS
<1>3. u \in TaskRecord
  BY <1>1, <1>2 DEF TaskRecord
<1>4. /\ u.doc = tasks[t].doc /\ u.run = tasks[t].run /\ ~u.known
      /\ u.orphan = tasks[t].orphan /\ u.state = tasks[t].state
      /\ u.acked = tasks[t].acked /\ u.callbacks = tasks[t].callbacks
  BY <1>1, <1>2 DEF TaskRecord
<1>5. /\ tasks' = [tasks EXCEPT ![t] = u]
      /\ UNCHANGED <<wf, slot, reply, json, abandoned>>
  BY <1>2 DEF TaskForgotten
<1>6. Types'
  BY <1>3, <1>5, OneTaskChanges DEF Inv, Types
<1> QED
  BY <1>1, <1>3, <1>4, <1>5, <1>6, OneTaskGrows DEF TaskInv, Ended

LEMMA CallbackFailsKeeps ==
  ASSUME Inv, NEW t \in DOMAIN tasks, CallbackFails(t)
  PROVE  Inv'
<1>1. tasks[t] \in TaskRecord /\ TaskInv(t) /\ tasks[t].callbacks > 0
  BY TaskTypes DEF Inv, CallbackFails
<1>2. PICK u : u = [tasks[t] EXCEPT !.callbacks = @ - 1]
  OBVIOUS
<1>3. u \in TaskRecord
  BY <1>1, <1>2, CallbackAttemptsAssumption DEF TaskRecord
<1>4. /\ u.doc = tasks[t].doc /\ u.run = tasks[t].run
      /\ u.known = tasks[t].known /\ u.orphan = tasks[t].orphan
      /\ u.state = tasks[t].state /\ u.acked = tasks[t].acked
  BY <1>1, <1>2 DEF TaskRecord
<1>5. /\ tasks' = [tasks EXCEPT ![t] = u]
      /\ UNCHANGED <<wf, slot, reply, json, abandoned>>
  BY <1>2 DEF CallbackFails
<1>6. Types'
  BY <1>3, <1>5, OneTaskChanges DEF Inv, Types
<1> QED
  BY <1>1, <1>3, <1>4, <1>5, <1>6, OneTaskGrows DEF TaskInv, Ended

\* A callback that arrives: what it tells, it tells truly, and what is
\* acknowledged of an open run's task has been told.
LEMMA CallbackArrivesKeeps ==
  ASSUME Inv, NEW t \in DOMAIN tasks, NEW authentic \in BOOLEAN,
         NEW heard \in BOOLEAN, NEW outcome \in Relay!SignalOutcomes,
         CallbackArrives(t, authentic, outcome, heard)
  PROVE  Inv'
<1>1. /\ tasks[t] \in TaskRecord /\ TaskInv(t) /\ tasks[t].callbacks > 0
      /\ Ended(t) /\ t \in Tasks /\ t # NoTask
  BY TaskTypes DEF Inv, CallbackArrives, TaskInv
<1>2. PICK cb, st : cb = Completion(t, authentic) /\ st = Status(t)
  OBVIOUS
<1>3. /\ cb.authentic = authentic /\ cb.wellFormed = TRUE
      /\ cb.kind = "task_completed" /\ cb.task = t /\ cb.status = st
  BY <1>2 DEF Completion
<1>4. st \in W!TaskStatus
  BY <1>2 DEF Status, W!TaskStatus
<1>5. Relay!Verdict(cb)
  BY <1>1, <1>3, <1>4 DEF Relay!Verdict, Relay!Terminal, W!TaskStatus
<1>51. PICK acked : acked = (heard /\ Relay!Response(cb, outcome) = "ack")
  OBVIOUS
<1>52. acked \in BOOLEAN
  BY <1>51
<1>53. authentic => Relay!Relays(cb)
  BY <1>3, <1>5 DEF Relay!Relays, Relay!Answerable
<1>54. Relay!Relays(cb) => authentic
  BY <1>3 DEF Relay!Relays, Relay!Answerable
<1>55. acked => authentic /\ outcome # "unavailable"
  BY <1>3, <1>5, <1>51, <1>53
  DEF Relay!Response, Relay!Relays, Relay!Answerable
<1>6. PICK u : u = [tasks[t] EXCEPT !.callbacks = IF acked THEN 0 ELSE @ - 1,
                                    !.acked = acked]
  OBVIOUS
<1>7. u \in TaskRecord
  <2>1. PICK c : c = IF acked THEN 0 ELSE tasks[t].callbacks - 1
    OBVIOUS
  <2>2. c \in 0 .. CallbackAttempts
    BY <1>1, <2>1, CallbackAttemptsAssumption DEF TaskRecord
  <2>3. u = [tasks[t] EXCEPT !.callbacks = c, !.acked = acked]
    BY <1>1, <1>6, <2>1
  <2> QED
    BY <1>1, <1>52, <2>2, <2>3 DEF TaskRecord
<1>8. /\ u.doc = tasks[t].doc /\ u.run = tasks[t].run /\ u.acked = acked
      /\ u.known = tasks[t].known /\ u.orphan = tasks[t].orphan
      /\ u.state = tasks[t].state /\ u.doc \in Docs
  BY <1>1, <1>6 DEF TaskRecord
<1>9. /\ tasks' = [tasks EXCEPT ![t] = u]
      /\ UNCHANGED <<slot, reply, json, abandoned>>
  BY <1>2, <1>51, <1>6 DEF CallbackArrives
<1>10. PICK d, w, q : d = u.doc /\ w = wf[d] /\ q = reply[d]
  OBVIOUS
<1>11. w \in WP!WorkflowState /\ DocInv(d, w, q) /\ d \in Docs
  BY <1>8, <1>10 DEF Inv, WP!IInv
<1>12. PICK r : r = IF wf' = wf THEN w
                    ELSE [w EXCEPT !.completed[t] = IF @ = W!NoStatus THEN st ELSE @]
  OBVIOUS
<1>13. /\ r.phase = w.phase /\ r.run = w.run /\ r.task = w.task
       /\ r.verdict = w.verdict
       /\ \A s \in Tasks \ {t} : r.completed[s] = w.completed[s]
       /\ r.completed[t] = w.completed[t] \/ r.completed[t] = st
  BY <1>1, <1>11, <1>12 DEF WP!WorkflowState
<1>14. SignalWorkflow(cb, d, outcome) \/ UNCHANGED wf
  BY <1>2, <1>8, <1>10 DEF CallbackArrives
<1>15. W!TaskCompletedSignal(d, t, st) \/ UNCHANGED wf
  BY <1>3, <1>14 DEF SignalWorkflow
<1>16. wf' = [wf EXCEPT ![d] = r]
  <2>1. CASE UNCHANGED wf
    BY <1>10, <1>11, <1>12, <2>1, WorkflowFields DEF Inv
  <2>2. CASE W!TaskCompletedSignal(d, t, st) /\ ~UNCHANGED wf
    BY <1>10, <1>12, <2>2 DEF W!TaskCompletedSignal
  <2> QED
    BY <1>15, <2>1, <2>2
<1>17. WP!IInv'
  <2>1. CASE UNCHANGED wf
    BY <2>1 DEF Inv, WP!IInv, WP!RunInv, WP!Spent
  <2>2. CASE W!TaskCompletedSignal(d, t, st)
    BY <1>1, <1>4, <1>11, <2>2, WorkflowKeeps DEF Inv, W!Step, W!Progress
  <2> QED
    BY <1>15, <2>1, <2>2
<1>18. DocInv(d, r, q)
  <2>1. ToldTrue(r)
    BY <1>1, <1>2, <1>11, <1>13, TaskTypes DEF Inv, DocInv, ToldTrue
  <2>2. AckedTold(d, r)
    BY <1>2, <1>11, <1>13, TaskTypes DEF Inv, DocInv, AckedTold
  <2> QED
    BY <1>11, <1>13, <2>1, <2>2
    DEF DocInv, RunsCounted, OwnTask, OwnSlot, OthersGone, ReplyTrue, Learned,
        Honest, HasTask
<1>19. /\ Types' /\ DOMAIN tasks' = DOMAIN tasks
       /\ \A s \in DOMAIN tasks : tasks'[s] = IF s = t THEN u ELSE tasks[s]
  BY <1>7, <1>9, OneTaskChanges DEF Inv, Types
<1>20. Grows
  BY <1>8, <1>19 DEF Grows
\* The acknowledged signal was recorded, or finds the run closed.
<1>21. acked => r.phase \notin W!OpenPhases \/ r.completed[t] = st
  <2>1. SUFFICES ASSUME acked
                 PROVE  r.phase \notin W!OpenPhases \/ r.completed[t] = st
    OBVIOUS
  <2>2. SignalWorkflow(cb, d, outcome) /\ outcome \in {"signaled", "notFound"}
    BY <1>2, <1>8, <1>10, <1>53, <1>55, <2>1
    DEF CallbackArrives, Relay!SignalOutcomes
  <2>3. CASE outcome = "notFound"
    BY <1>10, <1>13, <2>2, <2>3 DEF SignalWorkflow, W!Open
  <2>4. CASE outcome = "signaled"
    <3>1. W!TaskCompletedSignal(d, t, st)
      BY <1>3, <2>2, <2>4 DEF SignalWorkflow
    <3>2. wf'[d].completed[t] = IF w.completed[t] = W!NoStatus THEN st
                                ELSE w.completed[t]
      BY <1>1, <1>10, <1>11, <3>1, WorkflowFields
      DEF Inv, WP!WorkflowState, W!TaskCompletedSignal
    <3>3. wf'[d] = r
      BY <1>11, <1>16, WorkflowFields DEF Inv
    <3>4. w.completed[t] # W!NoStatus => w.completed[t] = st
      BY <1>1, <1>2, <1>11 DEF DocInv, ToldTrue
    <3> QED
      BY <3>2, <3>3, <3>4
  <2> QED
    BY <2>2, <2>3, <2>4
<1>22. Elsewhere(d, r)
  BY <1>1, <1>2, <1>8, <1>9, <1>19, <1>21 DEF Elsewhere, IsOf
<1>23. ASSUME NEW e \in Docs \ {d}, NEW s PROVE Elsewhere(e, s)
  BY <1>8, <1>9, <1>10, <1>19 DEF Elsewhere, IsOf
<1>24. DocInv(d, r, q)' /\ reply' = reply
  BY <1>9, <1>11, <1>18, <1>19, <1>20, <1>22, DocStays DEF Inv
<1>25. \A s \in DOMAIN tasks' : TaskInv(s)'
  <2> SUFFICES ASSUME NEW s \in DOMAIN tasks PROVE TaskInv(s)'
    BY <1>19
  <2>1. TaskInv(s)
    BY DEF Inv
  <2> QED
    BY <1>1, <1>8, <1>9, <1>19, <2>1 DEF TaskInv, Ended
<1>26. NoNeedlessConversion'
  BY <1>8, <1>19 DEF Inv, NoNeedlessConversion
<1> QED
  BY <1>10, <1>11, <1>16, <1>17, <1>19, <1>20, <1>23, <1>24, <1>25, <1>26,
     OthersStay

\* A submit is admitted: no earlier task of the run can still be known, so
\* the new one is needed.
LEMMA SubmitLandsKeeps ==
  ASSUME Inv, NEW d \in Docs, SubmitLands(d)
  PROVE  Inv'
<1>1. PICK r, q, u, n : /\ r = wf[d] /\ q = reply[d] /\ u = Accepted(d)
                        /\ n = Len(tasks) + 1
  OBVIOUS
<1>2. /\ r.phase = "submitting" /\ slot = NoTask /\ Len(tasks) < MaxTasks
      /\ tasks' = Append(tasks, u) /\ slot' = n
      /\ UNCHANGED <<wf, reply, json, abandoned>>
  BY <1>1 DEF SubmitLands
<1>3. /\ DocInv(d, r, q) /\ r.run \in 0 .. MaxRuns
      /\ r.verdict = W!NoVerdict /\ q = NoReply
  BY <1>1, <1>2, WorkflowFields DEF Inv, DocInv, ReplyTrue
<1>4. /\ u.doc = d /\ u.run = r.run /\ u.state = "queued" /\ u.known
      /\ u.callbacks = 0 /\ ~u.acked /\ ~u.orphan
  BY <1>1 DEF Accepted
<1>5. r.run \in 1 .. MaxRuns
  BY <1>2, <1>3, MaxRunsAssumption DEF DocInv, RunsCounted
<1>6. u \in TaskRecord
  <2>1. 0 \in 0 .. CallbackAttempts
    BY CallbackAttemptsAssumption
  <2> QED
    BY <1>1, <1>5, <2>1 DEF Accepted, TaskRecord
<1>7. /\ tasks' \in Seq(TaskRecord) /\ Len(tasks') = n
      /\ \A t \in 1 .. Len(tasks) : tasks'[t] = tasks[t]
      /\ tasks'[n] = u
  BY <1>1, <1>2, <1>6, AppendProperties DEF Inv, Types
<1>8. /\ Len(tasks) \in Nat /\ n \in Nat /\ n # NoTask
      /\ DOMAIN tasks = 1 .. Len(tasks) /\ DOMAIN tasks' = 1 .. n
      /\ \A t \in DOMAIN tasks : t # n /\ t < n /\ t # NoTask
      /\ \A t \in DOMAIN tasks' : t \in DOMAIN tasks \/ t = n
      /\ n \in DOMAIN tasks' /\ n <= MaxTasks
      /\ DOMAIN tasks \subseteq DOMAIN tasks'
  BY <1>1, <1>2, <1>7, BoundsAssumption DEF Inv, Types, NoTask
<1>9. Types'
  BY <1>2, <1>7, <1>8 DEF Inv, Types
<1>10. Grows
  BY <1>2, <1>7, <1>8 DEF Grows
<1>11. ASSUME NEW e \in Docs \ {d}, NEW s PROVE Elsewhere(e, s)
  <2>1. tasks'[slot'].doc # e /\ slot' # NoTask
    BY <1>2, <1>4, <1>7, <1>8
  <2> QED
    BY <1>2, <1>4, <1>7, <1>8, <2>1 DEF Elsewhere, IsOf
<1>12. \A t \in DOMAIN tasks' : TaskInv(t)'
  <2> SUFFICES ASSUME NEW t \in DOMAIN tasks' PROVE TaskInv(t)'
    OBVIOUS
  <2>1. CASE t \in DOMAIN tasks
    BY <1>2, <1>7, <1>8, <2>1 DEF Inv, TaskInv, Ended
  <2>2. CASE t = n
    BY <1>4, <1>7, <2>2 DEF TaskInv
  <2> QED
    BY <1>8, <2>1, <2>2
<1>13. \A t \in DOMAIN tasks : IsOf(t, d, r.run) => Gone(t)
  BY <1>2, <1>3, <1>8 DEF DocInv, OthersGone
<1>14. NoNeedlessConversion'
  <2> SUFFICES ASSUME NEW t \in DOMAIN tasks', NEW s \in DOMAIN tasks', t < s,
                      tasks'[t].doc = tasks'[s].doc,
                      tasks'[t].run = tasks'[s].run
               PROVE  ~tasks'[t].known \/ tasks'[t].orphan
    BY DEF NoNeedlessConversion
  <2>1. t \in DOMAIN tasks
    BY <1>8
  <2>2. CASE s \in DOMAIN tasks
    BY <1>7, <1>8, <2>1, <2>2 DEF Inv, NoNeedlessConversion
  <2>3. CASE s = n
    BY <1>4, <1>7, <1>8, <1>13, <2>1, <2>3 DEF IsOf, Gone
  <2> QED
    BY <1>8, <2>2, <2>3
<1>15. DocInv(d, r, q)'
  <2>1. RunsCounted(d, r)'
    BY <1>3, <1>4, <1>5, <1>7, <1>8, MaxRunsAssumption DEF DocInv, RunsCounted
  <2>2. OwnTask(d, r)'
    BY <1>2 DEF OwnTask, HasTask
  <2>3. OwnSlot(d, r)'
    BY <1>2, <1>4, <1>7, <1>8 DEF OwnSlot
  <2>4. OthersGone(d, r)'
    BY <1>2, <1>7, <1>8, <1>13 DEF OthersGone, IsOf, Gone
  <2>5. ToldTrue(r)'
    BY <1>3, <1>10, EndedStays DEF Inv, DocInv, ToldTrue
  <2>6. AckedTold(d, r)'
    <3> SUFFICES ASSUME NEW t \in DOMAIN tasks', IsOf(t, d, r.run)',
                        tasks'[t].acked, r.phase \in W!OpenPhases
                 PROVE  r.completed[t] = Status(t)'
      BY DEF AckedTold
    <3>1. t \in DOMAIN tasks
      BY <1>4, <1>7, <1>8
    <3> QED
      BY <1>3, <1>7, <1>8, <3>1 DEF DocInv, AckedTold, IsOf, Status
  <2>7. ReplyTrue(r, q)' /\ Learned(r)' /\ Honest(d, r)'
    BY <1>2, <1>3
    DEF ReplyTrue, Learned, Honest, NoReply, W!TaskStatus, W!NoVerdict
  <2> QED
    BY <2>1, <2>2, <2>3, <2>4, <2>5, <2>6, <2>7 DEF DocInv
<1>16. WP!IInv'
  BY <1>2 DEF Inv, WP!IInv, WP!RunInv, WP!Spent
<1>17. wf' = [wf EXCEPT ![d] = r] /\ reply' = reply
  BY <1>1, <1>2, WorkflowFields DEF Inv
<1> QED
  BY <1>1, <1>9, <1>10, <1>11, <1>12, <1>14, <1>15, <1>16, <1>17, OthersStay

\* The submit returns: its task is the one the run awaits from here on.
LEMMA SubmitReturnsKeeps ==
  ASSUME Inv, SubmitReturns
  PROVE  Inv'
<1>1. PICK t, d : t = slot /\ d = tasks[t].doc
  OBVIOUS
<1>2. PICK r, q : /\ r = [wf[d] EXCEPT !.phase = "waiting", !.task = t,
                                       !.polls = 0]
                  /\ q = reply[d]
  OBVIOUS
<1>3. /\ t \in DOMAIN tasks /\ t \in Tasks /\ t # NoTask /\ d \in Docs
  BY <1>1, TaskTypes DEF Inv, Types, SubmitReturns, TaskRecord
<1>4. /\ W!SubmitSucceeds(d, t) /\ wf' = [wf EXCEPT ![d] = r]
      /\ slot' = NoTask /\ UNCHANGED <<tasks, reply, json, abandoned>>
  BY <1>1, <1>2 DEF SubmitReturns, W!SubmitSucceeds
<1>5. wf[d] \in WP!WorkflowState /\ wf[d].phase = "submitting"
  BY <1>3, <1>4 DEF Inv, WP!IInv, W!SubmitSucceeds
<1>6. /\ r.phase = "waiting" /\ r.verdict = wf[d].verdict
      /\ r.run = wf[d].run /\ r.task = t /\ r.completed = wf[d].completed
  BY <1>2, <1>5 DEF WP!WorkflowState
<1>7. /\ DocInv(d, wf[d], q) /\ wf[d].verdict = W!NoVerdict /\ q = NoReply
      /\ IsOf(t, d, r.run) /\ ~tasks[t].orphan
  BY <1>1, <1>2, <1>3, <1>5, <1>6, WorkflowFields
  DEF Inv, DocInv, ReplyTrue, OwnSlot, IsOf
<1>8. WP!IInv'
  BY <1>3, <1>4, WorkflowKeeps DEF Inv, W!Step, W!Progress
<1>9. Types'
  BY <1>4 DEF Inv, Types
<1>10. \A s \in DOMAIN tasks' : TaskInv(s)'
  BY <1>4 DEF Inv, TaskInv, Ended
<1>11. NoNeedlessConversion' /\ Grows
  BY <1>4 DEF Inv, NoNeedlessConversion, Grows
<1>12. ASSUME NEW e \in Docs \ {d}, NEW s PROVE Elsewhere(e, s)
  BY <1>1, <1>4 DEF Elsewhere
<1>13. DocInv(d, r, q)'
  <2>1. RunsCounted(d, r)' /\ OwnTask(d, r)'
    BY <1>4, <1>5, <1>6, <1>7 DEF DocInv, RunsCounted, OwnTask, IsOf
  <2>2. OwnSlot(d, r)'
    BY <1>4 DEF OwnSlot
  <2>3. OthersGone(d, r)'
    BY <1>1, <1>4, <1>5, <1>6, <1>7 DEF DocInv, OthersGone, IsOf, Gone
  <2>4. ToldTrue(r)'
    BY <1>4, <1>6, <1>7 DEF DocInv, ToldTrue, Ended, Status
  <2>5. AckedTold(d, r)'
    BY <1>4, <1>5, <1>6, <1>7
    DEF DocInv, AckedTold, IsOf, Status, W!OpenPhases
  <2>6. ReplyTrue(r, q)' /\ Learned(r)' /\ Honest(d, r)'
    BY <1>6, <1>7
    DEF ReplyTrue, Learned, Honest, NoReply, W!TaskStatus, W!NoVerdict
  <2> QED
    BY <2>1, <2>2, <2>3, <2>4, <2>5, <2>6 DEF DocInv
<1> QED
  BY <1>2, <1>3, <1>4, <1>8, <1>9, <1>10, <1>11, <1>12, <1>13, OthersStay

-----------------------------------------------------------------------------
LEMMA InitEstablishes == Init => Inv
<1> SUFFICES ASSUME Init PROVE Inv
  OBVIOUS
<1>1. /\ tasks = << >> /\ slot = NoTask /\ abandoned = 0
      /\ reply = [d \in Docs |-> NoReply] /\ json = [d \in Docs |-> NoTask]
      /\ wf = [d \in Docs |-> W!FreshRun(0, "idle", 0)]
  BY DEF Init, W!Init
<1>2. WP!IInv
  <2>1. WP!Init
    BY SameInit DEF Init
  <2> QED
    BY <2>1, NoTaskIsNone, WP!InitEstablishes, MaxSubmissionsAssumption,
       MaxSafetyPollsAssumption, CheckAttemptsAssumption, MaxRunsAssumption
<1>3. DOMAIN tasks = {} /\ Len(tasks) = 0 /\ tasks \in Seq(TaskRecord)
  BY <1>1
<1>4. Types
  BY <1>1, <1>3, BoundsAssumption DEF Types
<1>5. (\A t \in DOMAIN tasks : TaskInv(t)) /\ NoNeedlessConversion
  BY <1>3 DEF NoNeedlessConversion
<1>6. ASSUME NEW d \in Docs PROVE DocInv(d, wf[d], reply[d])
  <2>1. /\ wf[d].phase = "idle" /\ wf[d].verdict = W!NoVerdict
        /\ wf[d].completed = [t \in Tasks |-> W!NoStatus]
        /\ reply[d] = NoReply
    BY <1>1 DEF W!FreshRun
  <2> QED
    BY <1>1, <1>3, <2>1
    DEF DocInv, RunsCounted, OwnTask, OwnSlot, OthersGone, ToldTrue, AckedTold,
        ReplyTrue, Learned, Honest, HasTask, IsOf, W!TaskStatus, NoReply,
        W!NoVerdict
<1> QED
  BY <1>2, <1>4, <1>5, <1>6 DEF Inv

LEMMA NextKeeps == Inv /\ [Next]_vars => Inv'
<1> SUFFICES ASSUME Inv, [Next]_vars PROVE Inv'
  OBVIOUS
<1>1. CASE UNCHANGED vars
  <2>1. UNCHANGED <<wf, tasks, slot, reply, json, abandoned>>
    BY <1>1 DEF vars
  <2> QED
    BY <2>1
    DEF Inv, WP!IInv, WP!RunInv, WP!Spent, Types, TaskInv,
        NoNeedlessConversion, DocInv, RunsCounted, OwnTask, OwnSlot,
        OthersGone, ToldTrue, AckedTold, ReplyTrue, Learned, Honest, HasTask,
        IsOf, Gone, Ended, Status
<1>2. CASE SubmitReturns \/ SubmitAbandoned \/ \E d \in Docs : Start(d)
  BY <1>2, SubmitReturnsKeeps, SubmitAbandonedKeeps, StartKeeps
<1>3. CASE \E d \in Docs : RunStep(d)
  BY <1>3, SubmitLandsKeeps, SubmitRejectedKeeps, WakeKeeps,
     TimerFiresKeeps, CheckReadsKeeps, CheckAnswersKeeps, CheckUnansweredKeeps,
     FetchOutcomeKeeps, FetchRejectedKeeps, CollectOutputsKeeps
  DEF RunStep
<1>4. CASE \E t \in DOMAIN tasks : DoclingStep(t)
  BY <1>4, TaskEndsKeeps, TaskForgottenKeeps, CallbackArrivesKeeps,
     CallbackFailsKeeps
  DEF DoclingStep
<1> QED
  BY <1>1, <1>2, <1>3, <1>4 DEF Next, Conversions

LEMMA Invariance == Spec => []Inv
BY InitEstablishes, NextKeeps, PTL DEF Spec

\* Every field of every workflow and of every task docling-serve accepted, the
\* submit slot and the answers on their way have the types the code gives them.
THEOREM TypeCorrect == Spec => []TypeOK
<1>1. Inv => TypeOK
  <2> SUFFICES ASSUME Inv PROVE TypeOK
    OBVIOUS
  <2>1. W!TypeOK
    BY DEF Inv, WP!IInv, WP!RunInv, W!TypeOK, WP!WorkflowState,
           W!WorkflowState, WP!OpenPhases, W!OpenPhases, WP!Verdicts,
           W!Verdicts, WP!NoVerdict, W!NoVerdict, WP!TaskStatus, W!TaskStatus,
           WP!NoStatus, W!NoStatus
  <2> QED
    BY <2>1, TaskTypes DEF Inv, Types, TypeOK, TaskRecord
<1> QED
  BY <1>1, Invariance, PTL

\* Whatever callbacks, status checks, lost tasks, abandoned submits and runs of
\* the same document interleave, a verdict agrees with what became of the task
\* that run submitted itself (workflows.py:116-177).
THEOREM VerdictsAreHonest == Spec => []VerdictHonest
<1>1. Inv => VerdictHonest
  <2> SUFFICES ASSUME Inv, NEW d \in Docs,
                      wf[d].verdict \notin {W!NoVerdict, "SubmitRejected"}
               PROVE  /\ tasks[wf[d].task].doc = d
                      /\ tasks[wf[d].task].run = wf[d].run
                      /\ ~tasks[wf[d].task].orphan
                      /\ Honest(d, wf[d])
    BY DEF VerdictHonest, Honest
  <2>1. OwnTask(d, wf[d]) /\ Honest(d, wf[d])
    BY DEF Inv, DocInv
  <2> QED
    BY <2>1 DEF OwnTask, HasTask, Honest, IsOf
<1> QED
  BY <1>1, Invariance, PTL

\* One run converts its document once, unless docling-serve forgot the task or
\* the answer of a submit was lost (workflows.py:104-120; worker.py:86-90).
THEOREM NoConversionIsNeedless == Spec => []NoNeedlessConversion
<1>1. Inv => NoNeedlessConversion
  BY DEF Inv
<1> QED
  BY <1>1, Invariance, PTL

\* A callback is acknowledged only once its run has been told, or can no
\* longer be told anything (relay.go:126-142).
THEOREM AcknowledgedHasBeenTold == Spec => []AcknowledgedIsTold
<1>1. Inv => AcknowledgedIsTold
  <2> SUFFICES ASSUME Inv, NEW t \in DOMAIN tasks, NEW d, d = tasks[t].doc,
                      tasks[t].acked, W!Open(d), tasks[t].run = wf[d].run
               PROVE  wf[d].completed[t] = Status(t)
    BY DEF AcknowledgedIsTold
  <2>1. d \in Docs
    BY TaskTypes DEF Inv, TaskRecord
  <2>2. AckedTold(d, wf[d])
    BY <2>1 DEF Inv, DocInv
  <2> QED
    BY <2>2 DEF AckedTold, IsOf, W!Open
<1> QED
  BY <1>1, Invariance, PTL

-----------------------------------------------------------------------------
\* Beside its start, all that happens moves at most one workflow, by a step of
\* a run.
LEMMA ConversionsProgress ==
  ASSUME Inv, Conversions
  PROVE  (\E d \in Docs : W!Progress(d)) \/ UNCHANGED wf
<1>1. CASE \E d \in Docs : RunStep(d)
  <2>1. PICK d \in Docs : RunStep(d)
    BY <1>1
  <2>2. CASE SubmitLands(d) \/ CheckReads(d)
    BY <2>2 DEF SubmitLands, CheckReads
  <2>3. CASE \/ SubmitRejected(d) \/ Wake(d) \/ TimerFires(d)
             \/ CheckAnswers(d) \/ CheckUnanswered(d) \/ FetchRejected(d)
    BY <2>3
    DEF SubmitRejected, Wake, TimerFires, CheckAnswers, CheckUnanswered,
        FetchRejected, W!Progress
  <2>4. CASE FetchOutcome(d)
    BY <2>4 DEF FetchOutcome, W!Outcomes, W!Progress
  <2>5. CASE CollectOutputs(d)
    <3>1. (json[d] # NoTask) \in BOOLEAN
      OBVIOUS
    <3> QED
      BY <2>5, <3>1 DEF CollectOutputs, W!Progress
  <2> QED
    BY <2>1, <2>2, <2>3, <2>4, <2>5 DEF RunStep
<1>2. CASE SubmitReturns
  <2>1. slot \in Tasks /\ tasks[slot].doc \in Docs
    BY <1>2, TaskTypes DEF Inv, Types, SubmitReturns, TaskRecord
  <2> QED
    BY <1>2, <2>1 DEF SubmitReturns, W!Progress
<1>3. CASE SubmitAbandoned
  BY <1>3 DEF SubmitAbandoned
<1>4. CASE \E t \in DOMAIN tasks : DoclingStep(t)
  <2>1. PICK t \in DOMAIN tasks : DoclingStep(t)
    BY <1>4
  <2>2. CASE CallbackFails(t) \/ TaskForgotten(t)
    BY <2>2 DEF CallbackFails, TaskForgotten
  <2>3. CASE \E e \in Endings : TaskEnds(t, e)
    BY <2>3 DEF TaskEnds
  <2>4. CASE \E a, h \in BOOLEAN, o \in Relay!SignalOutcomes :
               CallbackArrives(t, a, o, h)
    <3>1. PICK a \in BOOLEAN, h \in BOOLEAN, o \in Relay!SignalOutcomes :
            CallbackArrives(t, a, o, h)
      BY <2>4
    <3>2. Completion(t, a).task = t /\ Completion(t, a).status = Status(t)
      BY DEF Completion
    <3>3. \/ W!TaskCompletedSignal(tasks[t].doc, t, Status(t))
          \/ UNCHANGED wf
      BY <3>1, <3>2 DEF CallbackArrives, SignalWorkflow
    <3>4. t \in Tasks /\ tasks[t].doc \in Docs /\ Status(t) \in W!TaskStatus
      BY TaskTypes DEF Inv, TaskRecord, Status, W!TaskStatus
    <3> QED
      BY <3>3, <3>4 DEF W!Progress
  <2> QED
    BY <2>1, <2>2, <2>3, <2>4 DEF DoclingStep
<1> QED
  BY <1>1, <1>2, <1>3, <1>4 DEF Conversions

LEMMA StepImplements ==
  ASSUME Inv, [Next]_vars
  PROVE  [W!Next]_(W!vars)
<1>1. CASE Conversions
  BY <1>1, ConversionsProgress DEF W!Next, W!Step, W!vars
<1>2. CASE \E d \in Docs : Start(d)
  BY <1>2 DEF Start, W!Next, W!Step
<1>3. CASE UNCHANGED vars
  BY <1>3 DEF vars, W!vars
<1> QED
  BY <1>1, <1>2, <1>3 DEF Next

\* Among docling-serve, the relay and the other workflows, a workflow takes no
\* step it could not take on its own: each action here gives it one answer of
\* those ConvertWorkflow allows.
THEOREM OrchestrationImplementsWorkflow == Spec => W!Spec
<1>1. Init => W!Init
  BY DEF Init
<1>2. Inv /\ [Next]_vars => [W!Next]_(W!vars)
  BY StepImplements
<1> QED
  BY <1>1, <1>2, Invariance, PTL DEF Spec, W!Spec

\* So each keeps the contract of a conversion here too: no submission while a
\* task is in hand, no verdict its milestones do not account for.
THEOREM ConversionsKeepTheirContract == Spec => WP!Contract
<1>1. W!Init => WP!Init
  BY SameInit
<1>2. [W!Next]_(W!vars) => [WP!Next]_(WP!vars)
  BY SameStep DEF W!Next, WP!Next, W!vars, WP!vars
<1>3. W!Spec => WP!Spec
  BY <1>1, <1>2, PTL DEF W!Spec, WP!Spec
<1>4. WP!Spec => WP!Contract
  BY NoTaskIsNone, WP!WorkflowImplementsConversion, MaxSubmissionsAssumption,
     MaxSafetyPollsAssumption, CheckAttemptsAssumption, MaxRunsAssumption
<1> QED
  BY <1>3, <1>4, OrchestrationImplementsWorkflow

-----------------------------------------------------------------------------
\* The submit slot is held only for a run that still awaits its submit, so the
\* next submit never waits for one that nobody hears any more
\* (models.py:20-22, worker.py:72-90).
THEOREM SlotIsHeldForItsRun == Spec => []SlotIsAwaited
<1>1. Inv => SlotIsAwaited
  <2> SUFFICES ASSUME Inv, slot # NoTask, NEW d, d = tasks[slot].doc
               PROVE  wf[d].phase = "submitting" /\ tasks[slot].run = wf[d].run
    BY DEF SlotIsAwaited
  <2>1. slot \in DOMAIN tasks /\ d \in Docs
    BY TaskTypes DEF Inv, Types, TaskRecord
  <2> QED
    BY <2>1 DEF Inv, DocInv, OwnSlot
<1> QED
  BY <1>1, Invariance, PTL

\* A submission a run has counted but docling-serve has not been given yet.
Unsent(d) ==
  wf[d].phase = "submitting" /\ (slot = NoTask \/ tasks[slot].doc # d)

\* LoadBounded is inductive with what the open run has submitted: its tasks are
\* no more than the submissions it has counted, the one under way apart.
LoadInv(d, n) ==
  /\ Cardinality(Sent(d, n)) <= MaxSubmissions
  /\ n = wf[d].run =>
       Cardinality(Sent(d, n)) + (IF Unsent(d) THEN 1 ELSE 0)
         <= wf[d].submissions

Load == \A d \in Docs, n \in 1 .. MaxRuns : LoadInv(d, n)

LEMMA SomeTasksAreFinite ==
  ASSUME NEW ts \in Seq(TaskRecord), NEW S \in SUBSET DOMAIN ts
  PROVE  IsFiniteSet(S) /\ Cardinality(S) \in Nat
<1>1. DOMAIN ts = 1 .. Len(ts) /\ Len(ts) \in Nat
  OBVIOUS
<1>2. IsFiniteSet(DOMAIN ts)
  BY <1>1, FS_Interval
<1> QED
  BY <1>2, FS_Subset, FS_CardinalityType

\* What is sent is finite, before and after a step.
LEMMA SentIsFinite ==
  ASSUME Types, Types', NEW d, NEW n
  PROVE  /\ IsFiniteSet(Sent(d, n)) /\ Cardinality(Sent(d, n)) \in Nat
         /\ Cardinality(Sent(d, n)') \in Nat
<1>1. Sent(d, n) \in SUBSET DOMAIN tasks
  BY DEF Sent
<1>2. Sent(d, n)' \in SUBSET DOMAIN tasks'
  BY DEF Sent
<1>3. tasks \in Seq(TaskRecord) /\ tasks' \in Seq(TaskRecord)
  BY DEF Types
<1> QED
  BY <1>1, <1>2, <1>3, SomeTasksAreFinite

\* The count of submissions of a run is a number the budget bounds.
LEMMA SubmissionsCounted ==
  ASSUME WP!IInv, WP!IInv', NEW d \in Docs
  PROVE  /\ wf[d].submissions \in Nat /\ wf[d].run \in Nat
         /\ wf'[d].submissions \in Nat
         /\ wf'[d].submissions <= MaxSubmissions
BY MaxRunsAssumption DEF WP!IInv, WP!RunInv, WP!WorkflowState

\* It is enough to follow the open run: what earlier runs sent stays as it is.
LEMMA OpenRunSuffices ==
  ASSUME Inv, Inv', Load, NEW d \in Docs, NEW n \in 1 .. MaxRuns,
         Sent(d, n)' = Sent(d, n) \/ n = wf'[d].run,
         n = wf'[d].run =>
           Cardinality(Sent(d, n)') + (IF Unsent(d)' THEN 1 ELSE 0)
             <= wf'[d].submissions
  PROVE  LoadInv(d, n)'
<1>1. CASE n = wf'[d].run
  <2>1. /\ Cardinality(Sent(d, n)') \in Nat
        /\ wf'[d].submissions \in Nat /\ wf'[d].submissions <= MaxSubmissions
    BY SentIsFinite, SubmissionsCounted DEF Inv
  <2>2. Cardinality(Sent(d, n)') <= MaxSubmissions
    BY <1>1, <2>1, MaxSubmissionsAssumption
  <2> QED
    BY <1>1, <2>2 DEF LoadInv
<1>2. CASE n # wf'[d].run
  BY <1>2 DEF Load, LoadInv
<1> QED
  BY <1>1, <1>2

\* No task is new, and none is newly orphaned.
SameSent ==
  /\ DOMAIN tasks' = DOMAIN tasks
  /\ \A t \in DOMAIN tasks : /\ tasks'[t].doc = tasks[t].doc
                             /\ tasks'[t].run = tasks[t].run
                             /\ tasks'[t].orphan = tasks[t].orphan

\* What a step may do to a run without sending anything.
Quiet(d) ==
  \/ /\ wf'[d].run = wf[d].run /\ wf'[d].submissions = wf[d].submissions
     /\ Unsent(d)' => Unsent(d)
  \/ /\ wf'[d].run = wf[d].run /\ wf'[d].submissions = wf[d].submissions + 1
     /\ ~Unsent(d)
  \/ /\ wf'[d].run = wf[d].run + 1 /\ wf'[d].submissions = 1

LEMMA QuietKeeps ==
  ASSUME Inv, Inv', Load, SameSent, NEW d \in Docs, Quiet(d),
         NEW n \in 1 .. MaxRuns
  PROVE  LoadInv(d, n)'
<1>1. Sent(d, n)' = Sent(d, n)
  BY DEF SameSent, Sent
<1>2. Cardinality(Sent(d, n)) \in Nat
  BY SentIsFinite DEF Inv
<1>3. wf[d].submissions \in Nat /\ wf[d].run \in Nat
  BY SubmissionsCounted DEF Inv
<1>4. LoadInv(d, n)
  BY DEF Load
<1>5. ASSUME n = wf'[d].run
      PROVE  Cardinality(Sent(d, n)) + (IF Unsent(d)' THEN 1 ELSE 0)
               <= wf'[d].submissions
  <2>1. CASE wf'[d].run = wf[d].run
    <3>1. CASE Unsent(d)' => Unsent(d) /\ wf'[d].submissions = wf[d].submissions
      BY <1>2, <1>3, <1>4, <1>5, <2>1, <3>1 DEF LoadInv, Quiet
    <3>2. CASE wf'[d].submissions = wf[d].submissions + 1 /\ ~Unsent(d)
      BY <1>2, <1>3, <1>4, <1>5, <2>1, <3>2 DEF LoadInv
    <3> QED
      BY <1>3, <2>1, <3>1, <3>2 DEF Quiet
  <2>2. CASE wf'[d].run = wf[d].run + 1 /\ wf'[d].submissions = 1
    <3>1. \A t \in DOMAIN tasks : tasks[t].doc = d => tasks[t].run <= wf[d].run
      BY DEF Inv, DocInv, RunsCounted
    <3>2. \A t \in DOMAIN tasks : tasks[t].run \in Nat
      BY TaskTypes, MaxRunsAssumption DEF Inv, TaskRecord
    <3>3. Sent(d, n) = {}
      BY <1>3, <1>5, <2>2, <3>1, <3>2 DEF Sent
    <3> QED
      BY <2>2, <3>3, FS_EmptySet
  <2> QED
    BY <1>3, <2>1, <2>2 DEF Quiet
<1> QED
  BY <1>1, <1>5, OpenRunSuffices

\* What one step of a workflow does to its count: nothing, and a run that
\* submits was submitting; one more, having a task in hand until then; or a new
\* run.
LEMMA CountMoves ==
  ASSUME WP!IInv, NEW d \in Docs, W!Step(d)
  PROVE  \E r :
           /\ wf' = [wf EXCEPT ![d] = r]
           /\ \/ /\ r.run = wf[d].run /\ r.submissions = wf[d].submissions
                 /\ r.phase = "submitting" => wf[d].phase = "submitting"
              \/ /\ r.run = wf[d].run /\ r.submissions = wf[d].submissions + 1
                 /\ wf[d].phase = "checking"
              \/ r.run = wf[d].run + 1 /\ r.submissions = 1
<1>1. wf[d] \in WP!WorkflowState
  BY DEF WP!IInv
<1>2. ASSUME NEW v, W!Close(d, v)
      PROVE  \E r : /\ wf' = [wf EXCEPT ![d] = r] /\ r.run = wf[d].run
                    /\ r.submissions = wf[d].submissions /\ r.phase = "closed"
  <2>1. PICK r : r = [wf[d] EXCEPT !.phase = "closed", !.verdict = v]
    OBVIOUS
  <2>2. /\ r.run = wf[d].run /\ r.submissions = wf[d].submissions
        /\ r.phase = "closed"
    BY <1>1, <2>1 DEF WP!WorkflowState
  <2>3. wf' = [wf EXCEPT ![d] = r]
    BY <1>2, <2>1 DEF W!Close
  <2> QED
    BY <2>2, <2>3
<1>3. ASSUME NEW where, wf' = [wf EXCEPT ![d].phase = where]
      PROVE  \E r : /\ wf' = [wf EXCEPT ![d] = r] /\ r.run = wf[d].run
                    /\ r.submissions = wf[d].submissions /\ r.phase = where
  <2>1. PICK r : r = [wf[d] EXCEPT !.phase = where]
    OBVIOUS
  <2>2. /\ r.run = wf[d].run /\ r.submissions = wf[d].submissions
        /\ r.phase = where
    BY <1>1, <2>1 DEF WP!WorkflowState
  <2>3. wf' = [wf EXCEPT ![d] = r]
    BY <1>3, <2>1
  <2> QED
    BY <2>2, <2>3
<1>4. CASE W!Start(d)
  <2>1. PICK r : r = W!FreshRun(wf[d].run + 1, "submitting", 1)
    OBVIOUS
  <2>2. r.run = wf[d].run + 1 /\ r.submissions = 1
    BY <2>1 DEF W!FreshRun
  <2> QED
    BY <1>4, <2>1, <2>2 DEF W!Start
<1>5. CASE \E t \in Tasks : W!SubmitSucceeds(d, t)
  <2>1. PICK t \in Tasks : W!SubmitSucceeds(d, t)
    BY <1>5
  <2>2. PICK r : r = [wf[d] EXCEPT !.phase = "waiting", !.task = t, !.polls = 0]
    OBVIOUS
  <2>3. r.run = wf[d].run /\ r.submissions = wf[d].submissions
        /\ r.phase = "waiting"
    BY <1>1, <2>2 DEF WP!WorkflowState
  <2> QED
    BY <2>1, <2>2, <2>3 DEF W!SubmitSucceeds
<1>6. CASE \E t \in Tasks, s \in W!TaskStatus : W!TaskCompletedSignal(d, t, s)
  <2>1. PICK t \in Tasks, s \in W!TaskStatus : W!TaskCompletedSignal(d, t, s)
    BY <1>6
  <2>2. PICK r : r = [wf[d] EXCEPT !.completed[t] =
                                     IF @ = W!NoStatus THEN s ELSE @]
    OBVIOUS
  <2>3. r.run = wf[d].run /\ r.submissions = wf[d].submissions
        /\ r.phase = wf[d].phase
    BY <1>1, <2>2 DEF WP!WorkflowState
  <2>4. wf' = [wf EXCEPT ![d] = r]
    BY <2>1, <2>2 DEF W!TaskCompletedSignal
  <2> QED
    BY <2>3, <2>4
<1>7. CASE W!TimerFires(d)
  <2>1. PICK r : r = [wf[d] EXCEPT !.phase = "checking", !.polls = @ + 1,
                                   !.safetyPolls = @ + 1, !.attempt = 1]
    OBVIOUS
  <2>2. r.run = wf[d].run /\ r.submissions = wf[d].submissions
        /\ r.phase = "checking"
    BY <1>1, <2>1 DEF WP!WorkflowState
  <2> QED
    BY <1>7, <2>1, <2>2 DEF W!TimerFires
<1>8. CASE W!CheckLost(d)
  <2>1. CASE wf[d].submissions >= MaxSubmissions
    BY <1>2, <1>8, <2>1 DEF W!CheckLost
  <2>2. CASE ~(wf[d].submissions >= MaxSubmissions)
    <3>1. PICK r : r = [wf[d] EXCEPT !.phase = "submitting",
                                     !.submissions = @ + 1]
      OBVIOUS
    <3>2. r.run = wf[d].run /\ r.submissions = wf[d].submissions + 1
      BY <1>1, <3>1 DEF WP!WorkflowState
    <3> QED
      BY <1>8, <2>2, <3>1, <3>2 DEF W!CheckLost
  <2> QED
    BY <2>1, <2>2
<1>9. CASE /\ W!CheckUnanswered(d) /\ wf[d].attempt < CheckAttempts
  <2>1. PICK r : r = [wf[d] EXCEPT !.attempt = @ + 1]
    OBVIOUS
  <2>2. r.run = wf[d].run /\ r.submissions = wf[d].submissions
        /\ r.phase = wf[d].phase
    BY <1>1, <2>1 DEF WP!WorkflowState
  <2> QED
    BY <1>9, <2>1, <2>2 DEF W!CheckUnanswered
<1>10. CASE \/ \E v : W!Close(d, v)
            \/ \E where \in {"waiting", "fetching", "collecting"} :
                 wf' = [wf EXCEPT ![d].phase = where]
  BY <1>2, <1>3, <1>10
<1>11. CASE \/ W!SubmitRejected(d) \/ W!CheckInProgress(d)
            \/ W!CheckUnanswered(d) /\ ~(wf[d].attempt < CheckAttempts)
            \/ W!CheckRejected(d) \/ W!FetchRejected(d) \/ W!Wake(d)
            \/ \E s \in W!TaskStatus : W!CheckTerminal(d, s)
            \/ \E o \in W!Outcomes : W!FetchOutcome(d, o)
            \/ \E j \in BOOLEAN : W!CollectOutputs(d, j)
  BY <1>10, <1>11
  DEF W!SubmitRejected, W!CheckInProgress, W!CheckUnanswered, W!CheckRejected,
      W!FetchRejected, W!Wake, W!CheckTerminal, W!FetchOutcome,
      W!CollectOutputs, W!Terminal, W!StillInProgress
<1> QED
  BY <1>4, <1>5, <1>6, <1>7, <1>8, <1>9, <1>11 DEF W!Step, W!Progress

\* A step that sends nothing and leaves the submit slot alone is quiet.
LEMMA MovesQuietly ==
  ASSUME Inv, NEW d \in Docs, W!Step(d), SameSent, slot' = slot,
         NEW e \in Docs
  PROVE  Quiet(e)
<1>1. \/ slot = NoTask /\ slot' = NoTask
      \/ slot # NoTask /\ tasks'[slot'].doc = tasks[slot].doc
  BY DEF Inv, Types, SameSent
<1>2. PICK r :
        /\ wf' = [wf EXCEPT ![d] = r]
        /\ \/ /\ r.run = wf[d].run /\ r.submissions = wf[d].submissions
              /\ r.phase = "submitting" => wf[d].phase = "submitting"
           \/ /\ r.run = wf[d].run /\ r.submissions = wf[d].submissions + 1
              /\ wf[d].phase = "checking"
           \/ r.run = wf[d].run + 1 /\ r.submissions = 1
  BY CountMoves DEF Inv
<1>3. wf'[e] = IF e = d THEN r ELSE wf[e]
  BY <1>2, WorkflowFields DEF Inv
<1>4. CASE e = d
  BY <1>1, <1>2, <1>3, <1>4 DEF Quiet, Unsent
<1>5. CASE e # d
  BY <1>1, <1>3, <1>5 DEF Quiet, Unsent
<1> QED
  BY <1>4, <1>5

LEMMA StaysQuiet ==
  ASSUME Inv, UNCHANGED wf, SameSent, slot' = slot, NEW e \in Docs
  PROVE  Quiet(e)
<1>1. \/ slot = NoTask /\ slot' = NoTask
      \/ slot # NoTask /\ tasks'[slot'].doc = tasks[slot].doc
  BY DEF Inv, Types, SameSent
<1> QED
  BY <1>1 DEF Quiet, Unsent

\* The submission that was counted is sent.
LEMMA LandingKeepsLoad ==
  ASSUME Inv, Inv', Load, NEW d \in Docs, SubmitLands(d)
  PROVE  Load'
<1>1. PICK n : n = Len(tasks) + 1
  OBVIOUS
<1>2. /\ Unsent(d) /\ slot = NoTask /\ slot' = n /\ UNCHANGED wf
      /\ tasks' = Append(tasks, Accepted(d))
  BY <1>1 DEF SubmitLands, Unsent
<1>3. tasks \in Seq(TaskRecord) /\ tasks' \in Seq(TaskRecord)
  BY DEF Inv, Types
<1>4. /\ DOMAIN tasks = 1 .. Len(tasks) /\ DOMAIN tasks' = 1 .. n
      /\ \A t \in DOMAIN tasks : tasks'[t] = tasks[t]
      /\ tasks'[n] = Accepted(d) /\ n \notin DOMAIN tasks
      /\ DOMAIN tasks' = DOMAIN tasks \cup {n} /\ n # NoTask
  <2>1. Accepted(d) \in TaskRecord
    <3>1. n \in DOMAIN tasks' /\ tasks'[n] = Accepted(d)
      BY <1>1, <1>2, <1>3
    <3> QED
      BY <1>3, <3>1
  <2>2. Len(tasks) \in Nat
    BY <1>3
  <2> QED
    BY <1>1, <1>2, <1>3, <2>1, <2>2, AppendProperties DEF NoTask
<1>5. /\ tasks'[n].doc = d /\ tasks'[n].run = wf[d].run /\ ~tasks'[n].orphan
  BY <1>4 DEF Accepted
<1>6. ASSUME NEW e \in Docs, NEW m \in 1 .. MaxRuns PROVE LoadInv(e, m)'
  <2>1. Cardinality(Sent(e, m)) \in Nat /\ IsFiniteSet(Sent(e, m))
    BY SentIsFinite DEF Inv
  <2>2. LoadInv(e, m)
    BY DEF Load
  <2>3. CASE e = d /\ m = wf[d].run
    <3>1. Sent(e, m)' = Sent(e, m) \cup {n} /\ n \notin Sent(e, m)
      BY <1>4, <1>5, <2>3 DEF Sent
    <3>2. Cardinality(Sent(e, m)') = Cardinality(Sent(e, m)) + 1
      BY <2>1, <3>1, FS_AddElement
    <3>3. ~Unsent(d)'
      BY <1>2, <1>4, <1>5 DEF Unsent
    <3> QED
      BY <1>2, <2>1, <2>2, <2>3, <3>2, <3>3, OpenRunSuffices DEF LoadInv
  <2>4. CASE ~(e = d /\ m = wf[d].run)
    <3>1. Sent(e, m)' = Sent(e, m)
      BY <1>4, <1>5, <2>4 DEF Sent
    <3>2. Unsent(e)' => Unsent(e)
      BY <1>2 DEF Unsent
    <3>3. wf[e].submissions \in Nat
      BY SubmissionsCounted DEF Inv
    <3> QED
      BY <1>2, <2>1, <2>2, <3>1, <3>2, <3>3, OpenRunSuffices DEF LoadInv
  <2> QED
    BY <2>3, <2>4
<1> QED
  BY <1>6 DEF Load

\* A submit is abandoned: its task no longer counts, and the submission is to
\* be sent again.
LEMMA AbandonedKeepsLoad ==
  ASSUME Inv, Inv', Load, SubmitAbandoned
  PROVE  Load'
<1>1. PICK s, d : s = slot /\ d = tasks[s].doc
  OBVIOUS
<1>2. /\ s \in DOMAIN tasks /\ s # NoTask /\ slot' = NoTask /\ UNCHANGED wf
      /\ tasks' = [tasks EXCEPT ![s].orphan = TRUE] /\ d \in Docs
      /\ tasks[s] \in TaskRecord
  BY <1>1, TaskTypes DEF Inv, Types, SubmitAbandoned, TaskRecord
<1>3. /\ wf[d].phase = "submitting" /\ tasks[s].run = wf[d].run
      /\ ~tasks[s].orphan
  BY <1>1, <1>2 DEF Inv, DocInv, OwnSlot
<1>4. /\ DOMAIN tasks' = DOMAIN tasks
      /\ \A t \in DOMAIN tasks : /\ tasks'[t].doc = tasks[t].doc
                                 /\ tasks'[t].run = tasks[t].run
                                 /\ t # s => tasks'[t].orphan = tasks[t].orphan
      /\ tasks'[s].orphan
  BY <1>2, TaskTypes DEF TaskRecord, Inv
<1>5. ASSUME NEW e \in Docs, NEW m \in 1 .. MaxRuns PROVE LoadInv(e, m)'
  <2>1. Cardinality(Sent(e, m)) \in Nat /\ IsFiniteSet(Sent(e, m))
    BY SentIsFinite DEF Inv
  <2>2. LoadInv(e, m) /\ wf[e].submissions \in Nat
    BY SubmissionsCounted DEF Load, Inv
  <2>3. CASE e = d /\ m = wf[d].run
    <3>1. Sent(e, m)' = Sent(e, m) \ {s} /\ s \in Sent(e, m)
      BY <1>1, <1>2, <1>3, <1>4, <2>3 DEF Sent
    <3>2. Cardinality(Sent(e, m)') = Cardinality(Sent(e, m)) - 1
      BY <2>1, <3>1, FS_RemoveElement
    <3>3. Cardinality(Sent(e, m)) <= wf[e].submissions
      BY <2>1, <2>2, <2>3 DEF LoadInv
    <3> QED
      BY <1>2, <2>1, <2>2, <2>3, <3>2, <3>3, OpenRunSuffices
  <2>4. CASE ~(e = d /\ m = wf[d].run)
    <3>1. Sent(e, m)' = Sent(e, m)
      BY <1>1, <1>2, <1>3, <1>4, <2>4 DEF Sent
    <3>2. m = wf[e].run /\ Unsent(e)' => Unsent(e)
      BY <1>1, <1>2, <2>4 DEF Unsent
    <3> QED
      BY <1>2, <2>1, <2>2, <3>1, <3>2, OpenRunSuffices DEF LoadInv
  <2> QED
    BY <2>3, <2>4
<1> QED
  BY <1>5 DEF Load

LEMMA NextKeepsLoad ==
  ASSUME Inv, Inv', Load, [Next]_vars
  PROVE  Load'
<1>1. CASE UNCHANGED vars
  <2>1. UNCHANGED wf /\ SameSent /\ slot' = slot
    BY <1>1 DEF vars, SameSent
  <2> QED
    BY <2>1, StaysQuiet, QuietKeeps DEF Load
<1>2. CASE \E d \in Docs : RunStep(d) \/ Start(d)
  <2>1. PICK d \in Docs : RunStep(d) \/ Start(d)
    BY <1>2
  <2>2. CASE SubmitLands(d)
    BY <2>2, LandingKeepsLoad
  <2>3. CASE CheckReads(d)
    <3>1. UNCHANGED wf /\ SameSent /\ slot' = slot
      BY <2>3 DEF CheckReads, SameSent
    <3> QED
      BY <3>1, StaysQuiet, QuietKeeps, <2>3 DEF Load
  <2>4. CASE ~SubmitLands(d) /\ ~CheckReads(d)
    <3>1. W!Step(d) /\ UNCHANGED <<tasks, slot>>
      <4>1. (json[d] # NoTask) \in BOOLEAN
        OBVIOUS
      <4> QED
        BY <2>1, <2>4, <4>1
        DEF RunStep, Start, SubmitRejected, Wake, TimerFires,
            CheckAnswers, CheckUnanswered, FetchOutcome, FetchRejected,
            CollectOutputs, W!Outcomes, W!Step, W!Progress
    <3>2. SameSent /\ slot' = slot
      BY <3>1 DEF SameSent
    <3> QED
      BY <3>1, <3>2, MovesQuietly, QuietKeeps DEF Load
  <2> QED
    BY <2>2, <2>3, <2>4
<1>3. CASE SubmitReturns
  <2>1. PICK s, d : s = slot /\ d = tasks[s].doc
    OBVIOUS
  <2>2. /\ s # NoTask /\ s \in Tasks /\ d \in Docs /\ slot' = NoTask
        /\ W!SubmitSucceeds(d, s) /\ UNCHANGED tasks
    BY <1>3, <2>1, TaskTypes DEF Inv, Types, SubmitReturns, TaskRecord
  <2>3. SameSent
    BY <2>2 DEF SameSent
  <2>4. \A e \in Docs :
          /\ wf'[e].run = wf[e].run
          /\ wf'[e].submissions = wf[e].submissions
          /\ IF e = d THEN wf'[e].phase = "waiting"
             ELSE wf'[e].phase = wf[e].phase
    BY <2>2 DEF W!SubmitSucceeds, Inv, WP!IInv, WP!WorkflowState
  <2>5. \A e \in Docs : Quiet(e)
    BY <2>1, <2>4 DEF Quiet, Unsent
  <2> QED
    BY <2>3, <2>5, QuietKeeps DEF Load
<1>4. CASE SubmitAbandoned
  BY <1>4, AbandonedKeepsLoad
<1>5. CASE \E t \in DOMAIN tasks : DoclingStep(t)
  <2>1. PICK t \in DOMAIN tasks : DoclingStep(t)
    BY <1>5
  <2>2. tasks[t] \in TaskRecord
    BY TaskTypes DEF Inv
  <2>3. SameSent /\ slot' = slot
    <3>1. CASE \E e \in Endings : TaskEnds(t, e)
      BY <2>2, <3>1 DEF TaskRecord, TaskEnds, SameSent
    <3>2. CASE TaskForgotten(t) \/ CallbackFails(t)
      BY <2>2, <3>2 DEF TaskRecord, TaskForgotten, CallbackFails, SameSent
    <3>3. CASE \E a \in BOOLEAN, h \in BOOLEAN, o \in Relay!SignalOutcomes :
                 CallbackArrives(t, a, o, h)
      <4>1. PICK left, acked :
              /\ tasks' = [tasks EXCEPT ![t].callbacks = left,
                                        ![t].acked = acked]
              /\ slot' = slot
        BY <3>3 DEF CallbackArrives
      <4> QED
        BY <2>2, <4>1 DEF TaskRecord, SameSent
    <3> QED
      BY <2>1, <3>1, <3>2, <3>3 DEF DoclingStep
  <2>4. CASE UNCHANGED wf
    BY <2>3, <2>4, StaysQuiet, QuietKeeps DEF Load
  <2>5. CASE ~UNCHANGED wf
    <3>1. PICK a \in BOOLEAN, h \in BOOLEAN, o \in Relay!SignalOutcomes :
            CallbackArrives(t, a, o, h)
      BY <2>1, <2>5 DEF DoclingStep, TaskEnds, TaskForgotten, CallbackFails
    <3>2. Completion(t, a).task = t /\ Completion(t, a).status = Status(t)
      BY DEF Completion
    <3>3. W!TaskCompletedSignal(tasks[t].doc, t, Status(t))
      BY <2>5, <3>1, <3>2 DEF CallbackArrives, SignalWorkflow
    <3>4. t \in Tasks /\ tasks[t].doc \in Docs /\ Status(t) \in W!TaskStatus
      BY TaskTypes DEF Inv, TaskRecord, Status, W!TaskStatus
    <3>5. W!Step(tasks[t].doc)
      BY <3>3, <3>4 DEF W!Step, W!Progress
    <3> QED
      BY <2>3, <3>4, <3>5, MovesQuietly, QuietKeeps DEF Load
  <2> QED
    BY <2>4, <2>5
<1> QED
  BY <1>1, <1>2, <1>3, <1>4, <1>5 DEF Next, Conversions

\* Over lost tasks, retried submits and earlier runs, docling-serve is given at
\* most MAX_SUBMISSIONS tasks by each run of a document, submits whose answer
\* was lost apart (workflows.py:104-120).
THEOREM LoadIsBounded == Spec => []LoadBounded
<1>1. Init => Load
  <2> SUFFICES ASSUME Init, NEW d \in Docs, NEW n \in 1 .. MaxRuns
               PROVE  LoadInv(d, n)
    BY DEF Load
  <2>1. Sent(d, n) = {} /\ Cardinality(Sent(d, n)) = 0
    BY FS_EmptySet DEF Init, Sent
  <2>2. wf[d].run = 0
    BY DEF Init, W!Init, W!FreshRun
  <2> QED
    BY <2>1, <2>2, MaxSubmissionsAssumption, MaxRunsAssumption DEF LoadInv
<1>2. Inv /\ Inv' /\ Load /\ [Next]_vars => Load'
  BY NextKeepsLoad
<1>3. Load => LoadBounded
  BY DEF Load, LoadInv, LoadBounded
<1> QED
  BY <1>1, <1>2, <1>3, Invariance, PTL DEF Spec

\* Here too each run wears out: no order of callbacks, lost tasks, submits and
\* status checks lets one go on for ever by itself (workflows.py:104-126,
\* 194-223).
THEOREM RunsWearOutHere == Spec => WP!RunsWearOut
<1>1. W!Init => WP!Init
  BY SameInit
<1>2. [W!Next]_(W!vars) => [WP!Next]_(WP!vars)
  BY SameStep DEF W!Next, WP!Next, W!vars, WP!vars
<1>3. W!Spec => WP!Spec
  BY <1>1, <1>2, PTL DEF W!Spec, WP!Spec
<1>4. WP!Spec => WP!RunsWearOut
  BY NoTaskIsNone, WP!StepsWearARunOut, MaxSubmissionsAssumption,
     MaxSafetyPollsAssumption, CheckAttemptsAssumption, MaxRunsAssumption
<1> QED
  BY <1>3, <1>4, OrchestrationImplementsWorkflow

-----------------------------------------------------------------------------
\* What no step takes back: what became of a task, and JSON under a prefix.
LEMMA NextGrows ==
  ASSUME Inv, [Next]_vars
  PROVE  Grows /\ \A d \in Docs : json[d] # NoTask => json'[d] # NoTask
<1>0. /\ \A t \in DOMAIN tasks : tasks[t] \in TaskRecord /\ t # NoTask
      /\ json \in [Docs -> {NoTask} \cup DOMAIN tasks]
  BY TaskTypes DEF Inv, Types
<1>1. CASE UNCHANGED <<tasks, json>>
  BY <1>1 DEF Grows
<1>2. CASE \E d \in Docs : SubmitLands(d)
  <2>1. PICK d \in Docs : SubmitLands(d)
    BY <1>2
  <2>2. \A t \in DOMAIN tasks : t \in DOMAIN tasks' /\ tasks'[t] = tasks[t]
    <3>1. tasks \in Seq(TaskRecord) /\ tasks' = Append(tasks, Accepted(d))
      BY <2>1 DEF Inv, Types, SubmitLands
    <3> QED
      BY <3>1
  <2> QED
    BY <2>1, <2>2 DEF SubmitLands, Grows
<1>3. CASE SubmitAbandoned
  <2>1. slot \in DOMAIN tasks
    BY <1>3 DEF Inv, Types, SubmitAbandoned
  <2> QED
    BY <1>0, <1>3, <2>1 DEF SubmitAbandoned, Grows, Ended, TaskRecord
<1>4. ASSUME NEW t \in DOMAIN tasks, NEW e \in Endings, TaskEnds(t, e)
      PROVE  Grows /\ \A d \in Docs : json[d] # NoTask => json'[d] # NoTask
  <2>1. ~Ended(t)
    BY <1>4 DEF TaskEnds, Ended, Endings
  <2>2. Grows
    BY <1>0, <1>4, <2>1 DEF TaskEnds, Grows, TaskRecord
  <2>3. \A d \in Docs : json[d] # NoTask => json'[d] # NoTask
    BY <1>0, <1>4 DEF TaskEnds
  <2> QED
    BY <2>2, <2>3
<1>5. ASSUME NEW t \in DOMAIN tasks, TaskForgotten(t) \/ CallbackFails(t)
      PROVE  Grows /\ json' = json
  BY <1>0, <1>5 DEF TaskForgotten, CallbackFails, Grows, TaskRecord
<1>6. ASSUME NEW t \in DOMAIN tasks, NEW a, NEW o, NEW h,
             CallbackArrives(t, a, o, h)
      PROVE  Grows /\ json' = json
  <2>1. PICK left, acked :
          /\ tasks' = [tasks EXCEPT ![t].callbacks = left, ![t].acked = acked]
          /\ json' = json
    BY <1>6 DEF CallbackArrives
  <2> QED
    BY <1>0, <2>1 DEF Grows, TaskRecord
<1>7. CASE \E t \in DOMAIN tasks : DoclingStep(t)
  BY <1>4, <1>5, <1>6, <1>7 DEF DoclingStep
<1>8. CASE \E d \in Docs : Start(d) \/ (RunStep(d) /\ ~SubmitLands(d))
  BY <1>1, <1>8
  DEF Start, RunStep, SubmitRejected, Wake, TimerFires, CheckReads,
      CheckAnswers, CheckUnanswered, FetchOutcome, FetchRejected,
      CollectOutputs
<1>9. CASE SubmitReturns \/ UNCHANGED vars
  BY <1>1, <1>9 DEF SubmitReturns, vars
<1> QED
  BY <1>2, <1>3, <1>7, <1>8, <1>9 DEF Next, Conversions
=============================================================================
