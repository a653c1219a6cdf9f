------------------------ MODULE ConvertWorkflowProofs ------------------------
(***************************************************************************)
(* Proofs about ConvertWorkflow, for any documents, task ids and budgets.  *)
(*                                                                         *)
(* The invariants are inductive only together with what a run must hold at *)
(* each await: RunInv says it of one workflow, and no step touches more    *)
(* than one.                                                               *)
(***************************************************************************)
EXTENDS ConvertWorkflow, WellFoundedInduction, TLAPS

\* Safety polls so far are at most one budget per earlier submission, plus
\* what the current one has used; written without subtraction.
Spent(r) ==
  r.phase # "idle" =>
    r.safetyPolls + PollBudget <=
      Allowance(r.submissions) + (IF r.phase = "submitting" THEN 0 ELSE r.polls)

RunInv(r) ==
  /\ r.submissions <= MaxSubmissions
  /\ r.polls <= PollBudget
  /\ r.attempt <= CheckAttempts
  /\ r.phase = "idle" => r.safetyPolls = 0 /\ r.submissions = 0
  /\ r.phase # "closed" => r.verdict = NoVerdict
  /\ r.phase = "waiting" => r.polls < PollBudget
  /\ r.phase = "checking" => r.polls >= 1
  /\ Spent(r)
  /\ r.verdict = "TaskLost" => r.submissions = MaxSubmissions
  /\ r.verdict = "PollBudgetExhausted" => r.polls = PollBudget

IInv ==
  /\ wf \in [Docs -> WorkflowState]
  /\ \A d \in Docs : RunInv(wf[d])

-----------------------------------------------------------------------------
\* The budget is what the polling loop compares against, never below one.
LEMMA PollBudgetType ==
  /\ PollBudget \in Nat /\ PollBudget >= 1
  /\ \A p \in Nat : p >= 1 /\ p <= PollBudget /\ p >= MaxSafetyPolls
                      => p = PollBudget
  /\ \A p \in Nat : p <= PollBudget /\ ~(p >= MaxSafetyPolls) => p < PollBudget
BY MaxSafetyPollsAssumption DEF PollBudget

\* The first submission buys one budget of polls, and so does each other.
LEMMA OneMoreBudget ==
  /\ Allowance(0) = 0 /\ Allowance(1) = PollBudget
  /\ \A s \in Nat : /\ Allowance(s) \in Nat
                    /\ Allowance(s + 1) = Allowance(s) + PollBudget
<1> SUFFICES ASSUME NEW s \in Nat
             PROVE  /\ 0 * PollBudget = 0 /\ 1 * PollBudget = PollBudget
                    /\ s * PollBudget \in Nat
                    /\ (s + 1) * PollBudget = s * PollBudget + PollBudget
  BY DEF Allowance
<1> DEFINE b == PollBudget
<1>1. b \in Nat
  BY PollBudgetType
<1> HIDE DEF b
<1>2. /\ 0 * b = 0 /\ 1 * b = b
      /\ s * b \in Nat /\ (s + 1) * b = s * b + b
  BY <1>1
<1> QED
  BY <1>2 DEF b

\* A step that replaces the workflow of one document by one that is good
\* again keeps the invariant.
LEMMA OneWorkflowMoves ==
  ASSUME IInv, NEW d \in Docs, NEW r,
         wf' = [wf EXCEPT ![d] = r], r \in WorkflowState, RunInv(r)
  PROVE  IInv'
BY DEF IInv, RunInv, Spent

\* Ending an open run keeps the invariant when the verdict is one the run has
\* earned.
LEMMA CloseKeeps ==
  ASSUME IInv, NEW d \in Docs, NEW v \in Verdicts, Open(d), Close(d, v),
         v = "TaskLost" => wf[d].submissions = MaxSubmissions,
         v = "PollBudgetExhausted" => wf[d].polls = PollBudget
  PROVE  IInv'
<1> DEFINE r == [wf[d] EXCEPT !.phase = "closed", !.verdict = v]
<1>1. wf[d] \in WorkflowState /\ RunInv(wf[d])
  BY DEF IInv
<1>2. r \in WorkflowState
  BY <1>1 DEF WorkflowState
<1>3. RunInv(r)
  BY <1>1, PollBudgetType, OneMoreBudget
  DEF RunInv, Spent, WorkflowState, Open, OpenPhases
<1>4. wf' = [wf EXCEPT ![d] = r]
  BY DEF Close
<1> QED
  BY <1>2, <1>3, <1>4, OneWorkflowMoves

\* So does moving on, from wherever _wait_until_terminal returns.
LEMMA TerminalKeeps ==
  ASSUME IInv, NEW d \in Docs, NEW status, Terminal(d, status),
         wf[d].phase \in {"waiting", "checking"}
  PROVE  IInv'
<1>1. CASE status = "failure"
  BY <1>1, CloseKeeps DEF Terminal, Open, OpenPhases, Verdicts
<1>2. CASE status # "failure"
  <2> DEFINE r == [wf[d] EXCEPT !.phase = "fetching"]
  <2>1. wf[d] \in WorkflowState /\ RunInv(wf[d])
    BY DEF IInv
  <2>2. r \in WorkflowState
    BY <2>1 DEF WorkflowState, OpenPhases
  <2>3. RunInv(r)
    BY <2>1 DEF RunInv, Spent, WorkflowState
  <2>4. wf' = [wf EXCEPT ![d] = r]
    BY <1>2 DEF Terminal
  <2> QED
    BY <2>2, <2>3, <2>4, OneWorkflowMoves
<1> QED
  BY <1>1, <1>2

\* A poll that settled nothing either spends the last of the budget or leaves
\* some of it.
LEMMA StillInProgressKeeps ==
  ASSUME IInv, NEW d \in Docs, StillInProgress(d), wf[d].phase = "checking"
  PROVE  IInv'
<1>1. wf[d] \in WorkflowState /\ RunInv(wf[d])
  BY DEF IInv
<1>2. wf[d].polls \in Nat /\ wf[d].polls >= 1 /\ wf[d].polls <= PollBudget
  BY <1>1 DEF RunInv, WorkflowState
<1>3. CASE wf[d].polls >= MaxSafetyPolls
  <2>1. wf[d].polls = PollBudget
    BY <1>2, <1>3, PollBudgetType
  <2>2. Close(d, "PollBudgetExhausted")
    BY <1>3 DEF StillInProgress
  <2> QED
    BY <2>1, <2>2, CloseKeeps DEF Open, OpenPhases, Verdicts
<1>4. CASE ~(wf[d].polls >= MaxSafetyPolls)
  <2> DEFINE r == [wf[d] EXCEPT !.phase = "waiting"]
  <2>1. wf[d].polls < PollBudget
    BY <1>2, <1>4, PollBudgetType
  <2>2. r \in WorkflowState
    BY <1>1 DEF WorkflowState, OpenPhases
  <2>3. RunInv(r)
    BY <1>1, <2>1 DEF RunInv, Spent, WorkflowState
  <2>4. wf' = [wf EXCEPT ![d] = r]
    BY <1>4 DEF StillInProgress
  <2> QED
    BY <2>2, <2>3, <2>4, OneWorkflowMoves
<1> QED
  BY <1>3, <1>4

-----------------------------------------------------------------------------
\* The invariant holds before any run and every step keeps it.
LEMMA InitEstablishes == Init => IInv
<1> SUFFICES ASSUME Init PROVE IInv
  OBVIOUS
<1> DEFINE r == FreshRun(0, "idle", 0)
<1>1. r \in WorkflowState
  BY MaxRunsAssumption DEF FreshRun, WorkflowState
<1>2. RunInv(r)
  BY PollBudgetType, MaxSubmissionsAssumption, CheckAttemptsAssumption
  DEF RunInv, Spent, FreshRun, NoVerdict
<1> QED
  BY <1>1, <1>2 DEF Init, IInv

LEMMA StepKeeps ==
  ASSUME IInv, NEW d \in Docs, Step(d)
  PROVE  IInv'
<1>0. /\ wf[d] \in WorkflowState /\ RunInv(wf[d])
      /\ Allowance(wf[d].submissions) \in Nat
      /\ PollBudget \in Nat /\ PollBudget >= 1
  <2>1. wf[d] \in WorkflowState /\ RunInv(wf[d])
    BY DEF IInv
  <2> QED
    BY <2>1, PollBudgetType, OneMoreBudget DEF WorkflowState
<1>1. CASE Start(d)
  <2> DEFINE r == FreshRun(wf[d].run + 1, "submitting", 1)
  <2>1. wf[d].run + 1 \in 0 .. MaxRuns
    BY <1>0, <1>1, MaxRunsAssumption DEF Start, WorkflowState
  <2>2. r \in WorkflowState
    BY <2>1 DEF FreshRun, WorkflowState, OpenPhases
  <2>3. RunInv(r)
    <3>1. ASSUME NEW q, q.phase = "submitting", q.verdict = NoVerdict,
                 q.submissions = 1, q.polls = 0, q.safetyPolls = 0,
                 q.attempt = 0
          PROVE  RunInv(q)
      <4>1. Allowance(1) = PollBudget
        BY OneMoreBudget
      <4>2. 1 <= MaxSubmissions /\ 0 <= CheckAttempts
        BY MaxSubmissionsAssumption, CheckAttemptsAssumption
      <4>3. PollBudget \in Nat /\ 0 <= PollBudget /\ PollBudget <= PollBudget
        BY PollBudgetType
      <4> QED
        BY <3>1, <4>1, <4>2, <4>3 DEF RunInv, Spent, NoVerdict
    <3> QED
      BY <3>1 DEF FreshRun
  <2>4. wf' = [wf EXCEPT ![d] = r]
    BY <1>1 DEF Start
  <2> QED
    BY <2>2, <2>3, <2>4, OneWorkflowMoves
<1>2. CASE \E t \in Tasks : SubmitSucceeds(d, t)
  <2>1. PICK t \in Tasks : SubmitSucceeds(d, t)
    BY <1>2
  <2> DEFINE r == [wf[d] EXCEPT !.phase = "waiting", !.task = t, !.polls = 0]
  <2>2. r \in WorkflowState
    BY <1>0 DEF WorkflowState, OpenPhases
  <2>3. RunInv(r)
    <3>1. wf[d].phase = "submitting" /\ wf[d].verdict = NoVerdict
      BY <1>0, <2>1 DEF RunInv, SubmitSucceeds
    <3>2. r.verdict = NoVerdict
      BY <1>0, <3>1 DEF WorkflowState
    <3> QED
      BY <1>0, <3>1 DEF RunInv, Spent, WorkflowState, NoVerdict
  <2>4. wf' = [wf EXCEPT ![d] = r]
    BY <2>1 DEF SubmitSucceeds
  <2> QED
    BY <2>2, <2>3, <2>4, OneWorkflowMoves
<1>3. CASE SubmitRejected(d)
  BY <1>3, CloseKeeps DEF SubmitRejected, Open, OpenPhases, Verdicts
<1>4. CASE \E t \in Tasks, s \in TaskStatus : TaskCompletedSignal(d, t, s)
  <2>1. PICK t \in Tasks, s \in TaskStatus : TaskCompletedSignal(d, t, s)
    BY <1>4
  <2> DEFINE c == [wf[d].completed EXCEPT ![t] = IF @ = NoStatus THEN s ELSE @]
             r == [wf[d] EXCEPT !.completed = c]
  <2>2. c \in [Tasks -> TaskStatus \cup {NoStatus}]
    BY <1>0 DEF WorkflowState
  <2>3. r \in WorkflowState
    BY <1>0, <2>2 DEF WorkflowState
  <2>4. RunInv(r)
    BY <1>0 DEF RunInv, Spent, WorkflowState
  <2>5. wf' = [wf EXCEPT ![d] = r]
    BY <2>1 DEF TaskCompletedSignal
  <2> QED
    BY <2>3, <2>4, <2>5, OneWorkflowMoves
<1>5. CASE Wake(d)
  BY <1>5, TerminalKeeps DEF Wake
<1>6. CASE TimerFires(d)
  <2> DEFINE r == [wf[d] EXCEPT !.phase = "checking", !.polls = @ + 1,
                                !.safetyPolls = @ + 1, !.attempt = 1]
  <2>1. r \in WorkflowState
    <3>1. /\ wf[d].polls + 1 \in Nat /\ wf[d].safetyPolls + 1 \in Nat
          /\ 1 \in Nat /\ "checking" \in OpenPhases \cup {"idle", "closed"}
      BY <1>0 DEF WorkflowState, OpenPhases
    <3> QED
      BY <1>0, <3>1 DEF WorkflowState
  <2>2. RunInv(r)
    BY <1>0, <1>6, CheckAttemptsAssumption
    DEF RunInv, Spent, WorkflowState, TimerFires
  <2>3. wf' = [wf EXCEPT ![d] = r]
    BY <1>6 DEF TimerFires
  <2> QED
    BY <2>1, <2>2, <2>3, OneWorkflowMoves
<1>7. CASE \E s \in TaskStatus : CheckTerminal(d, s)
  BY <1>7, TerminalKeeps DEF CheckTerminal
<1>8. CASE CheckInProgress(d)
  BY <1>8, StillInProgressKeeps DEF CheckInProgress
<1>9. CASE CheckLost(d)
  <2>1. CASE wf[d].submissions >= MaxSubmissions
    <3>1. wf[d].submissions = MaxSubmissions
      BY <1>0, <2>1, MaxSubmissionsAssumption DEF RunInv, WorkflowState
    <3> QED
      BY <1>9, <2>1, <3>1, CloseKeeps DEF CheckLost, Open, OpenPhases, Verdicts
  <2>2. CASE ~(wf[d].submissions >= MaxSubmissions)
    <3> DEFINE r == [wf[d] EXCEPT !.phase = "submitting", !.submissions = @ + 1]
    <3>1. r \in WorkflowState
      <4>1. /\ wf[d].submissions + 1 \in Nat
            /\ "submitting" \in OpenPhases \cup {"idle", "closed"}
        BY <1>0 DEF WorkflowState, OpenPhases
      <4> QED
        BY <1>0, <4>1 DEF WorkflowState
    <3>2. Allowance(wf[d].submissions + 1)
            = Allowance(wf[d].submissions) + PollBudget
      BY <1>0, OneMoreBudget DEF WorkflowState
    <3>3. RunInv(r)
      BY <1>0, <1>9, <2>2, <3>2, MaxSubmissionsAssumption
      DEF RunInv, Spent, WorkflowState, CheckLost
    <3>4. wf' = [wf EXCEPT ![d] = r]
      BY <1>9, <2>2 DEF CheckLost
    <3> QED
      BY <3>1, <3>3, <3>4, OneWorkflowMoves
  <2> QED
    BY <2>1, <2>2
<1>10. CASE CheckUnanswered(d)
  <2>1. CASE wf[d].attempt < CheckAttempts
    <3> DEFINE r == [wf[d] EXCEPT !.attempt = @ + 1]
    <3>1. r \in WorkflowState
      BY <1>0 DEF WorkflowState
    <3>2. RunInv(r)
      BY <1>0, <2>1, CheckAttemptsAssumption DEF RunInv, Spent, WorkflowState
    <3>3. wf' = [wf EXCEPT ![d] = r]
      BY <1>10, <2>1 DEF CheckUnanswered
    <3> QED
      BY <3>1, <3>2, <3>3, OneWorkflowMoves
  <2>2. CASE ~(wf[d].attempt < CheckAttempts)
    BY <1>10, <2>2, StillInProgressKeeps DEF CheckUnanswered
  <2> QED
    BY <2>1, <2>2
<1>11. CASE CheckRejected(d)
  BY <1>11, StillInProgressKeeps DEF CheckRejected
<1>12. CASE \E o \in Outcomes : FetchOutcome(d, o)
  <2>1. PICK o \in Outcomes : FetchOutcome(d, o)
    BY <1>12
  <2>2. CASE o = "nothing"
    BY <2>1, <2>2, CloseKeeps DEF FetchOutcome, Open, OpenPhases, Verdicts
  <2>3. CASE o # "nothing"
    <3> DEFINE r == [wf[d] EXCEPT !.phase = "collecting"]
    <3>1. r \in WorkflowState
      BY <1>0 DEF WorkflowState, OpenPhases
    <3>2. RunInv(r)
      BY <1>0, <2>1 DEF RunInv, Spent, WorkflowState, FetchOutcome
    <3>3. wf' = [wf EXCEPT ![d] = r]
      BY <2>1, <2>3 DEF FetchOutcome
    <3> QED
      BY <3>1, <3>2, <3>3, OneWorkflowMoves
  <2> QED
    BY <2>2, <2>3
<1>13. CASE FetchRejected(d)
  BY <1>13, CloseKeeps DEF FetchRejected, Open, OpenPhases, Verdicts
<1>14. CASE \E j \in BOOLEAN : CollectOutputs(d, j)
  BY <1>14, CloseKeeps DEF CollectOutputs, Open, OpenPhases, Verdicts
<1> QED
  BY <1>1, <1>2, <1>3, <1>4, <1>5, <1>6, <1>7, <1>8, <1>9, <1>10, <1>11,
     <1>12, <1>13, <1>14 DEF Step, Progress

LEMMA Invariance == Spec => []IInv
<1>1. IInv /\ [Next]_vars => IInv'
  <2> SUFFICES ASSUME IInv, [Next]_vars PROVE IInv'
    OBVIOUS
  <2>1. CASE Next
    BY <2>1, StepKeeps DEF Next
  <2>2. CASE UNCHANGED vars
    BY <2>2 DEF vars, IInv, RunInv, Spent
  <2> QED
    BY <2>1, <2>2
<1> QED
  BY <1>1, InitEstablishes, PTL DEF Spec

-----------------------------------------------------------------------------
\* Every field keeps its type and no check outlives its retry policy.
THEOREM TypeCorrect == Spec => []TypeOK
<1>1. IInv => TypeOK
  BY DEF IInv, RunInv, TypeOK
<1> QED
  BY <1>1, Invariance, PTL

\* No run submits its document more than MAX_SUBMISSIONS times, and one that
\* fails as TaskLost has used every submission (workflows.py:104-120).
THEOREM SubmissionsAreBounded == Spec => []SubmissionsBounded
<1>1. IInv => SubmissionsBounded
  BY DEF IInv, RunInv, SubmissionsBounded
<1> QED
  BY <1>1, Invariance, PTL

\* The safety polls of a whole run never exceed one budget per submission,
\* for any budget and any number of lost tasks (workflows.py:206-217).
THEOREM PollsAreBounded == Spec => []PollsBounded
<1>1. IInv => PollsBounded
  <2> SUFFICES ASSUME IInv, NEW d \in Docs
               PROVE  /\ wf[d].polls <= PollBudget
                      /\ wf[d].safetyPolls <= Allowance(wf[d].submissions)
    BY DEF PollsBounded
  <2>1. wf[d] \in WorkflowState /\ RunInv(wf[d])
    BY DEF IInv
  <2>2. /\ Allowance(wf[d].submissions) \in Nat /\ PollBudget \in Nat
        /\ wf[d].polls \in Nat /\ wf[d].safetyPolls \in Nat
    BY <2>1, PollBudgetType, OneMoreBudget DEF WorkflowState
  <2>3. wf[d].polls <= PollBudget /\ Spent(wf[d])
    BY <2>1 DEF RunInv
  <2>4. CASE wf[d].phase = "idle"
    BY <2>1, <2>2, <2>3, <2>4 DEF RunInv
  <2>5. CASE wf[d].phase # "idle"
    BY <2>2, <2>3, <2>5 DEF Spent
  <2> QED
    BY <2>4, <2>5
<1> QED
  BY <1>1, Invariance, PTL

\* A run gives up on a task only with the whole budget of that submission
\* spent on it (workflows.py:193, 217).
THEOREM GivingUpIsEarned == Spec => []GivesUpOnlyWhenSpent
<1>1. IInv => GivesUpOnlyWhenSpent
  BY DEF IInv, RunInv, GivesUpOnlyWhenSpent
<1> QED
  BY <1>1, Invariance, PTL

\* Once a run was told how a task ended, only a new run of the document can
\* hold anything else about it (workflows.py:82, 92).
THEOREM FirstReportStands == Spec => FirstReportWins
<1> DEFINE Stands == \A d \in Docs, t \in Tasks :
             wf[d].completed[t] # NoStatus =>
               \/ wf'[d].completed[t] = wf[d].completed[t]
               \/ wf'[d].run = wf[d].run + 1
<1>1. IInv /\ [Next]_vars => Stands \/ UNCHANGED vars
  <2> SUFFICES ASSUME IInv, NEW e \in Docs, Step(e),
                      NEW d \in Docs, NEW t \in Tasks,
                      wf[d].completed[t] # NoStatus
               PROVE  \/ wf'[d].completed[t] = wf[d].completed[t]
                      \/ wf'[d].run = wf[d].run + 1
    BY DEF Next
  <2>1. wf \in [Docs -> WorkflowState] /\ wf[e] \in WorkflowState
    BY DEF IInv
  <2>2. CASE Start(e)
    <3>1. FreshRun(wf[e].run + 1, "submitting", 1).run = wf[e].run + 1
      BY DEF FreshRun
    <3>2. wf' = [wf EXCEPT ![e] = FreshRun(wf[e].run + 1, "submitting", 1)]
      BY <2>2 DEF Start
    <3> QED
      BY <2>1, <3>1, <3>2
  <2>3. CASE \E u \in Tasks, s \in TaskStatus : TaskCompletedSignal(e, u, s)
    BY <2>1, <2>3 DEF TaskCompletedSignal, WorkflowState
  <2> DEFINE Kept == wf'[d].completed = wf[d].completed
  <2>4. ASSUME NEW v, Close(e, v) PROVE Kept
    BY <2>1, <2>4 DEF Close, WorkflowState
  <2>5. ASSUME NEW s, Terminal(e, s) PROVE Kept
    BY <2>1, <2>4, <2>5 DEF Terminal, WorkflowState
  <2>6. ASSUME StillInProgress(e) PROVE Kept
    BY <2>1, <2>4, <2>6 DEF StillInProgress, WorkflowState
  <2>7. CASE \E u \in Tasks : SubmitSucceeds(e, u)
    BY <2>1, <2>7 DEF SubmitSucceeds, WorkflowState
  <2>8. CASE TimerFires(e)
    BY <2>1, <2>8 DEF TimerFires, WorkflowState
  <2>9. CASE CheckLost(e)
    BY <2>1, <2>4, <2>9 DEF CheckLost, WorkflowState
  <2>10. CASE CheckUnanswered(e)
    BY <2>1, <2>6, <2>10 DEF CheckUnanswered, WorkflowState
  <2>11. CASE \E o \in Outcomes : FetchOutcome(e, o)
    BY <2>1, <2>4, <2>11 DEF FetchOutcome, WorkflowState
  <2>12. CASE SubmitRejected(e) \/ FetchRejected(e)
              \/ \E j \in BOOLEAN : CollectOutputs(e, j)
    BY <2>4, <2>12 DEF SubmitRejected, FetchRejected, CollectOutputs
  <2>13. CASE Wake(e) \/ \E s \in TaskStatus : CheckTerminal(e, s)
    BY <2>5, <2>13 DEF Wake, CheckTerminal
  <2>14. CASE CheckInProgress(e) \/ CheckRejected(e)
    BY <2>6, <2>14 DEF CheckInProgress, CheckRejected
  <2> QED
    BY <2>2, <2>3, <2>7, <2>8, <2>9, <2>10, <2>11, <2>12, <2>13, <2>14
    DEF Step, Progress
<1> QED
  BY <1>1, Invariance, PTL DEF Spec, FirstReportWins

-----------------------------------------------------------------------------
\* What a run has left.

\* Nothing is left in debt, as long as the budgets are kept.
LEMMA LeftIsNatural ==
  ASSUME NEW r \in WorkflowState, RunInv(r)
  PROVE  \A i \in 1 .. 4 : Left(r)[i] \in Nat
<1>1. MaxSubmissions - r.submissions \in Nat
  BY MaxSubmissionsAssumption DEF RunInv, WorkflowState
<1>2. Ahead[r.phase] \in Nat
  BY DEF WorkflowState, OpenPhases, Ahead
<1>3. 2 * (PollBudget - r.polls) + (IF r.phase = "checking" THEN 1 ELSE 0) \in Nat
  BY PollBudgetType DEF RunInv, WorkflowState
<1>4. CheckAttempts - r.attempt \in Nat
  BY CheckAttemptsAssumption DEF RunInv, WorkflowState
<1> QED
  BY <1>1, <1>2, <1>3, <1>4 DEF Left

\* Below, place by place.
First4(a, b) ==
  \/ a[1] < b[1]
  \/ a[1] = b[1] /\ a[2] < b[2]
  \/ a[1] = b[1] /\ a[2] = b[2] /\ a[3] < b[3]
  \/ a[1] = b[1] /\ a[2] = b[2] /\ a[3] = b[3] /\ a[4] < b[4]

LEMMA FirstIsBelow ==
  ASSUME NEW a, NEW b, \A i \in 1 .. 4 : a[i] \in Nat, First4(a, b)
  PROVE  Below(a, b)
<1> DEFINE At(i) == a[i] < b[i] /\ \A j \in 1 .. i - 1 : a[j] = b[j]
<1>1. ASSUME NEW i \in 1 .. 4, At(i) PROVE Below(a, b)
  BY <1>1 DEF Below
<1>2. CASE a[1] < b[1]
  <2>1. At(1)
    BY <1>2
  <2> QED
    BY <1>1, <2>1
<1>3. CASE a[1] = b[1] /\ a[2] < b[2]
  <2>1. At(2)
    <3>1. \A j \in 1 .. 2 - 1 : j = 1
      OBVIOUS
    <3> QED
      BY <1>3, <3>1
  <2> QED
    BY <1>1, <2>1
<1>4. CASE a[1] = b[1] /\ a[2] = b[2] /\ a[3] < b[3]
  <2>1. At(3)
    <3>1. \A j \in 1 .. 3 - 1 : j = 1 \/ j = 2
      OBVIOUS
    <3> QED
      BY <1>4, <3>1
  <2> QED
    BY <1>1, <2>1
<1>5. CASE a[1] = b[1] /\ a[2] = b[2] /\ a[3] = b[3] /\ a[4] < b[4]
  <2>1. At(4)
    <3>1. \A j \in 1 .. 4 - 1 : j = 1 \/ j = 2 \/ j = 3
      OBVIOUS
    <3> QED
      BY <1>5, <3>1
  <2> QED
    BY <1>1, <2>1
<1> QED
  BY <1>2, <1>3, <1>4, <1>5 DEF First4

\* The four ways a step of run r to s may leave less.
Lessens(r, s) ==
  \/ r.submissions < s.submissions
  \/ /\ s.submissions = r.submissions
     /\ \/ Ahead[s.phase] < Ahead[r.phase]
        \/ r.phase = "waiting" /\ s.phase = "checking" /\ r.polls < s.polls
        \/ r.phase = "checking" /\ s.phase = "waiting" /\ s.polls = r.polls
        \/ /\ s.phase = r.phase /\ s.polls = r.polls
           /\ r.attempt < s.attempt

LEMMA LessensIsBelow ==
  ASSUME NEW r \in WorkflowState, NEW s \in WorkflowState,
         RunInv(r), RunInv(s), Lessens(r, s)
  PROVE  Below(Left(s), Left(r))
<1> DEFINE a == Left(s)
           b == Left(r)
<1>0. /\ PollBudget \in Nat /\ MaxSubmissions \in Nat /\ CheckAttempts \in Nat
      /\ r.submissions \in Nat /\ s.submissions \in Nat
      /\ r.polls \in Nat /\ s.polls \in Nat
      /\ r.attempt \in Nat /\ s.attempt \in Nat
      /\ Ahead[r.phase] \in Nat /\ Ahead[s.phase] \in Nat
  BY PollBudgetType, MaxSubmissionsAssumption, CheckAttemptsAssumption
  DEF WorkflowState, OpenPhases, Ahead
<1>1. \A i \in 1 .. 4 : a[i] \in Nat
  BY LeftIsNatural
<1>2. SUFFICES First4(a, b)
  BY <1>1, FirstIsBelow
<1>3. CASE r.submissions < s.submissions
  BY <1>0, <1>3 DEF Left, First4
<1>4. CASE s.submissions = r.submissions /\ Ahead[s.phase] < Ahead[r.phase]
  BY <1>0, <1>4 DEF Left, First4
<1>5. CASE /\ s.submissions = r.submissions /\ r.phase = "waiting"
           /\ s.phase = "checking" /\ r.polls < s.polls
  BY <1>0, <1>5 DEF Left, Ahead, First4
<1>6. CASE /\ s.submissions = r.submissions /\ r.phase = "checking"
           /\ s.phase = "waiting" /\ s.polls = r.polls
  BY <1>0, <1>6 DEF Left, Ahead, First4
<1>7. CASE /\ s.submissions = r.submissions /\ s.phase = r.phase
           /\ s.polls = r.polls /\ r.attempt < s.attempt
  BY <1>0, <1>7 DEF Left, First4
<1> QED
  BY <1>3, <1>4, <1>5, <1>6, <1>7 DEF Lessens

\* A run that ends, or goes to the outcome, or back to sleep, lessens.
LEMMA ClosingLessens ==
  ASSUME IInv, NEW d \in Docs, NEW v, Close(d, v), Open(d)
  PROVE  Lessens(wf[d], wf'[d])
BY DEF IInv, WorkflowState, Close, Open, OpenPhases, Lessens, Ahead

LEMMA TerminalLessens ==
  ASSUME IInv, NEW d \in Docs, NEW status, Terminal(d, status),
         wf[d].phase \in {"waiting", "checking"}
  PROVE  Lessens(wf[d], wf'[d])
<1>1. CASE status = "failure"
  BY <1>1, ClosingLessens DEF Terminal, Open, OpenPhases
<1>2. CASE status # "failure"
  BY <1>2 DEF IInv, WorkflowState, Terminal, Lessens, Ahead
<1> QED
  BY <1>1, <1>2

LEMMA SleepingLessens ==
  ASSUME IInv, NEW d \in Docs, StillInProgress(d), wf[d].phase = "checking"
  PROVE  Lessens(wf[d], wf'[d])
<1>1. CASE wf[d].polls >= MaxSafetyPolls
  BY <1>1, ClosingLessens DEF StillInProgress, Open, OpenPhases
<1>2. CASE ~(wf[d].polls >= MaxSafetyPolls)
  BY <1>2 DEF IInv, WorkflowState, StillInProgress, Lessens, Ahead
<1> QED
  BY <1>1, <1>2

LEMMA StepLessens ==
  ASSUME IInv, NEW d \in Docs, Open(d), Step(d)
  PROVE  \/ wf'[d] = [wf[d] EXCEPT !.completed = wf'[d].completed]
         \/ Lessens(wf[d], wf'[d])
<1>0. wf \in [Docs -> WorkflowState] /\ wf[d] \in WorkflowState
  BY DEF IInv
<1>1. ~Start(d)
  BY DEF Start
<1>2. CASE \E t \in Tasks : SubmitSucceeds(d, t)
  BY <1>0, <1>2 DEF SubmitSucceeds, WorkflowState, Lessens, Ahead
<1>3. CASE SubmitRejected(d)
  BY <1>3, ClosingLessens DEF SubmitRejected
<1>4. CASE \E t \in Tasks, s \in TaskStatus : TaskCompletedSignal(d, t, s)
  BY <1>0, <1>4 DEF TaskCompletedSignal, WorkflowState
<1>5. CASE Wake(d)
  BY <1>5, TerminalLessens DEF Wake
<1>6. CASE TimerFires(d)
  BY <1>0, <1>6 DEF TimerFires, WorkflowState, Lessens
<1>7. CASE \E s \in TaskStatus : CheckTerminal(d, s)
  BY <1>7, TerminalLessens DEF CheckTerminal
<1>8. CASE CheckInProgress(d) \/ CheckRejected(d)
  BY <1>8, SleepingLessens DEF CheckInProgress, CheckRejected
<1>9. CASE CheckLost(d)
  <2>1. CASE wf[d].submissions >= MaxSubmissions
    BY <1>9, <2>1, ClosingLessens DEF CheckLost
  <2>2. CASE ~(wf[d].submissions >= MaxSubmissions)
    BY <1>0, <1>9, <2>2 DEF CheckLost, WorkflowState, Lessens
  <2> QED
    BY <2>1, <2>2
<1>10. CASE CheckUnanswered(d)
  <2>1. CASE wf[d].attempt < CheckAttempts
    BY <1>0, <1>10, <2>1 DEF CheckUnanswered, WorkflowState, Lessens
  <2>2. CASE ~(wf[d].attempt < CheckAttempts)
    BY <1>10, <2>2, SleepingLessens DEF CheckUnanswered
  <2> QED
    BY <2>1, <2>2
<1>11. CASE \E o \in Outcomes : FetchOutcome(d, o)
  <2>1. PICK o \in Outcomes : FetchOutcome(d, o)
    BY <1>11
  <2>2. CASE o = "nothing"
    BY <2>1, <2>2, ClosingLessens DEF FetchOutcome
  <2>3. CASE o # "nothing"
    BY <1>0, <2>1, <2>3 DEF FetchOutcome, WorkflowState, Lessens, Ahead
  <2> QED
    BY <2>2, <2>3
<1>12. CASE FetchRejected(d) \/ \E j \in BOOLEAN : CollectOutputs(d, j)
  BY <1>12, ClosingLessens DEF FetchRejected, CollectOutputs
<1> QED
  BY <1>1, <1>2, <1>3, <1>4, <1>5, <1>6, <1>7, <1>8, <1>9, <1>10, <1>11, <1>12
  DEF Step, Progress

\* A step of one workflow leaves the others where they are.
LEMMA OthersRest ==
  ASSUME IInv, NEW d \in Docs, NEW e \in Docs, Step(e), d # e
  PROVE  wf'[d] = wf[d]
<1>0. wf \in [Docs -> WorkflowState]
  BY DEF IInv
<1>1. ASSUME NEW v, Close(e, v) PROVE wf'[d] = wf[d]
  BY <1>0, <1>1 DEF Close
<1>2. ASSUME NEW status, Terminal(e, status) PROVE wf'[d] = wf[d]
  BY <1>0, <1>1, <1>2 DEF Terminal
<1>3. ASSUME StillInProgress(e) PROVE wf'[d] = wf[d]
  BY <1>0, <1>1, <1>3 DEF StillInProgress
<1>4. CASE Start(e) \/ TimerFires(e) \/ \E t \in Tasks : SubmitSucceeds(e, t)
  BY <1>0, <1>4 DEF Start, TimerFires, SubmitSucceeds
<1>5. CASE \E t \in Tasks, s \in TaskStatus : TaskCompletedSignal(e, t, s)
  BY <1>0, <1>5 DEF TaskCompletedSignal
<1>6. CASE \/ SubmitRejected(e) \/ FetchRejected(e)
           \/ \E j \in BOOLEAN : CollectOutputs(e, j)
  BY <1>1, <1>6 DEF SubmitRejected, FetchRejected, CollectOutputs
<1>7. CASE Wake(e) \/ \E s \in TaskStatus : CheckTerminal(e, s)
  BY <1>2, <1>7 DEF Wake, CheckTerminal
<1>8. CASE CheckInProgress(e) \/ CheckRejected(e)
  BY <1>3, <1>8 DEF CheckInProgress, CheckRejected
<1>9. CASE CheckLost(e) \/ CheckUnanswered(e)
  BY <1>0, <1>1, <1>3, <1>9 DEF CheckLost, CheckUnanswered
<1>10. CASE \E o \in Outcomes : FetchOutcome(e, o)
  BY <1>0, <1>1, <1>10 DEF FetchOutcome
<1> QED
  BY <1>4, <1>5, <1>6, <1>7, <1>8, <1>9, <1>10 DEF Step, Progress

\* Every step an open run takes by itself leaves it less to do, whatever its
\* activities answer (workflows.py:104-126, 194-223).
THEOREM StepsWearARunOut == Spec => RunsWearOut
<1> DEFINE WearsOut ==
             \A d \in Docs :
               Open(d) /\ wf'[d] # wf[d] =>
                 \/ wf'[d] = [wf[d] EXCEPT !.completed = wf'[d].completed]
                 \/ Below(Left(wf'[d]), Left(wf[d]))
<1>1. IInv /\ IInv' /\ [Next]_vars => WearsOut \/ UNCHANGED vars
  <2> SUFFICES ASSUME IInv, IInv', NEW e \in Docs, Step(e),
                      NEW d \in Docs, Open(d), wf'[d] # wf[d]
               PROVE  \/ wf'[d] = [wf[d] EXCEPT !.completed = wf'[d].completed]
                      \/ Below(Left(wf'[d]), Left(wf[d]))
    BY DEF Next
  <2>1. d = e
    BY OthersRest
  <2>2. /\ wf[d] \in WorkflowState /\ RunInv(wf[d])
        /\ wf'[d] \in WorkflowState /\ RunInv(wf'[d])
    <3>1. IInv' => wf'[d] \in WorkflowState /\ RunInv(wf'[d])
      BY DEF IInv, RunInv, Spent
    <3> QED
      BY <3>1 DEF IInv
  <2> QED
    BY <2>1, <2>2, StepLessens, LessensIsBelow
<1> QED
  BY <1>1, Invariance, PTL DEF Spec, RunsWearOut

\* And less and less cannot be left for ever: with StepsWearARunOut, no run
\* takes infinitely many steps of its own, fairness or not.
THEOREM NothingWearsOutForEver ==
  ~ \E f \in [Nat -> [1 .. 4 -> Nat]] : \A n \in Nat : Below(f[n + 1], f[n])
<1> DEFINE R == OpToRel(<, Nat)
<1>1. IsWellFoundedOn(R, Nat)
  BY NatLessThanWellFounded
<1>2. \A x, y \in Nat : x < y => <<x, y>> \in R
  BY DEF OpToRel
<1> HIDE DEF R
<1>3. IsWellFoundedOn(LexProductOrdering(R, Nat, 4), [1 .. 4 -> Nat])
  BY <1>1, WFLexProductOrdering
<1>4. ASSUME NEW a \in [1 .. 4 -> Nat], NEW b \in [1 .. 4 -> Nat], Below(a, b)
      PROVE <<a, b>> \in LexProductOrdering(R, Nat, 4)
  <2>1. PICK i \in 1 .. 4 : a[i] < b[i] /\ \A j \in 1 .. i - 1 : a[j] = b[j]
    BY <1>4 DEF Below
  <2>2. <<a[i], b[i]>> \in R
    BY <1>2, <2>1
  <2> QED
    BY <2>1, <2>2 DEF LexProductOrdering
<1>5. ASSUME NEW f \in [Nat -> [1 .. 4 -> Nat]],
             \A n \in Nat : Below(f[n + 1], f[n])
      PROVE  FALSE
  <2>1. ASSUME NEW n \in Nat
        PROVE  <<f[n + 1], f[n]>> \in LexProductOrdering(R, Nat, 4)
    <3>1. f[n + 1] \in [1 .. 4 -> Nat] /\ f[n] \in [1 .. 4 -> Nat]
      OBVIOUS
    <3> QED
      BY <1>4, <1>5, <3>1
  <2> QED
    BY <1>3, <2>1 DEF IsWellFoundedOn
<1> QED
  BY <1>5

-----------------------------------------------------------------------------
\* The contract: each step of a workflow is one of the conversion it carries
\* out, or leaves what is seen of it as it was.

\* InHand, of a workflow about to be stored.
Held(r) ==
  IF Milestone[r.phase] \in {"converting", "converted"} THEN r.task ELSE NoTask

\* What is seen of d becomes milestone m, run n, submissions s, task t and
\* verdict v; nothing else is seen to change.
Becomes(d, m, n, s, t, v) ==
  /\ [e \in Docs |-> Milestone[wf[e].phase]]' =
       [[e \in Docs |-> Milestone[wf[e].phase]] EXCEPT ![d] = m]
  /\ [e \in Docs |-> wf[e].run]' =
       [[e \in Docs |-> wf[e].run] EXCEPT ![d] = n]
  /\ [e \in Docs |-> wf[e].submissions]' =
       [[e \in Docs |-> wf[e].submissions] EXCEPT ![d] = s]
  /\ [e \in Docs |-> InHand(e)]' =
       [[e \in Docs |-> InHand(e)] EXCEPT ![d] = t]
  /\ [e \in Docs |-> wf[e].verdict]' =
       [[e \in Docs |-> wf[e].verdict] EXCEPT ![d] = v]

\* It becomes what is seen of the workflow that is stored.
LEMMA OneConversionMoves ==
  ASSUME IInv, NEW d \in Docs, NEW r, wf' = [wf EXCEPT ![d] = r],
         NEW m, NEW n, NEW s, NEW t, NEW v,
         m = Milestone[r.phase], n = r.run, s = r.submissions, t = Held(r),
         v = r.verdict
  PROVE  Becomes(d, m, n, s, t, v)
<1>1. \A e \in Docs : wf'[e] = IF e = d THEN r ELSE wf[e]
  BY DEF IInv
<1>2. \A e \in Docs : InHand(e)' = IF e = d THEN Held(r) ELSE InHand(e)
  BY <1>1 DEF InHand, Held
<1>3. [e \in Docs |-> Milestone[wf[e].phase]]' =
        [[e \in Docs |-> Milestone[wf[e].phase]] EXCEPT ![d] = Milestone[r.phase]]
  <2>1. [e \in Docs |-> Milestone[wf[e].phase]]' =
          [e \in Docs |-> IF e = d THEN Milestone[r.phase] ELSE Milestone[wf[e].phase]]
    BY <1>1
  <2> QED
    BY <2>1
<1>4. [e \in Docs |-> wf[e].run]' =
        [[e \in Docs |-> wf[e].run] EXCEPT ![d] = r.run]
  <2>1. [e \in Docs |-> wf[e].run]' =
          [e \in Docs |-> IF e = d THEN r.run ELSE wf[e].run]
    BY <1>1
  <2> QED
    BY <2>1
<1>5. [e \in Docs |-> wf[e].submissions]' =
        [[e \in Docs |-> wf[e].submissions] EXCEPT ![d] = r.submissions]
  <2>1. [e \in Docs |-> wf[e].submissions]' =
          [e \in Docs |-> IF e = d THEN r.submissions ELSE wf[e].submissions]
    BY <1>1
  <2> QED
    BY <2>1
<1>6. [e \in Docs |-> InHand(e)]' =
        [[e \in Docs |-> InHand(e)] EXCEPT ![d] = Held(r)]
  <2>1. [e \in Docs |-> InHand(e)]' =
          [e \in Docs |-> IF e = d THEN Held(r) ELSE InHand(e)]
    BY <1>2
  <2> QED
    BY <2>1
<1>7. [e \in Docs |-> wf[e].verdict]' =
        [[e \in Docs |-> wf[e].verdict] EXCEPT ![d] = r.verdict]
  <2>1. [e \in Docs |-> wf[e].verdict]' =
          [e \in Docs |-> IF e = d THEN r.verdict ELSE wf[e].verdict]
    BY <1>1
  <2> QED
    BY <2>1
<1> QED
  BY <1>3, <1>4, <1>5, <1>6, <1>7 DEF Becomes

\* A field seen to become what it was does not change.
LEMMA FieldsStay ==
  ASSUME NEW d \in Docs
  PROVE  /\ [[e \in Docs |-> Milestone[wf[e].phase]] EXCEPT ![d] = Milestone[wf[d].phase]]
              = [e \in Docs |-> Milestone[wf[e].phase]]
         /\ [[e \in Docs |-> wf[e].run] EXCEPT ![d] = wf[d].run]
              = [e \in Docs |-> wf[e].run]
         /\ [[e \in Docs |-> wf[e].submissions] EXCEPT ![d] = wf[d].submissions]
              = [e \in Docs |-> wf[e].submissions]
         /\ [[e \in Docs |-> InHand(e)] EXCEPT ![d] = InHand(d)]
              = [e \in Docs |-> InHand(e)]
         /\ [[e \in Docs |-> wf[e].verdict] EXCEPT ![d] = wf[d].verdict]
              = [e \in Docs |-> wf[e].verdict]
<1>1. [[e \in Docs |-> Milestone[wf[e].phase]] EXCEPT ![d] = Milestone[wf[d].phase]]
        = [e \in Docs |-> Milestone[wf[e].phase]]
  OBVIOUS
<1>2. [[e \in Docs |-> wf[e].run] EXCEPT ![d] = wf[d].run]
        = [e \in Docs |-> wf[e].run]
  OBVIOUS
<1>3. [[e \in Docs |-> wf[e].submissions] EXCEPT ![d] = wf[d].submissions]
        = [e \in Docs |-> wf[e].submissions]
  OBVIOUS
<1>4. [[e \in Docs |-> InHand(e)] EXCEPT ![d] = InHand(d)]
        = [e \in Docs |-> InHand(e)]
  OBVIOUS
<1>5. [[e \in Docs |-> wf[e].verdict] EXCEPT ![d] = wf[d].verdict]
        = [e \in Docs |-> wf[e].verdict]
  OBVIOUS
<1> QED
  BY <1>1, <1>2, <1>3, <1>4, <1>5

\* A move that changes nothing of it is not seen.
LEMMA UnseenMove ==
  ASSUME IInv, NEW d \in Docs, NEW r, wf' = [wf EXCEPT ![d] = r],
         Milestone[r.phase] = Milestone[wf[d].phase], r.run = wf[d].run,
         r.submissions = wf[d].submissions, r.verdict = wf[d].verdict,
         r.task = wf[d].task
  PROVE  UNCHANGED C!vars
<1>0. PICK t, v : t = InHand(d) /\ v = wf[d].verdict
  OBVIOUS
<1>1. Held(r) = t /\ r.verdict = v
  BY <1>0 DEF Held, InHand
<1>2. Becomes(d, Milestone[wf[d].phase], wf[d].run, wf[d].submissions, t, v)
  BY <1>1, OneConversionMoves
<1> QED
  BY <1>0, <1>2, FieldsStay DEF Becomes, C!vars

\* Closing an open run concludes its conversion, with a verdict its milestone
\* allows.
LEMMA CloseConcludes ==
  ASSUME IInv, NEW d \in Docs, NEW v, Close(d, v), Open(d),
         v \in C!Endings[Milestone[wf[d].phase]],
         v = "TaskLost" => wf[d].submissions >= MaxSubmissions
  PROVE  C!Step(d)
<1> DEFINE r == [wf[d] EXCEPT !.phase = "closed", !.verdict = v]
<1>1. wf[d] \in WorkflowState
  BY DEF IInv
<1>2. /\ r.phase = "closed" /\ r.verdict = v
      /\ r.run = wf[d].run /\ r.submissions = wf[d].submissions
  BY <1>1 DEF WorkflowState
<1>3. wf' = [wf EXCEPT ![d] = r]
  BY DEF Close
<1> HIDE DEF r
<1>4. /\ Milestone[r.phase] = "closed" /\ Held(r) = NoTask
      /\ Milestone[wf[d].phase] \in DOMAIN C!Endings
  BY <1>2 DEF Open, OpenPhases, Milestone, C!Endings, Held
<1>5. Becomes(d, "closed", wf[d].run, wf[d].submissions, NoTask, v)
  BY <1>2, <1>3, <1>4, OneConversionMoves
<1>6. v = "TaskLost" => C!Spent(d)
  BY DEF C!Spent
<1>7. C!Conclude(d, v)
  BY <1>4, <1>5, <1>6, FieldsStay DEF C!Conclude, Becomes
<1> QED
  BY <1>4, <1>7 DEF C!Step, C!Verdicts

\* Learning that a task has ended finishes or concludes its conversion.
LEMMA TerminalFinishes ==
  ASSUME IInv, NEW d \in Docs, NEW status, Terminal(d, status),
         wf[d].phase \in {"waiting", "checking"}
  PROVE  C!Step(d)
<1>1. CASE status = "failure"
  BY <1>1, CloseConcludes
  DEF Terminal, Open, OpenPhases, Milestone, C!Endings
<1>2. CASE status # "failure"
  <2> DEFINE r == [wf[d] EXCEPT !.phase = "fetching"]
  <2>1. wf[d] \in WorkflowState /\ Milestone[wf[d].phase] = "converting"
    BY DEF IInv, Milestone
  <2>2. /\ r.phase = "fetching" /\ r.verdict = wf[d].verdict
        /\ r.run = wf[d].run /\ r.submissions = wf[d].submissions
        /\ r.task = wf[d].task
    BY <2>1 DEF WorkflowState
  <2>3. wf' = [wf EXCEPT ![d] = r]
    BY <1>2 DEF Terminal
  <2> HIDE DEF r
  <2>0. PICK t, v : t = InHand(d) /\ v = wf[d].verdict
    OBVIOUS
  <2>4. Milestone[r.phase] = "converted" /\ Held(r) = t /\ r.verdict = v
    BY <2>0, <2>1, <2>2 DEF Milestone, Held, InHand
  <2>5. Becomes(d, "converted", wf[d].run, wf[d].submissions, t, v)
    BY <2>2, <2>3, <2>4, OneConversionMoves
  <2>6. C!Finish(d)
    BY <2>0, <2>1, <2>5, FieldsStay DEF C!Finish, Becomes
  <2> QED
    BY <2>6 DEF C!Step
<1> QED
  BY <1>1, <1>2

\* A poll that settled nothing concludes the conversion or is not seen.
LEMMA StillInProgressHides ==
  ASSUME IInv, NEW d \in Docs, StillInProgress(d), wf[d].phase = "checking"
  PROVE  C!Step(d) \/ UNCHANGED C!vars
<1>1. CASE wf[d].polls >= MaxSafetyPolls
  BY <1>1, CloseConcludes
  DEF StillInProgress, Open, OpenPhases, Milestone, C!Endings
<1>2. CASE ~(wf[d].polls >= MaxSafetyPolls)
  <2> DEFINE r == [wf[d] EXCEPT !.phase = "waiting"]
  <2>1. wf[d] \in WorkflowState
    BY DEF IInv
  <2>2. /\ r.phase = "waiting" /\ r.verdict = wf[d].verdict
        /\ r.run = wf[d].run /\ r.submissions = wf[d].submissions
        /\ r.task = wf[d].task
    BY <2>1 DEF WorkflowState
  <2>3. wf' = [wf EXCEPT ![d] = r]
    BY <1>2 DEF StillInProgress
  <2> HIDE DEF r
  <2>4. Milestone[r.phase] = Milestone[wf[d].phase]
    BY <2>2 DEF Milestone
  <2> QED
    BY <2>2, <2>3, <2>4, UnseenMove
<1> QED
  BY <1>1, <1>2

LEMMA StepImplements ==
  ASSUME IInv, NEW d \in Docs, Step(d)
  PROVE  C!Step(d) \/ UNCHANGED C!vars
<1>0. wf[d] \in WorkflowState
  BY DEF IInv
<1>1. CASE Start(d)
  <2> DEFINE r == FreshRun(wf[d].run + 1, "submitting", 1)
  <2>1. /\ r.phase = "submitting" /\ r.verdict = NoVerdict
        /\ r.run = wf[d].run + 1 /\ r.submissions = 1
    BY DEF FreshRun
  <2>2. wf' = [wf EXCEPT ![d] = r]
    BY <1>1 DEF Start
  <2> HIDE DEF r
  <2>3. Milestone[r.phase] = "submitting" /\ Held(r) = NoTask
    BY <2>1 DEF Milestone, Held
  <2>4. Becomes(d, "submitting", wf[d].run + 1, 1, NoTask, NoVerdict)
    BY <2>1, <2>2, <2>3, OneConversionMoves
  <2>5. wf[d].phase \in {"idle", "closed"} /\ wf[d].run < MaxRuns
    BY <1>0, <1>1 DEF Start, Open, WorkflowState
  <2>6. /\ Milestone[wf[d].phase] \in {"idle", "closed"}
        /\ InHand(d) = NoTask
    BY <2>5 DEF Milestone, InHand
  <2>7. C!Request(d)
    BY <2>4, <2>5, <2>6, FieldsStay
    DEF C!Request, C!NoVerdict, NoVerdict, Becomes
  <2> QED
    BY <2>7 DEF C!Step
<1>2. CASE \E t \in Tasks : SubmitSucceeds(d, t)
  <2>1. PICK t \in Tasks : SubmitSucceeds(d, t)
    BY <1>2
  <2> DEFINE r == [wf[d] EXCEPT !.phase = "waiting", !.task = t, !.polls = 0]
  <2>2. /\ r.phase = "waiting" /\ r.task = t /\ r.verdict = wf[d].verdict
        /\ r.run = wf[d].run /\ r.submissions = wf[d].submissions
    BY <1>0 DEF WorkflowState
  <2>3. wf' = [wf EXCEPT ![d] = r]
    BY <2>1 DEF SubmitSucceeds
  <2> HIDE DEF r
  <2>0. PICK v : v = wf[d].verdict
    OBVIOUS
  <2>4. Milestone[r.phase] = "converting" /\ Held(r) = t /\ r.verdict = v
    BY <2>0, <2>2 DEF Milestone, Held
  <2>5. Becomes(d, "converting", wf[d].run, wf[d].submissions, t, v)
    BY <2>2, <2>3, <2>4, OneConversionMoves
  <2>6. Milestone[wf[d].phase] = "submitting"
    BY <2>1 DEF SubmitSucceeds, Milestone
  <2>7. C!Adopt(d, t)
    BY <2>0, <2>5, <2>6, FieldsStay DEF C!Adopt, Becomes
  <2> QED
    BY <2>7 DEF C!Step
<1>3. CASE SubmitRejected(d) \/ FetchRejected(d)
           \/ \E j \in BOOLEAN : CollectOutputs(d, j)
  BY <1>3, CloseConcludes
  DEF SubmitRejected, FetchRejected, CollectOutputs, Open, OpenPhases,
      Milestone, C!Endings
<1>4. CASE \E t \in Tasks, s \in TaskStatus : TaskCompletedSignal(d, t, s)
  <2>1. PICK t \in Tasks, s \in TaskStatus : TaskCompletedSignal(d, t, s)
    BY <1>4
  <2> DEFINE c == [wf[d].completed EXCEPT ![t] = IF @ = NoStatus THEN s ELSE @]
             r == [wf[d] EXCEPT !.completed = c]
  <2>2. /\ r.phase = wf[d].phase /\ r.verdict = wf[d].verdict
        /\ r.run = wf[d].run /\ r.submissions = wf[d].submissions
        /\ r.task = wf[d].task
    BY <1>0 DEF WorkflowState
  <2>3. wf' = [wf EXCEPT ![d] = r]
    BY <2>1 DEF TaskCompletedSignal
  <2> HIDE DEF r
  <2> QED
    BY <2>2, <2>3, UnseenMove
<1>5. CASE Wake(d) \/ \E s \in TaskStatus : CheckTerminal(d, s)
  BY <1>5, TerminalFinishes DEF Wake, CheckTerminal
<1>6. CASE TimerFires(d)
  <2> DEFINE r == [wf[d] EXCEPT !.phase = "checking", !.polls = @ + 1,
                                !.safetyPolls = @ + 1, !.attempt = 1]
  <2>1. /\ r.phase = "checking" /\ r.verdict = wf[d].verdict
        /\ r.run = wf[d].run /\ r.submissions = wf[d].submissions
        /\ r.task = wf[d].task
    BY <1>0 DEF WorkflowState
  <2>2. wf' = [wf EXCEPT ![d] = r]
    BY <1>6 DEF TimerFires
  <2> HIDE DEF r
  <2>3. Milestone[r.phase] = Milestone[wf[d].phase]
    BY <1>6, <2>1 DEF Milestone, TimerFires
  <2> QED
    BY <2>1, <2>2, <2>3, UnseenMove
<1>7. CASE CheckInProgress(d) \/ CheckRejected(d)
  BY <1>7, StillInProgressHides DEF CheckInProgress, CheckRejected
<1>8. CASE CheckLost(d)
  <2>1. CASE wf[d].submissions >= MaxSubmissions
    BY <1>8, <2>1, CloseConcludes
    DEF CheckLost, Open, OpenPhases, Milestone, C!Endings
  <2>2. CASE ~(wf[d].submissions >= MaxSubmissions)
    <3> DEFINE r == [wf[d] EXCEPT !.phase = "submitting", !.submissions = @ + 1]
    <3>1. /\ r.phase = "submitting" /\ r.verdict = wf[d].verdict
          /\ r.run = wf[d].run /\ r.submissions = wf[d].submissions + 1
      BY <1>0 DEF WorkflowState
    <3>2. wf' = [wf EXCEPT ![d] = r]
      BY <1>8, <2>2 DEF CheckLost
    <3> HIDE DEF r
    <3>0. PICK v : v = wf[d].verdict
      OBVIOUS
    <3>3. Milestone[r.phase] = "submitting" /\ Held(r) = NoTask /\ r.verdict = v
      BY <3>0, <3>1 DEF Milestone, Held
    <3>4. Becomes(d, "submitting", wf[d].run, wf[d].submissions + 1, NoTask, v)
      BY <3>1, <3>2, <3>3, OneConversionMoves
    <3>5. Milestone[wf[d].phase] = "converting"
      BY <1>8 DEF CheckLost, Milestone
    <3>6. C!Resubmit(d)
      BY <2>2, <3>0, <3>4, <3>5, FieldsStay DEF C!Resubmit, C!Spent, Becomes
    <3> QED
      BY <3>6 DEF C!Step
  <2> QED
    BY <2>1, <2>2
<1>9. CASE CheckUnanswered(d)
  <2>1. CASE wf[d].attempt < CheckAttempts
    <3> DEFINE r == [wf[d] EXCEPT !.attempt = @ + 1]
    <3>1. /\ r.phase = wf[d].phase /\ r.verdict = wf[d].verdict
          /\ r.run = wf[d].run /\ r.submissions = wf[d].submissions
          /\ r.task = wf[d].task
      BY <1>0 DEF WorkflowState
    <3>2. wf' = [wf EXCEPT ![d] = r]
      BY <1>9, <2>1 DEF CheckUnanswered
    <3> HIDE DEF r
    <3> QED
      BY <3>1, <3>2, UnseenMove
  <2>2. CASE ~(wf[d].attempt < CheckAttempts)
    BY <1>9, <2>2, StillInProgressHides DEF CheckUnanswered
  <2> QED
    BY <2>1, <2>2
<1>10. CASE \E o \in Outcomes : FetchOutcome(d, o)
  <2>1. PICK o \in Outcomes : FetchOutcome(d, o)
    BY <1>10
  <2>2. CASE o = "nothing"
    BY <2>1, <2>2, CloseConcludes
    DEF FetchOutcome, Open, OpenPhases, Milestone, C!Endings
  <2>3. CASE o # "nothing"
    <3> DEFINE r == [wf[d] EXCEPT !.phase = "collecting"]
    <3>1. /\ r.phase = "collecting" /\ r.verdict = wf[d].verdict
          /\ r.run = wf[d].run /\ r.submissions = wf[d].submissions
          /\ r.task = wf[d].task
      BY <1>0 DEF WorkflowState
    <3>2. wf' = [wf EXCEPT ![d] = r]
      BY <2>1, <2>3 DEF FetchOutcome
    <3> HIDE DEF r
    <3>3. Milestone[r.phase] = Milestone[wf[d].phase]
      BY <2>1, <3>1 DEF Milestone, FetchOutcome
    <3> QED
      BY <3>1, <3>2, <3>3, UnseenMove
  <2> QED
    BY <2>2, <2>3
<1> QED
  BY <1>1, <1>2, <1>3, <1>4, <1>5, <1>6, <1>7, <1>8, <1>9, <1>10 DEF Step, Progress

\* A workflow carries out a conversion as Conversion specifies it: whatever
\* the activities answer and whichever signals arrive, each of its steps is
\* one of that contract or invisible in it (workflows.py:94-177).
THEOREM WorkflowImplementsConversion == Spec => Contract
<1>1. Init => C!Init
  BY DEF Init, FreshRun, InHand, Milestone, NoVerdict, C!Init, C!NoVerdict
<1>2. IInv /\ [Next]_vars => [C!Next]_(C!vars)
  <2> SUFFICES ASSUME IInv, [Next]_vars PROVE C!Next \/ UNCHANGED C!vars
    OBVIOUS
  <2>1. CASE Next
    BY <2>1, StepImplements DEF Next, C!Next
  <2>2. CASE UNCHANGED vars
    BY <2>2 DEF vars, C!vars, InHand
  <2> QED
    BY <2>1, <2>2
<1> QED
  BY <1>1, <1>2, Invariance, PTL DEF Spec, Contract, C!Spec
=============================================================================
