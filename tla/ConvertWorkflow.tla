--------------------------- MODULE ConvertWorkflow ---------------------------
(***************************************************************************)
(* ConvertDocumentWorkflow (src/orchestration/workflows.py): the durable   *)
(* workflow that takes one document through docling-serve, one run at a    *)
(* time per document.                                                      *)
(*                                                                         *)
(* An action is one workflow activation of the Temporal worker: the code   *)
(* between two awaits, run to its next await or to its end.  What the      *)
(* activities answer and which signals arrive is left completely open      *)
(* here; module Orchestration closes the system with docling-serve, the    *)
(* callback relay and the output bucket.                                   *)
(***************************************************************************)
EXTENDS Integers

CONSTANTS
  Docs,            \* documents; a document is also its workflow id
  Tasks,           \* docling-serve task ids
  NoTask,          \* no task yet
  MaxSubmissions,  \* MAX_SUBMISSIONS
  MaxSafetyPolls,  \* ConvertInput.max_safety_polls; 0 still makes one poll
  CheckAttempts,   \* CHECK_RETRY.maximum_attempts
  MaxRuns          \* bound of the model: runs started per document

ASSUME NoTaskAssumption == NoTask \notin Tasks
ASSUME MaxSubmissionsAssumption == MaxSubmissions \in Nat \ {0}
ASSUME MaxSafetyPollsAssumption == MaxSafetyPolls \in Nat
ASSUME CheckAttemptsAssumption == CheckAttempts \in Nat \ {0}
ASSUME MaxRunsAssumption == MaxRuns \in Nat

VARIABLE
  wf  \* the workflow of each document: its latest run

vars == <<wf>>

-----------------------------------------------------------------------------
\* What docling-serve calls a terminal status, and its absence.
TaskStatus == {"success", "failure"}
NoStatus == "NoStatus"

\* How a run ends: ConvertResult, or the type of the error that fails it.
Verdicts == {"Completed", "SubmitRejected", "TaskLost", "ConversionFailed",
             "MissingOutputs", "PollBudgetExhausted"}
NoVerdict == "NoVerdict"

\* Where the run awaits: submit_conversion, wait_condition, check_task,
\* fetch_outcome, collect_outputs.
OpenPhases == {"submitting", "waiting", "checking", "fetching", "collecting"}

\* What fetch_outcome found: counts with something produced, counts with
\* nothing produced, or no record any more.
Outcomes == {"produced", "nothing", "expired"}

WorkflowState ==
  [phase       : OpenPhases \cup {"idle", "closed"},
   run         : 0 .. MaxRuns,
   verdict     : Verdicts \cup {NoVerdict},
   submissions : Nat,
   task        : Tasks \cup {NoTask},
   polls       : Nat,
   safetyPolls : Nat,
   attempt     : Nat,
   completed   : [Tasks -> TaskStatus \cup {NoStatus}]]

\* Run n of a document before anything is known of it: no callback recorded,
\* the given number of submissions begun.
FreshRun(n, where, begun) ==
  [phase |-> where, run |-> n, verdict |-> NoVerdict,
   submissions |-> begun, task |-> NoTask, polls |-> 0, safetyPolls |-> 0,
   attempt |-> 0, completed |-> [t \in Tasks |-> NoStatus]]

Open(d) == wf[d].phase \in OpenPhases
Told(d) == wf[d].task \in Tasks /\ wf[d].completed[wf[d].task] # NoStatus

Init == wf = [d \in Docs |-> FreshRun(0, "idle", 0)]

Close(d, v) ==
  wf' = [wf EXCEPT ![d].phase = "closed", ![d].verdict = v]

\* run() after _wait_until_terminal: a failed task ends the run, a finished
\* one has its per-document counts read.
Terminal(d, status) ==
  IF status = "failure"
  THEN Close(d, "ConversionFailed")
  ELSE wf' = [wf EXCEPT ![d].phase = "fetching"]

\* Variant: the budget compared with the polls of the whole run.
StillInProgressOfRun(d) ==
  IF wf[d].safetyPolls >= MaxSafetyPolls
  THEN Close(d, "PollBudgetExhausted")
  ELSE wf' = [wf EXCEPT ![d].phase = "waiting"]

\* A check answered None, or was given up on: the budget ends the run, else
\* the workflow sleeps again.
StillInProgress(d) ==
  IF wf[d].polls >= MaxSafetyPolls
  THEN Close(d, "PollBudgetExhausted")
  ELSE wf' = [wf EXCEPT ![d].phase = "waiting"]

-----------------------------------------------------------------------------
\* start_conversion: Temporal refuses the id while a run of it is open.
Start(d) ==
  /\ ~Open(d)
  /\ wf[d].run < MaxRuns
  /\ wf' = [wf EXCEPT ![d] = FreshRun(wf[d].run + 1, "submitting", 1)]

\* Variant: the count of polls carried over from the lost task.
SubmitSucceedsStaleCount(d, t) ==
  /\ wf[d].phase = "submitting"
  /\ wf' = [wf EXCEPT ![d].phase = "waiting", ![d].task = t]

\* submit_conversion returned task t: _wait_until_terminal begins with a
\* count of its own.
SubmitSucceeds(d, t) ==
  /\ wf[d].phase = "submitting"
  /\ wf' = [wf EXCEPT ![d].phase = "waiting", ![d].task = t, ![d].polls = 0]

\* A non-retryable 4xx on the submit; the await is outside run()'s try.
SubmitRejected(d) ==
  /\ wf[d].phase = "submitting"
  /\ Close(d, "SubmitRejected")

\* Variant: the last delivery wins.
TaskCompletedSignalLast(d, t, status) ==
  /\ Open(d)
  /\ wf' = [wf EXCEPT ![d].completed[t] = status]

\* Variant: one report per run, not one per task.
TaskCompletedSignalAny(d, t, status) ==
  /\ Open(d)
  /\ wf' = [wf EXCEPT ![d].completed =
               [u \in Tasks |-> IF @[u] = NoStatus THEN status ELSE @[u]]]

\* The task_completed signal: recorded by task id, the first one wins.
TaskCompletedSignal(d, t, status) ==
  /\ Open(d)
  /\ wf' = [wf EXCEPT ![d].completed[t] = IF @ = NoStatus THEN status ELSE @]

\* wait_condition returns, at once if the callback is already there.
Wake(d) ==
  /\ wf[d].phase = "waiting"
  /\ Told(d)
  /\ Terminal(d, wf[d].completed[wf[d].task])

\* Variant: polls not counted.
TimerFiresUncounted(d) ==
  /\ wf[d].phase = "waiting"
  /\ ~Told(d)
  /\ wf' = [wf EXCEPT ![d].phase = "checking", ![d].attempt = 1]

\* The sleep ran out.  An activation applies its signals before its timers,
\* so the timer counts only while the callback is not recorded.
TimerFires(d) ==
  /\ wf[d].phase = "waiting"
  /\ ~Told(d)
  /\ wf' = [wf EXCEPT ![d].phase = "checking",
                      ![d].polls = @ + 1,
                      ![d].safetyPolls = @ + 1,
                      ![d].attempt = 1]

\* check_task answers: a terminal status, None, or 404.
CheckTerminal(d, status) ==
  /\ wf[d].phase = "checking"
  /\ Terminal(d, status)

CheckInProgress(d) ==
  /\ wf[d].phase = "checking"
  /\ StillInProgress(d)

\* Variant: one submission too many.
CheckLostOnceMore(d) ==
  /\ wf[d].phase = "checking"
  /\ IF wf[d].submissions > MaxSubmissions
     THEN Close(d, "TaskLost")
     ELSE wf' = [wf EXCEPT ![d].phase = "submitting",
                           ![d].submissions = @ + 1]

CheckLost(d) ==
  /\ wf[d].phase = "checking"
  /\ IF wf[d].submissions >= MaxSubmissions
     THEN Close(d, "TaskLost")
     ELSE wf' = [wf EXCEPT ![d].phase = "submitting",
                           ![d].submissions = @ + 1]

\* Variants: one attempt too many; an unanswered check taken for a lost task.
CheckUnansweredOnceMore(d) ==
  /\ wf[d].phase = "checking"
  /\ IF wf[d].attempt <= CheckAttempts
     THEN wf' = [wf EXCEPT ![d].attempt = @ + 1]
     ELSE StillInProgress(d)

CheckUnansweredIsLost(d) ==
  /\ wf[d].phase = "checking"
  /\ IF wf[d].attempt < CheckAttempts
     THEN wf' = [wf EXCEPT ![d].attempt = @ + 1]
     ELSE CheckLost(d)

\* A retryable failure (429, 5xx, transport, start-to-close timeout): the
\* next attempt, or none left and _check answers None.
CheckUnanswered(d) ==
  /\ wf[d].phase = "checking"
  /\ IF wf[d].attempt < CheckAttempts
     THEN wf' = [wf EXCEPT ![d].attempt = @ + 1]
     ELSE StillInProgress(d)

\* Any other 4xx on the status poll is not retried and not a lost task.
CheckRejected(d) ==
  /\ wf[d].phase = "checking"
  /\ StillInProgress(d)

\* Variant: an expired result record taken for a lost task.
FetchOutcomeLost(d, outcome) ==
  /\ wf[d].phase = "fetching"
  /\ CASE outcome = "nothing" -> Close(d, "ConversionFailed")
       [] outcome = "produced" -> wf' = [wf EXCEPT ![d].phase = "collecting"]
       [] outcome = "expired" -> wf' = [wf EXCEPT ![d].phase = "submitting"]

\* fetch_outcome answers; only counts that add up to zero fail the run.
FetchOutcome(d, outcome) ==
  /\ wf[d].phase = "fetching"
  /\ IF outcome = "nothing"
     THEN Close(d, "ConversionFailed")
     ELSE wf' = [wf EXCEPT ![d].phase = "collecting"]

\* A 4xx other than 404 and 429 on the result fetch.
FetchRejected(d) ==
  /\ wf[d].phase = "fetching"
  /\ Close(d, "SubmitRejected")

\* collect_outputs answers; the DoclingDocument JSON must be among them.
CollectOutputs(d, jsonFound) ==
  /\ wf[d].phase = "collecting"
  /\ Close(d, IF jsonFound THEN "Completed" ELSE "MissingOutputs")

\* A run once it is started: what can resume it at each of its awaits.
Progress(d) ==
  \/ \E t \in Tasks : SubmitSucceeds(d, t)
  \/ SubmitRejected(d)
  \/ \E t \in Tasks, s \in TaskStatus : TaskCompletedSignal(d, t, s)
  \/ Wake(d)
  \/ TimerFires(d)
  \/ \E s \in TaskStatus : CheckTerminal(d, s)
  \/ CheckInProgress(d)
  \/ CheckLost(d)
  \/ CheckUnanswered(d)
  \/ CheckRejected(d)
  \/ \E o \in Outcomes : FetchOutcome(d, o)
  \/ FetchRejected(d)
  \/ \E j \in BOOLEAN : CollectOutputs(d, j)

Step(d) == Start(d) \/ Progress(d)

Next == \E d \in Docs : Step(d)

Spec == Init /\ [][Next]_vars

-----------------------------------------------------------------------------
\* The conversion a workflow carries out, as its starter may see it: the
\* awaits between a submission and its task's end are one milestone, those
\* after it another, and only an open run has a task in hand.
Milestone ==
  [idle |-> "idle", submitting |-> "submitting", waiting |-> "converting",
   checking |-> "converting", fetching |-> "converted",
   collecting |-> "converted", closed |-> "closed"]

InHand(d) ==
  IF Milestone[wf[d].phase] \in {"converting", "converted"}
  THEN wf[d].task
  ELSE NoTask

C == INSTANCE Conversion
     WITH milestone <- [d \in Docs |-> Milestone[wf[d].phase]],
          run <- [d \in Docs |-> wf[d].run],
          submissions <- [d \in Docs |-> wf[d].submissions],
          task <- [d \in Docs |-> InHand(d)],
          verdict <- [d \in Docs |-> wf[d].verdict]
-----------------------------------------------------------------------------
\* Safety polls one submission can make: _wait_until_terminal compares after
\* polling, so a budget of 0 still polls once.
PollBudget == IF MaxSafetyPolls = 0 THEN 1 ELSE MaxSafetyPolls
Allowance(submitted) == submitted * PollBudget

\* Every field of every workflow has the type run() gives it, and a check is
\* never attempted more often than CHECK_RETRY allows.
TypeOK ==
  /\ wf \in [Docs -> WorkflowState]
  /\ \A d \in Docs : wf[d].attempt <= CheckAttempts

\* MAX_SUBMISSIONS: over any number of lost tasks a run submits a document at
\* most that often (workflows.py:104-120), and it fails as TaskLost only when
\* every submission it is allowed has been lost.
SubmissionsBounded ==
  \A d \in Docs :
    /\ wf[d].submissions <= MaxSubmissions
    /\ wf[d].verdict = "TaskLost" => wf[d].submissions = MaxSubmissions

\* The load a run puts on docling-serve is bounded over the whole run, not
\* only between two resubmissions: safety_polls, which ConvertResult reports
\* "across all submissions" (models.py:132-134), never exceeds one budget per
\* submission made, and no submission exceeds its own (workflows.py:206-217).
PollsBounded ==
  \A d \in Docs :
    /\ wf[d].polls <= PollBudget
    /\ wf[d].safetyPolls <= Allowance(wf[d].submissions)

\* A run gives up on a task (PollBudgetExhausted) only after the whole budget
\* of that submission was spent on it, whatever the earlier submissions of
\* the run had used up (workflows.py:193, 217).
GivesUpOnlyWhenSpent ==
  \A d \in Docs :
    wf[d].verdict = "PollBudgetExhausted" => wf[d].polls = PollBudget

\* What a run was told about a task stays what it was told first, until a new
\* run of the document starts with nothing recorded (workflows.py:82, 92).
FirstReportWins ==
  [][\A d \in Docs, t \in Tasks :
       wf[d].completed[t] # NoStatus =>
         \/ wf'[d].completed[t] = wf[d].completed[t]
         \/ wf'[d].run = wf[d].run + 1]_vars

\* What a run has left: submissions, then how far this one is from the end,
\* then polls of its budget, then attempts of the status check.
Ahead ==
  [idle |-> 0, closed |-> 0, collecting |-> 1, fetching |-> 2, waiting |-> 3,
   checking |-> 3, submitting |-> 4]

Left(r) ==
  <<MaxSubmissions - r.submissions, Ahead[r.phase],
    2 * (PollBudget - r.polls) + (IF r.phase = "checking" THEN 1 ELSE 0),
    CheckAttempts - r.attempt>>

\* Less is left at the first place where a differs from b, and never less than
\* nothing anywhere.
Below(a, b) ==
  /\ \A i \in 1 .. 4 : a[i] \in Nat
  /\ \E i \in 1 .. 4 : a[i] < b[i] /\ \A j \in 1 .. i - 1 : a[j] = b[j]

\* A run cannot go on for ever by itself: whatever its activities answer, in
\* whatever order, each step of an open run but a recorded callback leaves it
\* less to do, although lost tasks put it back to the start and a budget is
\* granted anew each time (workflows.py:104-126, 194-223).
RunsWearOut ==
  [][\A d \in Docs :
       Open(d) /\ wf'[d] # wf[d] =>
         \/ wf'[d] = [wf[d] EXCEPT !.completed = wf'[d].completed]
         \/ Below(Left(wf'[d]), Left(wf[d]))]_vars

\* Whatever the activities answer and whichever signals arrive, a workflow
\* keeps the contract of a conversion: no submission while a task is in hand
\* or after one is known to have finished, no verdict its milestones do not
\* account for, no second open run (workflows.py:94-177, dispatch.py:14-27).
Contract == C!Spec
=============================================================================
