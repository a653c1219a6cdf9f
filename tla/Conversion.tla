----------------------------- MODULE Conversion -----------------------------
(***************************************************************************)
(* What a conversion workflow promises whoever starts it, without its      *)
(* callbacks, polls, timers and retries: a run of a document holds one     *)
(* docling-serve task at a time, gives up on a task only for another       *)
(* submission within its limit, never lets go of one it knows to have      *)
(* finished, and ends with a verdict that its milestones account for.      *)
(*                                                                         *)
(* Module ConvertWorkflow implements it (property Contract there).         *)
(***************************************************************************)
EXTENDS Naturals

CONSTANTS
  Docs,            \* documents, one run of each at a time
  Tasks,           \* docling-serve task ids
  NoTask,          \* no task in hand
  MaxSubmissions,  \* submissions a run may make
  MaxRuns          \* bound of the model: runs started per document

VARIABLES
  milestone,    \* how far the latest run of each document is
  run,          \* which run that is, 0 before the first
  submissions,  \* the submissions it has begun
  task,         \* the task it has in hand
  verdict       \* how it ended

vars == <<milestone, run, submissions, task, verdict>>

NoVerdict == "NoVerdict"
Spent(d) == submissions[d] >= MaxSubmissions

\* The verdicts a run may end with at each milestone.  A rejected request is
\* the submit's, or the one for the outcome of a finished task.
Endings ==
  [submitting |-> {"SubmitRejected"},
   converting |-> {"ConversionFailed", "TaskLost", "PollBudgetExhausted"},
   converted  |-> {"Completed", "ConversionFailed", "MissingOutputs",
                   "SubmitRejected"}]

Init ==
  /\ milestone = [d \in Docs |-> "idle"]
  /\ run = [d \in Docs |-> 0]
  /\ submissions = [d \in Docs |-> 0]
  /\ task = [d \in Docs |-> NoTask]
  /\ verdict = [d \in Docs |-> NoVerdict]

\* A run begins, unless one is open.
Request(d) ==
  /\ milestone[d] \in {"idle", "closed"}
  /\ run[d] < MaxRuns
  /\ milestone' = [milestone EXCEPT ![d] = "submitting"]
  /\ run' = [run EXCEPT ![d] = @ + 1]
  /\ submissions' = [submissions EXCEPT ![d] = 1]
  /\ verdict' = [verdict EXCEPT ![d] = NoVerdict]
  /\ UNCHANGED task

\* The run has a task.
Adopt(d, t) ==
  /\ milestone[d] = "submitting"
  /\ milestone' = [milestone EXCEPT ![d] = "converting"]
  /\ task' = [task EXCEPT ![d] = t]
  /\ UNCHANGED <<run, submissions, verdict>>

\* The task is lost and another submission begun.
Resubmit(d) ==
  /\ milestone[d] = "converting"
  /\ ~Spent(d)
  /\ milestone' = [milestone EXCEPT ![d] = "submitting"]
  /\ submissions' = [submissions EXCEPT ![d] = @ + 1]
  /\ task' = [task EXCEPT ![d] = NoTask]
  /\ UNCHANGED <<run, verdict>>

\* The task is known to have finished.
Finish(d) ==
  /\ milestone[d] = "converting"
  /\ milestone' = [milestone EXCEPT ![d] = "converted"]
  /\ UNCHANGED <<run, submissions, task, verdict>>

\* The run ends; TaskLost is the verdict of the last submission allowed.
Conclude(d, v) ==
  /\ milestone[d] \in DOMAIN Endings
  /\ v \in Endings[milestone[d]]
  /\ v = "TaskLost" => Spent(d)
  /\ milestone' = [milestone EXCEPT ![d] = "closed"]
  /\ task' = [task EXCEPT ![d] = NoTask]
  /\ verdict' = [verdict EXCEPT ![d] = v]
  /\ UNCHANGED <<run, submissions>>

Verdicts == UNION {Endings[m] : m \in DOMAIN Endings}

Step(d) ==
  \/ Request(d)
  \/ \E t \in Tasks : Adopt(d, t)
  \/ Resubmit(d)
  \/ Finish(d)
  \/ \E v \in Verdicts : Conclude(d, v)

Next == \E d \in Docs : Step(d)

Spec == Init /\ [][Next]_vars
=============================================================================
