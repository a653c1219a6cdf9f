---------------------------- MODULE Orchestration ----------------------------
(***************************************************************************)
(* The conversion workflows among what surrounds them: docling-serve and   *)
(* its tasks, the callbacks it posts through the relay, the single submit  *)
(* slot of the worker, status checks in flight, and the output bucket.     *)
(*                                                                         *)
(* Each action of a workflow is the one of module ConvertWorkflow, given   *)
(* the answer its surroundings really produce.  A worker restart shows as  *)
(* an activity attempt whose answer is lost; the workflow itself resumes   *)
(* where it was, and a signal waits for it in the history.                 *)
(***************************************************************************)
EXTENDS Naturals, Sequences, FiniteSets

CONSTANTS
  Docs,              \* documents in the source bucket, one workflow id each
  MaxSubmissions,    \* MAX_SUBMISSIONS
  MaxSafetyPolls,    \* ConvertInput.max_safety_polls
  CheckAttempts,     \* CHECK_RETRY.maximum_attempts
  CallbackAttempts,  \* deliveries docling-serve attempts before dropping one
  MaxRuns,           \* bound of the model: runs started per document
  MaxTasks,          \* bound of the model: tasks docling-serve accepts
  MaxAbandoned       \* bound of the model: submits whose answer is lost

ASSUME MaxSubmissionsAssumption == MaxSubmissions \in Nat \ {0}
ASSUME MaxSafetyPollsAssumption == MaxSafetyPolls \in Nat
ASSUME CheckAttemptsAssumption == CheckAttempts \in Nat \ {0}
ASSUME CallbackAttemptsAssumption == CallbackAttempts \in Nat
ASSUME MaxRunsAssumption == MaxRuns \in Nat
ASSUME BoundsAssumption == MaxTasks \in Nat /\ MaxAbandoned \in Nat

Tasks == 1 .. MaxTasks
NoTask == 0

VARIABLES
  wf,         \* the workflows, as in ConvertWorkflow
  tasks,      \* every task docling-serve accepted, in order of admission
  slot,       \* the task whose submit the worker's one slot still awaits
  reply,      \* what docling-serve answered a check the worker still awaits
  json,       \* which task wrote the JSON now under each document's prefix
  abandoned   \* submits abandoned so far

W == INSTANCE ConvertWorkflow
Relay == INSTANCE CallbackRelay

vars == <<wf, tasks, slot, reply, json, abandoned>>

-----------------------------------------------------------------------------
\* A task is queued or running until it ends: converted with its JSON
\* exported, converted without, with every document failed (still a success
\* to docling-serve), or failed itself.
Endings == {"converted", "unexported", "empty", "failed"}
NoReply == "NoReply"
Replies == {"lost", "progress", "success", "failure"}

\* The batch request for d: its source, its output prefix and its callback URL
\* all name the document.
Accepted(d) ==
  [doc |-> d, run |-> wf[d].run, state |-> "queued", known |-> TRUE,
   callbacks |-> 0, acked |-> FALSE, orphan |-> FALSE]

Status(t) == IF tasks[t].state = "failed" THEN "failure" ELSE "success"
Ended(t) == tasks[t].state \in Endings

TypeOK ==
  /\ W!TypeOK
  /\ tasks \in Seq([doc : Docs, run : 1 .. MaxRuns,
                    state : Endings \cup {"queued"}, known : BOOLEAN,
                    callbacks : 0 .. CallbackAttempts, acked : BOOLEAN,
                    orphan : BOOLEAN])
  /\ Len(tasks) <= MaxTasks
  /\ slot \in {NoTask} \cup 1 .. Len(tasks)
  /\ reply \in [Docs -> Replies \cup {NoReply}]
  /\ json \in [Docs -> {NoTask} \cup 1 .. Len(tasks)]
  /\ abandoned \in 0 .. MaxAbandoned

Init ==
  /\ W!Init
  /\ tasks = << >>
  /\ slot = NoTask
  /\ reply = [d \in Docs |-> NoReply]
  /\ json = [d \in Docs |-> NoTask]
  /\ abandoned = 0

-----------------------------------------------------------------------------
\* start_conversion, by the CLI or any other dispatcher.
Start(d) ==
  /\ W!Start(d)
  /\ UNCHANGED <<tasks, slot, reply, json, abandoned>>

\* The POST of submit_conversion is admitted.  Until it is, 429, 5xx and
\* transport errors leave everything as it was and are retried without end.
SubmitLands(d) ==
  /\ wf[d].phase = "submitting"
  /\ slot = NoTask
  /\ Len(tasks) < MaxTasks
  /\ tasks' = Append(tasks, Accepted(d))
  /\ slot' = Len(tasks) + 1
  /\ UNCHANGED <<wf, reply, json, abandoned>>

\* Variant: the slot is not given back.
SubmitReturnsHolding ==
  /\ slot # NoTask
  /\ W!SubmitSucceeds(tasks[slot].doc, slot)
  /\ UNCHANGED <<tasks, slot, reply, json, abandoned>>

SubmitReturns ==
  /\ slot # NoTask
  /\ W!SubmitSucceeds(tasks[slot].doc, slot)
  /\ slot' = NoTask
  /\ UNCHANGED <<tasks, reply, json, abandoned>>

\* The answer never reaches the workflow: the client gave up, or the worker
\* was stopped.  The activity is retried; the task it created stays.
SubmitAbandoned ==
  /\ slot # NoTask
  /\ abandoned < MaxAbandoned
  /\ abandoned' = abandoned + 1
  /\ tasks' = [tasks EXCEPT ![slot].orphan = TRUE]
  /\ slot' = NoTask
  /\ UNCHANGED <<wf, reply, json>>

SubmitRejected(d) ==
  /\ slot = NoTask
  /\ W!SubmitRejected(d)
  /\ UNCHANGED <<tasks, slot, reply, json, abandoned>>

-----------------------------------------------------------------------------
\* A task ends; its callback is due, and what it exported replaces what an
\* earlier task left under the same prefix.
TaskEnds(t, ending) ==
  /\ tasks[t].state = "queued"
  /\ tasks' = [tasks EXCEPT ![t].state = ending,
                            ![t].callbacks = CallbackAttempts]
  /\ json' = IF ending = "converted"
             THEN [json EXCEPT ![tasks[t].doc] = t]
             ELSE json
  /\ UNCHANGED <<wf, slot, reply, abandoned>>

\* docling-serve forgets a task: Redis flushed, results TTL elapsed, state
\* lost.  Work already handed to Ray goes on, and so does its callback.
TaskForgotten(t) ==
  /\ tasks[t].known
  /\ tasks' = [tasks EXCEPT ![t].known = FALSE]
  /\ UNCHANGED <<wf, slot, reply, json, abandoned>>

\* The completion callback of a task, with the token the worker registered.
Completion(t, authentic) ==
  [authentic |-> authentic, wellFormed |-> TRUE, kind |-> "task_completed",
   task |-> t, status |-> Status(t)]

\* SignalWorkflow by workflow id: the open run of the document, whichever run
\* that is.  An error may hide a signal that landed.
SignalWorkflow(cb, d, outcome) ==
  \/ /\ outcome \in {"signaled", "unavailable"}
     /\ W!TaskCompletedSignal(d, cb.task, cb.status)
  \/ outcome = "notFound" /\ ~W!Open(d) /\ UNCHANGED wf
  \/ outcome = "unavailable" /\ UNCHANGED wf

\* One attempt that reaches the relay, whose token may differ from the
\* worker's.  docling-serve tries again unless it hears the acknowledgement.
CallbackArrives(t, authentic, outcome, heard) ==
  LET cb == Completion(t, authentic)
      acked == heard /\ Relay!Response(cb, outcome) = "ack"
  IN
  /\ tasks[t].callbacks > 0
  /\ tasks' = [tasks EXCEPT ![t].callbacks = IF acked THEN 0 ELSE @ - 1,
                            ![t].acked = acked]
  /\ IF Relay!Relays(cb)
     THEN SignalWorkflow(cb, tasks[t].doc, outcome)
     ELSE UNCHANGED wf
  /\ UNCHANGED <<slot, reply, json, abandoned>>

\* One that does not reach it.
CallbackFails(t) ==
  /\ tasks[t].callbacks > 0
  /\ tasks' = [tasks EXCEPT ![t].callbacks = @ - 1]
  /\ UNCHANGED <<wf, slot, reply, json, abandoned>>

-----------------------------------------------------------------------------
Wake(d) ==
  /\ W!Wake(d)
  /\ UNCHANGED <<tasks, slot, reply, json, abandoned>>

TimerFires(d) ==
  /\ W!TimerFires(d)
  /\ UNCHANGED <<tasks, slot, reply, json, abandoned>>

\* GET /v1/status/poll: what docling-serve says now; the workflow hears it
\* in CheckAnswers, after whatever happens in between.
CheckReads(d) ==
  LET t == wf[d].task IN
  /\ wf[d].phase = "checking"
  /\ reply[d] = NoReply
  /\ reply' = [reply EXCEPT ![d] = IF ~tasks[t].known THEN "lost"
                                   ELSE IF Ended(t) THEN Status(t)
                                   ELSE "progress"]
  /\ UNCHANGED <<wf, tasks, slot, json, abandoned>>

CheckAnswers(d) ==
  /\ \/ reply[d] \in W!TaskStatus /\ W!CheckTerminal(d, reply[d])
     \/ reply[d] = "progress" /\ W!CheckInProgress(d)
     \/ reply[d] = "lost" /\ W!CheckLost(d)
  /\ reply' = [reply EXCEPT ![d] = NoReply]
  /\ UNCHANGED <<tasks, slot, json, abandoned>>

CheckUnanswered(d) ==
  /\ W!CheckUnanswered(d) \/ W!CheckRejected(d)
  /\ reply' = [reply EXCEPT ![d] = NoReply]
  /\ UNCHANGED <<tasks, slot, json, abandoned>>

\* GET /v1/result, retried until it is answered.
FetchOutcome(d) ==
  LET t == wf[d].task IN
  /\ W!FetchOutcome(d, IF ~tasks[t].known THEN "expired"
                       ELSE IF tasks[t].state = "empty" THEN "nothing"
                       ELSE "produced")
  /\ UNCHANGED <<tasks, slot, reply, json, abandoned>>

FetchRejected(d) ==
  /\ W!FetchRejected(d)
  /\ UNCHANGED <<tasks, slot, reply, json, abandoned>>

\* Variant: the listing is not confined to the document's own prefix.
CollectOutputsAnywhere(d) ==
  /\ W!CollectOutputs(d, \E e \in Docs : json[e] # NoTask)
  /\ UNCHANGED <<tasks, slot, reply, json, abandoned>>

\* Lists the document's prefix, whoever wrote what is there.
CollectOutputs(d) ==
  /\ W!CollectOutputs(d, json[d] # NoTask)
  /\ UNCHANGED <<tasks, slot, reply, json, abandoned>>

-----------------------------------------------------------------------------
DoclingStep(t) ==
  \/ \E e \in Endings : TaskEnds(t, e)
  \/ TaskForgotten(t)
  \/ \E authentic, heard \in BOOLEAN, outcome \in Relay!SignalOutcomes :
       CallbackArrives(t, authentic, outcome, heard)
  \/ CallbackFails(t)

RunStep(d) ==
  \/ SubmitLands(d) \/ SubmitRejected(d)
  \/ Wake(d) \/ TimerFires(d)
  \/ CheckReads(d) \/ CheckAnswers(d) \/ CheckUnanswered(d)
  \/ FetchOutcome(d) \/ FetchRejected(d) \/ CollectOutputs(d)

\* What goes on once runs are started.
Conversions ==
  \/ \E d \in Docs : RunStep(d)
  \/ SubmitReturns
  \/ SubmitAbandoned
  \/ \E t \in DOMAIN tasks : DoclingStep(t)

Next == Conversions \/ \E d \in Docs : Start(d)

Spec == Init /\ [][Next]_vars

\* Temporal runs what is due: durable timers fire, activations are processed,
\* and an activity with attempts left is attempted again.  Nothing is assumed
\* of docling-serve's tasks or callbacks, only that its API answers in the
\* end and that its queue has room again and again (strong fairness: other
\* submits take the slot in between).
Fairness ==
  /\ WF_vars(SubmitReturns)
  /\ \A d \in Docs :
       /\ SF_vars(SubmitLands(d))
       /\ WF_vars(Wake(d))
       /\ WF_vars(TimerFires(d))
       /\ WF_vars(CheckReads(d))
       /\ WF_vars(CheckAnswers(d))
       /\ WF_vars(FetchOutcome(d))
       /\ WF_vars(CollectOutputs(d))

FairSpec == Spec /\ Fairness

-----------------------------------------------------------------------------
\* The verdict of a run agrees with what docling-serve made of the task the
\* run submitted itself, in this run, whichever path told it, however many
\* callbacks were late, duplicated, for a lost predecessor or for a task of an
\* earlier run (workflows.py:79-81, 116-154; relay.go signals by workflow id).
VerdictHonest ==
  \A d \in Docs :
    LET v == wf[d].verdict
        t == wf[d].task
    IN  v \notin {W!NoVerdict, "SubmitRejected"} =>
          /\ tasks[t].doc = d /\ tasks[t].run = wf[d].run /\ ~tasks[t].orphan
          /\ v = "Completed" => /\ Ended(t) /\ Status(t) = "success"
                                /\ tasks[t].state = "empty" => ~tasks[t].known
                                /\ json[d] # NoTask
          /\ v = "ConversionFailed" => tasks[t].state \in {"failed", "empty"}
          /\ v = "MissingOutputs" => tasks[t].state \in {"unexported", "empty"}
          /\ v = "TaskLost" => ~tasks[t].known

\* One run converts its document once: a second task of the same run exists
\* only after docling-serve forgot the first, or after a submit whose answer
\* was lost (workflows.py:13-17, "the one path that resubmits is TaskLost";
\* worker.py:86-90, the at-least-once case).
NoNeedlessConversion ==
  \A t, u \in DOMAIN tasks :
    t < u /\ tasks[t].doc = tasks[u].doc /\ tasks[t].run = tasks[u].run =>
      ~tasks[t].known \/ tasks[t].orphan

\* MAX_SUBMISSIONS bounds what docling-serve is really given, not only what a
\* run counts: over lost tasks, retried submits and tasks still running from
\* before, no run ever has more tasks there than that, submits whose answer was
\* lost apart (workflows.py:104-120).
Sent(d, n) ==
  {t \in DOMAIN tasks :
     tasks[t].doc = d /\ tasks[t].run = n /\ ~tasks[t].orphan}
LoadBounded ==
  \A d \in Docs, n \in 1 .. MaxRuns : Cardinality(Sent(d, n)) <= MaxSubmissions

\* The one submit slot is never held for a run that no longer awaits it, or by
\* a task of an earlier run: whoever waits for the slot waits for a submit that
\* can still return (models.py:20-22, worker.py:72-90).
SlotIsAwaited ==
  slot # NoTask =>
    LET d == tasks[slot].doc IN
    wf[d].phase = "submitting" /\ tasks[slot].run = wf[d].run

\* The acknowledgement ends docling-serve's attempts, so it may be given only
\* when nothing more could come of them: a run that can still await a task
\* whose callback was acknowledged has been told its true status
\* (relay.go:126-142), however deliveries, closed runs and restarts of the
\* document interleave.
AcknowledgedIsTold ==
  \A t \in DOMAIN tasks :
    LET d == tasks[t].doc IN
    tasks[t].acked /\ W!Open(d) /\ tasks[t].run = wf[d].run =>
      wf[d].completed[t] = Status(t)

\* A run ends, whatever its task does: with every callback lost, docling-serve
\* never finishing a task or forgetting each one, the safety polls of every
\* submission run out (workflows.py:194-223).
EveryRunCloses == \A d \in Docs : W!Open(d) ~> ~W!Open(d)

\* The message of PollBudgetExhausted, "still in progress after N safety
\* polls with no callback" (workflows.py:217-221): a run that gives up on its
\* task was not told how the task ended.
BudgetSpentMeansNoCallback ==
  \A d \in Docs : wf[d].verdict = "PollBudgetExhausted" => ~W!Told(d)

\* "docling reports task_status=success even when every document in the task
\* failed -- the per-document counts are the real verdict"
\* (workflows.py:135-137): no such task makes its run a completed one.
AllFailedIsAFailure ==
  \A d \in Docs :
    wf[d].verdict = "Completed" => tasks[wf[d].task].state # "empty"
=============================================================================
