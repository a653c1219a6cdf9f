------------------------------ MODULE Admission ------------------------------
(***************************************************************************)
(* Admission of tasks into docling-serve's per-tenant queue: the submit    *)
(* queue of the Temporal workers (src/orchestration/worker.py, one slot    *)
(* per process), the uploads of the facade, and the limit docling-serve    *)
(* applies by check-then-push (src/orchestration/models.py:18-23).         *)
(*                                                                         *)
(* docling-serve handles a request to its end even when the caller is no   *)
(* longer there: such a request is loose, like every request that does not *)
(* come from a submit slot.                                                *)
(***************************************************************************)
EXTENDS Integers, FiniteSets

CONSTANTS
  Docs,          \* documents whose workflows submit
  NoDoc,         \* a free slot's document
  Workers,       \* worker processes; the deployment runs one
  MaxQueued,     \* DOCLING_SERVE_ENG_RAY_MAX_QUEUED_TASKS
  MaxRunning,    \* DOCLING_SERVE_ENG_RAY_MAX_CONCURRENT_TASKS
  MaxAbandoned,  \* bound of the model: submits whose answer is lost
  MaxUploads     \* bound of the model: facade uploads to the same tenant

ASSUME NoDocAssumption == NoDoc \notin Docs
ASSUME WorkersAssumption == IsFiniteSet(Workers)
ASSUME LimitsAssumption == MaxQueued \in Nat \ {0} /\ MaxRunning \in Nat \ {0}
ASSUME BoundsAssumption == MaxAbandoned \in Nat /\ MaxUploads \in Nat

VARIABLES
  submitted,  \* documents whose submit_conversion has returned
  slot,       \* each worker's submit slot: whose submit, and how far it is
  loose,      \* requests without a slot: arrived, or past the check
  queued,     \* the tenant's queue
  running,    \* tasks taken from it and not finished
  abandoned,  \* submits abandoned so far
  uploads,    \* facade uploads so far
  admitted    \* tasks pushed so far, whatever became of them

vars == <<submitted, slot, loose, queued, running, abandoned, uploads, admitted>>

-----------------------------------------------------------------------------
\* A request arrives, passes the check, and is pushed; then it is answered.
Free == [doc |-> NoDoc, stage |-> "free"]
Busy == [doc : Docs, stage : {"arrived", "checked", "pushed"}]
At(stage) == {w \in Workers : slot[w].stage = stage}
Held == {slot[w].doc : w \in Workers}
HasRoom == queued < MaxQueued

TypeOK ==
  /\ submitted \subseteq Docs
  /\ slot \in [Workers -> Busy \cup {Free}]
  /\ loose \in [arrived : Nat, checked : Nat]
  /\ queued \in Nat
  /\ running \in 0 .. MaxRunning
  /\ abandoned \in 0 .. MaxAbandoned
  /\ uploads \in 0 .. MaxUploads
  /\ admitted \in Nat

Init ==
  /\ submitted = {}
  /\ slot = [w \in Workers |-> Free]
  /\ loose = [arrived |-> 0, checked |-> 0]
  /\ queued = 0
  /\ running = 0
  /\ abandoned = 0
  /\ uploads = 0
  /\ admitted = 0

-----------------------------------------------------------------------------
\* A worker takes a submit from the task queue into its one slot and posts.
TakeSlot(w, d) ==
  /\ slot[w] = Free
  /\ d \notin submitted \cup Held
  /\ slot' = [slot EXCEPT ![w] = [doc |-> d, stage |-> "arrived"]]
  /\ UNCHANGED <<submitted, loose, queued, running, abandoned, uploads, admitted>>

\* Variant: a request is pushed whatever the length read.
CheckUnlimited(w) ==
  /\ slot[w].stage = "arrived"
  /\ slot' = [slot EXCEPT ![w].stage = "checked"]
  /\ UNCHANGED <<submitted, loose, queued, running, abandoned, uploads, admitted>>

\* Variant: the 429 is not raised, and the activity completes.
CheckFullIsDone(w) ==
  /\ slot[w].stage = "arrived"
  /\ slot' = [slot EXCEPT ![w] =
                IF HasRoom THEN [@ EXCEPT !.stage = "checked"] ELSE Free]
  /\ submitted' = IF HasRoom THEN submitted ELSE submitted \cup {slot[w].doc}
  /\ UNCHANGED <<loose, queued, running, abandoned, uploads, admitted>>

\* enqueue() reads the queue's length; at the limit the answer is 429, the
\* attempt fails as QueueFull and the slot is free until the retry.
Check(w) ==
  /\ slot[w].stage = "arrived"
  /\ slot' = [slot EXCEPT ![w] =
                IF HasRoom THEN [@ EXCEPT !.stage = "checked"] ELSE Free]
  /\ UNCHANGED <<submitted, loose, queued, running, abandoned, uploads, admitted>>

\* enqueue() pushes, without a second look.
Push(w) ==
  /\ slot[w].stage = "checked"
  /\ slot' = [slot EXCEPT ![w].stage = "pushed"]
  /\ queued' = queued + 1
  /\ admitted' = admitted + 1
  /\ UNCHANGED <<submitted, loose, running, abandoned, uploads>>

\* Variant: the slot is not free again once the activity has completed.
ReturnHoldingSlot(w) ==
  /\ slot[w].stage = "pushed"
  /\ submitted' = submitted \cup {slot[w].doc}
  /\ UNCHANGED <<slot, loose, queued, running, abandoned, uploads, admitted>>

Return(w) ==
  /\ slot[w].stage = "pushed"
  /\ submitted' = submitted \cup {slot[w].doc}
  /\ slot' = [slot EXCEPT ![w] = Free]
  /\ UNCHANGED <<loose, queued, running, abandoned, uploads, admitted>>

\* The caller is gone (the HTTP client's 60 s, the start-to-close timeout, a
\* worker that was stopped): the slot is free, the submit will be retried,
\* and docling-serve goes on with the request it has.
Abandon(w) ==
  /\ slot[w] # Free
  /\ abandoned < MaxAbandoned
  /\ abandoned' = abandoned + 1
  /\ slot' = [slot EXCEPT ![w] = Free]
  /\ loose' = CASE slot[w].stage = "arrived" -> [loose EXCEPT !.arrived = @ + 1]
                [] slot[w].stage = "checked" -> [loose EXCEPT !.checked = @ + 1]
                [] OTHER -> loose
  /\ UNCHANGED <<submitted, queued, running, uploads, admitted>>

\* The facade posts an upload as soon as it has one.
Upload ==
  /\ uploads < MaxUploads
  /\ uploads' = uploads + 1
  /\ loose' = [loose EXCEPT !.arrived = @ + 1]
  /\ UNCHANGED <<submitted, slot, queued, running, abandoned, admitted>>

LooseCheck ==
  /\ loose.arrived > 0
  /\ loose' = [arrived |-> loose.arrived - 1,
               checked |-> loose.checked + (IF HasRoom THEN 1 ELSE 0)]
  /\ UNCHANGED <<submitted, slot, queued, running, abandoned, uploads, admitted>>

LoosePush ==
  /\ loose.checked > 0
  /\ loose' = [loose EXCEPT !.checked = @ - 1]
  /\ queued' = queued + 1
  /\ admitted' = admitted + 1
  /\ UNCHANGED <<submitted, slot, running, abandoned, uploads>>

\* Variant: one task more than the tenant may run.
TaskStartsOneMore ==
  /\ queued > 0
  /\ running <= MaxRunning
  /\ queued' = queued - 1
  /\ running' = running + 1
  /\ UNCHANGED <<submitted, slot, loose, abandoned, uploads, admitted>>

TaskStarts ==
  /\ queued > 0
  /\ running < MaxRunning
  /\ queued' = queued - 1
  /\ running' = running + 1
  /\ UNCHANGED <<submitted, slot, loose, abandoned, uploads, admitted>>

TaskEnds ==
  /\ running > 0
  /\ running' = running - 1
  /\ UNCHANGED <<submitted, slot, loose, queued, abandoned, uploads, admitted>>

Next ==
  \/ \E w \in Workers : \/ \E d \in Docs : TakeSlot(w, d)
                        \/ Check(w) \/ Push(w) \/ Return(w) \/ Abandon(w)
  \/ Upload \/ LooseCheck \/ LoosePush
  \/ TaskStarts \/ TaskEnds

Spec == Init /\ [][Next]_vars

\* docling-serve answers and works its queue off.  Temporal offers a due
\* submit again and again, so a document is not passed over for ever.
Fairness ==
  /\ \A w \in Workers : WF_vars(Check(w)) /\ WF_vars(Push(w)) /\ WF_vars(Return(w))
  /\ \A d \in Docs : SF_vars(\E w \in Workers : TakeSlot(w, d))
  /\ WF_vars(TaskStarts) /\ WF_vars(TaskEnds)

FairSpec == Spec /\ Fairness

-----------------------------------------------------------------------------
\* Requests that can be in docling-serve at a time.
Admitters == Cardinality(Workers) + MaxAbandoned + MaxUploads

\* The limit holds up to the requests that can be between check and push
\* together: MAX_QUEUED_TASKS plus all of them but one.  With one worker, no
\* abandoned submit and no upload it is exact (models.py:18-23).
OvershootBounded ==
  queued <= MaxQueued + Admitters - 1

\* docling-serve is given one task for each document submitted: none of them was
\* turned away, and what it has beyond them is accounted for by submits whose
\* answer is due or was lost and by uploads, whatever 429s, retries and requests
\* still under way there were (activities.py:86-105, worker.py:86-90).
OneTaskEach ==
  LET answered == Cardinality(submitted) + Cardinality(At("pushed"))
      others == abandoned + uploads - (loose.arrived + loose.checked)
  IN  admitted \in answered .. answered + others

\* Every document is admitted in the end however often the queue was full:
\* a 429 costs an attempt, never the document (workflows.py:45-51).
EveryDocumentAdmitted == \A d \in Docs : <>(d \in submitted)

\* "docling-serve sees one admission at a time"; "serial submits keep it exact"
\* (docs/ARCHITECTURE.md:279-284), for workflow submits alone (worker.py:46-52).
\* One submit at a time is not yet one request at a time: it holds while no
\* submit is abandoned and nobody else submits.
LimitIsExact == queued <= MaxQueued
=============================================================================
