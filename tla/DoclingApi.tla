------------------------------ MODULE DoclingApi ------------------------------
(***************************************************************************)
(* The HTTP API of docling-serve as this repository ships it               *)
(* (src/patches/docling_serve/app.py): submits, synchronous conversions,   *)
(* status polls, results, status websockets, and the supervision of the    *)
(* background queue processor that feeds the websockets.                   *)
(*                                                                         *)
(* A call is one request or websocket.  A submit's task is named by the    *)
(* call.  An action is the code between two awaits on the orchestrator,    *)
(* which is external: it admits tasks, ends them, forgets them.  It keeps  *)
(* two records of a task, its status and its outcome, and loses each by    *)
(* itself.  Chunking endpoints have the control of the conversion          *)
(* endpoints.                                                              *)
(***************************************************************************)
EXTENDS FiniteSets, Naturals

CONSTANTS
  Calls,      \* requests and websockets, each made once
  Tenants,    \* values of the tenant header, or of the query parameter
  MaxWaits,   \* poll intervals in DOCLING_SERVE_MAX_SYNC_WAIT
  MaxFaults,  \* bound of the model: Redis back pressure
  MaxDeaths   \* bound of the model: deaths of the queue processor

ASSUME TenantsAssumption == Tenants # {}
ASSUME MaxWaitsAssumption == MaxWaits \in Nat \ {0}
ASSUME BoundsAssumption == MaxFaults \in Nat /\ MaxDeaths \in Nat

VARIABLES
  call,         \* each call: what it is, where it awaits, what it was told
  task,         \* the orchestrator's status of the task a call submitted
  outcome,      \* the outcome it stored for that task, as long as it has it
  subscribers,  \* notifier.task_subscribers: websockets pushed to
  processor,    \* the queue processor: running, returned, or dead
  failed,       \* _queue_processor_failed
  faults,       \* back pressure so far
  deaths        \* deaths so far

vars == <<call, task, outcome, subscribers, processor, failed, faults, deaths>>
orchestrator == <<task, outcome>>
supervision == <<processor, failed, deaths>>

-----------------------------------------------------------------------------
Kinds == {"sync", "async", "poll", "result", "stream"}
Ended == {"success", "failure"}
Known == {"pending"} \cup Ended

\* A websocket awaits the queue position it greets the client with, the
\* status it is about to send, the sending, or the client.
Streaming == {"greeting", "refreshing", "sending", "listening"}
Awaiting == {"enqueueing", "positioning", "waiting", "sleeping", "reading",
             "collecting", "opening"} \cup Streaming

\* 200 with a task id, a status, a result or a failure; 404, 422, 429, 503,
\* 504 and 500; a websocket turned away, closed on completion, closed because
\* its task is gone, left by its client; any call cut off by a restart.
Served == {"accepted", "status", "result", "failed"}
Refusals == {"notFound", "invalid", "full", "busy", "timeout", "error",
             "refused", "vanished", "left", "dropped"}
Responses == Served \cup Refusals \cup {"closed"}
NoResponse == "NoResponse"
Nothing == "Nothing"

Idle(c) == call[c].phase = "idle"
Target(c) == task[call[c].about]
OutcomeOf(c) == outcome[call[c].about]

\* Variant: the tenant is not asserted.
VisibleToAll(c) == Target(c) \in Known

\* task_status finds the task and _assert_task_tenant lets the caller see it.
Visible(c) ==
  /\ Target(c) \in Known
  /\ call[call[c].about].tenant = call[c].tenant

TypeOK ==
  /\ call \in [Calls -> [kind : Kinds \cup {Nothing},
                         tenant : Tenants,
                         about : Calls,
                         phase : Awaiting \cup {"idle", "done"},
                         polls : 0 .. MaxWaits,
                         read : Known \cup {Nothing},
                         told : Known \cup {Nothing},
                         response : Responses \cup {NoResponse}]]
  /\ \A c \in Calls : call[c].phase = "done" <=> call[c].response # NoResponse
  /\ task \in [Calls -> Known \cup {"none", "gone"}]
  /\ outcome \in [Calls -> Ended \cup {Nothing}]
  /\ subscribers \in [Calls -> SUBSET Calls]
  /\ processor \in {"running", "returned", "dead"}
  /\ failed \in BOOLEAN
  /\ faults \in 0 .. MaxFaults
  /\ deaths \in 0 .. MaxDeaths

Init ==
  /\ call \in {[c \in Calls |->
                  [kind |-> Nothing, tenant |-> who[c], about |-> c,
                   phase |-> "idle", polls |-> 0, read |-> Nothing,
                   told |-> Nothing, response |-> NoResponse]]
               : who \in [Calls -> Tenants]}
  /\ task = [c \in Calls |-> "none"]
  /\ outcome = [c \in Calls |-> Nothing]
  /\ subscribers = [c \in Calls |-> {}]
  /\ processor = "running"
  /\ failed = FALSE
  /\ faults = 0
  /\ deaths = 0

Goes(c, to) == call' = [call EXCEPT ![c].phase = to]

Answers(c, response) ==
  call' = [call EXCEPT ![c].phase = "done", ![c].response = response]

\* The finally of the websocket: its subscription ends with it.
Unsubscribed(c) == [subscribers EXCEPT ![call[c].about] = @ \ {c}]

-----------------------------------------------------------------------------
\* POST of a conversion or chunking request, async or not.
Submit(c, kind) ==
  /\ Idle(c)
  /\ call' = [call EXCEPT ![c].kind = kind, ![c].phase = "enqueueing"]
  /\ UNCHANGED <<orchestrator, subscribers, supervision, faults>>

\* orchestrator.enqueue admits the task.
Enqueued(c) ==
  /\ call[c].phase = "enqueueing"
  /\ Goes(c, IF call[c].kind = "sync" THEN "waiting" ELSE "positioning")
  /\ task' = [task EXCEPT ![c] = "pending"]
  /\ UNCHANGED <<outcome, subscribers, supervision, faults>>

\* Policy and validation answer 422, a full queue 429 (the local patch), an
\* unavailable dispatcher 503; nothing was admitted.
EnqueueRefused(c, response) ==
  /\ call[c].phase = "enqueueing"
  /\ Answers(c, response)
  /\ UNCHANGED <<orchestrator, subscribers, supervision, faults>>

\* get_queue_position, then the task id or the status that was read.  Only a
\* status poll turns TaskNotFoundError into a 404.
Positioned(c) ==
  /\ call[c].phase = "positioning"
  /\ CASE Target(c) \in Known /\ call[c].kind = "async" -> Answers(c, "accepted")
       [] Target(c) \in Known /\ call[c].kind = "poll" ->
            call' = [call EXCEPT ![c].phase = "done", ![c].response = "status",
                                 ![c].told = call[c].read]
       [] OTHER -> Answers(c, IF call[c].kind = "poll" THEN "notFound" ELSE "error")
  /\ UNCHANGED <<orchestrator, subscribers, supervision, faults>>

\* _wait_task_complete reads the status; a forgotten task is a 500 here.
WaitReads(c) ==
  /\ call[c].phase = "waiting"
  /\ CASE Target(c) \in Ended -> Goes(c, "collecting")
       [] Target(c) = "pending" -> Goes(c, "sleeping")
       [] OTHER -> Answers(c, "error")
  /\ UNCHANGED <<orchestrator, subscribers, supervision, faults>>

\* Variants: one interval too many; the time spent not compared with the limit.
WaitSleepsOnceMore(c) ==
  /\ call[c].phase = "sleeping"
  /\ IF call[c].polls > MaxWaits
     THEN Answers(c, "timeout")
     ELSE call' = [call EXCEPT ![c].phase = "waiting", ![c].polls = @ + 1]
  /\ UNCHANGED <<orchestrator, subscribers, supervision, faults>>

WaitSleepsOn(c) ==
  /\ call[c].phase = "sleeping"
  /\ Goes(c, "waiting")
  /\ UNCHANGED <<orchestrator, subscribers, supervision, faults>>

\* ... and sleeps, and gives up without another look once time is up; the
\* task goes on.
WaitSleeps(c) ==
  /\ call[c].phase = "sleeping"
  /\ IF call[c].polls = MaxWaits
     THEN Answers(c, "timeout")
     ELSE call' = [call EXCEPT ![c].phase = "waiting", ![c].polls = @ + 1]
  /\ UNCHANGED <<orchestrator, subscribers, supervision, faults>>

\* GET of a status or a result, of any task id.
Ask(c, r, kind) ==
  /\ Idle(c)
  /\ call' = [call EXCEPT ![c].kind = kind, ![c].about = r,
                          ![c].phase = IF kind = "stream" THEN "opening" ELSE "reading"]
  /\ UNCHANGED <<orchestrator, subscribers, supervision, faults>>

\* task_status and the tenant check, for a status or a result.
Reads(c) ==
  /\ call[c].phase = "reading"
  /\ IF Visible(c)
     THEN call' = [call EXCEPT ![c].read = Target(c),
                     ![c].phase = IF call[c].kind = "poll" THEN "positioning"
                                                           ELSE "collecting"]
     ELSE Answers(c, "notFound")
  /\ UNCHANGED <<orchestrator, subscribers, supervision, faults>>

\* Variant: whatever is not a success is reported as a failure.
CollectsNoneAsFailed(c) ==
  /\ call[c].phase = "collecting"
  /\ Answers(c, IF OutcomeOf(c) = "success" THEN "result" ELSE "failed")
  /\ UNCHANGED <<orchestrator, subscribers, supervision, faults>>

\* task_outcome, or task_result of a synchronous call, which has a result for
\* a success only.  No outcome yet, or none any more, is a 404, whatever the
\* status says, and the status is not read again.
Collects(c) ==
  /\ call[c].phase = "collecting"
  /\ CASE OutcomeOf(c) = "success" -> Answers(c, "result")
       [] OutcomeOf(c) = "failure" /\ call[c].kind = "result" -> Answers(c, "failed")
       [] OTHER -> Answers(c, "notFound")
  /\ UNCHANGED <<orchestrator, subscribers, supervision, faults>>

-----------------------------------------------------------------------------
\* The websocket is accepted, its task looked up, its tenant checked, and it
\* is subscribed; or "Task not found." and closed.
StreamOpens(c) ==
  /\ call[c].phase = "opening"
  /\ IF Visible(c)
     THEN /\ call' = [call EXCEPT ![c].phase = "greeting", ![c].read = Target(c)]
          /\ subscribers' = [subscribers EXCEPT ![call[c].about] = @ \cup {c}]
     ELSE /\ Answers(c, "refused")
          /\ UNCHANGED subscribers
  /\ UNCHANGED <<orchestrator, supervision, faults>>

\* The CONNECTION message, with the status read before subscribing.
StreamGreets(c) ==
  /\ call[c].phase = "greeting"
  /\ Target(c) \in Known
  /\ call' = [call EXCEPT ![c].phase = "refreshing", ![c].told = call[c].read]
  /\ UNCHANGED <<orchestrator, subscribers, supervision, faults>>

\* Variant: the status of the connection message is sent again.
StreamRefreshesNot(c) ==
  /\ call[c].phase = "refreshing"
  /\ Target(c) \in Known
  /\ Goes(c, "sending")
  /\ UNCHANGED <<orchestrator, subscribers, supervision, faults>>

\* Each iteration reads the status anew ...
StreamRefreshes(c) ==
  /\ call[c].phase = "refreshing"
  /\ Target(c) \in Known
  /\ call' = [call EXCEPT ![c].phase = "sending", ![c].read = Target(c)]
  /\ UNCHANGED <<orchestrator, subscribers, supervision, faults>>

\* Variant: whether the task is completed is read again after the sending.
StreamSendsStale(c) ==
  /\ call[c].phase = "sending"
  /\ Target(c) \in Known
  /\ IF Target(c) \in Ended
     THEN /\ call' = [call EXCEPT ![c].phase = "done", ![c].response = "closed",
                                  ![c].told = call[c].read]
          /\ subscribers' = Unsubscribed(c)
     ELSE /\ call' = [call EXCEPT ![c].phase = "listening", ![c].told = call[c].read]
          /\ UNCHANGED subscribers
  /\ UNCHANGED <<orchestrator, supervision, faults>>

\* ... sends it, and closes the socket or waits for the client.
StreamSends(c) ==
  /\ call[c].phase = "sending"
  /\ Target(c) \in Known
  /\ IF call[c].read \in Ended
     THEN /\ call' = [call EXCEPT ![c].phase = "done", ![c].response = "closed",
                                  ![c].told = call[c].read]
          /\ subscribers' = Unsubscribed(c)
     ELSE /\ call' = [call EXCEPT ![c].phase = "listening", ![c].told = call[c].read]
          /\ UNCHANGED subscribers
  /\ UNCHANGED <<orchestrator, supervision, faults>>

\* Any message of the client is a request for an update.
ClientAsks(c) ==
  /\ call[c].phase = "listening"
  /\ Goes(c, "refreshing")
  /\ UNCHANGED <<orchestrator, subscribers, supervision, faults>>

\* TaskNotFoundError while streaming: closed gracefully.
StreamVanishes(c) ==
  /\ call[c].phase \in {"greeting", "refreshing", "sending"}
  /\ Target(c) = "gone"
  /\ Answers(c, "vanished")
  /\ subscribers' = Unsubscribed(c)
  /\ UNCHANGED <<orchestrator, supervision, faults>>

\* Variant: only a completed task ends the subscription.
ClientLeavesSubscribed(c) ==
  /\ call[c].phase \in {"greeting", "sending", "listening"}
  /\ Answers(c, "left")
  /\ UNCHANGED <<orchestrator, subscribers, supervision, faults>>

\* WebSocketDisconnect, or an error of a send to a client that is gone.
ClientLeaves(c) ==
  /\ call[c].phase \in {"greeting", "sending", "listening"}
  /\ Answers(c, "left")
  /\ subscribers' = Unsubscribed(c)
  /\ UNCHANGED <<orchestrator, supervision, faults>>

\* RedisBackpressureError at any await on the orchestrator: 503, or an error
\* message and a closed socket.  A submit may have been admitted before.
Backpressure(c) ==
  /\ call[c].phase \in Awaiting \ {"sleeping", "listening"}
  /\ faults < MaxFaults
  /\ faults' = faults + 1
  /\ Answers(c, "busy")
  /\ subscribers' = Unsubscribed(c)
  /\ UNCHANGED <<orchestrator, supervision>>

-----------------------------------------------------------------------------
\* The orchestrator ends a task, with its outcome stored once the status says
\* so, and loses either: the status (a reaped or flushed record, clear/results),
\* and the outcome (results TTL), at once or long after.
TaskEnds(t, how) ==
  /\ task[t] = "pending"
  /\ task' = [task EXCEPT ![t] = how]
  /\ outcome' = [outcome EXCEPT ![t] = how]
  /\ UNCHANGED <<call, subscribers, supervision, faults>>

TaskGone(t) ==
  /\ task[t] \in Known
  /\ task' = [task EXCEPT ![t] = "gone"]
  /\ UNCHANGED <<call, outcome, subscribers, supervision, faults>>

OutcomeExpires(t) ==
  /\ outcome[t] # Nothing
  /\ outcome' = [outcome EXCEPT ![t] = Nothing]
  /\ UNCHANGED <<call, task, subscribers, supervision, faults>>

\* The notifier pushes a task's status to its subscribers, as long as the
\* queue processor listens; a push may be missed.
Push(t) ==
  /\ processor = "running"
  /\ task[t] \in Known
  /\ call' = [c \in Calls |-> IF c \in subscribers[t]
                               THEN [call[c] EXCEPT !.told = task[t]]
                               ELSE call[c]]
  /\ UNCHANGED <<orchestrator, subscribers, supervision, faults>>

\* process_queue() returns where the engine has no loop, or dies.
ProcessorReturns ==
  /\ processor = "running"
  /\ processor' = "returned"
  /\ UNCHANGED <<call, orchestrator, subscribers, failed, faults, deaths>>

ProcessorDies ==
  /\ processor = "running"
  /\ deaths < MaxDeaths
  /\ processor' = "dead"
  /\ deaths' = deaths + 1
  /\ UNCHANGED <<call, orchestrator, subscribers, failed, faults>>

\* Variant: any end of the loop is taken for a clean one.
SuperviseNothing ==
  /\ processor = "dead"
  /\ UNCHANGED vars

\* The done callback: only an exception marks the loop as failed.
Supervise ==
  /\ processor = "dead"
  /\ failed' = TRUE
  /\ UNCHANGED <<call, orchestrator, subscribers, processor, faults, deaths>>

\* /livez answers 503 and the platform restarts the pod: every request and
\* websocket is cut off, tasks live on in Ray and Redis.
PodRestarts ==
  /\ failed
  /\ call' = [c \in Calls |->
                IF call[c].phase \in Awaiting
                THEN [call[c] EXCEPT !.phase = "done", !.response = "dropped"]
                ELSE call[c]]
  /\ subscribers' = [t \in Calls |-> {}]
  /\ processor' = "running"
  /\ failed' = FALSE
  /\ UNCHANGED <<orchestrator, faults, deaths>>

\* The handlers run on whenever the orchestrator answers.
HandlerStep(c) ==
  \/ Enqueued(c) \/ \E r \in {"invalid", "full", "busy"} : EnqueueRefused(c, r)
  \/ Positioned(c) \/ WaitReads(c) \/ WaitSleeps(c)
  \/ Reads(c) \/ Collects(c)
  \/ StreamOpens(c) \/ StreamGreets(c) \/ StreamRefreshes(c) \/ StreamSends(c)
  \/ StreamVanishes(c)

ClientStep(c) ==
  \/ \E kind \in {"sync", "async"} : Submit(c, kind)
  \/ \E r \in Calls \ {c}, kind \in {"poll", "result", "stream"} : Ask(c, r, kind)
  \/ ClientAsks(c) \/ ClientLeaves(c)

Next ==
  \/ \E c \in Calls : HandlerStep(c) \/ ClientStep(c) \/ Backpressure(c)
  \/ \E t \in Calls : \/ \E how \in Ended : TaskEnds(t, how)
                     \/ TaskGone(t) \/ OutcomeExpires(t) \/ Push(t)
  \/ ProcessorReturns \/ ProcessorDies \/ Supervise \/ PodRestarts

Spec == Init /\ [][Next]_vars

\* The event loop runs handlers and the done callback; the platform acts on
\* /livez; a websocket client that stays goes on asking.  Nothing is assumed
\* of tasks or pushes.
Fairness ==
  /\ \A c \in Calls : WF_vars(HandlerStep(c)) /\ WF_vars(ClientAsks(c))
  /\ WF_vars(Supervise) /\ WF_vars(PodRestarts)

FairSpec == Spec /\ Fairness

-----------------------------------------------------------------------------
\* The websockets pushed to are exactly those still being served, on whatever
\* path one ended: completion, vanished task, back pressure, disconnect,
\* restart (app.py:1487-1490, 1555-1558).
SubscribersAreServed ==
  \A t \in Calls :
    subscribers[t] = {c \in Calls : call[c].phase \in Streaming /\ call[c].about = t}

\* "so a caller cannot probe whether a task UUID exists for another tenant"
\* (app.py:659-674): whatever a task does between the awaits of a call, the
\* call of another tenant is answered only as for a task id never given out.
ForeignTasksLookUnknown ==
  \A c \in Calls :
    call[c].about # c /\ call[call[c].about].tenant # call[c].tenant =>
      /\ call[c].response \in {"notFound", "refused", "busy", "dropped", NoResponse}
      /\ call[c].told = Nothing

\* A client whose socket was closed on completion was told last how its task
\* ended: pushes, the connection message with its older status and refreshes
\* may overtake each other before, and the task may end or go between the read
\* of a status and its sending (app.py:1501-1530).
ClosedOnTheEnding ==
  \A c \in Calls :
    call[c].response = "closed" =>
      call[c].told \in Ended /\ Target(c) \in {call[c].told, "gone"}

\* A websocket client that goes on asking sees the socket closed once its task
\* has ended or is gone, "even if the real-time pub/sub push was missed"
\* (app.py:1507-1509).
CompletionIsHeard ==
  \A c \in Calls :
    call[c].phase \in Streaming /\ task[call[c].about] # "pending"
      ~> call[c].phase = "done"

\* Every other request is answered, a synchronous one when its time is up even
\* if its task never ends (app.py:676-685).
EveryRequestAnswered ==
  \A c \in Calls :
    ~Idle(c) /\ call[c].kind # "stream" ~> call[c].phase = "done"

\* A dead queue processor does not stay dead while requests are still served
\* (app.py:162-167, 806-815).
DeadProcessorReplaced == processor = "dead" ~> processor = "running"
\* The awaits a request's handler has left at most: two for each poll interval
\* of a synchronous call that is not spent yet, and those around them.
Requesting == Awaiting \ (Streaming \cup {"opening"})
AwaitsLeft(k) ==
  LET intervals == MaxWaits - k.polls IN
  CASE k.phase = "enqueueing" -> 2 * intervals + 3
    [] k.phase = "waiting" -> 2 * intervals + 2
    [] k.phase = "sleeping" -> 2 * intervals + 1
    [] k.phase = "reading" -> 2
    [] k.phase \in {"positioning", "collecting"} -> 1
    [] OTHER -> 0

\* A request is answered after finitely many awaits, whatever tasks, pushes and
\* restarts do meanwhile: each step of its handler leaves it fewer of them
\* (app.py:676-689).
RequestsWearOut ==
  [][\A c \in Calls :
       call[c].phase \in Requesting /\ call'[c] # call[c] =>
         AwaitsLeft(call'[c]) < AwaitsLeft(call[c])]_vars

-----------------------------------------------------------------------------
\* Without its awaits a call is idle, open, streaming or over, with at most one
\* status seen that its client was not told yet.
StandingOf(k) ==
  CASE k.phase = "idle" -> "idle"
    [] k.phase = "done" -> "over"
    [] k.phase \in Streaming -> "streaming"
    [] OTHER -> "open"

LookOf(k) ==
  IF \/ k.phase \in {"greeting", "sending"}
     \/ k.phase = "positioning" /\ k.kind = "poll"
  THEN k.read ELSE Nothing

SS == INSTANCE StatusService WITH
  tenant <- [c \in Calls |-> call[c].tenant],
  asks <- [c \in Calls |-> call[c].kind],
  about <- [c \in Calls |-> call[c].about],
  standing <- [c \in Calls |-> StandingOf(call[c])],
  life <- task,
  kept <- outcome,
  look <- [c \in Calls |-> LookOf(call[c])],
  told <- [c \in Calls |-> call[c].told],
  answer <- [c \in Calls |-> call[c].response]

\* The API is the status service, wherever its handlers await, whatever is
\* pushed meanwhile, whichever record of a task is lost first and however often
\* the pod is replaced: each answer is true of the task when it is given, a
\* result is given while it is kept and a 404 for it when it is not, each status
\* told was read for the request it answers, and a submit turned away left no
\* task (app.py:659-689, 1421-1425, 1463-1558, 1584-1608).
ServiceKept == SS!Spec
=============================================================================
