--------------------------- MODULE DoclingApiProofs ---------------------------
(***************************************************************************)
(* Proofs about DoclingApi, for any calls, tenants, waits and bounds.      *)
(*                                                                         *)
(* ForeignTasksLookUnknown is about what a call was told, and an answer is *)
(* several awaits away from the tenant check.  Inductive is where a call   *)
(* about another tenant's task can be at all (Isolated): before the check, *)
(* or answered.  A push does not reach it there, because the subscribers   *)
(* are exactly the websockets being served (SubscribersAreServed).         *)
(*                                                                         *)
(* ClosedOnTheEnding is carried by what is about to be sent (Timely): a    *)
(* status that was read may have grown old, an ending may not.             *)
(***************************************************************************)
EXTENDS DoclingApi, TLAPS

Phases == Awaiting \cup {"idle", "done"}
Answered == Responses \cup {NoResponse}
CallState == [kind : Kinds \cup {Nothing}, tenant : Tenants, about : Calls,
              phase : Phases, polls : 0 .. MaxWaits,
              read : Known \cup {Nothing}, told : Known \cup {Nothing},
              response : Answered]

\* What a call may be that looks at another tenant's task.
Shielded(k) ==
  /\ k.phase \in {"reading", "opening", "done"}
  /\ k.response \in {"notFound", "refused", "busy", "dropped", NoResponse}
  /\ k.told = Nothing

Foreign(c, k) == k.about # c /\ call[k.about].tenant # k.tenant
Isolated == \A c \in Calls : Foreign(c, call[c]) => Shielded(call[c])

\* A call not made yet is about nothing else and was told nothing.
Fresh == \A c \in Calls : Idle(c) => call[c].about = c /\ call[c].told = Nothing

IInv == TypeOK /\ SubscribersAreServed /\ Isolated /\ Fresh

-----------------------------------------------------------------------------
LEMMA InitInv == Init => IInv
<1> SUFFICES ASSUME Init PROVE IInv
  OBVIOUS
<1>1. PICK who \in [Calls -> Tenants] :
        call = [c \in Calls |->
                  [kind |-> Nothing, tenant |-> who[c], about |-> c,
                   phase |-> "idle", polls |-> 0, read |-> Nothing,
                   told |-> Nothing, response |-> NoResponse]]
  BY DEF Init
<1>2. 0 \in 0 .. MaxWaits /\ 0 \in 0 .. MaxFaults /\ 0 \in 0 .. MaxDeaths
  BY MaxWaitsAssumption, BoundsAssumption
<1>3. TypeOK
  BY <1>1, <1>2 DEF Init, TypeOK
<1>4. SubscribersAreServed /\ Isolated /\ Fresh
  BY <1>1 DEF Init, SubscribersAreServed, Isolated, Fresh, Foreign, Idle, Streaming
<1> QED
  BY <1>3, <1>4 DEF IInv

-----------------------------------------------------------------------------
\* What one call's record may become for the invariant to be kept, whatever
\* its handler did.
Sound(c, k) ==
  /\ k \in CallState
  /\ k.phase # "idle"
  /\ k.phase = "done" <=> k.response # NoResponse
  /\ k.tenant = call[c].tenant
  /\ Foreign(c, k) => Shielded(k)

\* Its subscription follows: it is pushed to while it is served.
Follows(c, k) ==
  /\ subscribers' \in [Calls -> SUBSET Calls]
  /\ \A t \in Calls, x \in Calls :
       x \in subscribers'[t] <=>
         IF x = c THEN k.phase \in Streaming /\ k.about = t ELSE x \in subscribers[t]

OthersTyped ==
  /\ task \in [Calls -> Known \cup {"none", "gone"}]
  /\ outcome \in [Calls -> Ended \cup {Nothing}]
  /\ processor \in {"running", "returned", "dead"}
  /\ failed \in BOOLEAN
  /\ faults \in 0 .. MaxFaults
  /\ deaths \in 0 .. MaxDeaths

LEMMA CallType ==
  ASSUME IInv
  PROVE  /\ call \in [Calls -> CallState]
         /\ OthersTyped
         /\ \A c \in Calls : call[c] \in CallState
         /\ \A c \in Calls : call[c].phase = "done" <=> call[c].response # NoResponse
BY DEF IInv, TypeOK, CallState, OthersTyped, Phases, Answered

LEMMA OneCallMoves ==
  ASSUME IInv, OthersTyped',
         NEW c \in Calls, NEW k, Sound(c, k), Follows(c, k),
         call' = [call EXCEPT ![c] = k]
  PROVE  IInv'
<1>1. /\ call' \in [Calls -> CallState]
      /\ call'[c] = k
      /\ \A x \in Calls : x # c => call'[x] = call[x]
  BY CallType DEF Sound
<1>2. \A x \in Calls : call'[x].phase = "done" <=> call'[x].response # NoResponse
  BY <1>1, CallType DEF Sound
<1>3. TypeOK'
  BY <1>1, <1>2 DEF TypeOK, CallState, Phases, Answered, OthersTyped, Follows
<1>4. SubscribersAreServed'
  <2> SUFFICES ASSUME NEW t \in Calls, NEW x \in Calls
               PROVE  x \in subscribers'[t] <=>
                        call'[x].phase \in Streaming /\ call'[x].about = t
    BY DEF SubscribersAreServed, Follows
  <2>1. CASE x = c
    BY <2>1, <1>1 DEF Follows
  <2>2. CASE x # c
    BY <2>2, <1>1 DEF Follows, IInv, SubscribersAreServed
  <2> QED
    BY <2>1, <2>2
<1>5. \A x \in Calls : call'[x].tenant = call[x].tenant
  BY <1>1 DEF Sound
<1>6. Isolated'
  <2> SUFFICES ASSUME NEW x \in Calls, Foreign(x, call[x])'
               PROVE  Shielded(call[x])'
    BY DEF Isolated
  <2>1. call'[x].about \in Calls
    BY <1>1 DEF CallState
  <2>2. Foreign(x, call'[x])
    BY <1>5, <2>1 DEF Foreign
  <2>3. CASE x = c
    BY <2>3, <2>2, <1>1 DEF Sound, Shielded
  <2>4. CASE x # c
    BY <2>4, <2>2, <1>1 DEF IInv, Isolated, Shielded
  <2> QED
    BY <2>3, <2>4
<1>7. Fresh'
  BY <1>1 DEF IInv, Fresh, Idle, Sound
<1> QED
  BY <1>3, <1>4, <1>6, <1>7 DEF IInv

\* Without a subscription of its own before or after, or with one throughout.
LEMMA SubscriptionKept ==
  ASSUME IInv, NEW c \in Calls, NEW k, k.about = call[c].about \/ call[c].phase \notin Streaming,
         k.phase \in Streaming <=> call[c].phase \in Streaming,
         UNCHANGED subscribers
  PROVE  Follows(c, k)
BY DEF IInv, TypeOK, SubscribersAreServed, Follows

LEMMA SubscriptionEnds ==
  ASSUME IInv, NEW c \in Calls, NEW k, k.phase \notin Streaming,
         subscribers' = Unsubscribed(c)
  PROVE  Follows(c, k)
<1>1. call[c].about \in Calls
  BY CallType DEF CallState
<1> QED
  BY <1>1 DEF IInv, TypeOK, SubscribersAreServed, Follows, Unsubscribed

LEMMA SubscriptionBegins ==
  ASSUME IInv, NEW c \in Calls, NEW k, k.phase \in Streaming, k.about = call[c].about,
         call[c].phase \notin Streaming,
         subscribers' = [subscribers EXCEPT ![call[c].about] = @ \cup {c}]
  PROVE  Follows(c, k)
<1>1. call[c].about \in Calls
  BY CallType DEF CallState
<1> QED
  BY <1>1 DEF IInv, TypeOK, SubscribersAreServed, Follows

-----------------------------------------------------------------------------
\* Past the tenant check a call is not about another tenant's task.
LEMMA PastTheCheck ==
  ASSUME IInv, NEW c \in Calls, call[c].phase \notin {"reading", "opening", "done"}
  PROVE  ~Foreign(c, call[c])
BY DEF IInv, Isolated, Shielded

LEMMA StillSound ==
  ASSUME IInv, NEW c \in Calls, NEW k \in CallState,
         call[c].phase \notin {"reading", "opening", "done"},
         k.tenant = call[c].tenant, k.about = call[c].about,
         k.phase # "idle", k.phase = "done" <=> k.response # NoResponse
  PROVE  Sound(c, k)
BY PastTheCheck DEF Sound, Foreign

LEMMA GoesOn ==
  ASSUME IInv, NEW c \in Calls, NEW p \in Phases \ {"idle", "done"}, Goes(c, p),
         call[c].phase \notin {"idle", "reading", "opening", "done"}
  PROVE  \E k : /\ Sound(c, k) /\ k.phase = p /\ k.about = call[c].about
                /\ call' = [call EXCEPT ![c] = k]
<1> DEFINE k == [call[c] EXCEPT !.phase = p]
<1>1. /\ k \in CallState /\ k.phase = p /\ k.about = call[c].about
      /\ k.tenant = call[c].tenant /\ k.response = call[c].response
  BY CallType DEF CallState
<1>2. Sound(c, k)
  BY <1>1, CallType, StillSound DEF Phases
<1> QED
  BY <1>1, <1>2 DEF Goes

LEMMA IsAnswered ==
  ASSUME IInv, NEW c \in Calls, NEW r \in Responses, Answers(c, r),
         call[c].phase \notin {"idle", "done"},
         Foreign(c, call[c]) => r \in {"notFound", "refused", "busy", "dropped"}
  PROVE  \E k : /\ Sound(c, k) /\ k.phase = "done" /\ k.about = call[c].about
                /\ call' = [call EXCEPT ![c] = k]
<1> DEFINE k == [call[c] EXCEPT !.phase = "done", !.response = r]
<1>1. /\ k \in CallState /\ k.phase = "done" /\ k.about = call[c].about
      /\ k.tenant = call[c].tenant /\ k.response = r /\ k.told = call[c].told
  <2>1. call[c] \in CallState /\ "done" \in Phases /\ r \in Answered
    BY CallType DEF Phases, Answered
  <2> QED
    BY <2>1 DEF CallState
<1>2. r # NoResponse
  BY DEF Responses, Served, Refusals, NoResponse
<1>3. Foreign(c, k) => Foreign(c, call[c])
  BY <1>1 DEF Foreign
<1>4. Foreign(c, k) => Shielded(k)
  BY <1>1, <1>3 DEF IInv, Isolated, Shielded
<1>5. Sound(c, k)
  BY <1>1, <1>2, <1>4 DEF Sound
<1> QED
  BY <1>1, <1>5 DEF Answers

\* A call that is not a served websocket, before or after, keeps no subscription.
LEMMA MovesUnsubscribed ==
  ASSUME IInv, OthersTyped', NEW c \in Calls, call[c].phase \notin Streaming,
         UNCHANGED subscribers,
         \E k : /\ Sound(c, k) /\ k.phase \notin Streaming
                /\ call' = [call EXCEPT ![c] = k]
  PROVE  IInv'
<1>1. PICK k : /\ Sound(c, k) /\ k.phase \notin Streaming
               /\ call' = [call EXCEPT ![c] = k]
  OBVIOUS
<1>2. Follows(c, k)
  BY <1>1, SubscriptionKept
<1> QED
  BY <1>1, <1>2, OneCallMoves

\* The phases and answers the actions name.
LEMMA Names ==
  /\ {"enqueueing", "positioning", "waiting", "sleeping", "reading", "collecting",
      "opening"} \cap Streaming = {}
  /\ "idle" \notin Streaming /\ "done" \notin Streaming
  /\ Streaming = {"greeting", "refreshing", "sending", "listening"}
  /\ Awaiting \subseteq Phases \ {"idle", "done"}
  /\ Streaming \subseteq Awaiting
  /\ {"enqueueing", "positioning", "waiting", "sleeping", "reading", "collecting",
      "opening"} \subseteq Awaiting
  /\ Served \subseteq Responses /\ Refusals \subseteq Responses
  /\ "closed" \in Responses
BY DEF Streaming, Awaiting, Phases, Served, Refusals, Responses

LEMMA EnqueuedInv ==
  ASSUME IInv, NEW c \in Calls, Enqueued(c)
  PROVE  IInv'
<1>1. /\ call[c].phase = "enqueueing"
      /\ \/ Goes(c, "waiting") \/ Goes(c, "positioning")
      /\ task' = [task EXCEPT ![c] = "pending"]
      /\ UNCHANGED <<outcome, subscribers, processor, failed, deaths, faults>>
  BY DEF Enqueued, supervision
<1>2. OthersTyped'
  BY <1>1, CallType DEF OthersTyped, Known
<1> QED
  BY <1>1, <1>2, Names, GoesOn, MovesUnsubscribed

LEMMA EnqueueRefusedInv ==
  ASSUME IInv, NEW c \in Calls, NEW r \in {"invalid", "full", "busy"}, EnqueueRefused(c, r)
  PROVE  IInv'
<1>1. /\ call[c].phase = "enqueueing"
      /\ Answers(c, r)
      /\ UNCHANGED <<task, outcome, subscribers, processor, failed, deaths, faults>>
  BY DEF EnqueueRefused, supervision, orchestrator
<1>2. OthersTyped' /\ r \in Responses
  BY <1>1, CallType DEF OthersTyped, Responses, Refusals
<1>3. ~Foreign(c, call[c])
  BY <1>1, PastTheCheck
<1> QED
  BY <1>1, <1>2, <1>3, Names, IsAnswered, MovesUnsubscribed

LEMMA WaitReadsInv ==
  ASSUME IInv, NEW c \in Calls, WaitReads(c)
  PROVE  IInv'
<1>1. /\ call[c].phase = "waiting"
      /\ Goes(c, "collecting") \/ Goes(c, "sleeping") \/ Answers(c, "error")
      /\ UNCHANGED <<task, outcome, subscribers, processor, failed, deaths, faults>>
  BY DEF WaitReads, supervision, orchestrator
<1>2. OthersTyped' /\ "error" \in Responses
  BY <1>1, CallType DEF OthersTyped, Responses, Refusals
<1>3. ~Foreign(c, call[c])
  BY <1>1, PastTheCheck
<1> QED
  BY <1>1, <1>2, <1>3, Names, GoesOn, IsAnswered, MovesUnsubscribed

LEMMA CollectsInv ==
  ASSUME IInv, NEW c \in Calls, Collects(c)
  PROVE  IInv'
<1>1. /\ call[c].phase = "collecting"
      /\ Answers(c, "result") \/ Answers(c, "failed") \/ Answers(c, "notFound")
      /\ UNCHANGED <<task, outcome, subscribers, processor, failed, deaths, faults>>
  BY DEF Collects, supervision, orchestrator
<1>2. OthersTyped' /\ {"result", "failed", "notFound"} \subseteq Responses
  BY <1>1, CallType DEF OthersTyped, Responses, Refusals, Served
<1>3. ~Foreign(c, call[c])
  BY <1>1, PastTheCheck
<1> QED
  BY <1>1, <1>2, <1>3, Names, IsAnswered, MovesUnsubscribed

LEMMA PositionedInv ==
  ASSUME IInv, NEW c \in Calls, Positioned(c)
  PROVE  IInv'
<1>1. /\ call[c].phase = "positioning"
      /\ UNCHANGED <<task, outcome, subscribers, processor, failed, deaths, faults>>
  BY DEF Positioned, supervision, orchestrator
<1>2. OthersTyped' /\ {"accepted", "status", "error", "notFound"} \subseteq Responses
  BY <1>1, CallType DEF OthersTyped, Responses, Refusals, Served
<1>3. ~Foreign(c, call[c])
  BY <1>1, PastTheCheck
<1>4. CASE Answers(c, "accepted") \/ Answers(c, "error") \/ Answers(c, "notFound")
  BY <1>4, <1>1, <1>2, <1>3, Names, IsAnswered, MovesUnsubscribed
<1>5. CASE call' = [call EXCEPT ![c].phase = "done", ![c].response = "status",
                                ![c].told = call[c].read]
  <2> DEFINE k == [call[c] EXCEPT !.phase = "done", !.response = "status",
                                  !.told = call[c].read]
  <2>1. call[c] \in CallState /\ "done" \in Phases /\ "status" \in Answered
    BY <1>2, CallType DEF Phases, Answered
  <2>2. /\ k \in CallState /\ k.phase = "done" /\ k.response = "status"
        /\ k.tenant = call[c].tenant /\ k.about = call[c].about
    BY <2>1 DEF CallState
  <2>3. "status" # NoResponse
    BY DEF NoResponse
  <2>4. Sound(c, k)
    BY <2>2, <2>3, <1>1, StillSound
  <2>5. call' = [call EXCEPT ![c] = k]
    BY <1>5
  <2> QED
    BY <2>2, <2>4, <2>5, <1>1, <1>2, Names, MovesUnsubscribed
<1> QED
  BY <1>4, <1>5 DEF Positioned

LEMMA WaitSleepsInv ==
  ASSUME IInv, NEW c \in Calls, WaitSleeps(c)
  PROVE  IInv'
<1>1. /\ call[c].phase = "sleeping"
      /\ UNCHANGED <<task, outcome, subscribers, processor, failed, deaths, faults>>
  BY DEF WaitSleeps, supervision, orchestrator
<1>2. OthersTyped' /\ "timeout" \in Responses
  BY <1>1, CallType DEF OthersTyped, Responses, Refusals
<1>3. ~Foreign(c, call[c])
  BY <1>1, PastTheCheck
<1>4. CASE Answers(c, "timeout")
  BY <1>4, <1>1, <1>2, <1>3, Names, IsAnswered, MovesUnsubscribed
<1>5. CASE /\ call[c].polls # MaxWaits
           /\ call' = [call EXCEPT ![c].phase = "waiting", ![c].polls = @ + 1]
  <2> DEFINE k == [call[c] EXCEPT !.phase = "waiting", !.polls = @ + 1]
  <2>1. call[c] \in CallState /\ "waiting" \in Phases
    BY Names, CallType
  <2>2. call[c].polls + 1 \in 0 .. MaxWaits
    BY <2>1, <1>5, MaxWaitsAssumption DEF CallState
  <2>3. /\ k \in CallState /\ k.phase = "waiting" /\ k.response = call[c].response
        /\ k.tenant = call[c].tenant /\ k.about = call[c].about
    BY <2>1, <2>2 DEF CallState
  <2>4. Sound(c, k)
    BY <2>3, <1>1, CallType, StillSound
  <2>5. call' = [call EXCEPT ![c] = k]
    BY <1>5
  <2> QED
    BY <2>3, <2>4, <2>5, <1>1, <1>2, Names, MovesUnsubscribed
<1> QED
  BY <1>4, <1>5 DEF WaitSleeps

\* A call that is made starts from a fresh record.
LEMMA SubmitInv ==
  ASSUME IInv, NEW c \in Calls, NEW kind \in {"sync", "async"}, Submit(c, kind)
  PROVE  IInv'
<1> DEFINE k == [call[c] EXCEPT !.kind = kind, !.phase = "enqueueing"]
<1>1. /\ call[c].phase = "idle"
      /\ call' = [call EXCEPT ![c] = k]
      /\ UNCHANGED <<task, outcome, subscribers, processor, failed, deaths, faults>>
  BY DEF Submit, Idle, supervision, orchestrator
<1>2. call[c] \in CallState /\ "enqueueing" \in Phases /\ kind \in Kinds
  BY Names, CallType DEF Kinds
<1>3. /\ k \in CallState /\ k.phase = "enqueueing" /\ k.response = call[c].response
      /\ k.tenant = call[c].tenant /\ k.about = call[c].about
  BY <1>2 DEF CallState
<1>4. Sound(c, k)
  BY <1>3, <1>1, CallType, StillSound
<1>5. OthersTyped'
  BY <1>1, CallType DEF OthersTyped
<1> QED
  BY <1>1, <1>3, <1>4, <1>5, Names, MovesUnsubscribed

LEMMA AskInv ==
  ASSUME IInv, NEW c \in Calls, NEW r \in Calls \ {c},
         NEW kind \in {"poll", "result", "stream"}, Ask(c, r, kind)
  PROVE  IInv'
<1> DEFINE p == IF kind = "stream" THEN "opening" ELSE "reading"
           k == [call[c] EXCEPT !.kind = kind, !.about = r, !.phase = p]
<1>1. /\ call[c].phase = "idle"
      /\ call' = [call EXCEPT ![c] = k]
      /\ UNCHANGED <<task, outcome, subscribers, processor, failed, deaths, faults>>
  BY DEF Ask, Idle, supervision, orchestrator
<1>2. call[c] \in CallState /\ p \in Phases /\ kind \in Kinds
  BY Names, CallType DEF Kinds
<1>3. /\ k \in CallState /\ k.phase = p /\ k.response = call[c].response
      /\ k.tenant = call[c].tenant /\ k.told = call[c].told
  BY <1>2 DEF CallState
<1>4. call[c].response = NoResponse /\ call[c].told = Nothing
  BY <1>1, CallType DEF IInv, Fresh, Idle
<1>5. Shielded(k) /\ Sound(c, k)
  BY <1>3, <1>4 DEF Sound, Shielded
<1>6. OthersTyped'
  BY <1>1, CallType DEF OthersTyped
<1> QED
  BY <1>1, <1>3, <1>5, <1>6, Names, MovesUnsubscribed

\* The tenant check of a status or a result: from here on the call is not
\* about another tenant's task, or it was answered that there is none.
LEMMA ReadsInv ==
  ASSUME IInv, NEW c \in Calls, Reads(c)
  PROVE  IInv'
<1>1. /\ call[c].phase = "reading"
      /\ UNCHANGED <<task, outcome, subscribers, processor, failed, deaths, faults>>
  BY DEF Reads, supervision, orchestrator
<1>2. OthersTyped' /\ "notFound" \in Responses
  BY <1>1, CallType DEF OthersTyped, Responses, Refusals
<1>3. CASE ~Visible(c)
  <2>1. Answers(c, "notFound")
    BY <1>3 DEF Reads
  <2> QED
    BY <2>1, <1>1, <1>2, Names, IsAnswered, MovesUnsubscribed
<1>4. CASE Visible(c)
  <2> DEFINE p == IF call[c].kind = "poll" THEN "positioning" ELSE "collecting"
             k == [call[c] EXCEPT !.read = Target(c), !.phase = p]
  <2>1. call[c] \in CallState /\ p \in Phases /\ Target(c) \in Known
    BY <1>4, Names, CallType DEF Visible
  <2>2. /\ k \in CallState /\ k.phase = p /\ k.response = call[c].response
        /\ k.tenant = call[c].tenant /\ k.about = call[c].about
    BY <2>1 DEF CallState
  <2>3. ~Foreign(c, k)
    BY <2>2, <1>4 DEF Foreign, Visible
  <2>4. Sound(c, k)
    BY <2>2, <2>3, <1>1, CallType DEF Sound
  <2>5. call' = [call EXCEPT ![c] = k]
    BY <1>4 DEF Reads
  <2> QED
    BY <2>2, <2>4, <2>5, <1>1, <1>2, Names, MovesUnsubscribed
<1> QED
  BY <1>3, <1>4

-----------------------------------------------------------------------------
\* A served websocket keeps its subscription, or ends with it.
LEMMA MovesServed ==
  ASSUME IInv, OthersTyped', NEW c \in Calls, call[c].phase \in Streaming,
         NEW k, Sound(c, k), k.about = call[c].about,
         call' = [call EXCEPT ![c] = k],
         \/ k.phase \in Streaming /\ UNCHANGED subscribers
         \/ k.phase \notin Streaming /\ subscribers' = Unsubscribed(c)
  PROVE  IInv'
<1>1. Follows(c, k)
  BY SubscriptionKept, SubscriptionEnds
<1> QED
  BY <1>1, OneCallMoves

\* Whatever the reason, a websocket that is answered leaves the subscribers.
LEMMA LeavesServed ==
  ASSUME IInv, OthersTyped', NEW c \in Calls, call[c].phase \in Streaming,
         NEW r \in Responses, Answers(c, r), subscribers' = Unsubscribed(c)
  PROVE  IInv'
<1>1. ~Foreign(c, call[c]) /\ call[c].phase \notin {"idle", "done"}
  BY Names, PastTheCheck
<1>2. PICK k : /\ Sound(c, k) /\ k.phase = "done" /\ k.about = call[c].about
               /\ call' = [call EXCEPT ![c] = k]
  BY <1>1, IsAnswered
<1> QED
  BY <1>2, Names, MovesServed

LEMMA StreamOpensInv ==
  ASSUME IInv, NEW c \in Calls, StreamOpens(c)
  PROVE  IInv'
<1>1. /\ call[c].phase = "opening"
      /\ UNCHANGED <<task, outcome, processor, failed, deaths, faults>>
  BY DEF StreamOpens, supervision, orchestrator
<1>2. OthersTyped' /\ "refused" \in Responses
  BY <1>1, CallType DEF OthersTyped, Responses, Refusals
<1>3. CASE ~Visible(c)
  <2>1. Answers(c, "refused") /\ UNCHANGED subscribers
    BY <1>3 DEF StreamOpens
  <2> QED
    BY <2>1, <1>1, <1>2, Names, IsAnswered, MovesUnsubscribed
<1>4. CASE Visible(c)
  <2> DEFINE k == [call[c] EXCEPT !.phase = "greeting", !.read = Target(c)]
  <2>1. call[c] \in CallState /\ "greeting" \in Phases /\ Target(c) \in Known
    BY <1>4, Names, CallType DEF Visible
  <2>2. /\ k \in CallState /\ k.phase = "greeting" /\ k.response = call[c].response
        /\ k.tenant = call[c].tenant /\ k.about = call[c].about
    BY <2>1 DEF CallState
  <2>3. ~Foreign(c, k)
    BY <2>2, <1>4 DEF Foreign, Visible
  <2>4. Sound(c, k)
    BY <2>2, <2>3, <1>1, CallType DEF Sound
  <2>5. /\ call' = [call EXCEPT ![c] = k]
        /\ subscribers' = [subscribers EXCEPT ![call[c].about] = @ \cup {c}]
    BY <1>4 DEF StreamOpens
  <2>6. Follows(c, k)
    <3> HIDE DEF k
    <3> QED
      BY <2>2, <2>5, <1>1, Names, SubscriptionBegins
  <2> QED
    BY <2>4, <2>5, <2>6, <1>2, OneCallMoves
<1> QED
  BY <1>3, <1>4

\* A streaming step that neither ends the socket nor looks elsewhere.
LEMMA StreamGoesOn ==
  ASSUME IInv, NEW c \in Calls, call[c].phase \in Streaming,
         NEW k \in CallState, k.phase \in Streaming, k.response = call[c].response,
         k.tenant = call[c].tenant, k.about = call[c].about,
         call' = [call EXCEPT ![c] = k],
         UNCHANGED <<task, outcome, subscribers, processor, failed, deaths, faults>>
  PROVE  IInv'
<1>1. Sound(c, k)
  BY Names, CallType, StillSound
<1>2. OthersTyped'
  BY CallType DEF OthersTyped
<1> QED
  BY <1>1, <1>2, MovesServed

LEMMA StreamGreetsInv ==
  ASSUME IInv, NEW c \in Calls, StreamGreets(c)
  PROVE  IInv'
<1> DEFINE k == [call[c] EXCEPT !.phase = "refreshing", !.told = call[c].read]
<1>1. /\ call[c].phase = "greeting" /\ call' = [call EXCEPT ![c] = k]
      /\ UNCHANGED <<task, outcome, subscribers, processor, failed, deaths, faults>>
  BY DEF StreamGreets, supervision, orchestrator
<1>2. call[c] \in CallState /\ "refreshing" \in Phases
  BY Names, CallType
<1>3. /\ k \in CallState /\ k.phase = "refreshing" /\ k.response = call[c].response
      /\ k.tenant = call[c].tenant /\ k.about = call[c].about
  BY <1>2 DEF CallState
<1> HIDE DEF k
<1> QED
  BY <1>1, <1>3, Names, StreamGoesOn

LEMMA StreamRefreshesInv ==
  ASSUME IInv, NEW c \in Calls, StreamRefreshes(c)
  PROVE  IInv'
<1> DEFINE k == [call[c] EXCEPT !.phase = "sending", !.read = Target(c)]
<1>1. /\ call[c].phase = "refreshing" /\ call' = [call EXCEPT ![c] = k]
      /\ Target(c) \in Known
      /\ UNCHANGED <<task, outcome, subscribers, processor, failed, deaths, faults>>
  BY DEF StreamRefreshes, supervision, orchestrator
<1>2. call[c] \in CallState /\ "sending" \in Phases
  BY Names, CallType
<1>3. /\ k \in CallState /\ k.phase = "sending" /\ k.response = call[c].response
      /\ k.tenant = call[c].tenant /\ k.about = call[c].about
  BY <1>1, <1>2 DEF CallState
<1> HIDE DEF k
<1> QED
  BY <1>1, <1>3, Names, StreamGoesOn

LEMMA ClientAsksInv ==
  ASSUME IInv, NEW c \in Calls, ClientAsks(c)
  PROVE  IInv'
<1>1. /\ call[c].phase = "listening" /\ Goes(c, "refreshing")
      /\ UNCHANGED <<task, outcome, subscribers, processor, failed, deaths, faults>>
  BY DEF ClientAsks, supervision, orchestrator
<1>2. PICK k : /\ Sound(c, k) /\ k.phase = "refreshing" /\ k.about = call[c].about
               /\ call' = [call EXCEPT ![c] = k]
  BY <1>1, Names, GoesOn
<1>3. OthersTyped'
  BY <1>1, CallType DEF OthersTyped
<1> QED
  BY <1>1, <1>2, <1>3, Names, MovesServed

LEMMA StreamSendsInv ==
  ASSUME IInv, NEW c \in Calls, StreamSends(c)
  PROVE  IInv'
<1>1. /\ call[c] \in CallState /\ call[c].phase = "sending"
      /\ call[c].read \in Known \cup {Nothing}
      /\ UNCHANGED <<task, outcome, processor, failed, deaths, faults>>
  BY CallType DEF StreamSends, supervision, CallState, orchestrator
<1>2. CASE call[c].read \notin Ended
  <2> DEFINE k == [call[c] EXCEPT !.phase = "listening", !.told = call[c].read]
  <2>1. call' = [call EXCEPT ![c] = k] /\ UNCHANGED subscribers
    BY <1>2 DEF StreamSends
  <2>2. call[c] \in CallState /\ "listening" \in Phases
    BY <1>1, Names
  <2>3. /\ k \in CallState /\ k.phase = "listening" /\ k.response = call[c].response
        /\ k.tenant = call[c].tenant /\ k.about = call[c].about
    BY <2>2 DEF CallState
  <2> HIDE DEF k
  <2> QED
    BY <2>1, <2>3, <1>1, Names, StreamGoesOn
<1>3. CASE call[c].read \in Ended
  <2> DEFINE k == [call[c] EXCEPT !.phase = "done", !.response = "closed",
                                  !.told = call[c].read]
  <2>1. call[c] \in CallState /\ "done" \in Phases /\ "closed" \in Answered
    BY <1>1, Names DEF Phases, Answered
  <2>2. /\ k \in CallState /\ k.phase = "done" /\ k.response = "closed"
        /\ k.tenant = call[c].tenant /\ k.about = call[c].about
    BY <2>1, <1>1 DEF CallState
  <2>3. "closed" # NoResponse
    BY DEF NoResponse
  <2>4. Sound(c, k)
    BY <2>2, <2>3, <1>1, StillSound
  <2>5. call' = [call EXCEPT ![c] = k] /\ subscribers' = Unsubscribed(c)
    BY <1>3 DEF StreamSends
  <2>6. OthersTyped'
    BY <1>1, CallType DEF OthersTyped
  <2> QED
    BY <2>2, <2>4, <2>5, <2>6, <1>1, Names, MovesServed
<1> QED
  BY <1>2, <1>3

LEMMA StreamVanishesInv ==
  ASSUME IInv, NEW c \in Calls, StreamVanishes(c)
  PROVE  IInv'
<1>1. OthersTyped' /\ "vanished" \in Responses
  BY CallType DEF StreamVanishes, supervision, OthersTyped, Responses, Refusals, orchestrator
<1> QED
  BY <1>1, Names, LeavesServed DEF StreamVanishes

LEMMA ClientLeavesInv ==
  ASSUME IInv, NEW c \in Calls, ClientLeaves(c)
  PROVE  IInv'
<1>1. OthersTyped' /\ "left" \in Responses
  BY CallType DEF ClientLeaves, supervision, OthersTyped, Responses, Refusals, orchestrator
<1> QED
  BY <1>1, Names, LeavesServed DEF ClientLeaves

\* Back pressure strikes before the tenant check as well as after it; to be
\* told to come back says nothing of the task.
LEMMA BackpressureInv ==
  ASSUME IInv, NEW c \in Calls, Backpressure(c)
  PROVE  IInv'
<1>1. /\ call[c].phase \in Awaiting /\ Answers(c, "busy")
      /\ subscribers' = Unsubscribed(c)
      /\ faults < MaxFaults /\ faults' = faults + 1
      /\ UNCHANGED <<task, outcome, processor, failed, deaths>>
  BY DEF Backpressure, supervision, orchestrator
<1>2. faults' \in 0 .. MaxFaults
  BY <1>1, CallType, BoundsAssumption DEF OthersTyped
<1>3. OthersTyped' /\ "busy" \in Responses
  BY <1>1, <1>2, CallType DEF OthersTyped, Responses, Refusals
<1>4. PICK k : /\ Sound(c, k) /\ k.phase = "done" /\ k.about = call[c].about
               /\ call' = [call EXCEPT ![c] = k]
  BY <1>1, <1>3, Names, IsAnswered
<1>5. Follows(c, k)
  BY <1>1, <1>4, Names, SubscriptionEnds
<1> QED
  BY <1>3, <1>4, <1>5, OneCallMoves

-----------------------------------------------------------------------------
\* The orchestrator's steps on a task leave every call where it is.
LEMMA TaskInv ==
  ASSUME IInv, NEW t \in Calls,
         TaskGone(t) \/ OutcomeExpires(t) \/ \E how \in Ended : TaskEnds(t, how)
  PROVE  IInv'
<1>1. /\ task' \in [Calls -> Known \cup {"none", "gone"}]
      /\ outcome' \in [Calls -> Ended \cup {Nothing}]
      /\ UNCHANGED <<call, subscribers, processor, failed, deaths, faults>>
  BY CallType DEF TaskGone, OutcomeExpires, TaskEnds, OthersTyped, Known, supervision
<1>2. TypeOK'
  BY <1>1 DEF IInv, TypeOK
<1>3. SubscribersAreServed' /\ Isolated' /\ Fresh'
  BY <1>1 DEF IInv, SubscribersAreServed, Isolated, Shielded, Foreign, Fresh, Idle
<1> QED
  BY <1>2, <1>3 DEF IInv

\* A push is heard by served websockets only, none of which is foreign.
LEMMA PushInv ==
  ASSUME IInv, NEW t \in Calls, Push(t)
  PROVE  IInv'
<1> DEFINE Heard(c) == [call[c] EXCEPT !.told = task[t]]
<1>1. /\ task[t] \in Known
      /\ call' = [c \in Calls |-> IF c \in subscribers[t] THEN Heard(c) ELSE call[c]]
      /\ UNCHANGED <<task, outcome, subscribers, processor, failed, deaths, faults>>
  BY DEF Push, supervision, orchestrator
<1>2. \A c \in Calls :
        /\ call'[c] \in CallState
        /\ call'[c].phase = call[c].phase /\ call'[c].about = call[c].about
        /\ call'[c].tenant = call[c].tenant /\ call'[c].response = call[c].response
        /\ c \notin subscribers[t] => call'[c].told = call[c].told
  <2> SUFFICES ASSUME NEW c \in Calls
               PROVE  /\ call'[c] \in CallState
                      /\ call'[c].phase = call[c].phase /\ call'[c].about = call[c].about
                      /\ call'[c].tenant = call[c].tenant
                      /\ call'[c].response = call[c].response
                      /\ c \notin subscribers[t] => call'[c].told = call[c].told
    OBVIOUS
  <2>1. call[c] \in CallState
    BY CallType
  <2>2. /\ Heard(c) \in CallState
        /\ Heard(c).phase = call[c].phase /\ Heard(c).about = call[c].about
        /\ Heard(c).tenant = call[c].tenant /\ Heard(c).response = call[c].response
    BY <2>1, <1>1 DEF CallState
  <2> QED
    BY <2>1, <2>2, <1>1
<1>3. call' \in [Calls -> CallState]
  BY <1>1, <1>2
<1>4. \A c \in Calls : call[c].phase \notin Streaming => c \notin subscribers[t]
  BY DEF IInv, SubscribersAreServed
<1>5. TypeOK'
  BY <1>1, <1>2, <1>3 DEF IInv, TypeOK, CallState, Phases, Answered
<1>6. SubscribersAreServed'
  BY <1>1, <1>2 DEF IInv, SubscribersAreServed
<1>7. Isolated'
  <2> SUFFICES ASSUME NEW c \in Calls, Foreign(c, call[c])' PROVE Shielded(call[c])'
    BY DEF Isolated
  <2>1. Foreign(c, call[c])
    BY <1>2, CallType DEF Foreign, CallState
  <2>2. Shielded(call[c])
    BY <2>1 DEF IInv, Isolated
  <2>3. c \notin subscribers[t]
    BY <2>2, <1>4, Names DEF Shielded, Streaming
  <2> QED
    BY <2>2, <2>3, <1>2 DEF Shielded
<1>8. Fresh'
  BY <1>2, <1>4, Names DEF IInv, Fresh, Idle
<1> QED
  BY <1>5, <1>6, <1>7, <1>8 DEF IInv

LEMMA ProcessorInv ==
  ASSUME IInv, ProcessorReturns \/ ProcessorDies \/ Supervise
  PROVE  IInv'
<1>1. UNCHANGED <<call, task, outcome, subscribers, faults>>
  BY DEF ProcessorReturns, ProcessorDies, Supervise, orchestrator
<1>2. /\ processor' \in {"running", "returned", "dead"}
      /\ failed' \in BOOLEAN
      /\ deaths' \in 0 .. MaxDeaths
  <2>1. CASE ProcessorReturns \/ Supervise
    BY <2>1, CallType DEF ProcessorReturns, Supervise, OthersTyped
  <2>2. CASE ProcessorDies
    BY <2>2, CallType, BoundsAssumption DEF ProcessorDies, OthersTyped
  <2> QED
    BY <2>1, <2>2
<1>3. TypeOK'
  BY <1>1, <1>2 DEF IInv, TypeOK
<1>4. SubscribersAreServed' /\ Isolated' /\ Fresh'
  BY <1>1 DEF IInv, SubscribersAreServed, Isolated, Shielded, Foreign, Fresh, Idle
<1> QED
  BY <1>3, <1>4 DEF IInv

\* A restart cuts every call off and empties the subscribers.
LEMMA PodRestartsInv ==
  ASSUME IInv, PodRestarts
  PROVE  IInv'
<1> DEFINE Dropped(c) == [call[c] EXCEPT !.phase = "done", !.response = "dropped"]
<1>1. /\ call' = [c \in Calls |-> IF call[c].phase \in Awaiting THEN Dropped(c) ELSE call[c]]
      /\ subscribers' = [t \in Calls |-> {}]
      /\ processor' = "running" /\ failed' = FALSE
      /\ UNCHANGED <<task, outcome, faults, deaths>>
  BY DEF PodRestarts, orchestrator
<1>2. "done" \in Phases /\ "dropped" \in Answered /\ "dropped" # NoResponse
  BY DEF Phases, Answered, Responses, Refusals, NoResponse
<1>3. \A c \in Calls :
        /\ call'[c] \in CallState
        /\ call'[c].phase = "done" <=> call'[c].response # NoResponse
        /\ call'[c].phase \in {"idle", "done"}
        /\ call'[c].about = call[c].about /\ call'[c].tenant = call[c].tenant
        /\ call'[c].told = call[c].told
        /\ call'[c].response \in {call[c].response, "dropped"}
        /\ call'[c].phase = "idle" => call[c].phase = "idle"
        /\ call[c].phase = "idle" => call'[c] = call[c]
  <2> SUFFICES ASSUME NEW c \in Calls
               PROVE  /\ call'[c] \in CallState
                      /\ call'[c].phase = "done" <=> call'[c].response # NoResponse
                      /\ call'[c].phase \in {"idle", "done"}
                      /\ call'[c].about = call[c].about
                      /\ call'[c].tenant = call[c].tenant
                      /\ call'[c].told = call[c].told
                      /\ call'[c].response \in {call[c].response, "dropped"}
                      /\ call'[c].phase = "idle" => call[c].phase = "idle"
                      /\ call[c].phase = "idle" => call'[c] = call[c]
    OBVIOUS
  <2>1. /\ call[c] \in CallState
        /\ call[c].phase = "done" <=> call[c].response # NoResponse
        /\ call[c].phase \in Awaiting \/ call[c].phase \in {"idle", "done"}
    BY CallType DEF CallState, Phases
  <2>2. /\ Dropped(c) \in CallState
        /\ Dropped(c).phase = "done" /\ Dropped(c).response = "dropped"
        /\ Dropped(c).about = call[c].about /\ Dropped(c).tenant = call[c].tenant
        /\ Dropped(c).told = call[c].told
    BY <2>1, <1>2 DEF CallState
  <2>3. "idle" \notin Awaiting
    BY Names
  <2> HIDE DEF Dropped
  <2>4. CASE call[c].phase \in Awaiting
    <3>1. call'[c] = Dropped(c)
      BY <2>4, <1>1
    <3> QED
      BY <3>1, <2>2, <2>3, <2>4, <1>2
  <2>5. CASE call[c].phase \notin Awaiting
    <3>1. call'[c] = call[c]
      BY <2>5, <1>1
    <3> QED
      BY <3>1, <2>1, <2>5
  <2> QED
    BY <2>4, <2>5
<1>4. call' \in [Calls -> CallState]
  BY <1>1, <1>3
<1>5. TypeOK'
  BY <1>1, <1>3, <1>4 DEF IInv, TypeOK, CallState, Phases, Answered
<1>6. SubscribersAreServed'
  BY <1>1, <1>3, Names DEF SubscribersAreServed
<1>7. Isolated'
  <2> SUFFICES ASSUME NEW c \in Calls, Foreign(c, call[c])' PROVE Shielded(call[c])'
    BY DEF Isolated
  <2>1. Foreign(c, call[c])
    BY <1>3, CallType DEF Foreign, CallState
  <2>2. Shielded(call[c])
    BY <2>1 DEF IInv, Isolated
  <2> QED
    BY <2>2, <1>3 DEF Shielded
<1>8. Fresh'
  BY <1>3 DEF IInv, Fresh, Idle
<1> QED
  BY <1>5, <1>6, <1>7, <1>8 DEF IInv

-----------------------------------------------------------------------------
LEMMA StepInv == IInv /\ [Next]_vars => IInv'
<1> SUFFICES ASSUME IInv, [Next]_vars PROVE IInv'
  OBVIOUS
<1>1. CASE UNCHANGED vars
  BY <1>1 DEF vars, IInv, TypeOK, SubscribersAreServed, Isolated, Shielded, Foreign,
              Fresh, Idle
<1>2. ASSUME NEW c \in Calls, HandlerStep(c) PROVE IInv'
  BY <1>2, EnqueuedInv, EnqueueRefusedInv, PositionedInv, WaitReadsInv, WaitSleepsInv,
     ReadsInv, CollectsInv, StreamOpensInv, StreamGreetsInv, StreamRefreshesInv,
     StreamSendsInv, StreamVanishesInv DEF HandlerStep
<1>3. ASSUME NEW c \in Calls, ClientStep(c) PROVE IInv'
  BY <1>3, SubmitInv, AskInv, ClientAsksInv, ClientLeavesInv DEF ClientStep
<1> QED
  BY <1>1, <1>2, <1>3, BackpressureInv, TaskInv, PushInv, ProcessorInv, PodRestartsInv
     DEF Next

\* Every variable keeps its type, and a call is answered exactly when it is
\* over, whatever handlers, clients, pushes and restarts do.
THEOREM TypeCorrect == Spec => []TypeOK
<1>1. IInv => TypeOK
  BY DEF IInv
<1> QED
  BY <1>1, InitInv, StepInv, PTL DEF Spec

\* However a websocket ends, its subscription ends with it, and no other way
\* (app.py:1487-1490, 1555-1558).
THEOREM ServedAndSubscribed == Spec => []SubscribersAreServed
<1>1. IInv => SubscribersAreServed
  BY DEF IInv
<1> QED
  BY <1>1, InitInv, StepInv, PTL DEF Spec

\* No call can tell another tenant's task from one that never existed, with
\* any number of tenants, tasks and calls (app.py:659-674).
THEOREM TenantsAreApart == Spec => []ForeignTasksLookUnknown
<1>1. IInv => ForeignTasksLookUnknown
  BY DEF IInv, Isolated, Shielded, Foreign, ForeignTasksLookUnknown
<1> QED
  BY <1>1, InitInv, StepInv, PTL DEF Spec

-----------------------------------------------------------------------------
\* What is about to be sent, and what was sent last, of a task that ended.
Timely(k) ==
  /\ k.phase = "sending" /\ k.read \in Ended => task[k.about] \in {k.read, "gone"}
  /\ k.response = "closed" => k.told \in Ended /\ task[k.about] \in {k.told, "gone"}

\* A submit that has not come through has no task.
NotYet(c) == call[c].phase \in {"idle", "enqueueing"} => task[c] = "none"

TInv == \A c \in Calls : Timely(call[c]) /\ NotYet(c)

\* A step of one call that neither sends an ending nor is about to, and admits
\* no task but its own.
Quiet(c) ==
  /\ \A x \in Calls \ {c} : call'[x] = call[x]
  /\ call'[c].phase # "sending" /\ call'[c].response # "closed"
  /\ call'[c].phase \in {"idle", "enqueueing"} => call[c].phase = "idle"

LEMMA QuietTimely ==
  ASSUME IInv, TInv, NEW c \in Calls, Quiet(c),
         \/ UNCHANGED task
         \/ /\ call[c].phase = "enqueueing" /\ call'[c].phase # "enqueueing"
            /\ task' = [task EXCEPT ![c] = "pending"]
  PROVE  TInv'
<1> SUFFICES ASSUME NEW x \in Calls PROVE Timely(call[x])' /\ NotYet(x)'
  BY DEF TInv
<1>1. /\ task \in [Calls -> Known \cup {"none", "gone"}]
      /\ Timely(call[x]) /\ NotYet(x) /\ call[x].about \in Calls
      /\ NotYet(c)
  BY CallType DEF OthersTyped, CallState, TInv
<1>2. CASE UNCHANGED task
  BY <1>1, <1>2 DEF Quiet, Timely, NotYet
<1>3. CASE /\ call[c].phase = "enqueueing" /\ call'[c].phase # "enqueueing"
           /\ task' = [task EXCEPT ![c] = "pending"]
  <2>1. task[c] = "none"
    BY <1>1, <1>3 DEF NotYet
  <2>2. \A t \in Calls : task[t] # "none" => task'[t] = task[t]
    BY <2>1, <1>1, <1>3
  <2>3. \A t \in Calls \ {c} : task'[t] = task[t]
    BY <1>1, <1>3
  <2>4. Timely(call[x])'
    BY <2>2, <1>1 DEF Quiet, Timely, Ended
  <2>5. NotYet(x)'
    BY <2>3, <1>1, <1>3 DEF Quiet, NotYet
  <2> QED
    BY <2>4, <2>5
<1> QED
  BY <1>2, <1>3

LEMMA GoesQuietly ==
  ASSUME IInv, NEW c \in Calls, call[c].phase # "done",
         NEW p \in {"waiting", "positioning", "collecting", "sleeping", "refreshing"},
         Goes(c, p)
  PROVE  Quiet(c) /\ call'[c].phase = p
BY CallType DEF Goes, Quiet, CallState, NoResponse

LEMMA AnswersQuietly ==
  ASSUME IInv, NEW c \in Calls, NEW r \in Responses \ {"closed"}, Answers(c, r)
  PROVE  Quiet(c)
BY CallType DEF Answers, Quiet, CallState

LEMMA EnqueuedTimely ==
  ASSUME IInv, TInv, NEW c \in Calls, Enqueued(c)
  PROVE  TInv'
<1>1. /\ call[c].phase = "enqueueing"
      /\ \/ Goes(c, "waiting") \/ Goes(c, "positioning")
      /\ task' = [task EXCEPT ![c] = "pending"]
  BY DEF Enqueued
<1>2. Quiet(c) /\ call'[c].phase # "enqueueing"
  BY <1>1, GoesQuietly
<1> QED
  BY <1>1, <1>2, QuietTimely

LEMMA AnswerNames ==
  {"invalid", "full", "busy", "accepted", "notFound", "error", "timeout", "result",
   "failed", "refused", "vanished", "left"} \subseteq Responses \ {"closed"}
BY DEF Responses, Served, Refusals

\* The other steps of requests, and those of websockets that end or wait.
LEMMA OthersTimely ==
  ASSUME IInv, TInv, NEW c \in Calls,
         \/ \E r \in {"invalid", "full", "busy"} : EnqueueRefused(c, r)
         \/ Positioned(c) \/ WaitReads(c) \/ WaitSleeps(c) \/ Reads(c) \/ Collects(c)
         \/ StreamOpens(c) \/ StreamGreets(c) \/ StreamVanishes(c)
         \/ \E kind \in {"sync", "async"} : Submit(c, kind)
         \/ \E r \in Calls, kind \in {"poll", "result", "stream"} : Ask(c, r, kind)
         \/ ClientAsks(c) \/ ClientLeaves(c) \/ Backpressure(c)
  PROVE  TInv'
<1>1. call \in [Calls -> CallState] /\ call[c] \in CallState
      /\ (call[c].phase # "done" => call[c].response # "closed")
  BY CallType DEF NoResponse
<1>2. ASSUME \/ \E r \in {"invalid", "full", "busy"} : EnqueueRefused(c, r)
             \/ StreamVanishes(c) \/ ClientLeaves(c) \/ Backpressure(c) \/ Collects(c)
      PROVE  Quiet(c) /\ UNCHANGED task
  <2>1. UNCHANGED task /\ \E r \in Responses \ {"closed"} : Answers(c, r)
    BY <1>2, AnswerNames DEF EnqueueRefused, StreamVanishes, ClientLeaves, Backpressure,
                              Collects, orchestrator
  <2> QED
    BY <2>1, AnswersQuietly
<1>3. ASSUME WaitReads(c) \/ ClientAsks(c)
      PROVE  Quiet(c) /\ UNCHANGED task
  <2>1. /\ UNCHANGED task /\ call[c].phase # "done"
        /\ \/ Goes(c, "collecting") \/ Goes(c, "sleeping") \/ Goes(c, "refreshing")
           \/ Answers(c, "error")
    BY <1>3 DEF WaitReads, ClientAsks, orchestrator
  <2> QED
    BY <2>1, GoesQuietly, AnswersQuietly, AnswerNames
<1>4. ASSUME Positioned(c) PROVE Quiet(c) /\ UNCHANGED task
  <2>1. CASE \E r \in Responses \ {"closed"} : Answers(c, r)
    BY <2>1, <1>4, AnswersQuietly DEF Positioned, orchestrator
  <2>2. CASE call' = [call EXCEPT ![c].phase = "done", ![c].response = "status",
                                  ![c].told = call[c].read]
    BY <2>2, <1>4, <1>1 DEF Positioned, Quiet, CallState, orchestrator
  <2> QED
    BY <1>4, <2>1, <2>2, AnswerNames DEF Positioned
<1>5. ASSUME WaitSleeps(c) PROVE Quiet(c) /\ UNCHANGED task
  <2>1. CASE Answers(c, "timeout")
    BY <2>1, <1>5, AnswersQuietly, AnswerNames DEF WaitSleeps, orchestrator
  <2>2. CASE call' = [call EXCEPT ![c].phase = "waiting", ![c].polls = @ + 1]
    BY <2>2, <1>5, <1>1 DEF WaitSleeps, Quiet, CallState
  <2> QED
    BY <1>5, <2>1, <2>2 DEF WaitSleeps
<1>6. ASSUME Reads(c) PROVE Quiet(c) /\ UNCHANGED task
  <2>1. CASE Answers(c, "notFound")
    BY <2>1, <1>6, AnswersQuietly, AnswerNames DEF Reads, orchestrator
  <2>2. CASE \E p \in {"positioning", "collecting"} :
               call' = [call EXCEPT ![c].read = Target(c), ![c].phase = p]
    BY <2>2, <1>6, <1>1 DEF Reads, Quiet, CallState
  <2> QED
    BY <1>6, <2>1, <2>2 DEF Reads
<1>7. ASSUME StreamOpens(c) PROVE Quiet(c) /\ UNCHANGED task
  <2>1. CASE Answers(c, "refused")
    BY <2>1, <1>7, AnswersQuietly, AnswerNames DEF StreamOpens, orchestrator
  <2>2. CASE call' = [call EXCEPT ![c].phase = "greeting", ![c].read = Target(c)]
    BY <2>2, <1>7, <1>1 DEF StreamOpens, Quiet, CallState, orchestrator
  <2> QED
    BY <1>7, <2>1, <2>2 DEF StreamOpens
<1>8. ASSUME StreamGreets(c) PROVE Quiet(c) /\ UNCHANGED task
  BY <1>8, <1>1 DEF StreamGreets, Quiet, CallState, orchestrator
<1>9. ASSUME NEW kind \in {"sync", "async"}, Submit(c, kind)
      PROVE  Quiet(c) /\ UNCHANGED task
  BY <1>9, <1>1 DEF Submit, Idle, Quiet, CallState
<1>10. ASSUME NEW r \in Calls, NEW kind \in {"poll", "result", "stream"}, Ask(c, r, kind)
       PROVE  Quiet(c) /\ UNCHANGED task
  BY <1>10, <1>1 DEF Ask, Idle, Quiet, CallState, orchestrator
<1> QED
  BY <1>2, <1>3, <1>4, <1>5, <1>6, <1>7, <1>8, <1>9, <1>10, QuietTimely

\* The status is read where it is sent from ...
LEMMA RefreshesTimely ==
  ASSUME IInv, TInv, NEW c \in Calls, StreamRefreshes(c)
  PROVE  TInv'
<1>1. /\ call \in [Calls -> CallState] /\ call[c] \in CallState
      /\ call[c].phase = "refreshing" /\ call[c].response # "closed"
      /\ call' = [call EXCEPT ![c].phase = "sending", ![c].read = Target(c)]
      /\ UNCHANGED task
  BY CallType DEF StreamRefreshes, NoResponse, orchestrator
<1>2. /\ \A x \in Calls \ {c} : call'[x] = call[x]
      /\ call'[c].phase = "sending" /\ call'[c].response # "closed"
      /\ call'[c].read = task[call[c].about] /\ call'[c].about = call[c].about
  BY <1>1 DEF CallState, Target
<1> QED
  BY <1>1, <1>2 DEF TInv, Timely, NotYet

\* ... and if it was an ending it still is, or the task is gone.
LEMMA SendsTimely ==
  ASSUME IInv, TInv, NEW c \in Calls, StreamSends(c)
  PROVE  TInv'
<1>1. /\ call \in [Calls -> CallState] /\ call[c] \in CallState
      /\ call[c].phase = "sending" /\ call[c].response # "closed"
      /\ UNCHANGED task
  BY CallType DEF StreamSends, NoResponse, orchestrator
<1>2. CASE call[c].read \in Ended
  <2>1. call' = [call EXCEPT ![c].phase = "done", ![c].response = "closed",
                             ![c].told = call[c].read]
    BY <1>2 DEF StreamSends
  <2>2. /\ \A x \in Calls \ {c} : call'[x] = call[x]
        /\ call'[c].phase = "done" /\ call'[c].told = call[c].read
        /\ call'[c].about = call[c].about
    BY <2>1, <1>1 DEF CallState
  <2> QED
    BY <2>2, <1>1, <1>2 DEF TInv, Timely, NotYet
<1>3. CASE call[c].read \notin Ended
  <2>1. call' = [call EXCEPT ![c].phase = "listening", ![c].told = call[c].read]
    BY <1>3 DEF StreamSends
  <2>2. Quiet(c)
    BY <2>1, <1>1 DEF Quiet, CallState
  <2> QED
    BY <2>2, <1>1, QuietTimely
<1> QED
  BY <1>2, <1>3

\* Only a pending task ends, and what ended is at most forgotten.
LEMMA TaskTimely ==
  ASSUME IInv, TInv, NEW t \in Calls,
         TaskGone(t) \/ OutcomeExpires(t) \/ \E how \in Ended : TaskEnds(t, how)
  PROVE  TInv'
<1>1. /\ UNCHANGED call
      /\ \A x \in Calls : task[x] = "none" => task'[x] = "none"
      /\ \A x \in Calls, how \in Ended :
           task[x] \in {how, "gone"} => task'[x] \in {how, "gone"}
  BY CallType DEF OthersTyped, TaskGone, OutcomeExpires, TaskEnds, Known, Ended
<1> SUFFICES ASSUME NEW x \in Calls PROVE Timely(call[x])' /\ NotYet(x)'
  BY DEF TInv
<1>2. Timely(call[x]) /\ NotYet(x) /\ call[x].about \in Calls
  BY CallType DEF TInv, CallState
<1> QED
  BY <1>1, <1>2 DEF Timely, NotYet

\* A push is not heard by a socket that is closed.
LEMMA PushTimely ==
  ASSUME IInv, TInv, NEW t \in Calls, Push(t)
  PROVE  TInv'
<1> SUFFICES ASSUME NEW x \in Calls PROVE Timely(call[x])' /\ NotYet(x)'
  BY DEF TInv
<1>1. /\ call[x] \in CallState /\ Timely(call[x]) /\ NotYet(x)
      /\ x \in subscribers[t] => call[x].phase # "done"
      /\ call[x].phase # "done" => call[x].response # "closed"
  BY CallType, Names DEF IInv, SubscribersAreServed, TInv, NoResponse
<1>2. /\ call'[x] = IF x \in subscribers[t] THEN [call[x] EXCEPT !.told = task[t]]
                                           ELSE call[x]
      /\ UNCHANGED task
  BY DEF Push, orchestrator
<1>3. CASE x \in subscribers[t]
  <2>1. /\ call'[x].phase = call[x].phase /\ call'[x].read = call[x].read
        /\ call'[x].about = call[x].about /\ call'[x].response = call[x].response
    BY <1>1, <1>2, <1>3 DEF CallState
  <2> QED
    BY <2>1, <1>1, <1>2, <1>3 DEF Timely, NotYet
<1>4. CASE x \notin subscribers[t]
  BY <1>1, <1>2, <1>4 DEF Timely, NotYet
<1> QED
  BY <1>3, <1>4

LEMMA RestartTimely ==
  ASSUME IInv, TInv, PodRestarts
  PROVE  TInv'
<1> SUFFICES ASSUME NEW x \in Calls PROVE Timely(call[x])' /\ NotYet(x)'
  BY DEF TInv
<1>1. /\ call[x] \in CallState /\ Timely(call[x]) /\ NotYet(x)
      /\ call'[x] = IF call[x].phase \in Awaiting
                    THEN [call[x] EXCEPT !.phase = "done", !.response = "dropped"]
                    ELSE call[x]
      /\ UNCHANGED task
  BY CallType DEF TInv, PodRestarts, orchestrator
<1>2. CASE call[x].phase \in Awaiting
  <2>1. call'[x].phase = "done" /\ call'[x].response = "dropped"
    BY <1>1, <1>2 DEF CallState
  <2> QED
    BY <2>1 DEF Timely, NotYet
<1>3. CASE call[x].phase \notin Awaiting
  BY <1>1, <1>3 DEF Timely, NotYet
<1> QED
  BY <1>2, <1>3

LEMMA StepTimely == IInv /\ TInv /\ [Next]_vars => TInv'
<1> SUFFICES ASSUME IInv, TInv, [Next]_vars PROVE TInv'
  OBVIOUS
<1>1. CASE UNCHANGED vars
  BY <1>1 DEF vars, TInv, Timely, NotYet
<1>2. ASSUME NEW c \in Calls, HandlerStep(c) PROVE TInv'
  BY <1>2, EnqueuedTimely, OthersTimely, RefreshesTimely, SendsTimely DEF HandlerStep
<1>3. ASSUME NEW c \in Calls, ClientStep(c) \/ Backpressure(c) PROVE TInv'
  BY <1>3, OthersTimely DEF ClientStep
<1>4. ASSUME ProcessorReturns \/ ProcessorDies \/ Supervise PROVE TInv'
  BY <1>4 DEF ProcessorReturns, ProcessorDies, Supervise, TInv, Timely, NotYet, orchestrator
<1> QED
  BY <1>1, <1>2, <1>3, <1>4, TaskTimely, PushTimely, RestartTimely DEF Next

\* A socket closed on completion has told its client how the task ended,
\* however pushes, refreshes and the task's end interleave (app.py:1501-1530).
THEOREM TheLastWordIsTheEnding == Spec => []ClosedOnTheEnding
<1>1. Init => TInv
  <2> SUFFICES ASSUME Init, NEW c \in Calls PROVE Timely(call[c]) /\ NotYet(c)
    BY DEF TInv
  <2>1. call[c].phase = "idle" /\ call[c].response = NoResponse /\ task[c] = "none"
    BY DEF Init
  <2> QED
    BY <2>1 DEF Timely, NotYet, NoResponse
<1>2. TInv => ClosedOnTheEnding
  BY DEF TInv, Timely, ClosedOnTheEnding, Target
<1> QED
  BY <1>1, <1>2, InitInv, StepInv, StepTimely, PTL DEF Spec
=============================================================================
