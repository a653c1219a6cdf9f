---------------------------- MODULE StatusService ----------------------------
(***************************************************************************)
(* What the API of docling-serve promises whoever asks it about a task,    *)
(* without its awaits, polls, queue positions and subscriber lists: an     *)
(* answer is true of the task when it is given; a result is there for as   *)
(* long as it is kept, whatever the status says; a status is told once for *)
(* each look at the task, and no older than the request it answers; only a *)
(* task's own tenant hears of it; a push reaches every open websocket of   *)
(* the task and nobody else; a submit that was turned away left no task.   *)
(*                                                                         *)
(* The abstract specification that module DoclingApi implements.           *)
(***************************************************************************)
CONSTANTS
  Calls,    \* requests and websockets; a submit's task is named by its call
  Tenants   \* who makes them

VARIABLES
  tenant,    \* whose call it is
  asks,      \* what it asks for
  about,     \* the task it is about: its own for a submit, else another's
  standing,  \* each call: "idle", "open", "streaming", then "over"
  life,      \* of each task: "none", "pending", how it ended, then "gone"
  kept,      \* the outcome kept of each task
  look,      \* the status a call has seen and not told yet
  told,      \* the status it told last
  answer     \* what it was answered

service == <<tenant, asks, about, standing, life, kept, look, told, answer>>
record == <<tenant, asks, about>>
tasks == <<life, kept>>

Nothing == "Nothing"
NoResponse == "NoResponse"
Ended == {"success", "failure"}
Known == {"pending"} \cup Ended

Init ==
  /\ tenant \in [Calls -> Tenants]
  /\ asks = [c \in Calls |-> Nothing]
  /\ about = [c \in Calls |-> c]
  /\ standing = [c \in Calls |-> "idle"]
  /\ life = [t \in Calls |-> "none"]
  /\ kept = [t \in Calls |-> Nothing]
  /\ look = [c \in Calls |-> Nothing]
  /\ told = [c \in Calls |-> Nothing]
  /\ answer = [c \in Calls |-> NoResponse]

-----------------------------------------------------------------------------
Lives(t, from, to) ==
  /\ life[t] \in from
  /\ life' = [life EXCEPT ![t] = to]

Now(c) == life[about[c]]
Kept(c) == kept[about[c]]
Mine(c) == tenant[about[c]] = tenant[c]

Submits == {"sync", "async"}
Questions == {"poll", "result", "stream"}
Submitting(c) == asks[c] \in Submits
Collecting(c) == asks[c] \in {"sync", "result"}

\* A submit is about its own task, a question about another's.
Open(c, t, what) ==
  /\ standing[c] = "idle"
  /\ t = c <=> what \in Submits
  /\ standing' = [standing EXCEPT ![c] = "open"]
  /\ asks' = [asks EXCEPT ![c] = what]
  /\ about' = [about EXCEPT ![c] = t]
  /\ UNCHANGED <<tenant, tasks, look, told, answer>>

\* Its task is admitted while the submit is open, once.
Admit(c) ==
  /\ standing[c] = "open" /\ Submitting(c)
  /\ Lives(c, {"none"}, "pending")
  /\ UNCHANGED <<record, kept, standing, look, told, answer>>

\* What a task came to is kept from its end on.
End(t, how) ==
  /\ Lives(t, {"pending"}, how)
  /\ kept' = [kept EXCEPT ![t] = how]
  /\ UNCHANGED <<record, standing, look, told, answer>>

\* Its status and its outcome are lost in any order.
Forget(t) ==
  /\ Lives(t, Known, "gone")
  /\ UNCHANGED <<record, kept, standing, look, told, answer>>

Expire(t) ==
  /\ kept[t] # Nothing
  /\ kept' = [kept EXCEPT ![t] = Nothing]
  /\ UNCHANGED <<record, life, standing, look, told, answer>>

\* The task is looked at, by its tenant; a websocket is served from its first
\* look on.
Look(c, as) ==
  /\ standing[c] \in {"open", as}
  /\ asks[c] = IF as = "streaming" THEN "stream" ELSE "poll"
  /\ Mine(c) /\ Now(c) \in Known
  /\ standing' = [standing EXCEPT ![c] = as]
  /\ look' = [look EXCEPT ![c] = Now(c)]
  /\ UNCHANGED <<record, tasks, told, answer>>

\* A status is told once; the next one needs another look.
Tell(c) ==
  /\ standing[c] = "streaming" /\ look[c] # Nothing
  /\ told' = [told EXCEPT ![c] = look[c]]
  /\ look' = [look EXCEPT ![c] = Nothing]
  /\ UNCHANGED <<record, standing, tasks, answer>>

Push(t) ==
  /\ life[t] \in Known
  /\ told' = [c \in Calls |-> IF standing[c] = "streaming" /\ about[c] = t
                               THEN life[t] ELSE told[c]]
  /\ UNCHANGED <<record, standing, tasks, look, answer>>

-----------------------------------------------------------------------------
Over(c, r) ==
  /\ standing' = [standing EXCEPT ![c] = "over"]
  /\ answer' = [answer EXCEPT ![c] = r]
  /\ look' = [look EXCEPT ![c] = Nothing]
  /\ UNCHANGED <<record, tasks>>

\* A call ends with the status it saw: a poll, or a websocket that saw the end.
Report(c) ==
  /\ look[c] # Nothing
  /\ \/ standing[c] = "open" /\ Over(c, "status")
     \/ standing[c] = "streaming" /\ look[c] \in Ended /\ Over(c, "closed")
  /\ told' = [told EXCEPT ![c] = look[c]]

\* Answers that say how a task is, and when they may be given.  404 and a
\* refused websocket look the same for a task there is not and one of another
\* tenant.  Of an own task that is known, 404 is given only where its outcome
\* was asked for and none is kept; a synchronous call has none of a failure.
Facts(c, r) ==
  CASE r = "accepted" -> asks[c] = "async" /\ Now(c) \in Known
    [] r = "result"   -> Collecting(c) /\ Mine(c) /\ Kept(c) = "success"
    [] r = "failed"   -> asks[c] = "result" /\ Mine(c) /\ Kept(c) = "failure"
    [] r = "notFound" -> \/ asks[c] \in {"poll", "result"} /\ (~Mine(c) \/ Now(c) \notin Known)
                         \/ Collecting(c) /\ Kept(c) = Nothing
                         \/ asks[c] = "sync" /\ Kept(c) = "failure"
    [] r = "refused"  -> asks[c] = "stream" /\ (~Mine(c) \/ Now(c) \notin Known)
    [] r \in {"invalid", "full"} -> Submitting(c) /\ Now(c) = "none"
    [] r = "error"    -> Submitting(c) /\ Now(c) = "gone"
    [] r = "timeout"  -> asks[c] = "sync" /\ Now(c) # "none"
    [] OTHER -> FALSE

State(c, r) ==
  /\ standing[c] = "open" /\ Facts(c, r)
  /\ Over(c, r)
  /\ UNCHANGED told

\* A websocket ends without an ending only if its task or its client is gone.
Hangup(c, r) ==
  /\ standing[c] = "streaming"
  /\ \/ r = "vanished" /\ Now(c) = "gone"
     \/ r = "left"
  /\ Over(c, r)
  /\ UNCHANGED told

\* "Server is busy", which says nothing of the task.
Busy(c) ==
  /\ standing[c] \in {"open", "streaming"}
  /\ Over(c, "busy")
  /\ UNCHANGED told

\* The pod is replaced: whoever was being answered is cut off, tasks live on.
Restart ==
  LET cut == {c \in Calls : standing[c] \in {"open", "streaming"}} IN
  /\ standing' = [c \in Calls |-> IF c \in cut THEN "over" ELSE standing[c]]
  /\ answer' = [c \in Calls |-> IF c \in cut THEN "dropped" ELSE answer[c]]
  /\ look' = [c \in Calls |-> Nothing]
  /\ UNCHANGED <<record, tasks, told>>

Answers == {"accepted", "result", "failed", "notFound", "refused", "invalid",
            "full", "error", "timeout", "vanished", "left"}

Step(c) ==
  \/ \E t \in Calls, what \in Submits \cup Questions : Open(c, t, what)
  \/ Admit(c) \/ (\E how \in Ended : End(c, how)) \/ Forget(c) \/ Expire(c)
  \/ \E as \in {"open", "streaming"} : Look(c, as)
  \/ Tell(c) \/ Push(c) \/ Report(c) \/ Busy(c)
  \/ \E r \in Answers : State(c, r) \/ Hangup(c, r)

Next == (\E c \in Calls : Step(c)) \/ Restart

Spec == Init /\ [][Next]_service
=============================================================================
