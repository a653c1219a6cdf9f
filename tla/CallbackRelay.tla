---------------------------- MODULE CallbackRelay ----------------------------
(***************************************************************************)
(* The callback relay (src/callback_relay/relay/relay.go): one stateless   *)
(* handler that turns docling-serve's completion callback into the         *)
(* task_completed signal of the workflow named in the URL.                 *)
(*                                                                         *)
(* The handler is a function of the request and of what Temporal answers;  *)
(* module Orchestration posts the requests and takes the signals.          *)
(***************************************************************************)

CONSTANTS
  Tasks,  \* docling-serve task ids
  NoTask  \* the empty task id

\* progress.kind, and progress.task_status as far as it is read.
CallbackKinds == {"set_num_docs", "update_processed", "document_completed",
                  "task_completed"}
Terminal == {"success", "failure"}
NotTerminal == "NotTerminal"

\* A POST to /v1/callbacks/{workflowID}: whether its token is the relay's,
\* whether its body decodes, and what it says.
Callback ==
  [authentic : BOOLEAN, wellFormed : BOOLEAN, kind : CallbackKinds,
   task : Tasks \cup {NoTask}, status : Terminal \cup {NotTerminal}]

\* What SignalWorkflow returns: nil, NotFound, or any other error, its
\* timeout of 10 s included.
SignalOutcomes == {"signaled", "notFound", "unavailable"}

Answerable(cb) == cb.authentic /\ cb.wellFormed
Verdict(cb) == cb.task # NoTask /\ cb.status \in Terminal

\* Only the terminal event of a task is passed on, and only with its verdict.
Relays(cb) == Answerable(cb) /\ cb.kind = "task_completed" /\ Verdict(cb)

\* Variant: acknowledged whatever Temporal says.
ResponseAlwaysAck(cb, outcome) ==
  CASE ~cb.authentic -> "unauthorized"
    [] cb.authentic /\ ~cb.wellFormed -> "malformed"
    [] Answerable(cb) -> "ack"

\* 401, 400, 503, or the acknowledgement that ends docling-serve's attempts:
\* of an event nobody waits for, of one that was signaled, and of one whose
\* workflow is no longer open, where another attempt would change nothing.
Response(cb, outcome) ==
  CASE ~cb.authentic -> "unauthorized"
    [] cb.authentic /\ ~cb.wellFormed -> "malformed"
    [] Answerable(cb) /\ cb.kind # "task_completed" -> "ack"
    [] Answerable(cb) /\ cb.kind = "task_completed" /\ ~Verdict(cb) -> "malformed"
    [] Relays(cb) -> IF outcome = "unavailable" THEN "unavailable" ELSE "ack"
=============================================================================
