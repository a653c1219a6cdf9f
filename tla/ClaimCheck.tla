----------------------------- MODULE ClaimCheck -----------------------------
(***************************************************************************)
(* What the upload facade promises of one upload, whoever asks for it and  *)
(* whatever fails: the files are stored before a ticket for them is issued *)
(* and stay until the result was delivered; so does the result; and the    *)
(* ticket is withdrawn when there is nothing left that it could stand for. *)
(* Nothing ever comes back.                                                *)
(*                                                                         *)
(* The abstract specification that module Facade implements.  Who polls,   *)
(* lists, fetches and cleans up, how often and up to which failure, is not *)
(* visible here.                                                           *)
(***************************************************************************)
CONSTANT Requests  \* the uploads

VARIABLES
  upload,     \* the files: not "stored" yet, or "deleted" again
  result,     \* what docling-serve made of them: "pending", "kept", "deleted"
  delivered,  \* the requests whose result some response carried in full
  ticket      \* what became of the claim ticket

claim == <<upload, result, delivered, ticket>>

Init ==
  /\ upload = [r \in Requests |-> "none"]
  /\ result = [r \in Requests |-> "pending"]
  /\ delivered = {}
  /\ ticket = [r \in Requests |-> "absent"]

-----------------------------------------------------------------------------
Uploads(r, from, to) ==
  /\ upload[r] = from /\ upload' = [upload EXCEPT ![r] = to]
  /\ UNCHANGED <<result, delivered, ticket>>

Results(r, from, to) ==
  /\ result[r] = from /\ result' = [result EXCEPT ![r] = to]
  /\ UNCHANGED <<upload, delivered, ticket>>

Tickets(r, from, to) ==
  /\ ticket[r] = from /\ ticket' = [ticket EXCEPT ![r] = to]
  /\ UNCHANGED <<upload, result, delivered>>

Store(r) ==
  /\ result[r] = "pending" /\ ticket[r] = "absent"
  /\ Uploads(r, "none", "stored")

\* docling-serve reads the upload itself, which is still there when a result
\* comes of it.
Produce(r) ==
  /\ upload[r] = "stored"
  /\ Results(r, "pending", "kept")

Issue(r) ==
  /\ upload[r] = "stored"
  /\ Tickets(r, "absent", "present")

\* Some response carries all the facade can read of the result.
Deliver(r) ==
  /\ result[r] = "kept" /\ ticket[r] # "absent"
  /\ delivered' = delivered \cup {r}
  /\ UNCHANGED <<upload, result, ticket>>

DeleteUpload(r) ==
  /\ r \in delivered
  /\ Uploads(r, "stored", "deleted")

DeleteResult(r) ==
  /\ upload[r] = "deleted"
  /\ Results(r, "kept", "deleted")

Withdraw(r) ==
  /\ result[r] = "deleted"
  /\ Tickets(r, "present", "cleaned")

Expire(r) == Tickets(r, "present", "expired")

Step(r) ==
  \/ Store(r) \/ Produce(r) \/ Issue(r) \/ Deliver(r)
  \/ DeleteUpload(r) \/ DeleteResult(r) \/ Withdraw(r) \/ Expire(r)

Next == \E r \in Requests : Step(r)

Spec == Init /\ [][Next]_claim
=============================================================================
