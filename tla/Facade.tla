------------------------------- MODULE Facade -------------------------------
(***************************************************************************)
(* The upload facade (src/facade/service.py, main.py): it checks uploads   *)
(* into S3, submits them to docling-serve as an S3 batch, keeps a claim    *)
(* ticket in Redis (TaskRecord), and hands the artifacts back inline, after *)
(* which the storage is deleted in the background.                         *)
(*                                                                         *)
(* A call is one HTTP request to the facade: an asynchronous upload, a     *)
(* synchronous one, or a GET of a result.  An upload's request_id is the   *)
(* call itself, and so is the docling-serve task it creates.  An action is *)
(* the code between two awaits on S3, Redis or docling-serve, so that the  *)
(* calls interleave there as they do in the event loop.                    *)
(***************************************************************************)
EXTENDS Artifacts

CONSTANTS
  Calls,     \* HTTP calls, each made once
  Upload,    \* the names of an upload's files, in the order of the form
  Formats,   \* to_formats, by the extension each is exported with
  Zip,       \* target_type == "zip" is asked for
  MaxFaults  \* bound of the model: requests to S3, Redis, docling that fail

\* An upload without files is refused (422); to_formats has a default.
ASSUME UploadAssumption ==
  /\ Upload \in Seq(Seq(STRING)) /\ Upload # << >>
  /\ \A f \in DOMAIN Upload : Upload[f] # << >>
ASSUME FormatsAssumption ==
  /\ Formats # {}
  /\ \A e \in Formats : e \in Seq(STRING) /\ e # << >>
ASSUME ZipAssumption == Zip \in BOOLEAN
ASSUME MaxFaultsAssumption == MaxFaults \in Nat

VARIABLES
  call,       \* each call: what it is, where it is, what it fetched
  inputs,     \* facade-uploads/<request>/: names uploaded
  outputs,    \* facade-results/<request>/: keys exported
  record,     \* facade:task:<task>: present, or why it is not
  task,       \* docling-serve's task of an upload
  converted,  \* the uploaded names that task converted, if only partially
  faults      \* faults so far

vars == <<call, inputs, outputs, record, task, converted, faults>>
storage == <<inputs, outputs, record>>
docling == <<task, converted>>

-----------------------------------------------------------------------------
Kinds == {"async", "sync", "result"}
Phases == {"uploading", "recording", "polling", "looking", "asking", "listing",
           "fetching", "cleanInputs", "cleanOutputs", "cleanRecord"}
\* The response a call has sent: a task id, the native response, the
\* reconstructed result, or an error of the facade or of docling-serve.
Responses == {"accepted", "native", "document", "zip", "error"}
NoResponse == "NoResponse"

Uploads == {c \in Calls : call[c].kind \in {"async", "sync"}}
Idle(c) == call[c].phase = "idle"
IsZip == Zip \/ Len(Upload) > 1

\* Files of one name overwrite each other in the bucket.
Names == {Upload[f] : f \in DOMAIN Upload}

\* docling-serve exports each converted source in every format, under its own
\* name without the extension, in a directory that identifies the source.
Leaf(name, extension) ==
  (IF Len(name) > 1 THEN SubSeq(name, 1, Len(name) - 1) ELSE name) \o extension
Keys == {[source |-> n, leaf |-> Leaf(n, e)] : n \in Names, e \in Formats}
Exported(names) == {k \in Keys : k.source \in names}

\* A task that ended: with a document converted in full (num_succeeded > 0),
\* or with none.
Finished == {"succeeded", "unsuccessful"}

TypeOK ==
  /\ call \in [Calls -> [kind : Kinds \cup {"none"},
                         phase : Phases \cup {"idle", "done"},
                         about : Calls,
                         sent : 0 .. Len(Upload),
                         todo : SUBSET Keys,
                         got : SUBSET Keys,
                         response : Responses \cup {NoResponse}]]
  /\ \A c \in Calls : Idle(c) <=> call[c].kind = "none"
  /\ inputs \in [Calls -> SUBSET Names]
  /\ outputs \in [Calls -> SUBSET Keys]
  /\ record \in [Calls -> {"absent", "present", "cleaned", "expired"}]
  /\ task \in [Calls -> {"none", "running", "forgotten"} \cup Finished]
  /\ converted \in [Calls -> SUBSET Names]
  /\ faults \in 0 .. MaxFaults

Init ==
  /\ call = [c \in Calls |->
               [kind |-> "none", phase |-> "idle", about |-> c, sent |-> 0,
                todo |-> {}, got |-> {}, response |-> NoResponse]]
  /\ inputs = [c \in Calls |-> {}]
  /\ outputs = [c \in Calls |-> {}]
  /\ record = [c \in Calls |-> "absent"]
  /\ task = [c \in Calls |-> "none"]
  /\ converted = [c \in Calls |-> {}]
  /\ faults = 0

Moves(c, from, to) ==
  /\ call[c].phase = from
  /\ call' = [call EXCEPT ![c].phase = to]

Responds(c, from, response) ==
  /\ call[c].phase = from
  /\ call' = [call EXCEPT ![c].phase = "done", ![c].response = response]

\* A request to S3, Redis or docling-serve fails: 502, or 500 for Redis,
\* whose errors _translate_transport_errors lets through.
Fault == faults < MaxFaults /\ faults' = faults + 1

-----------------------------------------------------------------------------
\* Variant: which endpoint was called is not kept.
SubmitUnlabelled(c, kind) ==
  /\ Idle(c)
  /\ call' = [call EXCEPT ![c].phase = "uploading"]
  /\ UNCHANGED <<storage, docling, faults>>

\* convert_file_async and convert_file_sync begin with submit_file_upload.
Submit(c, kind) ==
  /\ Idle(c)
  /\ call' = [call EXCEPT ![c].kind = kind, ![c].phase = "uploading"]
  /\ UNCHANGED <<storage, docling, faults>>

UploadFile(c) ==
  LET f == call[c].sent + 1 IN
  /\ call[c].phase = "uploading"
  /\ f <= Len(Upload)
  /\ inputs' = [inputs EXCEPT ![c] = @ \cup {Upload[f]}]
  /\ call' = [call EXCEPT ![c].sent = f]
  /\ UNCHANGED <<outputs, record, docling, faults>>

AllSent(c) == call[c].sent = Len(Upload)

\* POST /v1/convert/source/batch once every file is uploaded.
PostAccepted(c) ==
  /\ AllSent(c)
  /\ Moves(c, "uploading", "recording")
  /\ task' = [task EXCEPT ![c] = "running"]
  /\ UNCHANGED <<storage, converted, faults>>

\* docling-serve's 4xx or 5xx is passed on; the uploads stay behind.
PostRejected(c) ==
  /\ AllSent(c)
  /\ Responds(c, "uploading", "error")
  /\ UNCHANGED <<storage, docling, faults>>

\* Variant: a failed submit takes its uploads with it.
SubmitFailsCleaning(c) ==
  /\ Responds(c, "uploading", "error")
  /\ Fault
  /\ inputs' = [inputs EXCEPT ![c] = {}]
  /\ \/ UNCHANGED task
     \/ AllSent(c) /\ task' = [task EXCEPT ![c] = "running"]
  /\ UNCHANGED <<outputs, record, converted>>

\* An upload or the POST fails in transport; a POST may have landed.
SubmitFails(c) ==
  /\ Responds(c, "uploading", "error")
  /\ Fault
  /\ \/ UNCHANGED task
     \/ AllSent(c) /\ task' = [task EXCEPT ![c] = "running"]
  /\ UNCHANGED <<storage, converted>>

\* redis.set: an asynchronous upload is answered, a synchronous one waits.
RecordWritten(c) ==
  /\ IF call[c].kind = "async"
     THEN Responds(c, "recording", "accepted")
     ELSE Moves(c, "recording", "polling")
  /\ record' = [record EXCEPT ![c] = "present"]
  /\ UNCHANGED <<inputs, outputs, docling, faults>>

\* Redis fails; it may have the record all the same.
RecordFails(c) ==
  /\ Responds(c, "recording", "error")
  /\ Fault
  /\ \/ UNCHANGED record
     \/ record' = [record EXCEPT ![c] = "present"]
  /\ UNCHANGED <<inputs, outputs, docling>>

\* wait_for_completion saw a terminal status, ran out of time (504: task,
\* record and storage are left), or failed.
PollCompletes(c) ==
  /\ task[c] \in Finished
  /\ Moves(c, "polling", "looking")
  /\ UNCHANGED <<storage, docling, faults>>

\* Variant: no deadline, only a task that docling-serve no longer knows.
PollGivesUpOnError(c) ==
  /\ task[c] = "forgotten"
  /\ Responds(c, "polling", "error")
  /\ UNCHANGED <<storage, docling, faults>>

PollGivesUp(c) ==
  /\ Responds(c, "polling", "error")
  /\ UNCHANGED <<storage, docling, faults>>

-----------------------------------------------------------------------------
\* GET /v1/result/{task_id}, by a client that was given the task id.
GetResult(c, r) ==
  /\ Idle(c)
  /\ call[r].response = "accepted"
  /\ call' = [call EXCEPT ![c].kind = "result", ![c].about = r,
                          ![c].phase = "looking"]
  /\ UNCHANGED <<storage, docling, faults>>

\* Variant: the record is looked up under another id than it was stored under.
LookUpByCall(c) ==
  /\ IF record[c] = "present"
     THEN Moves(c, "looking", "asking")
     ELSE Responds(c, "looking", "native")
  /\ UNCHANGED <<storage, docling, faults>>

\* resolve_result: no record is a task of someone else, passed through.
LookUp(c) ==
  /\ IF record[call[c].about] = "present"
     THEN Moves(c, "looking", "asking")
     ELSE Responds(c, "looking", "native")
  /\ UNCHANGED <<storage, docling, faults>>

\* docling-serve's own result: an error (404 until the task has ended or once
\* it is forgotten) or num_succeeded = 0 is passed through, nothing cleaned.
AskNative(c) ==
  LET r == call[c].about IN
  /\ IF task[r] = "succeeded"
     THEN Moves(c, "asking", "listing")
     ELSE Responds(c, "asking", "native")
  /\ UNCHANGED <<storage, docling, faults>>

\* The keys fetch_artifacts_by_stem fetches: of the others it knows no field.
ListArtifacts(c) ==
  /\ call[c].phase = "listing"
  /\ call' = [call EXCEPT ![c].phase = "fetching",
                          ![c].todo = Readable(outputs[call[c].about])]
  /\ UNCHANGED <<storage, docling, faults>>

\* get_object of each of them; one deleted meanwhile is NoSuchKey, a 502.
FetchArtifact(c, k) ==
  /\ call[c].phase = "fetching"
  /\ k \in call[c].todo
  /\ IF k \in outputs[call[c].about]
     THEN call' = [call EXCEPT ![c].todo = @ \ {k}, ![c].got = @ \cup {k}]
     ELSE Responds(c, "fetching", "error")
  /\ UNCHANGED <<storage, docling, faults>>

\* The response is sent with whatever was found, and _cleanup_task_storage
\* runs once it is.
RespondWithResult(c) ==
  /\ call[c].phase = "fetching"
  /\ call[c].todo = {}
  /\ call' = [call EXCEPT ![c].phase = "cleanInputs",
                          ![c].response = IF IsZip THEN "zip" ELSE "document"]
  /\ UNCHANGED <<storage, docling, faults>>

\* Variant: the cleanup runs however resolving ended.
ResolveFailsCleaning(c) ==
  /\ call[c].phase \in {"listing", "fetching"}
  /\ call' = [call EXCEPT ![c].phase = "cleanInputs", ![c].response = "error"]
  /\ Fault
  /\ UNCHANGED <<storage, docling>>

ResolveFails(c) ==
  /\ call[c].phase \in {"polling", "looking", "asking", "listing", "fetching"}
  /\ Responds(c, call[c].phase, "error")
  /\ Fault
  /\ UNCHANGED <<storage, docling>>

-----------------------------------------------------------------------------
\* _cleanup_task_storage: uploads, then artifacts, then the record.
CleanInputs(c) ==
  /\ Moves(c, "cleanInputs", "cleanOutputs")
  /\ inputs' = [inputs EXCEPT ![call[c].about] = {}]
  /\ UNCHANGED <<outputs, record, docling, faults>>

CleanOutputs(c) ==
  /\ Moves(c, "cleanOutputs", "cleanRecord")
  /\ outputs' = [outputs EXCEPT ![call[c].about] = {}]
  /\ UNCHANGED <<inputs, record, docling, faults>>

CleanRecord(c) ==
  /\ Moves(c, "cleanRecord", "done")
  /\ record' = [record EXCEPT ![call[c].about] =
                  IF @ = "present" THEN "cleaned" ELSE @]
  /\ UNCHANGED <<inputs, outputs, docling, faults>>

\* Variant: a failed deletion is logged and the next one tried.
CleanupFailsOn(c) ==
  /\ \/ Moves(c, "cleanInputs", "cleanOutputs")
     \/ Moves(c, "cleanOutputs", "cleanRecord")
     \/ Moves(c, "cleanRecord", "done")
  /\ Fault
  /\ UNCHANGED <<storage, docling>>

\* Any exception ends the cleanup where it is, logged and swallowed.
CleanupFails(c) ==
  /\ call[c].phase \in {"cleanInputs", "cleanOutputs", "cleanRecord"}
  /\ Moves(c, call[c].phase, "done")
  /\ Fault
  /\ UNCHANGED <<storage, docling>>

-----------------------------------------------------------------------------
\* docling-serve ends a task, with some of its sources converted, of which
\* none need be a full success, and forgets it later; Redis drops a record at
\* its TTL.
TaskEnds(r, names, ending) ==
  /\ task[r] = "running"
  /\ ending = "succeeded" => names # {}
  /\ task' = [task EXCEPT ![r] = ending]
  /\ converted' = [converted EXCEPT ![r] = names]
  /\ outputs' = [outputs EXCEPT ![r] = Exported(names)]
  /\ UNCHANGED <<call, inputs, record, faults>>

TaskForgotten(r) ==
  /\ task[r] \in Finished
  /\ task' = [task EXCEPT ![r] = "forgotten"]
  /\ UNCHANGED <<call, storage, converted, faults>>

RecordExpires(r) ==
  /\ record[r] = "present"
  /\ record' = [record EXCEPT ![r] = "expired"]
  /\ UNCHANGED <<call, inputs, outputs, docling, faults>>

CallStep(c) ==
  \/ UploadFile(c)
  \/ PostAccepted(c) \/ PostRejected(c) \/ RecordWritten(c)
  \/ PollCompletes(c) \/ PollGivesUp(c)
  \/ LookUp(c) \/ AskNative(c) \/ ListArtifacts(c)
  \/ \E k \in Keys : FetchArtifact(c, k)
  \/ RespondWithResult(c)
  \/ CleanInputs(c) \/ CleanOutputs(c) \/ CleanRecord(c)

FaultStep(c) ==
  SubmitFails(c) \/ RecordFails(c) \/ ResolveFails(c) \/ CleanupFails(c)

Next ==
  \/ \E c \in Calls : CallStep(c) \/ FaultStep(c)
  \/ \E c \in Calls, kind \in {"async", "sync"} : Submit(c, kind)
  \/ \E c \in Calls, r \in Uploads : GetResult(c, r)
  \/ \E r \in Uploads :
       \/ \E names \in SUBSET Names, e \in Finished : TaskEnds(r, names, e)
       \/ TaskForgotten(r)
       \/ RecordExpires(r)

Spec == Init /\ [][Next]_vars

\* A coroutine whose await is answered runs on.
FairSpec == Spec /\ \A c \in Calls : WF_vars(CallStep(c))
-----------------------------------------------------------------------------
\* A call that answered with every artifact its task left that it can read.
Complete(c) ==
  /\ call[c].response \in {"document", "zip"}
  /\ call[c].got = Readable(Exported(converted[call[c].about]))
Delivered(r) == \E c \in Calls : call[c].about = r /\ Complete(c)

\* build_zip_archive: the status of each file in _status.json, and whether the
\* X-Facade-Partial-Failure header is set.
Manifest(c) ==
  [f \in DOMAIN Upload |->
     IF Found(call[c].got, Upload[f]) = {} THEN "failed" ELSE "success"]
HasFailures(c) == \E f \in DOMAIN Upload : Manifest(c)[f] = "failed"

\* Uploads whose artifacts can be told apart by name: no two names have the
\* same stem, and no stem turns an extension into a longer one of the table
\* ("a.doctags.pdf" exported as text).
Distinguishable ==
  /\ \A n, m \in Names : Stem(n) = Stem(m) => n = m
  /\ \A n \in Names, e \in Formats, x \in KnownExtensions :
       EndsWith(Leaf(n, e), x) => e \in KnownExtensions /\ Len(x) <= Len(e)

\* However the calls interleave and wherever cleanups stop, the artifacts of a
\* task go only after some response has carried all it can read of them:
\* nothing converted is lost before it was delivered once (service.py:280-287,
\* the cleanup scheduled behind the response).
LostOnlyAfterDelivery ==
  \A r \in Uploads :
    task[r] \in Finished \cup {"forgotten"} /\ outputs[r] # Exported(converted[r])
      => Delivered(r)

\* The claim ticket outlives what it stands for: a record that a cleanup
\* deleted leaves no object of its request in either bucket, so a cleanup that
\* stopped half-way can be run again by the next GET (service.py:93-109).
RecordDeletedLast ==
  \A r \in Uploads :
    record[r] = "cleaned" => inputs[r] = {} /\ outputs[r] = {}

\* A client that holds the task id of an accepted upload gets docling-serve's
\* bare result for a conversion that succeeded only after the result was
\* delivered in full, or the record expired (service.py:255-270).
TicketHonoured ==
  [][\A c \in Calls :
       LET r == call[c].about IN
       /\ call[c].response = NoResponse /\ call'[c].response = "native"
       /\ task[r] = "succeeded"
       => record[r] = "expired" \/ (record[r] = "cleaned" /\ Delivered(r))]_vars

\* Every call is answered, the synchronous one by its deadline even when the
\* task never ends (service.py:226-237).
EveryCallAnswered ==
  \A c \in Calls : ~Idle(c) ~> call[c].response # NoResponse

\* "cleanup never delays or risks delivery" (service.py:85-87): a response
\* that carries a result carries all of it.
CleanupNeverRisksDelivery ==
  \A c \in Calls : call[c].response \in {"document", "zip"} => Complete(c)

\* What a complete response files under a name is what was exported of that
\* very document, in every format the facade knows, as long as names can tell
\* the documents apart; then an archive without the partial-failure header
\* holds every document (utils.py:71-108, 141-149; service.py:278-293).
EachFileItsOwn ==
  Distinguishable =>
    \A c \in Calls :
      Complete(c) =>
        LET own == converted[call[c].about] IN
        /\ \A f \in DOMAIN Upload :
             Found(call[c].got, Upload[f]) =
               Readable(Exported(own \cap {Upload[f]}))
        /\ call[c].response = "zip" /\ ~HasFailures(c) => own = Names

\* A document that "individually failed conversion while sibling documents in
\* the same batch succeeded ... still gets a "failed" status in the manifest"
\* (utils.py:129-133).
FailedIsMarkedFailed ==
  \A c \in Calls, f \in DOMAIN Upload :
    call[c].response = "zip" /\ Manifest(c)[f] = "success"
      => Upload[f] \in converted[call[c].about]

\* What is left of an upload without the calls about it (module ClaimCheck).
UploadOf(r) ==
  IF call[r].sent = 0 THEN "none" ELSE IF inputs[r] = {} THEN "deleted" ELSE "stored"

ResultOf(r) ==
  IF task[r] \notin Finished \cup {"forgotten"} THEN "pending"
  ELSE IF outputs[r] = Exported(converted[r]) THEN "kept" ELSE "deleted"

CC == INSTANCE ClaimCheck WITH
        Requests <- Calls,
        upload <- [r \in Calls |-> UploadOf(r)],
        result <- [r \in Calls |-> ResultOf(r)],
        delivered <- {r \in Calls : Delivered(r)},
        ticket <- record

\* The facade keeps its claim checks, whoever calls it and whatever fails: an
\* upload is not touched before its result was delivered in full, not even by
\* a submit that failed although its POST landed; then uploads, result and
\* ticket go in this order, and nothing comes back (service.py:77-109,
\* 128-215, 255-293).
ClaimKept == CC!Spec
=============================================================================
