----------------------------- MODULE FacadeProofs -----------------------------
(***************************************************************************)
(* Proofs about Facade, for any calls, uploads and formats.                *)
(*                                                                         *)
(* Artifacts are lost only after delivery although a cleanup looks at      *)
(* nothing but its own call: what a response carries is tied to what is    *)
(* still stored (CallInv).  As long as the artifacts of a task are all     *)
(* there, whoever has listed them has them all.                            *)
(*                                                                         *)
(* That each file is given its own artifacts rests on the order of the     *)
(* table of extensions: what a leaf is read as is the extension it was     *)
(* exported with (ReadAsExported).                                         *)
(***************************************************************************)
EXTENDS Facade, SequenceTheorems, TLAPS

CallState == [kind : Kinds \cup {"none"},
              phase : Phases \cup {"idle", "done"},
              about : Calls,
              sent : 0 .. Len(Upload),
              todo : SUBSET Keys,
              got : SUBSET Keys,
              response : Responses \cup {NoResponse}]

Submitting == {"idle", "uploading"}
Cleaning == {"cleanInputs", "cleanOutputs", "cleanRecord"}
Over == Finished \cup {"forgotten"}
TaskStates == {"none", "running", "forgotten"} \cup Finished
All(r) == Exported(converted[r])

\* What a call at each await may rely on, of its own record and of storage.
CallInv(c, k) ==
  /\ k.phase = "idle" <=> k.kind = "none"
  /\ k.phase \in Submitting \cup {"recording", "polling"} => k.about = c
  /\ k.response # NoResponse => k.phase \in Cleaning \cup {"done"}
  /\ k.response = "accepted" => record[c] # "absent"
  /\ k.phase \in {"polling", "looking"} => record[k.about] # "absent"
  /\ k.phase \notin {"fetching", "done"} \cup Cleaning => k.got = {}
  /\ k.phase \in {"listing", "fetching"} \cup Cleaning => task[k.about] \in Over
  /\ k.phase = "fetching" /\ outputs[k.about] = All(k.about)
       => k.got \cup k.todo = Readable(All(k.about))
  /\ k.phase \in Cleaning =>
       /\ k.response \in {"document", "zip"}
       /\ outputs[k.about] = All(k.about) => k.got = Readable(All(k.about))
  /\ k.phase \in {"cleanOutputs", "cleanRecord"} => inputs[k.about] = {}
  /\ k.phase = "cleanRecord" => outputs[k.about] = {}

\* What holds of the storage and the task of one upload.
UploadInv(r) ==
  /\ call[r].phase \in Submitting => task[r] = "none"
  /\ task[r] = "succeeded" => converted[r] # {}
  /\ record[r] = "cleaned" => task[r] \in Over /\ inputs[r] = {} /\ outputs[r] = {}
  /\ task[r] \in Over => \/ outputs[r] = All(r)
                         \/ outputs[r] = {} /\ Delivered(r)

IInv ==
  /\ TypeOK
  /\ \A c \in Calls : CallInv(c, call[c])
  /\ \A r \in Calls : UploadInv(r)

-----------------------------------------------------------------------------
LEMMA Types ==
  ASSUME IInv
  PROVE  /\ call \in [Calls -> CallState]
         /\ \A c \in Calls : call[c] \in CallState /\ call[c].about \in Calls
BY DEF IInv, TypeOK, CallState

LEMMA ExportedType ==
  /\ \A names \in SUBSET Names : Exported(names) \in SUBSET Keys
  /\ \A keys \in SUBSET Keys : Readable(keys) \in SUBSET Keys
BY DEF Exported, Readable

LEMMA InitInv == Init => IInv
<1> SUFFICES ASSUME Init PROVE IInv
  OBVIOUS
<1>1. TypeOK
  BY MaxFaultsAssumption DEF Init, TypeOK, Idle, Kinds
<1>2. ASSUME NEW c \in Calls PROVE CallInv(c, call[c]) /\ UploadInv(c)
  BY DEF Init, CallInv, UploadInv, Submitting, Cleaning, Over, Finished, NoResponse
<1> QED
  BY <1>1, <1>2 DEF IInv

-----------------------------------------------------------------------------
\* A call that has sent its result keeps it.
KeepsResult(c, k) ==
  call[c].response \in {"document", "zip"} =>
    k.response = call[c].response /\ k.about = call[c].about /\ k.got = call[c].got

LEMMA DeliveredStays ==
  ASSUME NEW r \in Calls, Delivered(r), NEW c \in Calls, NEW k, KeepsResult(c, k),
         IInv, call' = [call EXCEPT ![c] = k], converted'[r] = converted[r]
  PROVE  Delivered(r)'
<1>1. PICK x \in Calls : call[x].about = r /\ Complete(x)
  BY DEF Delivered
<1>2. call'[x] = IF x = c THEN k ELSE call[x]
  BY Types
<1>3. /\ call'[x].about = r
      /\ call'[x].response \in {"document", "zip"}
      /\ call'[x].got = Readable(Exported(converted'[r]))
  BY <1>1, <1>2 DEF Complete, KeepsResult
<1> QED
  BY <1>3 DEF Delivered, Complete

\* A step of a call that touches neither storage nor task.
LEMMA CallMoves ==
  ASSUME IInv, NEW c \in Calls, NEW k \in CallState,
         call' = [call EXCEPT ![c] = k],
         UNCHANGED <<inputs, outputs, record, task, converted>>,
         faults' \in 0 .. MaxFaults,
         CallInv(c, k), KeepsResult(c, k),
         k.phase \in Submitting => call[c].phase \in Submitting
  PROVE  IInv'
<1>1. \A x \in Calls : call'[x] = IF x = c THEN k ELSE call[x]
  BY Types
<1>2. call' \in [Calls -> CallState]
  BY Types
<1>3. ASSUME NEW x \in Calls PROVE CallInv(x, call[x])'
  BY <1>1 DEF IInv, CallInv, All
<1>4. TypeOK'
  BY <1>2, <1>3 DEF IInv, TypeOK, CallState, CallInv, Idle, TaskStates
<1>5. ASSUME NEW r \in Calls PROVE UploadInv(r)'
  <2>1. UploadInv(r)
    BY DEF IInv
  <2>2. Delivered(r) => Delivered(r)'
    BY DeliveredStays
  <2> QED
    BY <1>1, <2>1, <2>2 DEF UploadInv, All
<1> QED
  BY <1>3, <1>4, <1>5 DEF IInv

-----------------------------------------------------------------------------
StillThere == UNCHANGED <<inputs, outputs, record, task, converted>>

LEMMA StrictFaults ==
  ASSUME IInv, Fault \/ UNCHANGED faults
  PROVE  faults' \in 0 .. MaxFaults
BY MaxFaultsAssumption DEF IInv, TypeOK, Fault

\* A response that carries no result ends a call wherever it awaits one.
LEMMA RespondsInv ==
  ASSUME IInv, NEW c \in Calls, NEW from \in Phases \ Cleaning,
         NEW r \in {"native", "error"}, Responds(c, from, r),
         StillThere, Fault \/ UNCHANGED faults
  PROVE  IInv'
<1> DEFINE k == [call[c] EXCEPT !.phase = "done", !.response = r]
<1>1. call[c] \in CallState /\ call[c].phase = from /\ call' = [call EXCEPT ![c] = k]
  BY Types DEF Responds
<1>2. /\ k \in CallState /\ k.phase = "done" /\ k.response = r
      /\ k.kind = call[c].kind /\ k.about = call[c].about
  BY <1>1 DEF CallState, Responses
<1>3. CallInv(c, call[c]) /\ from # "idle" /\ from # "done"
  BY DEF IInv, Phases
<1>4. CallInv(c, k)
  BY <1>1, <1>2, <1>3 DEF CallInv, Submitting, Cleaning
<1>5. KeepsResult(c, k)
  BY <1>1, <1>3 DEF CallInv, KeepsResult, NoResponse
<1> HIDE DEF k
<1> QED
  BY <1>1, <1>2, <1>4, <1>5, StrictFaults, CallMoves DEF StillThere, Submitting

LEMMA SubmitInv ==
  ASSUME IInv, NEW c \in Calls, NEW kind \in {"async", "sync"}, Submit(c, kind)
  PROVE  IInv'
<1> DEFINE k == [call[c] EXCEPT !.kind = kind, !.phase = "uploading"]
<1>1. /\ call[c] \in CallState /\ call[c].phase = "idle" /\ call' = [call EXCEPT ![c] = k]
      /\ StillThere /\ UNCHANGED faults
  BY Types DEF Submit, Idle, StillThere, storage, docling
<1>2. /\ k \in CallState /\ k.phase = "uploading" /\ k.kind = kind
      /\ k.about = call[c].about /\ k.response = call[c].response /\ k.got = call[c].got
  BY <1>1 DEF CallState, Phases, Kinds
<1>3. CallInv(c, call[c])
  BY DEF IInv
<1>4. CallInv(c, k) /\ KeepsResult(c, k)
  BY <1>1, <1>2, <1>3 DEF CallInv, KeepsResult, Submitting, Cleaning
<1> HIDE DEF k
<1> QED
  BY <1>1, <1>2, <1>4, StrictFaults, CallMoves DEF StillThere, Submitting

LEMMA GetResultInv ==
  ASSUME IInv, NEW c \in Calls, NEW r \in Calls, GetResult(c, r)
  PROVE  IInv'
<1> DEFINE k == [call[c] EXCEPT !.kind = "result", !.about = r, !.phase = "looking"]
<1>1. /\ call[c] \in CallState /\ call[c].phase = "idle" /\ call' = [call EXCEPT ![c] = k]
      /\ StillThere /\ UNCHANGED faults
      /\ call[r].response = "accepted"
  BY Types DEF GetResult, Idle, StillThere, storage, docling
<1>2. /\ k \in CallState /\ k.phase = "looking" /\ k.kind = "result"
      /\ k.about = r /\ k.response = call[c].response /\ k.got = call[c].got
  BY <1>1 DEF CallState, Phases, Kinds
<1>3. CallInv(c, call[c]) /\ CallInv(r, call[r])
  BY DEF IInv
<1>4. record[r] # "absent"
  BY <1>1, <1>3 DEF CallInv
<1>5. CallInv(c, k) /\ KeepsResult(c, k)
  BY <1>1, <1>2, <1>3, <1>4 DEF CallInv, KeepsResult, Submitting, Cleaning, NoResponse
<1> HIDE DEF k
<1> QED
  BY <1>1, <1>2, <1>5, StrictFaults, CallMoves DEF StillThere, Submitting

\* A step from one await to another that changes nothing else of the call.
LEMMA MovesInv ==
  ASSUME IInv, NEW c \in Calls, NEW from \in Phases, NEW to \in Phases \cup {"done"},
         Moves(c, from, to), StillThere, Fault \/ UNCHANGED faults,
         to \notin Submitting,
         ASSUME NEW k \in CallState, k.phase = to, k.kind = call[c].kind,
                k.about = call[c].about, k.got = call[c].got,
                k.response = call[c].response, CallInv(c, call[c])
         PROVE  CallInv(c, k)
  PROVE  IInv'
<1> DEFINE k == [call[c] EXCEPT !.phase = to]
<1>1. call[c] \in CallState /\ call' = [call EXCEPT ![c] = k]
  BY Types DEF Moves
<1>2. /\ k \in CallState /\ k.phase = to /\ k.kind = call[c].kind
      /\ k.about = call[c].about /\ k.got = call[c].got /\ k.response = call[c].response
  BY <1>1 DEF CallState
<1>3. CallInv(c, call[c])
  BY DEF IInv
<1> HIDE DEF k
<1>4. CallInv(c, k) /\ KeepsResult(c, k)
  BY <1>2, <1>3 DEF KeepsResult
<1> QED
  BY <1>1, <1>2, <1>4, StrictFaults, CallMoves DEF StillThere

LEMMA LookingInv ==
  ASSUME IInv, NEW c \in Calls,
         \/ PostRejected(c) \/ PollCompletes(c) \/ PollGivesUp(c)
         \/ LookUp(c) \/ AskNative(c) \/ ResolveFails(c) \/ CleanupFails(c)
  PROVE  IInv'
<1>1. CASE PostRejected(c)
  BY <1>1, RespondsInv DEF PostRejected, StillThere, storage, docling, Phases, Cleaning
<1>3. CASE PollGivesUp(c)
  BY <1>3, RespondsInv DEF PollGivesUp, StillThere, storage, docling, Phases, Cleaning
<1>4. CASE PollCompletes(c)
  <2>1. /\ Moves(c, "polling", "looking") /\ StillThere /\ UNCHANGED faults
        /\ call[c].phase = "polling"
    BY <1>4 DEF PollCompletes, StillThere, storage, docling, Moves
  <2>2. ASSUME NEW k \in CallState, k.phase = "looking", k.kind = call[c].kind,
               k.about = call[c].about, k.got = call[c].got,
               k.response = call[c].response, CallInv(c, call[c])
        PROVE  CallInv(c, k)
    BY <2>1, <2>2 DEF CallInv, Submitting, Cleaning
  <2> QED
    BY <2>1, <2>2, MovesInv DEF Phases, Submitting
<1>5. CASE LookUp(c)
  <2>1. StillThere /\ UNCHANGED faults
    BY <1>5 DEF LookUp, StillThere, storage, docling
  <2>2. CASE Responds(c, "looking", "native")
    BY <2>1, <2>2, RespondsInv DEF Phases, Cleaning
  <2>3. CASE Moves(c, "looking", "asking")
    <3>1. call[c].phase = "looking"
      BY <2>3 DEF Moves
    <3>2. ASSUME NEW k \in CallState, k.phase = "asking", k.kind = call[c].kind,
                 k.about = call[c].about, k.got = call[c].got,
                 k.response = call[c].response, CallInv(c, call[c])
          PROVE  CallInv(c, k)
      BY <3>1, <3>2 DEF CallInv, Submitting, Cleaning
    <3> QED
      BY <2>1, <2>3, <3>2, MovesInv DEF Phases, Submitting
  <2> QED
    BY <1>5, <2>2, <2>3 DEF LookUp
<1>6. CASE AskNative(c)
  <2>1. StillThere /\ UNCHANGED faults
    BY <1>6 DEF AskNative, StillThere, storage, docling
  <2>2. CASE Responds(c, "asking", "native")
    BY <2>1, <2>2, RespondsInv DEF Phases, Cleaning
  <2>3. CASE Moves(c, "asking", "listing") /\ task[call[c].about] = "succeeded"
    <3>1. call[c].phase = "asking"
      BY <2>3 DEF Moves
    <3>2. ASSUME NEW k \in CallState, k.phase = "listing", k.kind = call[c].kind,
                 k.about = call[c].about, k.got = call[c].got,
                 k.response = call[c].response, CallInv(c, call[c])
          PROVE  CallInv(c, k)
      BY <2>3, <3>1, <3>2 DEF CallInv, Submitting, Cleaning, Over, Finished
    <3> QED
      BY <2>1, <2>3, <3>2, MovesInv DEF Phases, Submitting
  <2> QED
    BY <1>6, <2>2, <2>3 DEF AskNative
<1>7. CASE ResolveFails(c)
  BY <1>7, RespondsInv DEF ResolveFails, StillThere, storage, docling, Phases, Cleaning
<1>8. CASE CleanupFails(c)
  <2>1. /\ call[c].phase \in Cleaning /\ Moves(c, call[c].phase, "done")
        /\ StillThere /\ Fault
    BY <1>8 DEF CleanupFails, StillThere, storage, docling, Cleaning
  <2>2. ASSUME NEW k \in CallState, k.phase = "done", k.kind = call[c].kind,
               k.about = call[c].about, k.got = call[c].got,
               k.response = call[c].response, CallInv(c, call[c])
        PROVE  CallInv(c, k)
    BY <2>1, <2>2 DEF CallInv, Submitting, Cleaning
  <2>3. /\ call[c].phase \in Phases /\ "done" \in Phases \cup {"done"}
        /\ "done" \notin Submitting
    BY <2>1 DEF Phases, Cleaning, Submitting
  <2> DEFINE from == call[c].phase
  <2>4. from \in Phases /\ Moves(c, from, "done")
    BY <2>1, <2>3
  <2> HIDE DEF from
  <2> QED
    BY <2>1, <2>2, <2>3, <2>4, MovesInv
<1> QED
  BY <1>1, <1>3, <1>4, <1>5, <1>6, <1>7, <1>8

\* What is listed is all there is to fetch, as long as it is all there.
LEMMA ListArtifactsInv ==
  ASSUME IInv, NEW c \in Calls, ListArtifacts(c)
  PROVE  IInv'
<1> DEFINE k == [call[c] EXCEPT !.phase = "fetching", !.todo = Readable(outputs[call[c].about])]
<1>1. /\ call[c] \in CallState /\ call[c].phase = "listing"
      /\ call' = [call EXCEPT ![c] = k] /\ StillThere /\ UNCHANGED faults
  BY Types DEF ListArtifacts, StillThere, storage, docling
<1>2. Readable(outputs[call[c].about]) \in SUBSET Keys
  BY Types, ExportedType DEF IInv, TypeOK
<1>3. /\ k \in CallState /\ k.phase = "fetching" /\ k.kind = call[c].kind
      /\ k.about = call[c].about /\ k.response = call[c].response /\ k.got = call[c].got
      /\ k.todo = Readable(outputs[call[c].about])
  BY <1>1, <1>2 DEF CallState, Phases
<1>4. CallInv(c, call[c])
  BY DEF IInv
<1>5. CallInv(c, k) /\ KeepsResult(c, k)
  BY <1>1, <1>3, <1>4 DEF CallInv, KeepsResult, Submitting, Cleaning
<1> HIDE DEF k
<1> QED
  BY <1>1, <1>3, <1>5, StrictFaults, CallMoves DEF StillThere, Submitting

LEMMA FetchArtifactInv ==
  ASSUME IInv, NEW c \in Calls, NEW a \in Keys, FetchArtifact(c, a)
  PROVE  IInv'
<1>1. /\ call[c] \in CallState /\ call[c].phase = "fetching" /\ a \in call[c].todo
      /\ StillThere /\ UNCHANGED faults
  BY Types DEF FetchArtifact, StillThere, storage, docling
<1>2. CASE Responds(c, "fetching", "error")
  BY <1>1, <1>2, RespondsInv DEF Phases, Cleaning
<1>3. CASE call' = [call EXCEPT ![c].todo = @ \ {a}, ![c].got = @ \cup {a}]
  <2> DEFINE k == [call[c] EXCEPT !.todo = @ \ {a}, !.got = @ \cup {a}]
  <2>1. call' = [call EXCEPT ![c] = k]
    BY <1>3
  <2>2. /\ k \in CallState /\ k.phase = "fetching" /\ k.kind = call[c].kind
        /\ k.about = call[c].about /\ k.response = call[c].response
        /\ k.got = call[c].got \cup {a} /\ k.todo = call[c].todo \ {a}
    BY <1>1 DEF CallState
  <2>3. CallInv(c, call[c])
    BY DEF IInv
  <2>4. k.got \cup k.todo = call[c].got \cup call[c].todo
    BY <1>1, <2>2
  <2>5. CallInv(c, k) /\ KeepsResult(c, k)
    BY <1>1, <2>2, <2>3, <2>4 DEF CallInv, KeepsResult, Submitting, Cleaning, NoResponse
  <2> HIDE DEF k
  <2> QED
    BY <1>1, <2>1, <2>2, <2>5, StrictFaults, CallMoves DEF StillThere, Submitting
<1> QED
  BY <1>2, <1>3 DEF FetchArtifact

\* With nothing left to fetch, the response carries what was listed.
LEMMA RespondWithResultInv ==
  ASSUME IInv, NEW c \in Calls, RespondWithResult(c)
  PROVE  IInv'
<1> DEFINE r == IF IsZip THEN "zip" ELSE "document"
           k == [call[c] EXCEPT !.phase = "cleanInputs", !.response = r]
<1>1. /\ call[c] \in CallState /\ call[c].phase = "fetching" /\ call[c].todo = {}
      /\ call' = [call EXCEPT ![c] = k] /\ StillThere /\ UNCHANGED faults
  BY Types DEF RespondWithResult, StillThere, storage, docling
<1>2. /\ k \in CallState /\ k.phase = "cleanInputs" /\ k.kind = call[c].kind
      /\ k.about = call[c].about /\ k.response \in {"document", "zip"}
      /\ k.got = call[c].got
  BY <1>1 DEF CallState, Phases, Responses
<1>3. CallInv(c, call[c])
  BY DEF IInv
<1>4. CallInv(c, k) /\ KeepsResult(c, k)
  BY <1>1, <1>2, <1>3 DEF CallInv, KeepsResult, Submitting, Cleaning, NoResponse
<1> HIDE DEF k
<1> QED
  BY <1>1, <1>2, <1>4, StrictFaults, CallMoves DEF StillThere, Submitting

-----------------------------------------------------------------------------
\* The steps on storage and task.  What each may rely on:
LEMMA Facts ==
  ASSUME IInv
  PROVE  /\ inputs \in [Calls -> SUBSET Names] /\ outputs \in [Calls -> SUBSET Keys]
         /\ record \in [Calls -> {"absent", "present", "cleaned", "expired"}]
         /\ task \in [Calls -> TaskStates]
         /\ converted \in [Calls -> SUBSET Names]
         /\ \A c \in Calls : CallInv(c, call[c]) /\ UploadInv(c)
BY DEF IInv, TypeOK, TaskStates

\* A file arrives where nothing was cleaned yet: the task does not exist.
LEMMA UploadFileInv ==
  ASSUME IInv, NEW c \in Calls, UploadFile(c)
  PROVE  IInv'
<1> DEFINE f == call[c].sent + 1
           k == [call[c] EXCEPT !.sent = f]
<1>1. /\ call[c] \in CallState /\ call[c].phase = "uploading" /\ f <= Len(Upload)
      /\ inputs' = [inputs EXCEPT ![c] = @ \cup {Upload[f]}]
      /\ call' = [call EXCEPT ![c] = k]
      /\ UNCHANGED <<outputs, record, task, converted, faults>>
  BY Types DEF UploadFile, docling
<1>2. f \in 0 .. Len(Upload) /\ f \in DOMAIN Upload
  BY <1>1, UploadAssumption DEF CallState
<1>3. /\ k \in CallState /\ k.phase = "uploading" /\ k.kind = call[c].kind
      /\ k.about = call[c].about /\ k.response = call[c].response
      /\ k.got = call[c].got
  BY <1>1, <1>2 DEF CallState
<1>4. Upload[f] \in Names
  BY <1>2 DEF Names
<1> HIDE DEF k, f
<1>5. /\ task[c] = "none" /\ CallInv(c, call[c])
      /\ \A x \in Calls : call'[x] = IF x = c THEN k ELSE call[x]
  BY <1>1, Facts, Types DEF UploadInv, Submitting
<1>6. /\ \A x \in Calls : inputs'[x] = IF x = c THEN inputs[x] \cup {Upload[f]}
                                     ELSE inputs[x]
      /\ inputs' \in [Calls -> SUBSET Names] /\ call' \in [Calls -> CallState]
  BY <1>1, <1>3, <1>4, Facts, Types
<1>7. CallInv(c, k) /\ KeepsResult(c, k)
  BY <1>1, <1>3, <1>5 DEF CallInv, KeepsResult, Submitting, Cleaning
<1>8. ASSUME NEW x \in Calls PROVE CallInv(x, call[x])'
  <2>1. CallInv(x, call'[x]) /\ call'[x].about \in Calls
    BY <1>3, <1>5, <1>7, Facts, Types
  <2>2. task[call'[x].about] \in Over =>
          inputs'[call'[x].about] = inputs[call'[x].about]
    BY <1>5, <1>6, <2>1 DEF Over, Finished
  <2> QED
    BY <1>1, <2>1, <2>2 DEF CallInv, Cleaning, All
<1>9. TypeOK'
  BY <1>1, <1>6, <1>8, Facts
  DEF IInv, TypeOK, CallState, CallInv, Idle, TaskStates
<1>10. ASSUME NEW r \in Calls PROVE UploadInv(r)'
  <2>1. task[r] \in Over => inputs'[r] = inputs[r]
    BY <1>5, <1>6 DEF Over, Finished
  <2>2. UploadInv(r) /\ (Delivered(r) => Delivered(r)')
    BY <1>1, <1>7, Facts, DeliveredStays
  <2>3. call'[r].phase \in Submitting => call[r].phase \in Submitting
    BY <1>1, <1>5 DEF Submitting
  <2> QED
    BY <1>1, <2>1, <2>2, <2>3 DEF UploadInv, All
<1> QED
  BY <1>8, <1>9, <1>10 DEF IInv

\* The POST lands, whether its answer arrives or not.
LEMMA TaskBegins ==
  ASSUME IInv, NEW c \in Calls, NEW k \in CallState,
         call' = [call EXCEPT ![c] = k], call[c].phase = "uploading",
         \/ k.phase = "recording" /\ k.response = call[c].response
         \/ k.phase = "done" /\ k.response = "error",
         k.kind = call[c].kind, k.about = call[c].about, k.got = call[c].got,
         task' = task \/ task' = [task EXCEPT ![c] = "running"],
         UNCHANGED <<inputs, outputs, record, converted>>,
         faults' \in 0 .. MaxFaults
  PROVE  IInv'
<1>1. \A x \in Calls : call'[x] = IF x = c THEN k ELSE call[x]
  BY Types
<1>2. task[c] = "none"
  BY Facts DEF UploadInv, Submitting
<1>3. /\ \A x \in Calls : task[x] \in Over => task'[x] = task[x]
      /\ \A x \in Calls : task'[x] \in Over => task'[x] = task[x]
      /\ \A x \in Calls : x # c => task'[x] = task[x]
  BY <1>2, Facts DEF Over, Finished, TaskStates
<1>4. CallInv(c, call[c])
  BY Facts
<1>5. CallInv(c, k)
  BY <1>4 DEF CallInv, Submitting, Cleaning
<1>6. ASSUME NEW x \in Calls PROVE CallInv(x, call[x])'
  <2>1. CallInv(x, call'[x]) /\ call'[x].about \in Calls
    BY <1>1, <1>5, Facts, Types DEF CallState
  <2> QED
    BY <2>1, <1>3 DEF CallInv, All
<1>7. TypeOK'
  <2>1. call' \in [Calls -> CallState]
    BY Types
  <2>2. task' \in [Calls -> TaskStates]
    BY Facts DEF TaskStates
  <2> QED
    BY <1>6, <2>1, <2>2 DEF IInv, TypeOK, CallState, CallInv, Idle, TaskStates
<1>8. KeepsResult(c, k)
  BY <1>4 DEF CallInv, KeepsResult, NoResponse, Cleaning
<1>9. ASSUME NEW r \in Calls PROVE UploadInv(r)'
  <2>1. UploadInv(r) /\ (Delivered(r) => Delivered(r)')
    BY <1>8, Facts, DeliveredStays
  <2>2. call'[r].phase \in Submitting => r # c /\ call'[r] = call[r]
    BY <1>1 DEF Submitting
  <2> QED
    BY <1>3, <2>1, <2>2 DEF UploadInv, All, Over, Finished
<1> QED
  BY <1>6, <1>7, <1>9 DEF IInv

LEMMA PostAcceptedInv ==
  ASSUME IInv, NEW c \in Calls, PostAccepted(c)
  PROVE  IInv'
<1> DEFINE k == [call[c] EXCEPT !.phase = "recording"]
<1>1. /\ call[c] \in CallState /\ call[c].phase = "uploading"
      /\ call' = [call EXCEPT ![c] = k]
      /\ task' = [task EXCEPT ![c] = "running"]
      /\ UNCHANGED <<inputs, outputs, record, converted, faults>>
  BY Types DEF PostAccepted, Moves, storage
<1>2. /\ k \in CallState /\ k.phase = "recording" /\ k.response = call[c].response
      /\ k.kind = call[c].kind /\ k.about = call[c].about /\ k.got = call[c].got
  BY <1>1 DEF CallState, Phases
<1> HIDE DEF k
<1> QED
  BY <1>1, <1>2, StrictFaults, TaskBegins

LEMMA SubmitFailsInv ==
  ASSUME IInv, NEW c \in Calls, SubmitFails(c)
  PROVE  IInv'
<1> DEFINE k == [call[c] EXCEPT !.phase = "done", !.response = "error"]
<1>1. /\ call[c] \in CallState /\ call[c].phase = "uploading"
      /\ call' = [call EXCEPT ![c] = k]
      /\ task' = task \/ task' = [task EXCEPT ![c] = "running"]
      /\ Fault
      /\ UNCHANGED <<inputs, outputs, record, converted>>
  BY Types DEF SubmitFails, Responds, storage
<1>2. /\ k \in CallState /\ k.phase = "done" /\ k.response = "error"
      /\ k.kind = call[c].kind /\ k.about = call[c].about /\ k.got = call[c].got
  BY <1>1 DEF CallState, Phases, Responses
<1> HIDE DEF k
<1> QED
  BY <1>1, <1>2, StrictFaults, TaskBegins

\* Redis has the record, whether its answer arrives or not.
LEMMA RecordLands ==
  ASSUME IInv, NEW c \in Calls, RecordWritten(c) \/ RecordFails(c),
         record' = [record EXCEPT ![c] = "present"]
  PROVE  IInv'
<1>1. /\ call[c] \in CallState /\ call[c].phase = "recording"
      /\ record' = [record EXCEPT ![c] = "present"]
      /\ UNCHANGED <<inputs, outputs, task, converted>>
      /\ faults' \in 0 .. MaxFaults
  BY Types, StrictFaults DEF RecordWritten, RecordFails, Moves, Responds, docling
<1>2. PICK k \in CallState :
        /\ call' = [call EXCEPT ![c] = k]
        /\ \/ k.phase = "done" /\ k.response \in {"accepted", "error"}
           \/ k.phase = "polling" /\ k.response = call[c].response
        /\ k.kind = call[c].kind /\ k.about = call[c].about /\ k.got = call[c].got
  <2>0. CASE RecordFails(c)
    <3> DEFINE k == [call[c] EXCEPT !.phase = "done", !.response = "error"]
    <3>1. call' = [call EXCEPT ![c] = k]
      BY <2>0 DEF RecordFails, Responds
    <3>2. /\ k \in CallState /\ k.phase = "done" /\ k.response = "error"
          /\ k.kind = call[c].kind /\ k.about = call[c].about /\ k.got = call[c].got
      BY <1>1 DEF CallState, Responses
    <3> QED
      BY <3>1, <3>2
  <2>1. CASE RecordWritten(c) /\ call[c].kind = "async"
    <3> DEFINE k == [call[c] EXCEPT !.phase = "done", !.response = "accepted"]
    <3>1. call' = [call EXCEPT ![c] = k]
      BY <2>1 DEF RecordWritten, Responds
    <3>2. /\ k \in CallState /\ k.phase = "done" /\ k.response = "accepted"
          /\ k.kind = call[c].kind /\ k.about = call[c].about /\ k.got = call[c].got
      BY <1>1 DEF CallState, Responses
    <3> QED
      BY <3>1, <3>2
  <2>2. CASE RecordWritten(c) /\ call[c].kind # "async"
    <3> DEFINE k == [call[c] EXCEPT !.phase = "polling"]
    <3>1. call' = [call EXCEPT ![c] = k]
      BY <2>2 DEF RecordWritten, Moves
    <3>2. /\ k \in CallState /\ k.phase = "polling" /\ k.response = call[c].response
          /\ k.kind = call[c].kind /\ k.about = call[c].about /\ k.got = call[c].got
      BY <1>1 DEF CallState, Phases
    <3> QED
      BY <3>1, <3>2
  <2> QED
    BY <2>0, <2>1, <2>2
<1>3. \A x \in Calls : call'[x] = IF x = c THEN k ELSE call[x]
  BY <1>2, Types
<1>4. \A x \in Calls : record'[x] = IF x = c THEN "present" ELSE record[x]
  BY <1>1, Facts
<1>5. CallInv(c, call[c])
  BY Facts
<1>6. ASSUME NEW x \in Calls PROVE CallInv(x, call[x])'
  <2>1. CASE x = c
    BY <2>1, <1>1, <1>2, <1>3, <1>4, <1>5 DEF CallInv, Submitting, Cleaning
  <2>2. CASE x # c
    <3>1. CallInv(x, call[x]) /\ call'[x] = call[x] /\ call[x].about \in Calls
      BY <2>2, <1>3, Facts, Types
    <3> QED
      BY <3>1, <1>1, <1>4 DEF CallInv, All
  <2> QED
    BY <2>1, <2>2
<1>7. TypeOK'
  <2>1. /\ call' \in [Calls -> CallState]
        /\ record' \in [Calls -> {"absent", "present", "cleaned", "expired"}]
    BY <1>1, <1>2, Types, Facts
  <2> QED
    BY <1>1, <1>6, <2>1 DEF IInv, TypeOK, CallState, CallInv, Idle, TaskStates
<1>8. KeepsResult(c, k)
  BY <1>1, <1>5 DEF CallInv, KeepsResult, NoResponse, Cleaning
<1>9. ASSUME NEW r \in Calls PROVE UploadInv(r)'
  <2>1. UploadInv(r) /\ (Delivered(r) => Delivered(r)')
    BY <1>1, <1>2, <1>8, Facts, DeliveredStays
  <2>2. call'[r].phase \in Submitting => call'[r] = call[r]
    BY <1>2, <1>3 DEF Submitting
  <2> QED
    BY <1>1, <1>4, <2>1, <2>2 DEF UploadInv, All
<1> QED
  BY <1>6, <1>7, <1>9 DEF IInv

LEMMA RecordWrittenInv ==
  ASSUME IInv, NEW c \in Calls, RecordWritten(c) \/ RecordFails(c)
  PROVE  IInv'
<1>1. CASE record' = [record EXCEPT ![c] = "present"]
  BY <1>1, RecordLands
<1>2. CASE RecordFails(c) /\ UNCHANGED record
  BY <1>2, RespondsInv DEF RecordFails, StillThere, storage, docling, Phases, Cleaning
<1> QED
  BY <1>1, <1>2 DEF RecordWritten, RecordFails

LEMMA CleanInputsInv ==
  ASSUME IInv, NEW c \in Calls, CleanInputs(c)
  PROVE  IInv'
<1>0. PICK d \in Calls : call[c].about = d
  BY Types
<1> DEFINE k == [call[c] EXCEPT !.phase = "cleanOutputs"]
<1>1. /\ call[c].phase = "cleanInputs" /\ call[c].phase \in Cleaning
      /\ call[c] \in CallState /\ call[c].about = d /\ d \in Calls
      /\ call' = [call EXCEPT ![c] = k]
      /\ inputs' = [inputs EXCEPT ![d] = {}]
      /\ UNCHANGED <<outputs, record, task, converted, faults>>
  BY <1>0, Types DEF CleanInputs, Moves, Cleaning, docling
<1>2. /\ k \in CallState
      /\ k.phase = "cleanOutputs" /\ k.response = call[c].response
      /\ k.kind = call[c].kind /\ k.about = call[c].about /\ k.got = call[c].got
      /\ KeepsResult(c, k)
      /\ \A x \in Calls : call'[x] = IF x = c THEN k ELSE call[x]
  BY <1>1, Types DEF CallState, Phases, KeepsResult
<1> HIDE DEF k
<1>3. d \in Calls /\ \A r \in Calls : inputs'[r] = IF r = d THEN {} ELSE inputs[r]
  BY <1>1, Facts, Types
<1>4. CallInv(c, call[c])
  BY Facts
<1>5. ASSUME NEW x \in Calls PROVE CallInv(x, call[x])'
  <2>1. CASE x = c
    BY <2>1, <1>1, <1>2, <1>3, <1>4 DEF CallInv, Submitting, Cleaning, All
  <2>2. CASE x # c
    <3>1. CallInv(x, call[x]) /\ call'[x] = call[x] /\ call[x].about \in Calls
      BY <2>2, <1>2, Facts, Types
    <3> QED
      BY <3>1, <1>1, <1>3 DEF CallInv, All
  <2> QED
    BY <2>1, <2>2
<1>6. TypeOK'
  <2>1. call' \in [Calls -> CallState] /\ inputs' \in [Calls -> SUBSET Names]
    BY <1>1, <1>2, Types, Facts
  <2> QED
    BY <1>1, <1>5, <2>1 DEF IInv, TypeOK, CallState, CallInv, Idle, TaskStates
<1>7. ASSUME NEW r \in Calls PROVE UploadInv(r)'
  <2>1. UploadInv(r) /\ (Delivered(r) => Delivered(r)')
    BY <1>1, <1>2, Facts, DeliveredStays
  <2>2. call'[r].phase \in Submitting => call'[r] = call[r]
    BY <1>2 DEF Submitting
  <2> QED
    BY <1>1, <1>3, <2>1, <2>2 DEF UploadInv, All
<1> QED
  BY <1>5, <1>6, <1>7 DEF IInv

\* Artifacts go: either they were all there, then this very call carried all
\* of them, or some earlier one did.
LEMMA CleanOutputsInv ==
  ASSUME IInv, NEW c \in Calls, CleanOutputs(c)
  PROVE  IInv'
<1>0. PICK d \in Calls : call[c].about = d
  BY Types
<1> DEFINE k == [call[c] EXCEPT !.phase = "cleanRecord"]
<1>1. /\ call[c].phase = "cleanOutputs" /\ call[c].phase \in Cleaning
      /\ call[c] \in CallState /\ call[c].about = d /\ d \in Calls
      /\ call' = [call EXCEPT ![c] = k]
      /\ outputs' = [outputs EXCEPT ![d] = {}]
      /\ UNCHANGED <<inputs, record, task, converted, faults>>
  BY <1>0, Types DEF CleanOutputs, Moves, Cleaning, docling
<1>2. /\ k \in CallState
      /\ k.phase = "cleanRecord" /\ k.response = call[c].response
      /\ k.kind = call[c].kind /\ k.about = call[c].about /\ k.got = call[c].got
      /\ KeepsResult(c, k)
      /\ \A x \in Calls : call'[x] = IF x = c THEN k ELSE call[x]
  BY <1>1, Types DEF CallState, Phases, KeepsResult
<1> HIDE DEF k
<1>3. d \in Calls /\ \A r \in Calls : outputs'[r] = IF r = d THEN {} ELSE outputs[r]
  BY <1>1, Facts, Types
<1>4. CallInv(c, call[c]) /\ UploadInv(d) /\ task[d] \in Over
  <2>1. CallInv(c, call[c]) /\ UploadInv(d)
    BY <1>3, Facts
  <2> QED
    BY <2>1, <1>1 DEF CallInv
<1>5. All(d) = {} => outputs[d] = All(d)
  BY <1>4 DEF UploadInv
<1>6. ASSUME NEW x \in Calls PROVE CallInv(x, call[x])'
  <2>1. CASE x = c
    BY <2>1, <1>1, <1>2, <1>3, <1>4, <1>5 DEF CallInv, Submitting, Cleaning, All
  <2>2. CASE x # c
    <3>1. CallInv(x, call[x]) /\ call'[x] = call[x] /\ call[x].about \in Calls
      BY <2>2, <1>2, Facts, Types
    <3> QED
      BY <3>1, <1>1, <1>3, <1>5 DEF CallInv, All
  <2> QED
    BY <2>1, <2>2
<1>7. TypeOK'
  <2>1. call' \in [Calls -> CallState] /\ outputs' \in [Calls -> SUBSET Keys]
    BY <1>1, <1>2, Types, Facts
  <2> QED
    BY <1>1, <1>6, <2>1 DEF IInv, TypeOK, CallState, CallInv, Idle, TaskStates
<1>8. Delivered(d)'
  <2>1. CASE outputs[d] = All(d)
    <3>1. call'[c].about = d /\ call'[c].response \in {"document", "zip"}
          /\ call'[c].got = Readable(All(d))
      BY <2>1, <1>1, <1>2, <1>4 DEF CallInv
    <3> QED
      BY <3>1, <1>1 DEF Delivered, Complete, All
  <2>2. CASE Delivered(d)
    BY <2>2, <1>1, <1>2, <1>3, DeliveredStays
  <2> QED
    BY <2>1, <2>2, <1>4 DEF UploadInv
<1>9. ASSUME NEW r \in Calls PROVE UploadInv(r)'
  <2>1. UploadInv(r) /\ (Delivered(r) => Delivered(r)')
    BY <1>1, <1>2, Facts, DeliveredStays
  <2>2. call'[r].phase \in Submitting => call'[r] = call[r]
    BY <1>2 DEF Submitting
  <2> QED
    BY <1>1, <1>3, <1>8, <2>1, <2>2 DEF UploadInv, All
<1> QED
  BY <1>6, <1>7, <1>9 DEF IInv

LEMMA CleanRecordInv ==
  ASSUME IInv, NEW c \in Calls, CleanRecord(c)
  PROVE  IInv'
<1>0. PICK d \in Calls : call[c].about = d
  BY Types
<1> DEFINE k == [call[c] EXCEPT !.phase = "done"]
<1>1. /\ call[c].phase = "cleanRecord" /\ call[c].phase \in Cleaning
      /\ call[c] \in CallState /\ call[c].about = d /\ d \in Calls
      /\ call' = [call EXCEPT ![c] = k]
      /\ record' = [record EXCEPT ![d] = IF @ = "present" THEN "cleaned" ELSE @]
      /\ UNCHANGED <<inputs, outputs, task, converted, faults>>
  BY <1>0, Types DEF CleanRecord, Moves, Cleaning, docling
<1>2. /\ k \in CallState
      /\ k.phase = "done" /\ k.response = call[c].response
      /\ k.kind = call[c].kind /\ k.about = call[c].about /\ k.got = call[c].got
      /\ KeepsResult(c, k)
      /\ \A x \in Calls : call'[x] = IF x = c THEN k ELSE call[x]
  BY <1>1, Types DEF CallState, Phases, KeepsResult
<1> HIDE DEF k
<1>3. /\ \A r \in Calls : record'[r] = record[r] \/ (r = d /\ record'[r] = "cleaned")
      /\ \A r \in Calls : record'[r] = "absent" => record[r] = "absent"
      /\ record' \in [Calls -> {"absent", "present", "cleaned", "expired"}]
  <2> DEFINE v == IF record[d] = "present" THEN "cleaned" ELSE record[d]
  <2>1. record' = [record EXCEPT ![d] = v] /\ record[d] \in {"absent", "present", "cleaned", "expired"}
    BY <1>1, Facts
  <2>2. /\ v = record[d] \/ v = "cleaned"
        /\ v \in {"absent", "present", "cleaned", "expired"}
    BY <2>1
  <2> HIDE DEF v
  <2> QED
    BY <2>1, <2>2, Facts
<1>4. task[d] \in Over /\ inputs[d] = {} /\ outputs[d] = {}
  <2>1. CallInv(c, call[c])
    BY Facts
  <2> QED
    BY <2>1, <1>1 DEF CallInv
<1>5. ASSUME NEW x \in Calls PROVE CallInv(x, call[x])'
  <2>1. CallInv(x, call[x])
    BY Facts
  <2>2. CASE x = c
    BY <2>1, <2>2, <1>1, <1>2, <1>3 DEF CallInv, Submitting, Cleaning, All
  <2>3. CASE x # c
    <3>1. call'[x] = call[x] /\ call[x].about \in Calls
      BY <2>3, <1>2, Types
    <3> QED
      BY <3>1, <2>1, <1>1, <1>3 DEF CallInv, All
  <2> QED
    BY <2>2, <2>3
<1>6. TypeOK'
  <2>1. call' \in [Calls -> CallState]
    BY <1>1, <1>2, Types
  <2> QED
    BY <1>1, <1>3, <1>5, <2>1 DEF IInv, TypeOK, CallState, CallInv, Idle, TaskStates
<1>7. ASSUME NEW r \in Calls PROVE UploadInv(r)'
  <2>1. UploadInv(r) /\ (Delivered(r) => Delivered(r)')
    BY <1>1, <1>2, Facts, DeliveredStays
  <2>2. call'[r].phase \in Submitting => call'[r] = call[r]
    BY <1>2 DEF Submitting
  <2> QED
    BY <1>1, <1>3, <1>4, <2>1, <2>2 DEF UploadInv, All
<1> QED
  BY <1>5, <1>6, <1>7 DEF IInv

-----------------------------------------------------------------------------
\* A task ends: all its artifacts are there, and nobody looked for them yet.
LEMMA TaskEndsInv ==
  ASSUME IInv, NEW d \in Calls, NEW names \in SUBSET Names, NEW e \in Finished,
         TaskEnds(d, names, e)
  PROVE  IInv'
<1>1. /\ task[d] = "running" /\ (e = "succeeded" => names # {})
      /\ task' = [task EXCEPT ![d] = e]
      /\ converted' = [converted EXCEPT ![d] = names]
      /\ outputs' = [outputs EXCEPT ![d] = Exported(names)]
      /\ UNCHANGED <<call, inputs, record, faults>>
  BY DEF TaskEnds
<1>2. /\ converted'[d] = names /\ outputs'[d] = Exported(names) /\ task'[d] = e
      /\ \A r \in Calls : r # d => /\ task'[r] = task[r] /\ outputs'[r] = outputs[r]
                                   /\ converted'[r] = converted[r]
  BY <1>1, Facts
<1>3. TypeOK'
  <2>1. /\ task' \in [Calls -> TaskStates]
        /\ converted' \in [Calls -> SUBSET Names]
    BY <1>1, Facts DEF TaskStates
  <2>2. outputs' \in [Calls -> SUBSET Keys]
    BY <1>1, Facts, ExportedType
  <2> QED
    BY <1>1, <2>1, <2>2 DEF IInv, TypeOK, Idle, TaskStates
<1>4. ASSUME NEW x \in Calls PROVE CallInv(x, call[x])'
  <2>1. CallInv(x, call[x]) /\ call[x].about \in Calls
    BY Facts, Types
  <2>2. CASE call[x].about # d
    BY <2>1, <2>2, <1>1, <1>2 DEF CallInv, All
  <2>3. CASE call[x].about = d
    <3>1. call[x].phase \notin {"listing", "fetching"} \cup Cleaning
      BY <2>1, <2>3, <1>1 DEF CallInv, Over, Finished
    <3> QED
      BY <2>1, <3>1, <1>1 DEF CallInv, Cleaning
  <2> QED
    BY <2>2, <2>3
<1>5. ASSUME NEW r \in Calls PROVE UploadInv(r)'
  <2>1. UploadInv(r)
    BY Facts
  <2>2. CASE r # d
    <3>1. Delivered(r) => Delivered(r)'
      BY <2>2, <1>1, <1>2 DEF Delivered, Complete
    <3> QED
      BY <2>1, <2>2, <3>1, <1>1, <1>2 DEF UploadInv, All
  <2>3. CASE r = d
    BY <2>1, <2>3, <1>1, <1>2 DEF UploadInv, All, Over, Finished
  <2> QED
    BY <2>2, <2>3
<1> QED
  BY <1>3, <1>4, <1>5 DEF IInv

LEMMA TaskForgottenInv ==
  ASSUME IInv, NEW d \in Calls, TaskForgotten(d)
  PROVE  IInv'
<1>1. /\ task[d] \in Finished /\ task' = [task EXCEPT ![d] = "forgotten"]
      /\ UNCHANGED <<call, inputs, outputs, record, converted, faults>>
  BY DEF TaskForgotten, storage
<1>2. /\ \A r \in Calls : task'[r] \in Over <=> task[r] \in Over
      /\ \A r \in Calls : task'[r] = "none" <=> task[r] = "none"
      /\ task' \in [Calls -> TaskStates]
  BY <1>1, Facts DEF Over, Finished, TaskStates
<1>3. TypeOK'
  BY <1>1, <1>2 DEF IInv, TypeOK, Idle, TaskStates
<1>4. ASSUME NEW x \in Calls PROVE CallInv(x, call[x])'
  <2>1. CallInv(x, call[x]) /\ call[x].about \in Calls
    BY Facts, Types
  <2> QED
    BY <2>1, <1>1, <1>2 DEF CallInv, All
<1>5. ASSUME NEW r \in Calls PROVE UploadInv(r)'
  <2>1. UploadInv(r) /\ (Delivered(r) => Delivered(r)')
    BY <1>1, Facts DEF Delivered, Complete
  <2> QED
    BY <2>1, <1>1, <1>2 DEF UploadInv, All
<1> QED
  BY <1>3, <1>4, <1>5 DEF IInv

LEMMA RecordExpiresInv ==
  ASSUME IInv, NEW d \in Calls, RecordExpires(d)
  PROVE  IInv'
<1>1. /\ record[d] = "present" /\ record' = [record EXCEPT ![d] = "expired"]
      /\ UNCHANGED <<call, inputs, outputs, task, converted, faults>>
  BY DEF RecordExpires, docling
<1>2. /\ \A r \in Calls : record'[r] = "absent" <=> record[r] = "absent"
      /\ \A r \in Calls : record'[r] = "cleaned" <=> record[r] = "cleaned"
      /\ record' \in [Calls -> {"absent", "present", "cleaned", "expired"}]
  BY <1>1, Facts
<1>3. TypeOK'
  BY <1>1, <1>2 DEF IInv, TypeOK, Idle, TaskStates
<1>4. ASSUME NEW x \in Calls PROVE CallInv(x, call[x])'
  <2>1. CallInv(x, call[x]) /\ call[x].about \in Calls
    BY Facts, Types
  <2> QED
    BY <2>1, <1>1, <1>2 DEF CallInv, All
<1>5. ASSUME NEW r \in Calls PROVE UploadInv(r)'
  <2>1. UploadInv(r) /\ (Delivered(r) => Delivered(r)')
    BY <1>1, Facts DEF Delivered, Complete
  <2> QED
    BY <2>1, <1>1, <1>2 DEF UploadInv, All
<1> QED
  BY <1>3, <1>4, <1>5 DEF IInv

-----------------------------------------------------------------------------
LEMMA StepInv == IInv /\ [Next]_vars => IInv'
<1> SUFFICES ASSUME IInv, [Next]_vars PROVE IInv'
  OBVIOUS
<1>1. CASE UNCHANGED vars
  BY <1>1 DEF vars, IInv, TypeOK, Idle, CallInv, UploadInv, All, Delivered, Complete
<1>2. ASSUME NEW c \in Calls, CallStep(c) PROVE IInv'
  BY <1>2, UploadFileInv, PostAcceptedInv, RecordWrittenInv, LookingInv, ListArtifactsInv,
     FetchArtifactInv, RespondWithResultInv, CleanInputsInv, CleanOutputsInv,
     CleanRecordInv DEF CallStep
<1>3. ASSUME NEW c \in Calls, FaultStep(c) PROVE IInv'
  BY <1>3, SubmitFailsInv, RecordWrittenInv, LookingInv DEF FaultStep
<1> QED
  BY <1>1, <1>2, <1>3, SubmitInv, GetResultInv, TaskEndsInv, TaskForgottenInv,
     RecordExpiresInv DEF Next, Uploads

\* Calls, storage and tasks keep their types, whatever fails.
THEOREM TypeCorrect == Spec => []TypeOK
<1>1. IInv => TypeOK
  BY DEF IInv
<1> QED
  BY <1>1, InitInv, StepInv, PTL DEF Spec

\* Nothing converted is lost before some response carried all of it, with any
\* number of racing calls and failing requests (service.py:280-287).
THEOREM NothingLostUndelivered == Spec => []LostOnlyAfterDelivery
<1>1. IInv => LostOnlyAfterDelivery
  BY DEF IInv, UploadInv, All, Over, LostOnlyAfterDelivery, Uploads
<1> QED
  BY <1>1, InitInv, StepInv, PTL DEF Spec

\* A claim ticket deleted by a cleanup leaves no object behind
\* (service.py:93-109).
THEOREM TicketOutlivesObjects == Spec => []RecordDeletedLast
<1>1. IInv => RecordDeletedLast
  BY DEF IInv, UploadInv, RecordDeletedLast, Uploads
<1> QED
  BY <1>1, InitInv, StepInv, PTL DEF Spec

\* Only the two passages of resolve_result pass docling-serve's answer on.
LEMMA PassedThrough ==
  ASSUME IInv, Next, NEW c \in Calls,
         call[c].response = NoResponse, call'[c].response = "native"
  PROVE  LookUp(c) \/ AskNative(c)
<1>1. call \in [Calls -> CallState] /\ NoResponse # "native"
  BY Types DEF NoResponse
<1>2. ASSUME NEW x \in Calls, NEW p, NEW q, Moves(x, p, q)
      PROVE  call'[c].response = call[c].response
  BY <1>1, <1>2 DEF Moves, CallState
<1>3. ASSUME NEW x \in Calls, NEW p, NEW q, Responds(x, p, q)
      PROVE  x = c /\ q = "native"
  BY <1>1, <1>3 DEF Responds, CallState
<1>4. ASSUME NEW x \in Calls, CallStep(x) PROVE LookUp(c) \/ AskNative(c)
  <2>1. CASE UploadFile(x)
    BY <2>1, <1>1 DEF UploadFile, CallState
  <2>2. CASE PostAccepted(x) \/ PollCompletes(x) \/ CleanInputs(x) \/ CleanOutputs(x)
               \/ CleanRecord(x)
    BY <2>2, <1>1, <1>2 DEF PostAccepted, PollCompletes, CleanInputs, CleanOutputs,
                            CleanRecord
  <2>3. CASE PostRejected(x) \/ PollGivesUp(x) \/ RecordWritten(x)
    BY <2>3, <1>1, <1>2, <1>3 DEF PostRejected, PollGivesUp, RecordWritten
  <2>4. CASE LookUp(x) \/ AskNative(x)
    <3>1. x = c
      BY <2>4, <1>1, <1>2, <1>3 DEF LookUp, AskNative
    <3> QED
      BY <2>4, <3>1
  <2>5. CASE ListArtifacts(x) \/ RespondWithResult(x)
    BY <2>5, <1>1 DEF ListArtifacts, RespondWithResult, CallState
  <2>6. CASE \E k \in Keys : FetchArtifact(x, k)
    <3>1. PICK k \in Keys : FetchArtifact(x, k)
      BY <2>6
    <3>2. CASE Responds(x, "fetching", "error")
      BY <3>2, <1>3
    <3>3. CASE call' = [call EXCEPT ![x].todo = @ \ {k}, ![x].got = @ \cup {k}]
      BY <3>3, <1>1 DEF CallState
    <3> QED
      BY <3>1, <3>2, <3>3 DEF FetchArtifact
  <2> QED
    BY <1>4, <2>1, <2>2, <2>3, <2>4, <2>5, <2>6 DEF CallStep
<1>5. ASSUME NEW x \in Calls, FaultStep(x) PROVE FALSE
  <2>1. CASE SubmitFails(x) \/ RecordFails(x) \/ ResolveFails(x)
    BY <2>1, <1>3 DEF SubmitFails, RecordFails, ResolveFails
  <2>2. CASE CleanupFails(x)
    BY <2>2, <1>1, <1>2 DEF CleanupFails
  <2> QED
    BY <1>5, <2>1, <2>2 DEF FaultStep
<1>6. ASSUME NEW x \in Calls, NEW kind \in {"async", "sync"}, Submit(x, kind) PROVE FALSE
  BY <1>1, <1>6 DEF Submit, CallState
<1>7. ASSUME NEW x \in Calls, NEW r \in Uploads, GetResult(x, r) PROVE FALSE
  BY <1>1, <1>7 DEF GetResult, CallState
<1>8. ASSUME NEW r \in Uploads,
             \/ \E names \in SUBSET Names, e \in Finished : TaskEnds(r, names, e)
             \/ TaskForgotten(r) \/ RecordExpires(r)
      PROVE  FALSE
  BY <1>1, <1>8 DEF TaskEnds, TaskForgotten, RecordExpires
<1> QED
  BY <1>4, <1>5, <1>6, <1>7, <1>8 DEF Next

\* A client with a task id is given docling-serve's bare result of a
\* successful conversion only after a delivery in full or an expiry
\* (service.py:255-270).
THEOREM TicketsAreHonoured == Spec => TicketHonoured
<1>1. ASSUME IInv, Next, NEW c \in Calls, NEW r \in Calls, call[c].about = r,
             call[c].response = NoResponse, call'[c].response = "native",
             task[r] = "succeeded"
      PROVE  record[r] = "expired" \/ (record[r] = "cleaned" /\ Delivered(r))
  <2>1. CallInv(c, call[c]) /\ UploadInv(r)
    BY <1>1, Facts
  <2>2. CASE AskNative(c)
    <3>1. Moves(c, "asking", "listing")
      BY <1>1, <2>2 DEF AskNative
    <3>2. call'[c].response = call[c].response
      BY <1>1, <3>1, Types DEF Moves, CallState
    <3> QED
      BY <1>1, <3>2 DEF NoResponse
  <2>3. CASE LookUp(c)
    <3>1. CASE Moves(c, "looking", "asking")
      <4>1. call'[c].response = call[c].response
        BY <1>1, <3>1, Types DEF Moves, CallState
      <4> QED
        BY <1>1, <4>1 DEF NoResponse
    <3>2. CASE record[r] # "present" /\ call[c].phase = "looking"
      <4>1. record[r] \in {"cleaned", "expired"}
        BY <1>1, <2>1, <3>2, Facts DEF CallInv
      <4>2. PICK n \in Names, e \in Formats : n \in converted[r]
        BY <1>1, <2>1, FormatsAssumption DEF IInv, TypeOK, UploadInv
      <4>3. [source |-> n, leaf |-> Leaf(n, e)] \in All(r)
        BY <4>2 DEF All, Exported, Keys
      <4> QED
        BY <1>1, <2>1, <4>1, <4>3 DEF UploadInv, Over
    <3> QED
      BY <1>1, <2>3, <3>1, <3>2 DEF LookUp, Responds
  <2> QED
    BY <1>1, <2>2, <2>3, PassedThrough
<1>2. IInv /\ [Next]_vars =>
        [\A c \in Calls :
           LET r == call[c].about IN
           /\ call[c].response = NoResponse /\ call'[c].response = "native"
           /\ task[r] = "succeeded"
           => record[r] = "expired" \/ (record[r] = "cleaned" /\ Delivered(r))]_vars
  BY <1>1, Types
<1> QED
  BY <1>2, InitInv, StepInv, PTL DEF Spec, TicketHonoured

-----------------------------------------------------------------------------
\* The claim checks.  What a call at each await knows of the claim it is about.
ClaimCall(c, k) ==
  /\ k.phase \in Submitting \cup {"recording"} => record[c] = "absent"
  /\ k.phase \in {"asking", "listing", "fetching"} \cup Cleaning =>
       record[k.about] # "absent"
  /\ k.phase \in {"listing", "fetching"} \cup Cleaning => converted[k.about] # {}
  /\ k.response \in {"document", "zip"} => task[k.about] \in Over

\* What was uploaded is there until the task has ended and has a ticket.
ClaimUpload(r) ==
  /\ call[r].phase = "recording" \/ task[r] # "none" => call[r].sent > 0
  /\ call[r].sent > 0 /\ inputs[r] = {} => task[r] \in Over /\ record[r] # "absent"

ClaimInv ==
  /\ \A c \in Calls : ClaimCall(c, call[c])
  /\ \A r \in Calls : ClaimUpload(r)

LEMMA InitClaim == Init => ClaimInv
BY DEF Init, ClaimInv, ClaimCall, ClaimUpload, Submitting, Cleaning, NoResponse

\* Tickets are not forgotten, and what a task has come to stays.
LEMMA ClaimsGrow ==
  ASSUME IInv, Next
  PROVE  \A r \in Calls :
           /\ record[r] # "absent" => record'[r] # "absent"
           /\ task[r] \in Over => task'[r] \in Over /\ converted'[r] = converted[r]
<1>1. ASSUME NEW c \in Calls, NEW r \in Calls,
             CallStep(c) \/ FaultStep(c) \/ (\E kind \in {"async", "sync"} : Submit(c, kind))
             \/ (\E d \in Uploads : GetResult(c, d))
      PROVE  /\ record[r] # "absent" => record'[r] # "absent"
             /\ task[r] \in Over => task'[r] \in Over /\ converted'[r] = converted[r]
  <2>1. CASE PostAccepted(c)
    <3>1. call[c].phase = "uploading"
      BY <2>1 DEF PostAccepted, Moves
    <3> QED
      BY <2>1, <3>1, Facts DEF PostAccepted, UploadInv, Submitting, Over, Finished, storage
  <2>2. CASE SubmitFails(c)
    <3>1. call[c].phase = "uploading"
      BY <2>2 DEF SubmitFails, Responds
    <3> QED
      BY <2>2, <3>1, Facts DEF SubmitFails, UploadInv, Submitting, Over, Finished, storage
  <2>3. CASE RecordWritten(c) \/ RecordFails(c) \/ CleanRecord(c)
    BY <2>3, Facts DEF RecordWritten, RecordFails, CleanRecord, docling
  <2>4. CASE UNCHANGED <<record, task, converted>>
    BY <2>4
  <2> QED
    BY <1>1, <2>1, <2>2, <2>3, <2>4
    DEF CallStep, FaultStep, Submit, GetResult, UploadFile, PostRejected, PollCompletes,
        PollGivesUp, LookUp, AskNative, ListArtifacts, FetchArtifact, RespondWithResult,
        CleanInputs, CleanOutputs, ResolveFails, CleanupFails, storage, docling
<1>2. ASSUME NEW d \in Calls, NEW names \in SUBSET Names, NEW e \in Finished,
             TaskEnds(d, names, e) \/ TaskForgotten(d) \/ RecordExpires(d), NEW r \in Calls
      PROVE  /\ record[r] # "absent" => record'[r] # "absent"
             /\ task[r] \in Over => task'[r] \in Over /\ converted'[r] = converted[r]
  BY <1>2, Facts DEF TaskEnds, TaskForgotten, RecordExpires, Over, Finished, storage, docling
<1>3. Finished # {} /\ {} \in SUBSET Names /\ Uploads \subseteq Calls
  BY DEF Finished, Uploads
<1> QED
  BY <1>1, <1>2, <1>3 DEF Next

\* What a call knows holds as long as the call awaits.
LEMMA ClaimCallStays ==
  ASSUME IInv, ClaimInv, Next, NEW x \in Calls, call'[x] = call[x],
         record[x] = "absent" /\ record'[x] # "absent" => call[x].phase \in {"polling", "done"}
  PROVE  ClaimCall(x, call[x])'
<1>1. CallInv(x, call[x]) /\ ClaimCall(x, call[x]) /\ call[x].about \in Calls
  BY Facts, Types DEF ClaimInv
<1> QED
  BY <1>1, ClaimsGrow DEF ClaimCall, CallInv, Submitting, Cleaning

LEMMA ClaimUploadStays ==
  ASSUME IInv, ClaimInv, Next, NEW r \in Calls, call'[r].sent = call[r].sent,
         call'[r].phase = "recording" => call[r].phase = "recording",
         inputs'[r] = inputs[r], task'[r] # "none" => task[r] # "none"
  PROVE  ClaimUpload(r)'
BY ClaimsGrow DEF ClaimInv, ClaimUpload

\* A call goes on, and knows at its next await what it may rely on there.
Advances(c) ==
  /\ \A x \in Calls : x # c => call'[x] = call[x]
  /\ call'[c].sent = call[c].sent
  /\ call'[c].phase # "recording"
  /\ ClaimCall(c, call'[c])

LEMMA AwaitAdvances ==
  ASSUME IInv, ClaimInv, NEW c \in Calls,
         \/ \E kind \in {"async", "sync"} : Submit(c, kind)
         \/ \E r \in Uploads : GetResult(c, r)
         \/ PostRejected(c) \/ PollCompletes(c) \/ PollGivesUp(c)
         \/ LookUp(c) \/ AskNative(c) \/ ListArtifacts(c)
         \/ \E a \in Keys : FetchArtifact(c, a)
         \/ RespondWithResult(c) \/ ResolveFails(c) \/ CleanupFails(c)
  PROVE  Advances(c)
<1> DEFINE d == call[c].about
<1>1. /\ call \in [Calls -> CallState] /\ call[c] \in CallState /\ d \in Calls
      /\ CallInv(c, call[c]) /\ ClaimCall(c, call[c]) /\ UploadInv(d)
  BY Facts, Types DEF ClaimInv
<1>2. ASSUME NEW from, NEW q \in {"native", "error"}, Responds(c, from, q)
      PROVE  Advances(c)
  BY <1>1, <1>2 DEF Responds, Advances, ClaimCall, CallState, Submitting, Cleaning
<1>3. CASE \E kind \in {"async", "sync"} : Submit(c, kind)
  BY <1>1, <1>3 DEF Submit, Idle, Advances, ClaimCall, CallState, Submitting, Cleaning
<1>4. CASE \E r \in Uploads : GetResult(c, r)
  <2>1. call[c].phase = "idle" /\ call[c].response = NoResponse
    BY <1>1, <1>4 DEF GetResult, Idle, CallInv, Cleaning
  <2>2. PICK r \in Uploads :
          call' = [call EXCEPT ![c].kind = "result", ![c].about = r, ![c].phase = "looking"]
    BY <1>4 DEF GetResult
  <2>3. /\ \A x \in Calls : x # c => call'[x] = call[x]
        /\ call'[c].sent = call[c].sent /\ call'[c].phase = "looking"
        /\ call'[c].response = NoResponse
    BY <1>1, <2>1, <2>2 DEF CallState
  <2> QED
    BY <2>3 DEF Advances, ClaimCall, Submitting, Cleaning, NoResponse
<1>5. CASE PostRejected(c) \/ PollGivesUp(c) \/ ResolveFails(c)
  BY <1>2, <1>5 DEF PostRejected, PollGivesUp, ResolveFails
<1>6. CASE PollCompletes(c)
  BY <1>1, <1>6 DEF PollCompletes, Moves, Advances, ClaimCall, CallState, Submitting,
                    Cleaning
<1>12. CASE CleanupFails(c)
  BY <1>1, <1>12 DEF CleanupFails, Moves, Advances, ClaimCall, CallState, Submitting,
                     Cleaning
<1>7. CASE LookUp(c)
  BY <1>1, <1>2, <1>7 DEF LookUp, Moves, Advances, ClaimCall, CallState, Submitting,
                          Cleaning
<1>8. CASE AskNative(c)
  BY <1>1, <1>2, <1>8 DEF AskNative, Moves, Advances, ClaimCall, UploadInv, CallState,
                          Submitting, Cleaning
<1>9. CASE ListArtifacts(c)
  BY <1>1, <1>9 DEF ListArtifacts, Advances, ClaimCall, CallState, Submitting, Cleaning
<1>10. CASE \E a \in Keys : FetchArtifact(c, a)
  BY <1>1, <1>2, <1>10 DEF FetchArtifact, Advances, ClaimCall, CallState, Submitting,
                           Cleaning
<1>11. CASE RespondWithResult(c)
  BY <1>1, <1>11 DEF RespondWithResult, Advances, ClaimCall, CallInv, CallState,
                     Submitting, Cleaning
<1> QED
  BY <1>3, <1>4, <1>5, <1>6, <1>7, <1>8, <1>9, <1>10, <1>11, <1>12

LEMMA AwaitClaims ==
  ASSUME IInv, ClaimInv, Next, NEW c \in Calls, Advances(c), StillThere
  PROVE  ClaimInv'
<1>1. ClaimCall(c, call[c])'
  BY DEF Advances, ClaimCall, StillThere
<1>2. \A x \in Calls : x # c => ClaimCall(x, call[x])'
  BY ClaimCallStays DEF Advances, StillThere
<1>3. \A r \in Calls : ClaimUpload(r)'
  BY ClaimUploadStays DEF Advances, StillThere
<1> QED
  BY <1>1, <1>2, <1>3 DEF ClaimInv

\* Files arrive, are handed to docling-serve and get their ticket.
LEMMA SubmitClaims ==
  ASSUME IInv, ClaimInv, Next, NEW c \in Calls,
         \/ UploadFile(c) \/ PostAccepted(c) \/ SubmitFails(c)
         \/ RecordWritten(c) \/ RecordFails(c)
  PROVE  ClaimInv'
<1>1. /\ call \in [Calls -> CallState] /\ call[c] \in CallState
      /\ CallInv(c, call[c]) /\ ClaimCall(c, call[c]) /\ ClaimUpload(c) /\ UploadInv(c)
      /\ call[c].phase \in {"uploading", "recording"}
  BY Facts, Types DEF ClaimInv, UploadFile, PostAccepted, SubmitFails, RecordWritten,
                      RecordFails, Moves, Responds
<1>2. Len(Upload) > 0 /\ Len(Upload) \in Nat
  BY UploadAssumption
<1>3. /\ \A x \in Calls : x # c => /\ call'[x] = call[x] /\ record'[x] = record[x]
                                   /\ inputs'[x] = inputs[x] /\ task'[x] = task[x]
      /\ call'[c].response # "document" /\ call'[c].response # "zip"
  <2>1. CASE UploadFile(c)
    BY <1>1, <2>1, Facts DEF UploadFile, CallState, CallInv, Cleaning, docling, NoResponse
  <2>2. CASE PostAccepted(c)
    BY <1>1, <2>2, Facts DEF PostAccepted, Moves, CallState, CallInv, Cleaning, storage,
                             NoResponse
  <2>3. CASE SubmitFails(c)
    BY <1>1, <2>3, Facts DEF SubmitFails, Responds, CallState, storage
  <2>4. CASE RecordWritten(c)
    BY <1>1, <2>4, Facts DEF RecordWritten, Responds, Moves, CallState, CallInv, Cleaning,
                             docling, NoResponse
  <2>5. CASE RecordFails(c)
    BY <1>1, <2>5, Facts DEF RecordFails, Responds, CallState, docling
  <2> QED
    BY <2>1, <2>2, <2>3, <2>4, <2>5
<1>4. /\ call'[c].phase \in {"uploading", "recording"} => record'[c] = "absent"
      /\ call'[c].phase \in {"uploading", "recording", "polling", "done"}
      /\ ClaimUpload(c)'
  <2>1. CASE UploadFile(c)
    <3>1. /\ call'[c].sent = call[c].sent + 1 /\ call'[c].phase = "uploading"
          /\ inputs'[c] # {} /\ record'[c] = record[c] /\ call[c].phase = "uploading"
      BY <1>1, <2>1, Facts DEF UploadFile, CallState
    <3>2. call[c].sent \in Nat
      BY <1>1 DEF CallState
    <3> QED
      BY <1>1, <3>1, <3>2 DEF ClaimCall, ClaimUpload, Submitting
  <2>2. CASE PostAccepted(c)
    <3>1. /\ call'[c].sent = Len(Upload) /\ call'[c].phase = "recording"
          /\ inputs'[c] = inputs[c] /\ record'[c] = record[c] /\ call[c].sent = Len(Upload)
      BY <1>1, <2>2 DEF PostAccepted, AllSent, Moves, CallState, storage
    <3>2. inputs[c] # {} /\ record[c] = "absent"
      BY <1>1, <1>2, <3>1 DEF ClaimUpload, UploadInv, Submitting, Over, Finished,
                              PostAccepted, ClaimCall
    <3> QED
      BY <1>2, <3>1, <3>2 DEF ClaimUpload
  <2>3. CASE SubmitFails(c)
    <3>1. /\ call'[c].sent = call[c].sent /\ call'[c].phase = "done"
          /\ inputs'[c] = inputs[c] /\ record'[c] = record[c]
          /\ call[c].phase = "uploading"
          /\ task'[c] = task[c] \/ call[c].sent = Len(Upload)
      BY <1>1, <2>3 DEF SubmitFails, AllSent, Responds, CallState, storage
    <3>2. task[c] = "none" /\ (call[c].sent > 0 => inputs[c] # {})
      BY <1>1, <3>1 DEF ClaimUpload, UploadInv, Submitting, Over, Finished
    <3> QED
      BY <1>2, <3>1, <3>2 DEF ClaimUpload
  <2>4. CASE RecordWritten(c) \/ RecordFails(c)
    <3>1. /\ call'[c].sent = call[c].sent /\ call'[c].phase \in {"polling", "done"}
          /\ inputs'[c] = inputs[c] /\ task'[c] = task[c]
      BY <1>1, <2>4 DEF RecordWritten, RecordFails, Moves, Responds, CallState, docling
    <3>2. record'[c] = record[c] \/ record'[c] = "present"
      BY <2>4, Facts DEF RecordWritten, RecordFails
    <3> QED
      BY <1>1, <3>1, <3>2 DEF ClaimUpload
  <2> QED
    BY <2>1, <2>2, <2>3, <2>4
<1>5. ClaimCall(c, call[c])'
  BY <1>3, <1>4 DEF ClaimCall, Submitting, Cleaning
<1>6. \A x \in Calls : x # c => ClaimCall(x, call[x])' /\ ClaimUpload(x)'
  BY <1>3, ClaimCallStays, ClaimUploadStays
<1> QED
  BY <1>4, <1>5, <1>6 DEF ClaimInv

\* A cleanup is about a task that has ended and a ticket that was there.
LEMMA CleanupClaims ==
  ASSUME IInv, ClaimInv, Next, NEW c \in Calls,
         CleanInputs(c) \/ CleanOutputs(c) \/ CleanRecord(c)
  PROVE  ClaimInv'
<1> DEFINE d == call[c].about
<1>1. /\ call \in [Calls -> CallState] /\ call[c] \in CallState /\ d \in Calls
      /\ call[c].phase \in Cleaning
      /\ CallInv(c, call[c]) /\ ClaimCall(c, call[c])
  BY Facts, Types DEF ClaimInv, CleanInputs, CleanOutputs, CleanRecord, Moves, Cleaning
<1>2. /\ \A x \in Calls : x # c => call'[x] = call[x]
      /\ call'[c].phase \in Cleaning \cup {"done"} /\ call'[c].sent = call[c].sent
      /\ call'[c].response = call[c].response /\ call'[c].about = d
      /\ UNCHANGED <<task, converted>>
  BY <1>1 DEF CleanInputs, CleanOutputs, CleanRecord, Moves, CallState, Cleaning, docling
<1>3. ClaimCall(c, call[c])'
  BY <1>1, <1>2, ClaimsGrow DEF ClaimCall, Submitting, Cleaning
<1>4. \A x \in Calls : record[x] = "absent" => record'[x] = "absent"
  BY Facts DEF CleanInputs, CleanOutputs, CleanRecord, docling
<1>5. \A x \in Calls : x # c => ClaimCall(x, call[x])'
  BY <1>2, <1>4, ClaimCallStays
<1>6. task[d] \in Over /\ record[d] # "absent"
  BY <1>1 DEF CallInv, ClaimCall
<1>7. \A x \in Calls : inputs'[x] = inputs[x] \/ x = d
  BY <1>1, Facts DEF CleanInputs, CleanOutputs, CleanRecord
<1>8. ASSUME NEW x \in Calls PROVE ClaimUpload(x)'
  <2>1. call'[x].sent = call[x].sent /\ (call'[x].phase = "recording" => call[x].phase = "recording")
    BY <1>2 DEF Cleaning
  <2>2. CASE x = d
    <3>1. task'[d] \in Over /\ record'[d] # "absent"
      BY <1>1, <1>6, ClaimsGrow
    <3>2. ClaimUpload(d)
      BY <1>1 DEF ClaimInv
    <3> QED
      BY <1>2, <2>1, <2>2, <3>1, <3>2 DEF ClaimUpload
  <2>3. CASE x # d
    BY <1>2, <1>7, <2>1, <2>3, ClaimUploadStays
  <2> QED
    BY <2>2, <2>3
<1> QED
  BY <1>3, <1>5, <1>8 DEF ClaimInv

LEMMA DoclingClaims ==
  ASSUME IInv, ClaimInv, Next, NEW d \in Calls, NEW names \in SUBSET Names,
         NEW e \in Finished,
         TaskEnds(d, names, e) \/ TaskForgotten(d) \/ RecordExpires(d)
  PROVE  ClaimInv'
<1>1. /\ UNCHANGED <<call, inputs>>
      /\ \A r \in Calls : record[r] = "absent" => record'[r] = "absent"
      /\ \A r \in Calls : task'[r] # "none" => task[r] # "none"
  BY Facts DEF TaskEnds, TaskForgotten, RecordExpires, storage, docling, Finished
<1> QED
  BY <1>1, ClaimCallStays, ClaimUploadStays DEF ClaimInv

LEMMA StepClaims == IInv /\ ClaimInv /\ [Next]_vars => ClaimInv'
<1> SUFFICES ASSUME IInv, ClaimInv, [Next]_vars PROVE ClaimInv'
  OBVIOUS
<1>1. CASE UNCHANGED vars
  BY <1>1 DEF vars, ClaimInv, ClaimCall, ClaimUpload
<1>2. ASSUME Next, NEW c \in Calls,
             \/ CallStep(c) \/ FaultStep(c)
             \/ \E kind \in {"async", "sync"} : Submit(c, kind)
             \/ \E r \in Uploads : GetResult(c, r)
      PROVE  ClaimInv'
  <2>1. CASE \/ UploadFile(c) \/ PostAccepted(c) \/ SubmitFails(c)
             \/ RecordWritten(c) \/ RecordFails(c)
    BY <1>2, <2>1, SubmitClaims
  <2>2. CASE CleanInputs(c) \/ CleanOutputs(c) \/ CleanRecord(c)
    BY <1>2, <2>2, CleanupClaims
  <2>3. CASE \/ \E kind \in {"async", "sync"} : Submit(c, kind)
             \/ \E r \in Uploads : GetResult(c, r)
             \/ PostRejected(c) \/ PollCompletes(c) \/ PollGivesUp(c)
             \/ LookUp(c) \/ AskNative(c) \/ ListArtifacts(c)
             \/ \E a \in Keys : FetchArtifact(c, a)
             \/ RespondWithResult(c) \/ ResolveFails(c) \/ CleanupFails(c)
    <3>1. StillThere
      BY <2>3 DEF StillThere, storage, docling, Submit, GetResult, PostRejected,
                  PollCompletes, PollGivesUp, LookUp, AskNative, ListArtifacts,
                  FetchArtifact, RespondWithResult, ResolveFails, CleanupFails
    <3>2. Advances(c)
      BY <2>3, AwaitAdvances
    <3> QED
      BY <1>2, <3>1, <3>2, AwaitClaims
  <2> QED
    BY <1>2, <2>1, <2>2, <2>3 DEF CallStep, FaultStep
<1>3. ASSUME Next, NEW d \in Calls,
             \/ \E names \in SUBSET Names, e \in Finished : TaskEnds(d, names, e)
             \/ TaskForgotten(d) \/ RecordExpires(d)
      PROVE  ClaimInv'
  <2>1. {} \in SUBSET Names /\ "succeeded" \in Finished
    BY DEF Finished
  <2> QED
    BY <1>3, <2>1, DoclingClaims
<1> QED
  BY <1>1, <1>2, <1>3 DEF Next, Uploads

\* Responses that carry a result are given once and stay as they are.
SameResults ==
  \A x \in Calls :
    /\ call'[x].response \in {"document", "zip"} <=> call[x].response \in {"document", "zip"}
    /\ call[x].response \in {"document", "zip"} =>
         call'[x].about = call[x].about /\ call'[x].got = call[x].got

SameUpload(r) == UploadOf(r)' = UploadOf(r)
SameResult(r) == ResultOf(r)' = ResultOf(r)
SameDelivered(r) == Delivered(r)' <=> Delivered(r)

LEMMA NoDelivery ==
  ASSUME IInv, ClaimInv, Next, SameResults
  PROVE  \A r \in Calls : SameDelivered(r)
<1>1. \A x \in Calls : call[x].about \in Calls
  BY Types
<1>2. ASSUME NEW x \in Calls, call[x].response \in {"document", "zip"}
      PROVE  Complete(x)' <=> Complete(x)
  <2>1. converted'[call[x].about] = converted[call[x].about]
    BY <1>1, <1>2, ClaimsGrow DEF ClaimInv, ClaimCall
  <2> QED
    BY <1>2, <2>1 DEF SameResults, Complete
<1>3. ASSUME NEW x \in Calls PROVE (Complete(x)' <=> Complete(x)) /\
        (Complete(x) => call'[x].about = call[x].about)
  BY <1>2 DEF SameResults, Complete
<1> QED
  BY <1>3 DEF SameDelivered, Delivered

\* One step of the abstract claim, from what it changes.
LEMMA OneUpload ==
  ASSUME NEW r \in Calls, NEW from, NEW to, UploadOf(r) = from, UploadOf(r)' = to,
         \A x \in Calls : x # r => SameUpload(x),
         \A x \in Calls : SameResult(x) /\ SameDelivered(x), UNCHANGED record
  PROVE  CC!Uploads(r, from, to)
BY DEF CC!Uploads, SameUpload, SameResult, SameDelivered

LEMMA OneResult ==
  ASSUME NEW r \in Calls, NEW from, NEW to, ResultOf(r) = from, ResultOf(r)' = to,
         \A x \in Calls : x # r => SameResult(x),
         \A x \in Calls : SameUpload(x) /\ SameDelivered(x), UNCHANGED record
  PROVE  CC!Results(r, from, to)
BY DEF CC!Results, SameUpload, SameResult, SameDelivered

LEMMA OneTicket ==
  ASSUME NEW r \in Calls, NEW from, NEW to, record[r] = from,
         record' = [record EXCEPT ![r] = to],
         \A x \in Calls : SameUpload(x) /\ SameResult(x) /\ SameDelivered(x)
  PROVE  CC!Tickets(r, from, to)
BY DEF CC!Tickets, SameUpload, SameResult, SameDelivered

LEMMA NoClaim ==
  ASSUME \A x \in Calls : SameUpload(x) /\ SameResult(x) /\ SameDelivered(x),
         UNCHANGED record
  PROVE  UNCHANGED CC!claim
BY DEF CC!claim, SameUpload, SameResult, SameDelivered

LEMMA ResultsStay ==
  ASSUME IInv, Next, \A c \in Calls : ~RespondWithResult(c)
  PROVE  SameResults
<1>1. /\ call \in [Calls -> CallState]
      /\ \A c \in Calls : /\ call[c] \in CallState
                          /\ call[c].phase \notin Cleaning \cup {"done"} =>
                               call[c].response = NoResponse
  BY Facts, Types DEF CallInv
<1>2. NoResponse # "document" /\ NoResponse # "zip"
  BY DEF NoResponse
<1>3. ASSUME NEW c \in Calls, NEW from, NEW to, Moves(c, from, to) PROVE SameResults
  BY <1>1, <1>3 DEF Moves, CallState, SameResults
<1>4. ASSUME NEW c \in Calls, NEW from, from \notin Cleaning \cup {"done"},
             NEW q \in {"native", "error", "accepted"}, Responds(c, from, q)
      PROVE  SameResults
  <2>1. call[c].phase = from /\ call[c].response = NoResponse
    BY <1>1, <1>4 DEF Responds
  <2> QED
    BY <1>1, <1>2, <1>4, <2>1 DEF Responds, CallState, SameResults
<1>5. ASSUME NEW c \in Calls, CallStep(c) PROVE SameResults
  <2>1. CASE UploadFile(c)
    BY <1>1, <2>1 DEF UploadFile, CallState, SameResults
  <2>2. CASE PostAccepted(c) \/ PollCompletes(c) \/ CleanInputs(c) \/ CleanOutputs(c)
               \/ CleanRecord(c)
    BY <1>3, <2>2 DEF PostAccepted, PollCompletes, CleanInputs, CleanOutputs, CleanRecord
  <2>3. CASE PostRejected(c) \/ PollGivesUp(c) \/ RecordWritten(c) \/ LookUp(c)
               \/ AskNative(c)
    BY <1>3, <1>4, <2>3 DEF PostRejected, PollGivesUp, RecordWritten, LookUp, AskNative,
                            Cleaning
  <2>4. CASE ListArtifacts(c)
    BY <1>1, <2>4 DEF ListArtifacts, CallState, SameResults
  <2>5. CASE \E a \in Keys : FetchArtifact(c, a)
    <3>1. PICK a \in Keys : FetchArtifact(c, a)
      BY <2>5
    <3>2. CASE Responds(c, "fetching", "error")
      BY <1>4, <3>2 DEF Cleaning
    <3>3. CASE call' = [call EXCEPT ![c].todo = @ \ {a}, ![c].got = @ \cup {a}]
      <4>1. call[c].response = NoResponse
        BY <1>1, <3>1 DEF FetchArtifact, Cleaning
      <4> QED
        BY <1>1, <1>2, <3>3, <4>1 DEF CallState, SameResults
    <3> QED
      BY <3>1, <3>2, <3>3 DEF FetchArtifact
  <2> QED
    BY <1>5, <2>1, <2>2, <2>3, <2>4, <2>5 DEF CallStep
<1>6. ASSUME NEW c \in Calls, FaultStep(c) PROVE SameResults
  <2>1. CASE SubmitFails(c) \/ RecordFails(c)
    BY <1>4, <2>1 DEF SubmitFails, RecordFails, Cleaning
  <2>2. CASE ResolveFails(c)
    BY <1>4, <2>2 DEF ResolveFails, Cleaning
  <2>3. CASE CleanupFails(c)
    BY <1>3, <2>3 DEF CleanupFails
  <2> QED
    BY <1>6, <2>1, <2>2, <2>3 DEF FaultStep
<1>7. ASSUME NEW c \in Calls, NEW kind \in {"async", "sync"}, Submit(c, kind)
      PROVE  SameResults
  BY <1>1, <1>7 DEF Submit, CallState, SameResults
<1>8. ASSUME NEW c \in Calls, NEW r \in Uploads, GetResult(c, r) PROVE SameResults
  <2>1. call[c].response = NoResponse
    BY <1>1, <1>8 DEF GetResult, Idle, Cleaning
  <2> QED
    BY <1>1, <1>2, <1>8, <2>1 DEF GetResult, CallState, SameResults
<1>9. ASSUME NEW r \in Uploads,
             \/ \E names \in SUBSET Names, e \in Finished : TaskEnds(r, names, e)
             \/ TaskForgotten(r) \/ RecordExpires(r)
      PROVE  SameResults
  BY <1>9 DEF TaskEnds, TaskForgotten, RecordExpires, SameResults
<1> QED
  BY <1>5, <1>6, <1>7, <1>8, <1>9 DEF Next

\* What the abstract claim sees is the same where storage is.
LEMMA SameClaims ==
  /\ \A r \in Calls : inputs'[r] = inputs[r] /\ call'[r].sent = call[r].sent => SameUpload(r)
  /\ \A r \in Calls : inputs'[r] # {} /\ inputs[r] # {} /\ call[r].sent # 0 /\ call'[r].sent # 0
       => SameUpload(r)
  /\ \A r \in Calls : task[r] \notin Over /\ task'[r] \notin Over => SameResult(r)
  /\ \A r \in Calls : /\ task'[r] \in Over <=> task[r] \in Over
                      /\ outputs'[r] = outputs[r] /\ converted'[r] = converted[r]
                      => SameResult(r)
BY DEF SameUpload, SameResult, UploadOf, ResultOf, Exported, Over

\* Files arrive (Store), are handed over, and get their ticket (Issue).
LEMMA SubmitIsClaim ==
  ASSUME IInv, ClaimInv, Next, NEW c \in Calls,
         \/ UploadFile(c) \/ PostAccepted(c) \/ SubmitFails(c)
         \/ RecordWritten(c) \/ RecordFails(c),
         \A r \in Calls : SameDelivered(r)
  PROVE  [CC!Next]_CC!claim
<1>1. /\ call \in [Calls -> CallState] /\ call[c] \in CallState /\ call[c].sent \in Nat
      /\ ClaimCall(c, call[c]) /\ ClaimUpload(c) /\ UploadInv(c)
  BY Facts, Types DEF ClaimInv, CallState
<1>2. CASE UploadFile(c)
  <2>1. /\ task[c] = "none" /\ record[c] = "absent" /\ call[c].phase = "uploading"
        /\ UNCHANGED <<outputs, record, task, converted>>
    BY <1>1, <1>2 DEF UploadFile, UploadInv, ClaimCall, Submitting, docling
  <2>2. /\ call'[c].sent = call[c].sent + 1 /\ inputs'[c] # {}
        /\ \A x \in Calls : x # c => call'[x] = call[x] /\ inputs'[x] = inputs[x]
    BY <1>1, <1>2, Facts DEF UploadFile, CallState
  <2>3. /\ \A x \in Calls : SameResult(x)
        /\ \A x \in Calls : x # c => SameUpload(x)
    BY <2>1, <2>2, SameClaims
  <2>4. CASE call[c].sent = 0
    <3>1. UploadOf(c) = "none" /\ UploadOf(c)' = "stored" /\ ResultOf(c) = "pending"
      BY <2>1, <2>2, <2>4 DEF UploadOf, ResultOf, Finished
    <3>2. CC!Uploads(c, "none", "stored")
      BY <2>1, <2>3, <3>1, OneUpload
    <3> QED
      BY <2>1, <3>1, <3>2 DEF CC!Store, CC!Step, CC!Next
  <2>5. CASE call[c].sent # 0
    <3>1. inputs[c] # {} /\ call'[c].sent # 0
      BY <1>1, <2>1, <2>2, <2>5 DEF ClaimUpload, Over, Finished
    <3> QED
      BY <2>1, <2>2, <2>3, <2>5, <3>1, SameClaims, NoClaim
  <2> QED
    BY <2>4, <2>5
<1>3. CASE PostAccepted(c) \/ SubmitFails(c)
  <2>1. /\ task[c] = "none"
        /\ UNCHANGED <<inputs, outputs, record, converted>>
        /\ \A x \in Calls : call'[x].sent = call[x].sent
        /\ task' = task \/ task' = [task EXCEPT ![c] = "running"]
    BY <1>1, <1>3 DEF PostAccepted, SubmitFails, Moves, Responds, UploadInv, Submitting,
                      CallState, storage
  <2>2. \A x \in Calls : task'[x] = task[x] \/ (task[x] \notin Over /\ task'[x] \notin Over)
    BY <2>1, Facts DEF Over, Finished
  <2> QED
    BY <2>1, <2>2, SameClaims, NoClaim
<1>4. CASE RecordWritten(c) \/ RecordFails(c)
  <2>1. /\ call[c].phase = "recording"
        /\ UNCHANGED <<inputs, outputs, task, converted>>
        /\ \A x \in Calls : call'[x].sent = call[x].sent
        /\ UNCHANGED record \/ record' = [record EXCEPT ![c] = "present"]
    BY <1>1, <1>4 DEF RecordWritten, RecordFails, Moves, Responds, CallState, docling
  <2>2. \A x \in Calls : SameUpload(x) /\ SameResult(x)
    BY <2>1, SameClaims
  <2>3. CASE UNCHANGED record
    BY <2>2, <2>3, NoClaim
  <2>4. CASE record' = [record EXCEPT ![c] = "present"]
    <3>1. record[c] = "absent" /\ call[c].sent # 0 /\ inputs[c] # {}
      BY <1>1, <2>1 DEF ClaimCall, ClaimUpload
    <3>2. UploadOf(c) = "stored"
      BY <3>1 DEF UploadOf
    <3>3. CC!Tickets(c, "absent", "present")
      BY <2>2, <2>4, <3>1, OneTicket
    <3> QED
      BY <3>2, <3>3 DEF CC!Issue, CC!Step, CC!Next
  <2> QED
    BY <2>1, <2>3, <2>4
<1> QED
  BY <1>2, <1>3, <1>4

\* A response that carries all there is (Deliver); one that finds the
\* artifacts gone changes nothing, for somebody had delivered them.
LEMMA ResponseIsClaim ==
  ASSUME IInv, IInv', ClaimInv, Next, NEW c \in Calls, RespondWithResult(c)
  PROVE  [CC!Next]_CC!claim
<1>0. PICK d \in Calls : call[c].about = d
  BY Types
<1>1. /\ call \in [Calls -> CallState] /\ call[c] \in CallState /\ call[c].about = d
      /\ CallInv(c, call[c]) /\ ClaimCall(c, call[c]) /\ UploadInv(d)
      /\ call[c].phase = "fetching" /\ call[c].todo = {}
  BY <1>0, Facts, Types DEF ClaimInv, RespondWithResult
<1>2. /\ task[d] \in Over /\ record[d] # "absent" /\ call[c].response = NoResponse
  BY <1>1 DEF CallInv, ClaimCall, Cleaning
<1>3. /\ UNCHANGED <<inputs, outputs, record, task, converted>>
      /\ \A x \in Calls : x # c => call'[x] = call[x]
      /\ call'[c].response \in {"document", "zip"}
      /\ call'[c].about = d /\ call'[c].got = call[c].got /\ call'[c].sent = call[c].sent
  BY <1>1 DEF RespondWithResult, CallState, storage, docling
<1>4. \A x \in Calls : SameUpload(x) /\ SameResult(x)
  BY <1>3, SameClaims
<1>5. ASSUME NEW r \in Calls PROVE /\ r # d => SameDelivered(r)
                                   /\ Delivered(r) => Delivered(r)'
  <2>1. \A x \in Calls : x # c => (Complete(x)' <=> Complete(x))
    BY <1>3 DEF Complete
  <2>2. ~Complete(c)
    BY <1>2 DEF Complete, NoResponse
  <2> QED
    BY <1>3, <2>1, <2>2 DEF SameDelivered, Delivered
<1>6. CASE Delivered(d)
  BY <1>3, <1>4, <1>5, <1>6, NoClaim DEF SameDelivered
<1>7. CASE ~Delivered(d)
  <2>1. outputs[d] = All(d)
    BY <1>1, <1>2, <1>7 DEF UploadInv
  <2>2. call[c].got = Readable(All(d))
    BY <1>1, <2>1 DEF CallInv
  <2>3. Delivered(d)'
    BY <1>3, <2>2 DEF Delivered, Complete, All
  <2>4. ResultOf(d) = "kept"
    BY <1>2, <2>1 DEF ResultOf, Over, All
  <2>5. {r \in Calls : Delivered(r)}' = {r \in Calls : Delivered(r)} \cup {d}
    <3>1. \A r \in Calls : Delivered(r)' <=> Delivered(r) \/ r = d
      BY <1>1, <1>5, <2>3 DEF SameDelivered
    <3> QED
      BY <1>1, <3>1
  <2>6. CC!Deliver(d)
    BY <1>1, <1>2, <1>3, <1>4, <2>4, <2>5 DEF CC!Deliver, SameUpload, SameResult
  <2> QED
    BY <1>1, <2>6 DEF CC!Step, CC!Next
<1> QED
  BY <1>6, <1>7

\* A cleanup comes after a delivery, its own or an earlier one.
LEMMA CleanupIsClaim ==
  ASSUME IInv, ClaimInv, Next, NEW c \in Calls,
         CleanInputs(c) \/ CleanOutputs(c) \/ CleanRecord(c),
         \A r \in Calls : SameDelivered(r)
  PROVE  [CC!Next]_CC!claim
<1>0. PICK d \in Calls : call[c].about = d
  BY Types
<1>1. /\ call \in [Calls -> CallState] /\ call[c] \in CallState
      /\ CallInv(c, call[c]) /\ ClaimCall(c, call[c]) /\ UploadInv(d) /\ ClaimUpload(d)
      /\ call[c].phase \in Cleaning
  BY Facts, Types DEF ClaimInv, CleanInputs, CleanOutputs, CleanRecord, Moves, Cleaning
<1>2. /\ task[d] \in Over /\ task[d] # "none" /\ call[d].sent # 0
      /\ converted[d] # {}
  BY <1>0, <1>1 DEF CallInv, ClaimCall, ClaimUpload, Over, Finished
<1>3. All(d) # {}
  <2>1. PICK n \in Names, e \in Formats : n \in converted[d]
    BY <1>2, Facts, FormatsAssumption
  <2>2. [source |-> n, leaf |-> Leaf(n, e)] \in All(d)
    BY <2>1 DEF All, Exported, Keys
  <2> QED
    BY <2>2
<1>4. Delivered(d)
  <2>1. CASE outputs[d] = All(d)
    BY <1>0, <1>1, <2>1 DEF CallInv, Delivered, Complete, All
  <2> QED
    BY <1>1, <1>2, <2>1 DEF UploadInv
<1>5. /\ \A x \in Calls : call'[x].sent = call[x].sent
      /\ UNCHANGED <<task, converted>>
  BY <1>1 DEF CleanInputs, CleanOutputs, CleanRecord, Moves, CallState, docling
<1>6. CASE CleanInputs(c)
  <2>1. /\ inputs' = [inputs EXCEPT ![d] = {}] /\ UNCHANGED <<outputs, record>>
    BY <1>0, <1>6 DEF CleanInputs
  <2>2. /\ inputs'[d] = {} /\ \A x \in Calls : x # d => inputs'[x] = inputs[x]
    BY <2>1, Facts
  <2>3. /\ \A x \in Calls : SameResult(x)
        /\ \A x \in Calls : x # d => SameUpload(x)
    BY <1>5, <2>1, <2>2, SameClaims
  <2>4. CASE inputs[d] = {}
    BY <1>5, <2>1, <2>2, <2>3, <2>4, SameClaims, NoClaim
  <2>5. CASE inputs[d] # {}
    <3>1. UploadOf(d) = "stored" /\ UploadOf(d)' = "deleted"
      BY <1>2, <1>5, <2>2, <2>5 DEF UploadOf
    <3>2. CC!Uploads(d, "stored", "deleted")
      BY <2>1, <2>3, <3>1, OneUpload
    <3> QED
      BY <1>4, <3>2 DEF CC!DeleteUpload, CC!Step, CC!Next
  <2> QED
    BY <2>4, <2>5
<1>7. CASE CleanOutputs(c)
  <2>1. /\ outputs' = [outputs EXCEPT ![d] = {}] /\ UNCHANGED <<inputs, record>>
        /\ call[c].phase = "cleanOutputs"
    BY <1>0, <1>7 DEF CleanOutputs, Moves
  <2>2. /\ outputs'[d] = {} /\ \A x \in Calls : x # d => outputs'[x] = outputs[x]
        /\ inputs[d] = {}
    BY <1>0, <1>1, <2>1, Facts DEF CallInv
  <2>3. /\ \A x \in Calls : SameUpload(x)
        /\ \A x \in Calls : x # d => SameResult(x)
    BY <1>5, <2>1, <2>2, SameClaims
  <2>4. CASE outputs[d] = {}
    BY <1>5, <2>1, <2>2, <2>3, <2>4, SameClaims, NoClaim
  <2>5. CASE outputs[d] # {}
    <3>1. outputs[d] = All(d)
      BY <1>1, <1>2, <2>5 DEF UploadInv
    <3>2. ResultOf(d) = "kept" /\ ResultOf(d)' = "deleted" /\ UploadOf(d) = "deleted"
      BY <1>2, <1>3, <1>5, <2>2, <3>1 DEF ResultOf, UploadOf, All, Over, Exported
    <3>3. CC!Results(d, "kept", "deleted")
      BY <2>1, <2>3, <3>2, OneResult
    <3> QED
      BY <3>2, <3>3 DEF CC!DeleteResult, CC!Step, CC!Next
  <2> QED
    BY <2>4, <2>5
<1>8. CASE CleanRecord(c)
  <2>1. /\ record' = [record EXCEPT ![d] = IF @ = "present" THEN "cleaned" ELSE @]
        /\ UNCHANGED <<inputs, outputs>> /\ call[c].phase = "cleanRecord"
    BY <1>0, <1>8 DEF CleanRecord, Moves
  <2>2. \A x \in Calls : SameUpload(x) /\ SameResult(x)
    BY <1>5, <2>1, SameClaims
  <2>3. CASE record[d] = "present"
    <3>1. record' = [record EXCEPT ![d] = "cleaned"]
      BY <2>1, <2>3
    <3>2. ResultOf(d) = "deleted"
      BY <1>0, <1>1, <1>2, <1>3, <2>1 DEF CallInv, ResultOf, All, Over
    <3>3. CC!Tickets(d, "present", "cleaned")
      BY <2>2, <2>3, <3>1, OneTicket
    <3> QED
      BY <3>2, <3>3 DEF CC!Withdraw, CC!Step, CC!Next
  <2>4. CASE record[d] # "present"
    <3>1. record' = record
      BY <2>1, <2>4, Facts
    <3> QED
      BY <2>2, <3>1, NoClaim
  <2> QED
    BY <2>3, <2>4
<1> QED
  BY <1>6, <1>7, <1>8

LEMMA DoclingIsClaim ==
  ASSUME IInv, ClaimInv, Next, NEW d \in Calls, NEW names \in SUBSET Names,
         NEW e \in Finished,
         TaskEnds(d, names, e) \/ TaskForgotten(d) \/ RecordExpires(d),
         \A r \in Calls : SameDelivered(r)
  PROVE  [CC!Next]_CC!claim
<1>1. CASE TaskEnds(d, names, e)
  <2>1. /\ task[d] = "running" /\ task'[d] = e
        /\ outputs'[d] = Exported(names) /\ converted'[d] = names
        /\ \A x \in Calls : x # d => /\ task'[x] = task[x] /\ outputs'[x] = outputs[x]
                                     /\ converted'[x] = converted[x]
        /\ UNCHANGED <<call, inputs, record>>
    BY <1>1, Facts DEF TaskEnds
  <2>2. /\ \A x \in Calls : SameUpload(x)
        /\ \A x \in Calls : x # d => SameResult(x)
    BY <2>1, SameClaims
  <2>3. call[d].sent # 0 /\ inputs[d] # {}
    <3>1. call[d].sent \in Nat
      BY Types DEF CallState
    <3> QED
      BY <2>1, <3>1 DEF ClaimInv, ClaimUpload, Over, Finished
  <2>4. UploadOf(d) = "stored" /\ ResultOf(d) = "pending" /\ ResultOf(d)' = "kept"
    BY <2>1, <2>3 DEF UploadOf, ResultOf, Exported, Finished
  <2>5. CC!Results(d, "pending", "kept")
    BY <2>1, <2>2, <2>4, OneResult
  <2> QED
    BY <2>4, <2>5 DEF CC!Produce, CC!Step, CC!Next
<1>2. CASE TaskForgotten(d)
  <2>1. /\ UNCHANGED <<call, inputs, outputs, record, converted>>
        /\ \A x \in Calls : task'[x] \in Over <=> task[x] \in Over
    BY <1>2, Facts DEF TaskForgotten, storage, Over, Finished
  <2> QED
    BY <2>1, SameClaims, NoClaim
<1>3. CASE RecordExpires(d)
  <2>1. /\ record[d] = "present" /\ record' = [record EXCEPT ![d] = "expired"]
        /\ UNCHANGED <<call, inputs, outputs, task, converted>>
    BY <1>3 DEF RecordExpires, docling
  <2>2. CC!Tickets(d, "present", "expired")
    BY <2>1, SameClaims, OneTicket
  <2> QED
    BY <2>2 DEF CC!Expire, CC!Step, CC!Next
<1> QED
  BY <1>1, <1>2, <1>3

LEMMA StepIsClaim ==
  ASSUME IInv, IInv', ClaimInv, Next
  PROVE  [CC!Next]_CC!claim
<1>1. ASSUME NEW c \in Calls, RespondWithResult(c) PROVE [CC!Next]_CC!claim
  BY <1>1, ResponseIsClaim
<1>2. SUFFICES ASSUME \A c \in Calls : ~RespondWithResult(c) PROVE [CC!Next]_CC!claim
  BY <1>1
<1>3. \A r \in Calls : SameDelivered(r)
  BY <1>2, ResultsStay, NoDelivery
<1>4. ASSUME NEW c \in Calls,
             \/ CallStep(c) \/ FaultStep(c)
             \/ \E kind \in {"async", "sync"} : Submit(c, kind)
             \/ \E r \in Uploads : GetResult(c, r)
      PROVE  [CC!Next]_CC!claim
  <2>1. CASE \/ UploadFile(c) \/ PostAccepted(c) \/ SubmitFails(c)
             \/ RecordWritten(c) \/ RecordFails(c)
    BY <1>3, <2>1, SubmitIsClaim
  <2>2. CASE CleanInputs(c) \/ CleanOutputs(c) \/ CleanRecord(c)
    BY <1>3, <2>2, CleanupIsClaim
  <2>3. CASE \/ \E kind \in {"async", "sync"} : Submit(c, kind)
             \/ \E r \in Uploads : GetResult(c, r)
             \/ PostRejected(c) \/ PollCompletes(c) \/ PollGivesUp(c)
             \/ LookUp(c) \/ AskNative(c) \/ ListArtifacts(c)
             \/ \E a \in Keys : FetchArtifact(c, a)
             \/ ResolveFails(c) \/ CleanupFails(c)
    <3>1. StillThere
      BY <2>3 DEF StillThere, storage, docling, Submit, GetResult, PostRejected,
                  PollCompletes, PollGivesUp, LookUp, AskNative, ListArtifacts,
                  FetchArtifact, ResolveFails, CleanupFails
    <3>2. Advances(c)
      BY <2>3, AwaitAdvances
    <3>3. \A r \in Calls : SameUpload(r) /\ SameResult(r)
      BY <3>1, <3>2, SameClaims DEF StillThere, Advances
    <3> QED
      BY <1>3, <3>1, <3>3, NoClaim DEF StillThere
  <2> QED
    BY <1>2, <1>4, <2>1, <2>2, <2>3 DEF CallStep, FaultStep
<1>5. ASSUME NEW d \in Calls,
             \/ \E names \in SUBSET Names, e \in Finished : TaskEnds(d, names, e)
             \/ TaskForgotten(d) \/ RecordExpires(d)
      PROVE  [CC!Next]_CC!claim
  <2>1. {} \in SUBSET Names /\ "succeeded" \in Finished
    BY DEF Finished
  <2> QED
    BY <1>3, <1>5, <2>1, DoclingIsClaim
<1> QED
  BY <1>4, <1>5 DEF Next, Uploads

\* Refinement: for any number of calls, files and failures, the facade keeps
\* the claim checks of module ClaimCheck (service.py:77-109, 128-215, 255-293).
THEOREM ClaimsAreKept == Spec => ClaimKept
<1>1. Init => CC!Init
  <2>1. ASSUME Init PROVE /\ \A r \in Calls : UploadOf(r) = "none" /\ ResultOf(r) = "pending"
                                              /\ ~Delivered(r)
                          /\ record = [r \in Calls |-> "absent"]
    <3>1. \A r \in Calls : /\ call[r].sent = 0 /\ call[r].response = NoResponse
                          /\ task[r] = "none"
      BY <2>1 DEF Init
    <3>2. \A r \in Calls : UploadOf(r) = "none" /\ ResultOf(r) = "pending"
      BY <3>1 DEF UploadOf, ResultOf, Finished
    <3>3. \A r \in Calls : ~Complete(r)
      BY <3>1 DEF Complete, NoResponse
    <3> QED
      BY <2>1, <3>2, <3>3 DEF Init, Delivered
  <2> QED
    BY <2>1 DEF CC!Init
<1>2. IInv /\ IInv' /\ ClaimInv /\ [Next]_vars => [CC!Next]_CC!claim
  <2>1. ASSUME UNCHANGED vars PROVE UNCHANGED CC!claim
    BY <2>1 DEF vars, CC!claim, UploadOf, ResultOf, Delivered, Complete
  <2> QED
    BY <2>1, StepIsClaim
<1> QED
  BY <1>1, <1>2, InitInv, StepInv, InitClaim, StepClaims, PTL DEF Spec, ClaimKept, CC!Spec

-----------------------------------------------------------------------------
\* What is appended to a name can be recognised, and taken off again.
LEMMA Appended ==
  ASSUME NEW s \in Seq(STRING), NEW e \in Seq(STRING), s # << >>
  PROVE  EndsWith(s \o e, e) /\ Without(s \o e, e) = s
<1> DEFINE t == s \o e
<1>1. /\ Len(s) \in Nat \ {0} /\ Len(e) \in Nat
      /\ t \in Seq(STRING) /\ Len(t) = Len(s) + Len(e)
      /\ \A i \in 1 .. Len(s) + Len(e) :
           t[i] = IF i <= Len(s) THEN s[i] ELSE e[i - Len(s)]
  BY EmptySeq, LenProperties, ConcatProperties
<1> HIDE DEF t
<1>2. SubSeq(t, Len(t) - Len(e) + 1, Len(t)) = e
  <2> DEFINE u == SubSeq(t, Len(t) - Len(e) + 1, Len(t))
  <2>1. \A i \in Len(t) - Len(e) + 1 .. Len(t) : t[i] \in STRING
    BY <1>1, ElementOfSeq
  <2>2. /\ u \in Seq(STRING) /\ Len(u) = Len(e)
        /\ \A i \in 1 .. Len(e) : u[i] = t[Len(s) + i]
    BY <1>1, <2>1, SubSeqProperties
  <2>3. \A i \in 1 .. Len(e) : t[Len(s) + i] = e[i]
    BY <1>1
  <2> HIDE DEF u
  <2> QED
    BY <2>2, <2>3, SeqEqual DEF u
<1>3. SubSeq(t, 1, Len(t) - Len(e)) = s
  <2> DEFINE u == SubSeq(t, 1, Len(t) - Len(e))
  <2>1. \A i \in 1 .. Len(t) - Len(e) : t[i] \in STRING
    BY <1>1, ElementOfSeq
  <2>2. /\ u \in Seq(STRING) /\ Len(u) = Len(s)
        /\ \A i \in 1 .. Len(s) : u[i] = t[i]
    BY <1>1, <2>1, SubSeqProperties
  <2>3. \A i \in 1 .. Len(s) : t[i] = s[i]
    BY <1>1
  <2> HIDE DEF u
  <2> QED
    BY <2>2, <2>3, SeqEqual DEF u
<1> QED
  BY <1>1, <1>2, <1>3 DEF EndsWith, Without, t

LEMMA NameTypes ==
  /\ \A n \in Names : Stem(n) \in Seq(STRING) /\ Stem(n) # << >>
  /\ \A n \in Names, e \in Formats : Leaf(n, e) = Stem(n) \o e
  /\ DOMAIN Upload = 1 .. Len(Upload)
<1>1. ASSUME NEW n \in Names PROVE Stem(n) \in Seq(STRING) /\ Stem(n) # << >>
  <2>1. n \in Seq(STRING) /\ n # << >>
    BY UploadAssumption, LenProperties, ElementOfSeq DEF Names
  <2>2. CASE Len(n) > 1
    <3>1. Len(n) \in Nat /\ \A i \in 1 .. Len(n) - 1 : n[i] \in STRING
      BY <2>1, LenProperties, ElementOfSeq
    <3>2. PICK s : s = SubSeq(n, 1, Len(n) - 1)
      OBVIOUS
    <3>3. s \in Seq(STRING) /\ Len(s) = Len(n) - 1
      BY <2>2, <3>1, <3>2, SubSeqProperties
    <3>4. s # << >>
      BY <2>2, <3>1, <3>3
    <3> QED
      BY <2>2, <3>2, <3>3, <3>4 DEF Stem
  <2>3. CASE ~(Len(n) > 1)
    BY <2>1, <2>3 DEF Stem
  <2> QED
    BY <2>2, <2>3
<1> QED
  BY <1>1, UploadAssumption, LenProperties DEF Leaf, Stem

\* Of the extensions a name ends with, none that stands earlier in the table is
\* shorter.
LEMMA Table ==
  /\ DOMAIN Extensions = 1 .. 6
  /\ \A i \in 1 .. 6 : Extensions[i] # << >>
  /\ \A i, j \in 1 .. 6 : j <= i /\ Len(Extensions[j]) <= Len(Extensions[i])
       => j = i \/ Len(Extensions[j]) = Len(Extensions[i])
<1>1. DOMAIN Extensions = 1 .. 6
  BY DEF Extensions
<1>2. Len(Extensions[1]) = 2 /\ Len(Extensions[2]) = 1 /\ Len(Extensions[3]) = 1
  BY DEF Extensions
<1>3. Len(Extensions[4]) = 1 /\ Len(Extensions[5]) = 1 /\ Len(Extensions[6]) = 1
  BY DEF Extensions
<1>4. \A x : Len(x) \in {1, 2} => x # << >>
  OBVIOUS
<1>5. ASSUME NEW i \in 1 .. 6 PROVE Len(Extensions[i]) = IF i = 1 THEN 2 ELSE 1
  <2>1. i = 1 \/ i = 2 \/ i = 3 \/ i = 4 \/ i = 5 \/ i = 6
    OBVIOUS
  <2> QED
    BY <1>2, <1>3, <2>1
<1>6. ASSUME NEW i \in 1 .. 6 PROVE Extensions[i] # << >>
  BY <1>4, <1>5
<1> QED
  BY <1>1, <1>5, <1>6

\* A leaf is read as the extension it was exported with, one without a field
\* as none; and its stem is that of the file.
LEMMA ReadAsExported ==
  ASSUME Distinguishable, NEW n \in Names, NEW e \in Formats
  PROVE  /\ Extension(Leaf(n, e)) = IF e \in KnownExtensions THEN e ELSE Unknown
         /\ ArtifactStem(Leaf(n, e)) = Stem(n) \/ e \notin KnownExtensions
<1> DEFINE leaf == Leaf(n, e)
           matching == {i \in DOMAIN Extensions : EndsWith(leaf, Extensions[i])}
<1>1. Stem(n) \in Seq(STRING) /\ Stem(n) # << >> /\ leaf = Stem(n) \o e
      /\ e \in Seq(STRING)
  BY NameTypes, FormatsAssumption
<1>2. EndsWith(leaf, e) /\ Without(leaf, e) = Stem(n)
  BY <1>1, Appended
<1>3. \A x \in KnownExtensions : EndsWith(leaf, x)
                                   => e \in KnownExtensions /\ Len(x) <= Len(e)
  BY DEF Distinguishable
<1> HIDE DEF leaf
<1>4. CASE e \in KnownExtensions
  <2>1. PICK i \in 1 .. 6 : e = Extensions[i]
    BY <1>4, Table DEF KnownExtensions
  <2>2. i \in matching /\ matching \subseteq 1 .. 6
    BY <1>2, <2>1, Table
  <2>3. PICK j \in matching : \A k \in matching : j <= k
    <3>1. \E k \in 1 .. 6 : k \in matching /\ \A m \in 1 .. 6 : m \in matching => k <= m
      BY <2>2
    <3> QED
      BY <3>1, <2>2
  <2>4. \A k \in matching : (\A m \in matching : k <= m) => k = j
    BY <2>2, <2>3
  <2>5. (CHOOSE k \in matching : \A m \in matching : k <= m) = j
    BY <2>3, <2>4
  <2>6. Extension(leaf) = Extensions[j]
    BY <2>2, <2>5 DEF Extension
  <2>7. /\ j \in 1 .. 6 /\ j <= i /\ EndsWith(leaf, Extensions[j])
        /\ Extensions[j] \in KnownExtensions
    BY <2>2, <2>3, Table DEF KnownExtensions
  <2>8. Len(Extensions[j]) <= Len(Extensions[i])
    BY <1>3, <2>1, <2>7
  <2>9. j = i \/ Len(Extensions[j]) = Len(Extensions[i])
    BY <2>7, <2>8, Table
  <2>10. Extensions[j] = e
    BY <2>1, <2>7, <2>9, <1>2 DEF EndsWith
  <2> QED
    BY <1>2, <1>4, <2>6, <2>10 DEF ArtifactStem, leaf
<1>5. CASE e \notin KnownExtensions
  <2>1. matching = {}
    BY <1>3, <1>5 DEF KnownExtensions
  <2> QED
    BY <1>5, <2>1 DEF Extension, leaf
<1> QED
  BY <1>4, <1>5

\* A file is given, of all that was exported, what was exported of it.
LEMMA FoundIsOwn ==
  ASSUME Distinguishable, NEW own \in SUBSET Names, NEW name \in Names
  PROVE  Found(Readable(Exported(own)), name) = Readable(Exported(own \cap {name}))
<1>1. Unknown \notin KnownExtensions
  BY Table DEF Unknown, KnownExtensions
<1>2. ASSUME NEW k \in Keys, k.source \in own, Extension(k.leaf) # Unknown
      PROVE  ArtifactStem(k.leaf) = Stem(name) <=> k.source = name
  <2>1. PICK n \in Names, e \in Formats : k = [source |-> n, leaf |-> Leaf(n, e)]
    BY DEF Keys
  <2>2. k.source = n /\ k.leaf = Leaf(n, e)
    BY <2>1
  <2>3. ArtifactStem(k.leaf) = Stem(n)
    BY <1>2, <2>2, ReadAsExported
  <2> QED
    BY <2>2, <2>3 DEF Distinguishable
<1> QED
  BY <1>2 DEF Found, Readable, Exported

\* Whatever was uploaded and converted, a complete response files under a name
\* what was exported of that document, and an archive that marks no failure
\* holds them all (utils.py:71-108, 141-149).
THEOREM FilesGetTheirOwn == Spec => []EachFileItsOwn
<1>1. ASSUME IInv, Distinguishable, NEW c \in Calls, Complete(c)
      PROVE  LET own == converted[call[c].about] IN
             /\ \A f \in DOMAIN Upload :
                  Found(call[c].got, Upload[f]) =
                    Readable(Exported(own \cap {Upload[f]}))
             /\ call[c].response = "zip" /\ ~HasFailures(c) => own = Names
  <2>1. PICK own : own = converted[call[c].about]
    OBVIOUS
  <2>2. own \in SUBSET Names /\ call[c].got = Readable(Exported(own))
    BY <1>1, <2>1, Facts, Types DEF Complete
  <2>3. ASSUME NEW f \in DOMAIN Upload
        PROVE  Found(call[c].got, Upload[f]) = Readable(Exported(own \cap {Upload[f]}))
    BY <1>1, <2>2, FoundIsOwn DEF Names
  <2>4. ASSUME ~HasFailures(c), NEW f \in DOMAIN Upload
        PROVE  Upload[f] \in own
    <3>1. Found(call[c].got, Upload[f]) # {}
      BY <2>4 DEF HasFailures, Manifest
    <3>2. Readable(Exported(own \cap {Upload[f]})) # {}
      BY <2>3, <3>1
    <3> QED
      BY <3>2 DEF Readable, Exported
  <2>5. ~HasFailures(c) => own = Names
    BY <2>2, <2>4 DEF Names
  <2> QED
    BY <2>1, <2>3, <2>5
<1>2. IInv => EachFileItsOwn
  BY <1>1 DEF EachFileItsOwn
<1> QED
  BY <1>2, InitInv, StepInv, PTL DEF Spec
=============================================================================
