--------------------------- MODULE AdmissionProofs ---------------------------
(***************************************************************************)
(* Proofs about Admission, for any number of workers, abandoned submits,   *)
(* uploads and documents, and any limits.                                  *)
(*                                                                         *)
(* The bound on the queue is not inductive: a push is never guarded.  What *)
(* is kept is a bound on the queue together with everything already past   *)
(* the check (PastCheck), and for that a bound on the requests without a   *)
(* slot (LooseBounded): both only grow where the queue was seen with room. *)
(***************************************************************************)
EXTENDS Admission, FiniteSetTheorems, TLAPS

Checked == Cardinality(At("checked"))

LooseBounded == loose.arrived + loose.checked <= abandoned + uploads

PastCheck == queued + Checked + loose.checked <= MaxQueued + Admitters - 1

IInv == TypeOK /\ LooseBounded /\ PastCheck

-----------------------------------------------------------------------------
\* At most one checked request per worker.
LEMMA CheckedType ==
  /\ IsFiniteSet(At("checked"))
  /\ Checked \in Nat
  /\ Checked <= Cardinality(Workers)
  /\ Cardinality(Workers) \in Nat
<1>1. At("checked") \in SUBSET Workers
  BY DEF At
<1>2. IsFiniteSet(At("checked")) /\ Cardinality(At("checked")) <= Cardinality(Workers)
  BY <1>1, WorkersAssumption, FS_Subset
<1>3. Cardinality(At("checked")) \in Nat
  BY <1>2, FS_CardinalityType
<1>4. Cardinality(Workers) \in Nat
  BY WorkersAssumption, FS_CardinalityType
<1> QED
  BY <1>2, <1>3, <1>4 DEF Checked

\* The requests in docling-serve at a time can be counted.
LEMMA AdmittersType ==
  /\ Admitters \in Nat
  /\ Admitters = Cardinality(Workers) + MaxAbandoned + MaxUploads
BY CheckedType, BoundsAssumption DEF Admitters

\* What one worker's slot becomes decides how the checked requests change.
LEMMA SlotMoves ==
  ASSUME TypeOK, NEW w \in Workers, NEW s, slot' = [slot EXCEPT ![w] = s]
  PROVE  /\ s.stage # "checked" /\ slot[w].stage # "checked" => Checked' = Checked
         /\ s.stage # "checked" /\ slot[w].stage = "checked" => Checked' = Checked - 1
<1>1. \A v \in Workers : slot'[v] = IF v = w THEN s ELSE slot[v]
  BY DEF TypeOK
<1>2. ASSUME s.stage # "checked"
      PROVE  At("checked")' = At("checked") \ {w}
  BY <1>1, <1>2 DEF At
<1>3. Cardinality(At("checked") \ {w}) =
        IF w \in At("checked") THEN Cardinality(At("checked")) - 1
                               ELSE Cardinality(At("checked"))
  BY CheckedType, FS_RemoveElement
<1>4. w \in At("checked") <=> slot[w].stage = "checked"
  BY DEF At
<1> QED
  BY <1>2, <1>3, <1>4 DEF Checked

\* Steps that leave the slots alone leave the checked requests alone.
LEMMA SlotsStay ==
  ASSUME slot' = slot PROVE Checked' = Checked
BY DEF Checked, At

-----------------------------------------------------------------------------
LEMMA InitEstablishes == Init => IInv
<1> SUFFICES ASSUME Init PROVE IInv
  OBVIOUS
<1>1. TypeOK
  BY LimitsAssumption, BoundsAssumption DEF Init, TypeOK
<1>2. LooseBounded
  BY DEF Init, LooseBounded
<1>3. At("checked") = {}
  BY DEF Init, At, Free
<1>4. Checked = 0
  BY <1>3, FS_EmptySet DEF Checked
<1>5. PastCheck
  BY <1>4, AdmittersType, LimitsAssumption DEF Init, PastCheck
<1> QED
  BY <1>1, <1>2, <1>5 DEF IInv

\* A step keeps a request's slot well-formed, whatever it does to the rest.
LEMMA SlotKept ==
  ASSUME TypeOK, NEW w \in Workers, NEW s \in Busy \cup {Free},
         slot' = [slot EXCEPT ![w] = s]
  PROVE  slot' \in [Workers -> Busy \cup {Free}]
BY DEF TypeOK

LEMMA StepKeeps == IInv /\ [Next]_vars => IInv'
<1> SUFFICES ASSUME IInv, [Next]_vars PROVE IInv'
  OBVIOUS
<1> USE LimitsAssumption, BoundsAssumption, AdmittersType
<1>0. /\ TypeOK /\ LooseBounded /\ PastCheck
      /\ loose = [arrived |-> loose.arrived, checked |-> loose.checked]
      /\ loose.arrived \in Nat /\ loose.checked \in Nat
      /\ queued \in Nat /\ abandoned \in Nat /\ uploads \in Nat /\ admitted \in Nat
      /\ abandoned <= MaxAbandoned /\ uploads <= MaxUploads
      /\ Checked \in Nat
  BY CheckedType DEF IInv, TypeOK
<1>b. \A w \in Workers : slot[w] # Free =>
        /\ slot[w].doc \in Docs
        /\ slot[w].stage \in {"arrived", "checked", "pushed"}
        /\ slot[w] \in Busy
  BY <1>0 DEF TypeOK, Busy
<1>f. Free.stage = "free"
  BY DEF Free
<1>1. ASSUME NEW w \in Workers, NEW d \in Docs, TakeSlot(w, d)
      PROVE  IInv'
  <2> DEFINE s == [doc |-> d, stage |-> "arrived"]
  <2>1. s \in Busy /\ s.stage # "checked" /\ slot' = [slot EXCEPT ![w] = s]
    BY <1>1 DEF TakeSlot, Busy
  <2>2. slot[w].stage # "checked"
    BY <1>1, <1>f DEF TakeSlot
  <2> HIDE DEF s
  <2>3. Checked' = Checked
    BY <1>0, <2>1, <2>2, SlotMoves
  <2>4. TypeOK'
    BY <1>0, <1>1, <2>1, SlotKept DEF TakeSlot, TypeOK
  <2> QED
    BY <1>0, <1>1, <2>3, <2>4 DEF TakeSlot, IInv, LooseBounded, PastCheck, Admitters
<1>2. ASSUME NEW w \in Workers, Check(w)
      PROVE  IInv'
  <2>0. slot[w] # Free /\ slot[w].stage # "checked"
    BY <1>2, <1>f DEF Check
  <2>1. CASE HasRoom
    <3> DEFINE s == [slot[w] EXCEPT !.stage = "checked"]
    <3>1. s \in Busy /\ slot' = [slot EXCEPT ![w] = s]
      BY <1>2, <1>b, <2>0, <2>1 DEF Check, Busy
    <3> HIDE DEF s
    <3>2. TypeOK'
      BY <1>0, <1>2, <3>1, SlotKept DEF Check, TypeOK
    <3>3. At("checked")' \in SUBSET Workers
      BY DEF At
    <3>4. IsFiniteSet(At("checked")') /\ Checked' <= Cardinality(Workers)
      BY <3>3, WorkersAssumption, FS_Subset DEF Checked
    <3>5. Checked' \in Nat
      BY <3>4, FS_CardinalityType DEF Checked
    <3>6. queued <= MaxQueued - 1 /\ queued' = queued /\ loose' = loose
      BY <1>0, <1>2, <2>1 DEF Check, HasRoom
    <3>7. loose.checked <= MaxAbandoned + MaxUploads
      BY <1>0 DEF LooseBounded
    <3>8. PastCheck'
      BY <1>0, <3>4, <3>5, <3>6, <3>7, CheckedType DEF PastCheck, Admitters
    <3> QED
      BY <1>0, <1>2, <3>2, <3>8 DEF Check, IInv, LooseBounded
  <2>2. CASE ~HasRoom
    <3>1. slot' = [slot EXCEPT ![w] = Free]
      BY <1>2, <2>2 DEF Check
    <3>2. Checked' = Checked
      BY <1>0, <1>f, <2>0, <3>1, SlotMoves
    <3>3. TypeOK'
      BY <1>0, <1>2, <3>1, SlotKept DEF Check, TypeOK
    <3> QED
      BY <1>0, <1>2, <3>2, <3>3 DEF Check, IInv, LooseBounded, PastCheck, Admitters
  <2> QED
    BY <2>1, <2>2
<1>3. ASSUME NEW w \in Workers, Push(w)
      PROVE  IInv'
  <2> DEFINE s == [slot[w] EXCEPT !.stage = "pushed"]
  <2>1. slot[w] # Free /\ slot[w].stage = "checked"
    BY <1>3, <1>f DEF Push
  <2>2. s \in Busy /\ s.stage # "checked" /\ slot' = [slot EXCEPT ![w] = s]
    BY <1>3, <1>b, <2>1 DEF Push, Busy
  <2> HIDE DEF s
  <2>3. Checked' = Checked - 1
    BY <1>0, <2>1, <2>2, SlotMoves
  <2>4. TypeOK'
    BY <1>0, <1>3, <2>2, SlotKept DEF Push, TypeOK
  <2> QED
    BY <1>0, <1>3, <2>3, <2>4 DEF Push, IInv, LooseBounded, PastCheck, Admitters
<1>4. ASSUME NEW w \in Workers, Return(w)
      PROVE  IInv'
  <2>1. slot[w] # Free /\ slot[w].stage # "checked"
    BY <1>4, <1>f DEF Return
  <2>2. slot' = [slot EXCEPT ![w] = Free]
    BY <1>4 DEF Return
  <2>3. Checked' = Checked
    BY <1>0, <1>f, <2>1, <2>2, SlotMoves
  <2>4. TypeOK'
    BY <1>0, <1>4, <1>b, <2>1, <2>2, SlotKept DEF Return, TypeOK
  <2> QED
    BY <1>0, <1>4, <2>3, <2>4 DEF Return, IInv, LooseBounded, PastCheck, Admitters
<1>5. ASSUME NEW w \in Workers, Abandon(w)
      PROVE  IInv'
  <2>1. /\ slot[w] # Free /\ slot' = [slot EXCEPT ![w] = Free]
        /\ abandoned' = abandoned + 1 /\ abandoned' <= MaxAbandoned
        /\ UNCHANGED <<submitted, queued, running, uploads, admitted>>
    BY <1>0, <1>5 DEF Abandon
  <2>2. CASE slot[w].stage = "arrived"
    <3>1. loose' = [loose EXCEPT !.arrived = @ + 1]
      BY <1>5, <2>2 DEF Abandon
    <3>2. Checked' = Checked
      BY <1>0, <1>f, <2>1, <2>2, SlotMoves
    <3>3. TypeOK'
      BY <1>0, <2>1, <3>1, SlotKept DEF TypeOK
    <3> QED
      BY <1>0, <2>1, <3>1, <3>2, <3>3 DEF IInv, LooseBounded, PastCheck, Admitters
  <2>3. CASE slot[w].stage = "checked"
    <3>1. loose' = [loose EXCEPT !.checked = @ + 1]
      BY <1>5, <2>3 DEF Abandon
    <3>2. Checked' = Checked - 1
      BY <1>0, <1>f, <2>1, <2>3, SlotMoves
    <3>3. TypeOK'
      BY <1>0, <2>1, <3>1, SlotKept DEF TypeOK
    <3> QED
      BY <1>0, <2>1, <3>1, <3>2, <3>3 DEF IInv, LooseBounded, PastCheck, Admitters
  <2>4. CASE slot[w].stage = "pushed"
    <3>1. loose' = loose
      BY <1>5, <2>4 DEF Abandon
    <3>2. Checked' = Checked
      BY <1>0, <1>f, <2>1, <2>4, SlotMoves
    <3>3. TypeOK'
      BY <1>0, <2>1, <3>1, SlotKept DEF TypeOK
    <3> QED
      BY <1>0, <2>1, <3>1, <3>2, <3>3 DEF IInv, LooseBounded, PastCheck, Admitters
  <2> QED
    BY <1>b, <2>1, <2>2, <2>3, <2>4
<1>6. ASSUME Upload
      PROVE  IInv'
  <2>1. Checked' = Checked
    BY <1>6, SlotsStay DEF Upload
  <2>2. TypeOK'
    BY <1>0, <1>6 DEF Upload, TypeOK
  <2> QED
    BY <1>0, <1>6, <2>1, <2>2 DEF Upload, IInv, LooseBounded, PastCheck, Admitters
<1>7. ASSUME LooseCheck
      PROVE  IInv'
  <2>1. Checked' = Checked
    BY <1>7, SlotsStay DEF LooseCheck
  <2>2. TypeOK'
    BY <1>0, <1>7 DEF LooseCheck, TypeOK
  <2>3. LooseBounded'
    BY <1>0, <1>7 DEF LooseCheck, LooseBounded
  <2>4. PastCheck'
    <3>1. CASE HasRoom
      <4>1. /\ queued <= MaxQueued - 1 /\ queued' = queued
            /\ loose.checked' = loose.checked + 1 /\ loose.arrived >= 1
        BY <1>0, <1>7, <3>1 DEF LooseCheck, HasRoom
      <4>2. loose.checked + 1 <= MaxAbandoned + MaxUploads
        BY <1>0, <4>1 DEF LooseBounded
      <4> QED
        BY <1>0, <2>1, <4>1, <4>2, CheckedType DEF PastCheck, Admitters
    <3>2. CASE ~HasRoom
      BY <1>0, <1>7, <2>1, <3>2 DEF LooseCheck, PastCheck, Admitters
    <3> QED
      BY <3>1, <3>2
  <2> QED
    BY <2>2, <2>3, <2>4 DEF IInv
<1>8. ASSUME LoosePush
      PROVE  IInv'
  <2>1. Checked' = Checked
    BY <1>8, SlotsStay DEF LoosePush
  <2>2. TypeOK'
    BY <1>0, <1>8 DEF LoosePush, TypeOK
  <2> QED
    BY <1>0, <1>8, <2>1, <2>2 DEF LoosePush, IInv, LooseBounded, PastCheck, Admitters
<1>9. ASSUME TaskStarts
      PROVE  IInv'
  <2>1. Checked' = Checked
    BY <1>9, SlotsStay DEF TaskStarts
  <2>2. TypeOK'
    BY <1>0, <1>9 DEF TaskStarts, TypeOK
  <2> QED
    BY <1>0, <1>9, <2>1, <2>2 DEF TaskStarts, IInv, LooseBounded, PastCheck, Admitters
<1>10. ASSUME TaskEnds
       PROVE  IInv'
  <2>1. Checked' = Checked
    BY <1>10, SlotsStay DEF TaskEnds
  <2>2. TypeOK'
    BY <1>0, <1>10 DEF TaskEnds, TypeOK
  <2> QED
    BY <1>0, <1>10, <2>1, <2>2 DEF TaskEnds, IInv, LooseBounded, PastCheck, Admitters
<1>11. CASE UNCHANGED vars
  <2>1. Checked' = Checked
    BY <1>11, SlotsStay DEF vars
  <2> QED
    BY <1>0, <1>11, <2>1 DEF vars, IInv, TypeOK, LooseBounded, PastCheck, Admitters
<1> QED
  BY <1>1, <1>2, <1>3, <1>4, <1>5, <1>6, <1>7, <1>8, <1>9, <1>10, <1>11 DEF Next

LEMMA Invariance == Spec => []IInv
BY InitEstablishes, StepKeeps, PTL DEF Spec

-----------------------------------------------------------------------------
\* Slots, queue and counters keep their types; no more tasks run than the
\* tenant may have running (worker.py:46-52, models.py:18-23).
THEOREM TypeCorrect == Spec => []TypeOK
<1>1. IInv => TypeOK
  BY DEF IInv
<1> QED
  BY <1>1, Invariance, PTL

\* The queue never exceeds its limit by more than the other requests that can
\* be between check and push, for any number of workers (models.py:18-23).
THEOREM OvershootIsBounded == Spec => []OvershootBounded
<1>1. IInv => OvershootBounded
  BY LimitsAssumption, AdmittersType, CheckedType
     DEF IInv, TypeOK, PastCheck, OvershootBounded
<1> QED
  BY <1>1, Invariance, PTL

\* With one worker, nothing abandoned and no upload the limit is exact: what
\* serializing the submits is for (worker.py:35-37, 50).
THEOREM SerialIsExact ==
  ASSUME Cardinality(Workers) = 1, MaxAbandoned = 0, MaxUploads = 0
  PROVE  Spec => []LimitIsExact
<1>1. OvershootBounded => LimitIsExact
  BY LimitsAssumption DEF OvershootBounded, LimitIsExact, Admitters
<1> QED
  BY <1>1, OvershootIsBounded, PTL
-----------------------------------------------------------------------------
\* That docling-serve has one task for each document submitted is a count, and
\* a count of documents is right only if no document is submitted, or about to
\* be, twice (HeldOnce).
HeldOnce ==
  \A w, v \in Workers :
    slot[w] # Free =>
      /\ slot[w].doc \in Docs \ submitted
      /\ slot[v] # Free /\ slot[v].doc = slot[w].doc => v = w

CountInv == IsFiniteSet(submitted) /\ HeldOnce /\ OneTaskEach

\* The two sides of OneTaskEach.
Returned == Cardinality(submitted)
Pushed == Cardinality(At("pushed"))
Counted ==
  /\ Returned + Pushed <= admitted
  /\ admitted + loose.arrived + loose.checked <= Returned + Pushed + abandoned + uploads

LEMMA CountTypes ==
  ASSUME TypeOK, IsFiniteSet(submitted)
  PROVE  /\ Returned \in Nat /\ Pushed \in Nat /\ IsFiniteSet(At("pushed"))
         /\ admitted \in Nat /\ abandoned \in Nat /\ uploads \in Nat
         /\ loose.arrived \in Nat /\ loose.checked \in Nat
         /\ OneTaskEach <=> Counted
<1>1. At("pushed") \in SUBSET Workers
  BY DEF At
<1>2. IsFiniteSet(At("pushed"))
  BY <1>1, WorkersAssumption, FS_Subset
<1>3. Returned \in Nat /\ Pushed \in Nat
  BY <1>2, FS_CardinalityType DEF Returned, Pushed
<1>4. /\ admitted \in Nat /\ abandoned \in Nat /\ uploads \in Nat
      /\ loose.arrived \in Nat /\ loose.checked \in Nat
  BY BoundsAssumption DEF TypeOK
<1>5. OneTaskEach <=>
        admitted \in Returned + Pushed ..
                     Returned + Pushed + (abandoned + uploads - (loose.arrived + loose.checked))
  BY DEF OneTaskEach, Returned, Pushed
<1>6. OneTaskEach <=> Counted
  BY <1>3, <1>4, <1>5 DEF Counted
<1> QED
  BY <1>2, <1>3, <1>4, <1>6

\* What one worker's slot becomes decides how the pushed requests change.
LEMMA PushedMoves ==
  ASSUME TypeOK, NEW w \in Workers, NEW s, slot' = [slot EXCEPT ![w] = s]
  PROVE  /\ s.stage # "pushed" /\ slot[w].stage # "pushed" => Pushed' = Pushed
         /\ s.stage # "pushed" /\ slot[w].stage = "pushed" => Pushed' = Pushed - 1
         /\ s.stage = "pushed" /\ slot[w].stage # "pushed" => Pushed' = Pushed + 1
<1>1. \A v \in Workers : slot'[v] = IF v = w THEN s ELSE slot[v]
  BY DEF TypeOK
<1>2. IsFiniteSet(At("pushed"))
  <2>1. At("pushed") \in SUBSET Workers
    BY DEF At
  <2> QED
    BY <2>1, WorkersAssumption, FS_Subset
<1>3. ASSUME s.stage # "pushed"
      PROVE  At("pushed")' = At("pushed") \ {w}
  BY <1>1, <1>3 DEF At
<1>4. ASSUME s.stage = "pushed"
      PROVE  At("pushed")' = At("pushed") \cup {w}
  BY <1>1, <1>4 DEF At
<1>5. Cardinality(At("pushed") \ {w}) =
        IF w \in At("pushed") THEN Cardinality(At("pushed")) - 1
                              ELSE Cardinality(At("pushed"))
  BY <1>2, FS_RemoveElement
<1>6. Cardinality(At("pushed") \cup {w}) =
        IF w \in At("pushed") THEN Cardinality(At("pushed"))
                              ELSE Cardinality(At("pushed")) + 1
  BY <1>2, FS_AddElement
<1>7. w \in At("pushed") <=> slot[w].stage = "pushed"
  BY DEF At
<1> QED
  BY <1>3, <1>4, <1>5, <1>6, <1>7 DEF Pushed

\* A slot that keeps its document or is freed is held by no one else.
LEMMA HeldOnceKept ==
  ASSUME TypeOK, HeldOnce, NEW w \in Workers, slot[w] # Free,
         NEW s, s = Free \/ s.doc = slot[w].doc,
         slot' = [slot EXCEPT ![w] = s],
         \/ submitted' = submitted
         \/ s = Free /\ submitted' = submitted \cup {slot[w].doc}
  PROVE  HeldOnce'
<1>1. \A v \in Workers : slot'[v] = IF v = w THEN s ELSE slot[v]
  BY DEF TypeOK
<1> SUFFICES ASSUME NEW v \in Workers, NEW u \in Workers, slot'[v] # Free
             PROVE  /\ slot'[v].doc \in Docs \ submitted'
                    /\ slot'[u] # Free /\ slot'[u].doc = slot'[v].doc => u = v
  BY DEF HeldOnce
<1>2. \A x \in Workers : slot'[x] # Free => slot[x] # Free /\ slot'[x].doc = slot[x].doc
  BY <1>1
<1>3. submitted' # submitted => v # w
  BY <1>1
<1> QED
  BY <1>2, <1>3 DEF HeldOnce

LEMMA CountInit == Init => CountInv
<1> SUFFICES ASSUME Init PROVE CountInv
  OBVIOUS
<1>1. TypeOK
  BY InitEstablishes DEF IInv
<1>2. At("pushed") = {} /\ submitted = {}
  BY DEF Init, At, Free
<1>3. IsFiniteSet(submitted) /\ Returned = 0 /\ Pushed = 0
  BY <1>2, FS_EmptySet DEF Returned, Pushed
<1>4. HeldOnce
  BY DEF Init, HeldOnce
<1>5. Counted
  BY <1>3 DEF Init, Counted
<1> QED
  BY <1>1, <1>3, <1>4, <1>5, CountTypes DEF CountInv

LEMMA CountKept == IInv /\ CountInv /\ [Next]_vars => CountInv'
<1> SUFFICES ASSUME IInv, CountInv, [Next]_vars PROVE CountInv'
  OBVIOUS
<1>0. /\ TypeOK /\ TypeOK' /\ IsFiniteSet(submitted) /\ HeldOnce /\ Counted
      /\ Returned \in Nat /\ Pushed \in Nat
      /\ admitted \in Nat /\ abandoned \in Nat /\ uploads \in Nat
      /\ loose = [arrived |-> loose.arrived, checked |-> loose.checked]
      /\ loose.arrived \in Nat /\ loose.checked \in Nat
  BY StepKeeps, CountTypes DEF IInv, CountInv, TypeOK
<1>f. Free.stage = "free" /\ \A w \in Workers : slot[w].stage # "free" => slot[w] # Free
  BY DEF Free
<1>s. ASSUME UNCHANGED submitted
      PROVE  IsFiniteSet(submitted') /\ Returned' = Returned
  BY <1>0, <1>s DEF Returned
<1>u. ASSUME UNCHANGED slot
      PROVE  Pushed' = Pushed
  BY <1>u DEF Pushed, At
<1>q. IsFiniteSet(submitted') /\ HeldOnce' /\ Counted' => CountInv'
  <2> SUFFICES ASSUME IsFiniteSet(submitted)', HeldOnce', Counted' PROVE CountInv'
    OBVIOUS
  <2> QED
    BY <1>0, CountTypes, PTL DEF CountInv
<1>1. ASSUME NEW w \in Workers, NEW d \in Docs, TakeSlot(w, d)
      PROVE  CountInv'
  <2> DEFINE s == [doc |-> d, stage |-> "arrived"]
  <2>1. /\ s.stage # "pushed" /\ s.doc = d /\ slot' = [slot EXCEPT ![w] = s]
        /\ slot[w] = Free /\ d \in Docs \ submitted
        /\ \A v \in Workers : slot[v].doc # d
        /\ UNCHANGED <<submitted, loose, abandoned, uploads, admitted>>
    BY <1>1 DEF TakeSlot, Held
  <2> HIDE DEF s
  <2>2. Pushed' = Pushed
    BY <1>0, <1>f, <2>1, PushedMoves
  <2>3. \A v \in Workers : slot'[v] = IF v = w THEN s ELSE slot[v]
    BY <1>0, <2>1 DEF TypeOK
  <2>4. HeldOnce'
    BY <1>0, <2>1, <2>3 DEF HeldOnce
  <2> QED
    BY <1>0, <1>s, <1>q, <2>1, <2>2, <2>4 DEF Counted
<1>2. ASSUME NEW w \in Workers, Check(w)
      PROVE  CountInv'
  <2>1. PICK s : /\ slot' = [slot EXCEPT ![w] = s]
                 /\ s.stage # "pushed" /\ (s = Free \/ s.doc = slot[w].doc)
    <3>1. CASE HasRoom
      <4> DEFINE s == [slot[w] EXCEPT !.stage = "checked"]
      <4>1. slot[w] \in Busy
        BY <1>0, <1>2, <1>f DEF Check, TypeOK
      <4>2. s.stage = "checked" /\ s.doc = slot[w].doc
        BY <4>1 DEF Busy
      <4>3. slot' = [slot EXCEPT ![w] = s]
        BY <1>2, <3>1 DEF Check
      <4> QED
        BY <4>2, <4>3
    <3>2. CASE ~HasRoom
      BY <1>2, <1>f, <3>2 DEF Check
    <3> QED
      BY <3>1, <3>2
  <2>2. /\ slot[w] # Free /\ slot[w].stage # "pushed"
        /\ UNCHANGED <<submitted, loose, abandoned, uploads, admitted>>
    BY <1>2, <1>f DEF Check
  <2>3. Pushed' = Pushed
    BY <1>0, <2>1, <2>2, PushedMoves
  <2>4. HeldOnce'
    BY <1>0, <2>1, <2>2, HeldOnceKept
  <2> QED
    BY <1>0, <1>s, <1>q, <2>2, <2>3, <2>4 DEF Counted
<1>3. ASSUME NEW w \in Workers, Push(w)
      PROVE  CountInv'
  <2> DEFINE s == [slot[w] EXCEPT !.stage = "pushed"]
  <2>1. slot[w] \in Busy /\ slot[w] # Free /\ slot[w].stage # "pushed"
    BY <1>0, <1>3, <1>f DEF Push, TypeOK
  <2>2. s.stage = "pushed" /\ s.doc = slot[w].doc
    BY <2>1 DEF Busy
  <2>3. /\ slot' = [slot EXCEPT ![w] = s] /\ admitted' = admitted + 1
        /\ UNCHANGED <<submitted, loose, abandoned, uploads>>
    BY <1>3 DEF Push
  <2> HIDE DEF s
  <2>4. Pushed' = Pushed + 1
    BY <1>0, <2>1, <2>2, <2>3, PushedMoves
  <2>5. HeldOnce'
    BY <1>0, <2>1, <2>2, <2>3, HeldOnceKept
  <2> QED
    BY <1>0, <1>s, <1>q, <2>3, <2>4, <2>5 DEF Counted
<1>4. ASSUME NEW w \in Workers, Return(w)
      PROVE  CountInv'
  <2>1. /\ slot[w] # Free /\ slot[w].stage = "pushed"
        /\ slot' = [slot EXCEPT ![w] = Free]
        /\ submitted' = submitted \cup {slot[w].doc}
        /\ UNCHANGED <<loose, abandoned, uploads, admitted>>
    BY <1>4, <1>f DEF Return
  <2>2. Pushed' = Pushed - 1
    BY <1>0, <1>f, <2>1, PushedMoves
  <2>3. slot[w].doc \notin submitted
    BY <1>0, <2>1 DEF HeldOnce
  <2>4. IsFiniteSet(submitted') /\ Returned' = Returned + 1
    BY <1>0, <2>1, <2>3, FS_AddElement DEF Returned
  <2>5. HeldOnce'
    BY <1>0, <2>1, HeldOnceKept
  <2> QED
    BY <1>0, <1>q, <2>1, <2>2, <2>4, <2>5 DEF Counted
<1>5. ASSUME NEW w \in Workers, Abandon(w)
      PROVE  CountInv'
  <2>1. /\ slot[w] # Free /\ slot' = [slot EXCEPT ![w] = Free]
        /\ abandoned' = abandoned + 1
        /\ UNCHANGED <<submitted, uploads, admitted>>
    BY <1>5 DEF Abandon
  <2>2. HeldOnce'
    BY <1>0, <2>1, HeldOnceKept
  <2>3. CASE slot[w].stage = "pushed"
    <3>1. Pushed' = Pushed - 1 /\ loose' = loose
      BY <1>0, <1>5, <1>f, <2>1, <2>3, PushedMoves DEF Abandon
    <3> QED
      BY <1>0, <1>s, <1>q, <2>1, <2>2, <3>1 DEF Counted
  <2>4. CASE slot[w].stage # "pushed"
    <3>1. Pushed' = Pushed
      BY <1>0, <1>f, <2>1, <2>4, PushedMoves
    <3>2. slot[w].stage \in {"arrived", "checked"}
      BY <1>0, <2>1, <2>4 DEF TypeOK, Busy
    <3>3. /\ loose'.arrived \in Nat /\ loose'.checked \in Nat
          /\ loose'.arrived + loose'.checked = loose.arrived + loose.checked + 1
      BY <1>0, <1>5, <3>2 DEF Abandon
    <3> QED
      BY <1>0, <1>s, <1>q, <2>1, <2>2, <3>1, <3>3 DEF Counted
  <2> QED
    BY <2>3, <2>4
\* Requests without a slot, and tasks, leave the slots alone.
<1>6. ASSUME UNCHANGED <<submitted, slot>>, Counted'
      PROVE  CountInv'
  <2>1. HeldOnce'
    BY <1>0, <1>6 DEF HeldOnce
  <2> QED
    BY <1>6, <1>s, <1>q, <2>1
<1>7. CASE Upload
  BY <1>0, <1>6, <1>7, <1>s, <1>u DEF Upload, Counted
<1>8. CASE LooseCheck
  BY <1>0, <1>6, <1>8, <1>s, <1>u DEF LooseCheck, Counted
<1>9. CASE LoosePush
  BY <1>0, <1>6, <1>9, <1>s, <1>u DEF LoosePush, Counted
<1>10. CASE TaskStarts \/ TaskEnds \/ UNCHANGED vars
  BY <1>0, <1>6, <1>10, <1>s, <1>u DEF TaskStarts, TaskEnds, vars, Counted
<1> QED
  BY <1>1, <1>2, <1>3, <1>4, <1>5, <1>7, <1>8, <1>9, <1>10 DEF Next

\* However submits are refused, abandoned and retried over any number of
\* workers, docling-serve has one task for each document submitted, and others
\* only for lost answers and uploads (activities.py:86-105, worker.py:86-90).
THEOREM OneTaskForEach == Spec => []OneTaskEach
<1>1. CountInv => OneTaskEach
  BY DEF CountInv
<1> QED
  BY <1>1, CountInit, CountKept, Invariance, PTL DEF Spec
=============================================================================
