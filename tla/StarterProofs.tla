---------------------------- MODULE StarterProofs ----------------------------
(***************************************************************************)
(* Proofs about Starter, for any documents, invocations and listings.      *)
(*                                                                         *)
(* An invocation looks at a document three times, at its start, when its   *)
(* handle is attached and when its result is heard, with any number of     *)
(* steps of others in between.  What it holds from one time to the next is *)
(* true for good: runs are only ever added, and an ending once recorded    *)
(* stays (Grows).                                                          *)
(***************************************************************************)
EXTENDS Starter, ConvertWorkflowProofs

\* What the answer to the start of d left with the invocation.
Asked(r, d) ==
  /\ r.since[d] <= wf[d].run /\ r.handle[d] <= wf[d].run
  /\ d \in r.started => r.handle[d] = r.since[d] /\ r.handle[d] # Latest
  /\ d \notin r.started => r.handle[d] = Latest \/ r.handle[d] >= r.since[d]

\* Its result was heard.
Settled(r, d) == r.handle[d] # Latest /\ history[d][r.handle[d]] # NoVerdict

Converted(r, d) == history[d][r.handle[d]] = "Completed"

\* Every document was asked for, those before the current one are settled,
\* and failed says whether one of them was not converted.
Awaited(r) ==
  /\ \A i \in 1 .. Len(r.keys) : Asked(r, r.keys[i])
  /\ \A i \in 1 .. Len(r.keys) : i < r.at => Settled(r, r.keys[i])
  /\ r.failed <=> \E i \in 1 .. Len(r.keys) :
                    i < r.at /\ ~Converted(r, r.keys[i])

\* The results of all of a non-empty listing decided the exit code.
Finished(r) ==
  /\ r.keys \in Listings /\ Len(r.keys) >= 1 /\ r.at = Len(r.keys) + 1
  /\ Awaited(r)
  /\ r.code = IF r.failed THEN 1 ELSE 0

Starting(r) ==
  /\ ~r.failed
  /\ \A i \in 1 .. Len(r.keys) : /\ i < r.at => Asked(r, r.keys[i])
                                 /\ i >= r.at => r.keys[i] \notin r.started

InvocationInv(c, r) ==
  /\ r \in Invocation
  /\ r.phase = "idle" => r = NotInvoked
  /\ r.phase \in {"starting", "waiting"} =>
       r.keys \in Listings /\ r.at \in 1 .. Len(r.keys)
  /\ r.phase = "starting" => Starting(r)
  /\ r.phase = "waiting" => Awaited(r)
  /\ r.phase = "exited" /\ c \in Waiting =>
       \/ r.code = 1 /\ r.at <= Len(r.keys)
       \/ r.code = 1 /\ r.keys = << >>
       \/ Finished(r)

\* Temporal's record of a run in progress or just closed is what the run says.
HistoryInv ==
  /\ history \in [Docs -> [1 .. MaxRuns -> Verdicts \cup {NoVerdict}]]
  /\ \A d \in Docs : \A n \in 1 .. MaxRuns :
       n = wf[d].run => history[d][n] = wf[d].verdict

SInv ==
  /\ IInv
  /\ HistoryInv
  /\ cli \in [Clis -> Invocation]
  /\ \A c \in Clis : InvocationInv(c, cli[c])

\* No step takes a run or an ending back.
Grows ==
  \A d \in Docs :
    /\ wf'[d].run \in Nat /\ wf'[d].run >= wf[d].run
    /\ \A n \in 1 .. wf[d].run :
         history[d][n] # NoVerdict => history'[d][n] = history[d][n]

-----------------------------------------------------------------------------
\* What resumes a run leaves its number alone, and comes to open runs only,
\* which have no verdict yet.
LEMMA ProgressGrows ==
  ASSUME IInv, NEW e \in Docs, Progress(e), NEW d \in Docs
  PROVE  /\ wf'[d].run = wf[d].run
         /\ wf[d].verdict # NoVerdict => wf'[d].verdict = wf[d].verdict
<1> DEFINE Kept == /\ wf'[d].run = wf[d].run
                   /\ d # e => wf'[d] = wf[d]
<1>1. wf \in [Docs -> WorkflowState] /\ wf[e] \in WorkflowState
  BY DEF IInv
<1>2. ASSUME NEW v, Close(e, v) PROVE Kept
  BY <1>1, <1>2 DEF Close, WorkflowState
<1>3. ASSUME NEW s, Terminal(e, s) PROVE Kept
  BY <1>1, <1>2, <1>3 DEF Terminal, WorkflowState
<1>4. ASSUME StillInProgress(e) PROVE Kept
  BY <1>1, <1>2, <1>4 DEF StillInProgress, WorkflowState
<1>5. ASSUME NEW u \in Tasks, SubmitSucceeds(e, u) PROVE Kept
  BY <1>1, <1>5 DEF SubmitSucceeds, WorkflowState
<1>6. ASSUME NEW u \in Tasks, NEW s \in TaskStatus, TaskCompletedSignal(e, u, s)
      PROVE  Kept
  BY <1>1, <1>6 DEF TaskCompletedSignal, WorkflowState
<1>7. ASSUME TimerFires(e) PROVE Kept
  BY <1>1, <1>7 DEF TimerFires, WorkflowState
<1>8. ASSUME CheckLost(e) PROVE Kept
  BY <1>1, <1>2, <1>8 DEF CheckLost, WorkflowState
<1>9. ASSUME CheckUnanswered(e) PROVE Kept
  BY <1>1, <1>4, <1>9 DEF CheckUnanswered, WorkflowState
<1>10. ASSUME NEW o \in Outcomes, FetchOutcome(e, o) PROVE Kept
  BY <1>1, <1>2, <1>10 DEF FetchOutcome, WorkflowState
<1>11. ASSUME NEW j \in BOOLEAN, CollectOutputs(e, j) PROVE Kept
  BY <1>1, <1>2, <1>11 DEF CollectOutputs
<1>12. ASSUME SubmitRejected(e) \/ FetchRejected(e) PROVE Kept
  BY <1>2, <1>12 DEF SubmitRejected, FetchRejected
<1>13. ASSUME Wake(e) \/ \E s \in TaskStatus : CheckTerminal(e, s) PROVE Kept
  BY <1>3, <1>13 DEF Wake, CheckTerminal
<1>14. ASSUME CheckInProgress(e) \/ CheckRejected(e) PROVE Kept
  BY <1>4, <1>14 DEF CheckInProgress, CheckRejected
<1>15. Kept
  BY <1>5, <1>6, <1>7, <1>8, <1>9, <1>10, <1>11, <1>12, <1>13, <1>14
  DEF Progress
<1>16. wf[e].phase \in OpenPhases
  BY DEF Progress, SubmitSucceeds, SubmitRejected, TaskCompletedSignal, Open,
         Wake, TimerFires, CheckTerminal, CheckInProgress, CheckLost,
         CheckUnanswered, CheckRejected, FetchOutcome, FetchRejected,
         CollectOutputs, OpenPhases
<1>17. wf[e].verdict = NoVerdict
  BY <1>16 DEF IInv, RunInv, OpenPhases
<1> QED
  BY <1>15, <1>17

\* A start adds a run, of which nothing is known.
LEMMA StartGrows ==
  ASSUME IInv, NEW e \in Docs, Start(e)
  PROVE  /\ wf'[e].run = wf[e].run + 1 /\ wf[e].run + 1 \in 1 .. MaxRuns
         /\ wf'[e].verdict = NoVerdict
         /\ \A d \in Docs \ {e} : wf'[d] = wf[d]
<1> DEFINE r == FreshRun(wf[e].run + 1, "submitting", 1)
<1>1. wf \in [Docs -> WorkflowState] /\ wf[e].run \in 0 .. MaxRuns
  BY DEF IInv, WorkflowState
<1>2. r.run = wf[e].run + 1 /\ r.verdict = NoVerdict
  BY DEF FreshRun
<1>3. wf' = [wf EXCEPT ![e] = r] /\ wf[e].run < MaxRuns
  BY DEF Start
<1> QED
  BY <1>1, <1>2, <1>3, MaxRunsAssumption

\* What the two have in common, of one document.
RunGrows(d) ==
  \/ /\ wf'[d].run = wf[d].run
     /\ wf[d].verdict # NoVerdict => wf'[d].verdict = wf[d].verdict
  \/ /\ wf'[d].run = wf[d].run + 1
     /\ wf'[d].verdict = NoVerdict

\* The record follows the runs, and loses nothing.
LEMMA RecordGrows ==
  ASSUME IInv, IInv', HistoryInv, Recorded, \A d \in Docs : RunGrows(d)
  PROVE  HistoryInv' /\ Grows
<1>1. wf \in [Docs -> WorkflowState] /\ wf' \in [Docs -> WorkflowState]
  BY DEF IInv
<1>2. \A d \in Docs :
        /\ wf[d].run \in 0 .. MaxRuns /\ wf'[d].run \in 0 .. MaxRuns
        /\ wf'[d].verdict \in Verdicts \cup {NoVerdict}
  BY <1>1 DEF WorkflowState
<1>3. history' \in [Docs -> [1 .. MaxRuns -> Verdicts \cup {NoVerdict}]]
  BY <1>2 DEF Recorded, HistoryInv
<1>4. \A d \in Docs : \A n \in 1 .. MaxRuns :
        history'[d][n] = IF n = wf'[d].run THEN wf'[d].verdict
                         ELSE history[d][n]
  BY DEF Recorded
<1>5. ASSUME NEW d \in Docs, NEW n \in 1 .. wf[d].run,
             history[d][n] # NoVerdict
      PROVE  history'[d][n] = history[d][n]
  <2>1. n \in 1 .. MaxRuns /\ RunGrows(d)
    BY <1>2, MaxRunsAssumption
  <2>2. CASE n = wf'[d].run
    <3>1. n = wf[d].run /\ wf'[d].run = wf[d].run
      BY <1>2, <2>1, <2>2, MaxRunsAssumption DEF RunGrows
    <3>2. history[d][n] = wf[d].verdict
      BY <2>1, <3>1 DEF HistoryInv
    <3> QED
      BY <1>4, <1>5, <1>2, <2>1, <2>2, <3>1, <3>2 DEF RunGrows
  <2>3. CASE n # wf'[d].run
    BY <1>4, <2>1, <2>3
  <2> QED
    BY <2>2, <2>3
<1>6. \A d \in Docs : wf'[d].run \in Nat /\ wf'[d].run >= wf[d].run
  BY <1>2, MaxRunsAssumption DEF RunGrows
<1> QED
  BY <1>3, <1>4, <1>5, <1>6 DEF HistoryInv, Grows

\* An invocation that does not move keeps what it holds.
LEMMA InvocationStays ==
  ASSUME IInv, Grows, NEW c, NEW r, InvocationInv(c, r)
  PROVE  InvocationInv(c, r)'
<1>1. \A d \in Docs :
        /\ wf[d].run \in 0 .. MaxRuns
        /\ r.handle[d] \in 0 .. MaxRuns /\ r.since[d] \in 0 .. MaxRuns
  BY DEF IInv, WorkflowState, InvocationInv, Invocation
<1>2. r \in Invocation
  BY DEF InvocationInv
<1>3. ASSUME r.keys \in Listings PROVE \A i \in 1 .. Len(r.keys) : r.keys[i] \in Docs
  BY <1>3, ListingsAssumption
<1>4. ASSUME NEW d \in Docs, Asked(r, d) PROVE Asked(r, d)'
  BY <1>1, <1>4, MaxRunsAssumption DEF Asked, Grows
<1>5. ASSUME NEW d \in Docs, Asked(r, d), Settled(r, d)
      PROVE  Settled(r, d)' /\ (Converted(r, d)' <=> Converted(r, d))
  <2>1. r.handle[d] \in 1 .. wf[d].run
    BY <1>1, <1>5, MaxRunsAssumption DEF Asked, Settled, Latest
  <2>2. history'[d][r.handle[d]] = history[d][r.handle[d]]
    BY <1>5, <2>1 DEF Settled, Grows
  <2> QED
    BY <1>5, <2>2 DEF Settled, Converted
<1>6. ASSUME r.keys \in Listings, Awaited(r) PROVE Awaited(r)'
  <2>1. \A i \in 1 .. Len(r.keys) :
          /\ r.keys[i] \in Docs
          /\ Asked(r, r.keys[i])
          /\ i < r.at => Settled(r, r.keys[i])
    BY <1>3, <1>6 DEF Awaited
  <2>2. \A i \in 1 .. Len(r.keys) :
          /\ Asked(r, r.keys[i])'
          /\ i < r.at => /\ Settled(r, r.keys[i])'
                         /\ Converted(r, r.keys[i])' <=> Converted(r, r.keys[i])
    BY <1>4, <1>5, <2>1
  <2> QED
    BY <1>6, <2>2 DEF Awaited
<1>7. ASSUME r.keys \in Listings, Starting(r) PROVE Starting(r)'
  BY <1>3, <1>4, <1>7 DEF Starting
<1>8. ASSUME Finished(r) PROVE Finished(r)'
  BY <1>6, <1>8 DEF Finished
<1> QED
  BY <1>6, <1>7, <1>8 DEF InvocationInv

-----------------------------------------------------------------------------
\* A step of one invocation keeps the invariant if that invocation holds it
\* afterwards and the others see nothing, or more of the same.
LEMMA OneInvocationMoves ==
  ASSUME SInv, IInv', HistoryInv', Grows,
         NEW c \in Clis, NEW r, cli' = [cli EXCEPT ![c] = r],
         InvocationInv(c, r)'
  PROVE  SInv'
<1>1. r \in Invocation
  BY DEF InvocationInv
<1>2. cli' \in [Clis -> Invocation]
  BY <1>1 DEF SInv
<1>3. ASSUME NEW b \in Clis, b # c PROVE InvocationInv(b, cli[b])'
  <2>1. PICK q : q = cli[b]
    OBVIOUS
  <2>2. InvocationInv(b, q)
    BY <2>1 DEF SInv
  <2>3. InvocationInv(b, q)'
    BY <2>2, InvocationStays DEF SInv
  <2>4. cli'[b] = q
    BY <1>3, <2>1 DEF SInv
  <2> QED
    BY <2>3, <2>4
<1>4. cli'[c] = r
  BY DEF SInv
<1>5. \A b \in Clis : InvocationInv(b, cli[b])'
  BY <1>3, <1>4
<1> QED
  BY <1>2, <1>5 DEF SInv

\* Steps that leave the workflows and Temporal's record alone.
LEMMA NothingGrows ==
  ASSUME SInv, UNCHANGED <<wf, history>>
  PROVE  IInv' /\ HistoryInv' /\ Grows
<1>1. wf' = wf /\ history' = history
  OBVIOUS
<1>2. IInv' /\ HistoryInv'
  BY <1>1 DEF SInv, IInv, RunInv, Spent, HistoryInv
<1>3. \A d \in Docs : wf[d].run \in Nat
  BY MaxRunsAssumption DEF SInv, IInv, WorkflowState
<1> QED
  BY <1>1, <1>2, <1>3 DEF Grows

\* So there only the invocation that moves is to be looked at.
LEMMA OneInvocationAlone ==
  ASSUME SInv, UNCHANGED <<wf, history>>, NEW c \in Clis, NEW r,
         cli' = [cli EXCEPT ![c] = r], InvocationInv(c, r)
  PROVE  SInv'
<1>1. IInv' /\ HistoryInv' /\ Grows
  BY NothingGrows
<1>2. InvocationInv(c, r)'
  BY <1>1, InvocationStays DEF SInv
<1> QED
  BY <1>1, <1>2, OneInvocationMoves

LEMMA NotInvokedType == NotInvoked \in Invocation
<1>1. 0 \in 0 .. MaxRuns /\ 1 \in Nat
  BY MaxRunsAssumption
<1>2. [d \in Docs |-> 0] \in [Docs -> 0 .. MaxRuns]
  BY <1>1
<1>3. << >> \in Listings \cup {<< >>} /\ {} \in SUBSET Docs
  OBVIOUS
<1>4. "idle" \in Phases /\ 0 \in {0, 1} /\ FALSE \in BOOLEAN
  BY DEF Phases
<1> QED
  BY <1>1, <1>2, <1>3, <1>4, Zenon DEF NotInvoked, Invocation, Latest

LEMMA ListKeeps ==
  ASSUME SInv, NEW c \in Clis, NEW keys \in Listings, List(c, keys)
  PROVE  SInv'
<1>1. cli[c] = NotInvoked
  BY DEF List, At, SInv, InvocationInv
<1>2. keys \in Seq(Docs) /\ Len(keys) \in Nat
  BY ListingsAssumption
<1>3. CASE keys = << >>
  <2>1. PICK r : r = Exit([cli[c] EXCEPT !.keys = keys], 1)
    OBVIOUS
  <2>2. r = [NotInvoked EXCEPT !.keys = << >>, !.phase = "exited", !.code = 1]
    BY <1>1, <1>3, <2>1 DEF Exit, NotInvoked
  <2>3. r \in Invocation
    BY <2>2, NotInvokedType DEF Invocation, Phases
  <2>4. r.phase = "exited" /\ r.code = 1 /\ r.keys = << >>
    BY <2>2 DEF NotInvoked
  <2>5. InvocationInv(c, r)
    BY <2>3, <2>4 DEF InvocationInv
  <2>6. cli' = [cli EXCEPT ![c] = r] /\ UNCHANGED <<wf, history>>
    BY <1>3, <2>1 DEF List
  <2> QED
    BY <2>5, <2>6, OneInvocationAlone
<1>4. CASE keys # << >>
  <2>1. PICK r : r = [[cli[c] EXCEPT !.keys = keys] EXCEPT !.phase = "starting"]
    OBVIOUS
  <2>2. r = [NotInvoked EXCEPT !.keys = keys, !.phase = "starting"]
    BY <1>1, <2>1 DEF NotInvoked
  <2>3. r \in Invocation
    BY <2>2, NotInvokedType DEF Invocation, Phases
  <2>4. /\ r.phase = "starting" /\ r.keys = keys /\ r.at = 1
        /\ r.failed = FALSE /\ r.started = {}
    BY <2>2 DEF NotInvoked
  <2>5. Len(keys) >= 1
    BY <1>2, <1>4
  <2>6. Starting(r)
    BY <1>2, <2>4, <2>5 DEF Starting
  <2>7. InvocationInv(c, r)
    BY <1>2, <2>3, <2>4, <2>5, <2>6 DEF InvocationInv
  <2>8. cli' = [cli EXCEPT ![c] = r] /\ UNCHANGED <<wf, history>>
    BY <1>4, <2>1 DEF List
  <2> QED
    BY <2>7, <2>8, OneInvocationAlone
<1> QED
  BY <1>3, <1>4

LEMMA AbortsKeeps ==
  ASSUME SInv, NEW c \in Clis, Aborts(c)
  PROVE  SInv'
<1>1. PICK q : q = cli[c]
  OBVIOUS
<1>2. InvocationInv(c, q) /\ q \in Invocation
  BY <1>1 DEF SInv, InvocationInv
<1>3. PICK r : r = Exit(q, 1)
  OBVIOUS
<1>4. r \in Invocation
  BY <1>2, <1>3 DEF Exit, Invocation, Phases
<1>5. /\ r.phase = "exited" /\ r.code = 1
      /\ r.keys = q.keys /\ r.at = q.at
  BY <1>2, <1>3 DEF Exit, Invocation
<1>6. q.phase \in {"idle", "starting", "waiting"}
  BY <1>1, <1>2 DEF Aborts, Invocation, Phases
<1>7. r.keys = << >> \/ r.at <= Len(r.keys)
  BY <1>2, <1>5, <1>6 DEF InvocationInv, NotInvoked
<1>8. InvocationInv(c, r)
  BY <1>4, <1>5, <1>7 DEF InvocationInv
<1>9. cli' = [cli EXCEPT ![c] = r] /\ UNCHANGED <<wf, history>>
  BY <1>1, <1>3 DEF Aborts
<1> QED
  BY <1>8, <1>9, OneInvocationAlone

-----------------------------------------------------------------------------
\* The end of one turn of the loop over the keys: another, or the first result
\* to await, or the end of an invocation that awaits none.
LEMMA DispatchedShape ==
  ASSUME NEW c, NEW q \in Invocation, q.phase = "starting",
         q.keys \in Listings, q.at \in 1 .. Len(q.keys)
  PROVE  \E r \in Invocation :
           /\ r = Dispatched(c, q)
           /\ r.keys = q.keys /\ r.handle = q.handle /\ r.since = q.since
           /\ r.started = q.started /\ r.failed = q.failed
           /\ \/ r.phase = "starting" /\ r.at = q.at + 1 /\ q.at < Len(q.keys)
              \/ r.phase = "waiting" /\ r.at = 1 /\ q.at = Len(q.keys)
              \/ r.phase = "exited" /\ c \notin Waiting
<1>1. Len(q.keys) \in Nat
  BY ListingsAssumption
<1>2. CASE q.at < Len(q.keys)
  <2>1. PICK r : r = [q EXCEPT !.at = q.at + 1]
    OBVIOUS
  <2>2. r = Dispatched(c, q)
    BY <1>2, <2>1 DEF Dispatched
  <2>3. r \in Invocation
    <3>1. q.at + 1 \in Nat
      BY <1>1
    <3> QED
      BY <2>1, <3>1, Zenon DEF Invocation
  <2>4. /\ r.keys = q.keys /\ r.handle = q.handle /\ r.since = q.since
        /\ r.started = q.started /\ r.failed = q.failed
        /\ r.phase = "starting" /\ r.at = q.at + 1
    BY <2>1 DEF Invocation
  <2> QED
    BY <1>2, <2>2, <2>3, <2>4
<1>3. CASE ~(q.at < Len(q.keys)) /\ c \in Waiting
  <2>1. PICK r : r = [q EXCEPT !.phase = "waiting", !.at = 1]
    OBVIOUS
  <2>2. r = Dispatched(c, q) /\ q.at = Len(q.keys)
    BY <1>1, <1>3, <2>1 DEF Dispatched
  <2>3. r \in Invocation
    <3>1. "waiting" \in Phases /\ 1 \in Nat
      BY DEF Phases
    <3> QED
      BY <2>1, <3>1, Zenon DEF Invocation
  <2>4. /\ r.keys = q.keys /\ r.handle = q.handle /\ r.since = q.since
        /\ r.started = q.started /\ r.failed = q.failed
        /\ r.phase = "waiting" /\ r.at = 1
    BY <2>1 DEF Invocation
  <2> QED
    BY <2>2, <2>3, <2>4
<1>4. CASE ~(q.at < Len(q.keys)) /\ c \notin Waiting
  <2>1. PICK r : r = [q EXCEPT !.phase = "exited", !.code = 0]
    OBVIOUS
  <2>2. r = Dispatched(c, q)
    BY <1>4, <2>1 DEF Dispatched, Exit
  <2>3. r \in Invocation
    BY <2>1 DEF Invocation, Phases
  <2>4. /\ r.keys = q.keys /\ r.handle = q.handle /\ r.since = q.since
        /\ r.started = q.started /\ r.failed = q.failed /\ r.phase = "exited"
    BY <2>1 DEF Invocation
  <2> QED
    BY <1>4, <2>2, <2>3, <2>4
<1> QED
  BY <1>2, <1>3, <1>4

\* Either answer to a start: the handle is the run's own, or none yet, and the
\* run behind it exists.
LEMMA DispatchKeeps ==
  ASSUME SInv, IInv', HistoryInv', Grows, NEW c \in Clis, At(c, "starting"),
         NEW d, d = Current(c), NEW n \in 0 .. MaxRuns, n <= wf'[d].run,
         NEW h, NEW S,
         \/ h = n /\ n # Latest /\ S = cli[c].started \cup {d}
         \/ h = Latest /\ S = cli[c].started,
         NEW q, q = [cli[c] EXCEPT !.handle[d] = h, !.since[d] = n,
                                   !.started = S],
         cli' = [cli EXCEPT ![c] = Dispatched(c, q)]
  PROVE  SInv'
<1>1. PICK p : p = cli[c]
  OBVIOUS
<1>2. /\ InvocationInv(c, p) /\ p \in Invocation /\ p.phase = "starting"
      /\ p.keys \in Listings /\ p.at \in 1 .. Len(p.keys) /\ Starting(p)
  BY <1>1 DEF SInv, InvocationInv, At
<1>3. /\ Len(p.keys) \in Nat
      /\ \A i \in 1 .. Len(p.keys) : p.keys[i] \in Docs
  BY <1>2, ListingsAssumption
<1>4. d = p.keys[p.at] /\ d \in Docs /\ d \notin p.started
  BY <1>1, <1>2, <1>3 DEF Current, Starting
<1>5. \A i \in 1 .. Len(p.keys) : i # p.at => p.keys[i] # d
  BY <1>2, <1>4, ListingsAssumption
<1>6. h \in 0 .. MaxRuns /\ n \in 0 .. MaxRuns /\ S \in SUBSET Docs
  BY <1>1, <1>2, <1>4, MaxRunsAssumption DEF Latest, Invocation
<1>7. /\ p.handle \in [Docs -> 0 .. MaxRuns] /\ p.since \in [Docs -> 0 .. MaxRuns]
      /\ q = [p EXCEPT !.handle = [p.handle EXCEPT ![d] = h],
                       !.since = [p.since EXCEPT ![d] = n],
                       !.started = S]
  BY <1>1, <1>2 DEF Invocation
<1>8. q \in Invocation
  <2>1. PICK H, N : /\ H = [p.handle EXCEPT ![d] = h]
                    /\ N = [p.since EXCEPT ![d] = n]
    OBVIOUS
  <2>2. H \in [Docs -> 0 .. MaxRuns] /\ N \in [Docs -> 0 .. MaxRuns]
    BY <1>6, <1>7, <2>1
  <2>3. q = [p EXCEPT !.handle = H, !.since = N, !.started = S]
    BY <1>7, <2>1
  <2> QED
    BY <1>2, <1>6, <2>2, <2>3 DEF Invocation
<1>9. /\ q.phase = "starting" /\ q.keys = p.keys /\ q.at = p.at
      /\ q.failed = p.failed /\ q.started = S
      /\ q.handle = [p.handle EXCEPT ![d] = h]
      /\ q.since = [p.since EXCEPT ![d] = n]
  BY <1>2, <1>7 DEF Invocation
<1>10. /\ q.handle[d] = h /\ q.since[d] = n
       /\ \A e \in Docs \ {d} : /\ q.handle[e] = p.handle[e]
                                /\ q.since[e] = p.since[e]
                                /\ e \in S <=> e \in p.started
  BY <1>1, <1>4, <1>7, <1>9
<1>11. Starting(p)'
  BY <1>2, InvocationStays DEF SInv, InvocationInv
<1>12. \A i \in 1 .. Len(p.keys) : i < p.at => Asked(q, p.keys[i])'
  BY <1>2, <1>3, <1>5, <1>9, <1>10, <1>11 DEF Starting, Asked
<1>13. Asked(q, d)'
  <2>1. wf'[d].run \in Nat
    BY <1>4 DEF Grows
  <2> QED
    BY <1>1, <1>4, <1>6, <1>9, <1>10, <2>1, MaxRunsAssumption DEF Asked, Latest
<1>14. \A i \in 1 .. Len(p.keys) : i <= p.at => Asked(q, p.keys[i])'
  BY <1>2, <1>3, <1>4, <1>12, <1>13
<1>15. \A i \in 1 .. Len(p.keys) : i > p.at => p.keys[i] \notin S
  BY <1>2, <1>3, <1>5, <1>10 DEF Starting
<1>16. /\ q.keys \in Listings /\ q.at \in 1 .. Len(q.keys)
       /\ q.phase = "starting"
  BY <1>2, <1>9
<1>17. PICK r \in Invocation :
         /\ r = Dispatched(c, q)
         /\ r.keys = q.keys /\ r.handle = q.handle /\ r.since = q.since
         /\ r.started = q.started /\ r.failed = q.failed
         /\ \/ r.phase = "starting" /\ r.at = q.at + 1 /\ q.at < Len(q.keys)
            \/ r.phase = "waiting" /\ r.at = 1 /\ q.at = Len(q.keys)
            \/ r.phase = "exited" /\ c \notin Waiting
  BY <1>8, <1>16, DispatchedShape
<1>18. /\ r.keys = p.keys /\ r.started = S /\ r.failed = p.failed
       /\ \/ r.phase = "starting" /\ r.at = p.at + 1 /\ p.at < Len(p.keys)
          \/ r.phase = "waiting" /\ r.at = 1 /\ p.at = Len(p.keys)
          \/ r.phase = "exited" /\ c \notin Waiting
  BY <1>9, <1>17
<1>19. \A i \in 1 .. Len(p.keys) : i <= p.at => Asked(r, p.keys[i])'
  BY <1>9, <1>14, <1>17, <1>18 DEF Asked
<1>20. CASE r.phase = "starting" /\ r.at = p.at + 1 /\ p.at < Len(p.keys)
  <2>1. Starting(r)'
    BY <1>2, <1>3, <1>15, <1>17, <1>18, <1>19, <1>20 DEF Starting
  <2>2. r.keys \in Listings /\ r.at \in 1 .. Len(r.keys)
    BY <1>2, <1>3, <1>17, <1>18, <1>20
  <2>3. InvocationInv(c, r)'
    BY <1>17, <1>18, <1>20, <2>1, <2>2 DEF InvocationInv
  <2> QED
    BY <1>17, <1>18, <2>3, OneInvocationMoves
<1>21. CASE r.phase = "waiting" /\ r.at = 1 /\ p.at = Len(p.keys)
  <2>1. Awaited(r)'
    BY <1>2, <1>3, <1>17, <1>18, <1>19, <1>21 DEF Awaited, Starting
  <2>2. r.keys \in Listings /\ r.at \in 1 .. Len(r.keys)
    BY <1>2, <1>3, <1>17, <1>18, <1>21
  <2>3. InvocationInv(c, r)'
    BY <1>17, <1>18, <1>21, <2>1, <2>2 DEF InvocationInv
  <2> QED
    BY <1>17, <1>18, <2>3, OneInvocationMoves
<1>22. CASE r.phase = "exited" /\ c \notin Waiting
  BY <1>17, <1>18, <1>22, OneInvocationMoves DEF InvocationInv
<1> QED
  BY <1>20, <1>21, <1>22, <1>18

LEMMA StartConversionKeeps ==
  ASSUME SInv, NEW c \in Clis, StartConversion(c)
  PROVE  SInv'
<1>1. PICK d : d = Current(c)
  OBVIOUS
<1>2. PICK n : n = wf[d].run + 1
  OBVIOUS
<1>3. At(c, "starting") /\ Start(d) /\ Recorded
  BY <1>1 DEF StartConversion
<1>4. d \in Docs
  BY <1>1, <1>3, ListingsAssumption DEF At, Current, SInv, InvocationInv
<1>5. IInv'
  BY <1>3, <1>4, StepKeeps DEF SInv, Step
<1>6. /\ wf'[d].run = n /\ n \in 1 .. MaxRuns /\ wf'[d].verdict = NoVerdict
      /\ \A e \in Docs \ {d} : wf'[e] = wf[e]
  BY <1>2, <1>3, <1>4, StartGrows DEF SInv
<1>7. HistoryInv' /\ Grows
  BY <1>2, <1>3, <1>5, <1>6, RecordGrows DEF SInv, RunGrows
<1>8. PICK q : q = [cli[c] EXCEPT !.handle[d] = n, !.since[d] = n,
                                  !.started = cli[c].started \cup {d}]
  OBVIOUS
<1>9. cli' = [cli EXCEPT ![c] = Dispatched(c, q)]
  BY <1>1, <1>2, <1>8 DEF StartConversion
<1>10. n \in 0 .. MaxRuns /\ n <= wf'[d].run /\ n # Latest
  BY <1>6, MaxRunsAssumption DEF Latest
<1> QED
  BY <1>1, <1>3, <1>5, <1>6, <1>7, <1>8, <1>9, <1>10, DispatchKeeps

LEMMA AlreadyRunningKeeps ==
  ASSUME SInv, NEW c \in Clis, AlreadyRunning(c)
  PROVE  SInv'
<1>1. PICK d : d = Current(c)
  OBVIOUS
<1>2. At(c, "starting") /\ Open(d) /\ UNCHANGED <<wf, history>>
  BY <1>1 DEF AlreadyRunning
<1>3. d \in Docs
  BY <1>1, <1>2, ListingsAssumption DEF At, Current, SInv, InvocationInv
<1>4. IInv' /\ HistoryInv' /\ Grows
  BY <1>2, NothingGrows
<1>5. PICK n : n = wf[d].run
  OBVIOUS
<1>6. n \in 0 .. MaxRuns /\ n <= wf'[d].run
  BY <1>2, <1>3, <1>5, MaxRunsAssumption DEF SInv, IInv, WorkflowState
<1>7. PICK q : q = [cli[c] EXCEPT !.handle[d] = Latest, !.since[d] = n,
                                  !.started = cli[c].started]
  OBVIOUS
<1>8. cli[c] \in Invocation
  BY DEF SInv
<1>9. q = [cli[c] EXCEPT !.handle[d] = Latest, !.since[d] = n]
  BY <1>7, <1>8 DEF Invocation
<1>10. cli' = [cli EXCEPT ![c] = Dispatched(c, q)]
  BY <1>1, <1>5, <1>9 DEF AlreadyRunning
<1> QED
  BY <1>1, <1>2, <1>4, <1>6, <1>7, <1>10, DispatchKeeps

\* The run a handle without one is resolved to is at least the one that was in
\* the way.
LEMMA AttachKeeps ==
  ASSUME SInv, NEW c \in Clis, Attach(c)
  PROVE  SInv'
<1>1. PICK p : p = cli[c]
  OBVIOUS
<1>2. /\ p \in Invocation /\ p.phase = "waiting"
      /\ p.keys \in Listings /\ p.at \in 1 .. Len(p.keys) /\ Awaited(p)
  BY <1>1 DEF SInv, InvocationInv, Attach, At
<1>3. PICK d : d = p.keys[p.at]
  OBVIOUS
<1>4. /\ Len(p.keys) \in Nat
      /\ \A i \in 1 .. Len(p.keys) : p.keys[i] \in Docs
      /\ \A i \in 1 .. Len(p.keys) : i # p.at => p.keys[i] # d
  BY <1>2, <1>3, ListingsAssumption
<1>5. PICK n : n = wf[d].run
  OBVIOUS
<1>6. d \in Docs /\ n \in 0 .. MaxRuns
  BY <1>2, <1>3, <1>4, <1>5 DEF SInv, IInv, WorkflowState
<1>7. PICK H : H = [p.handle EXCEPT ![d] = n]
  OBVIOUS
<1>8. /\ H \in [Docs -> 0 .. MaxRuns] /\ H[d] = n
      /\ \A e \in Docs \ {d} : H[e] = p.handle[e]
  BY <1>2, <1>6, <1>7 DEF Invocation
<1>9. PICK r : r = [p EXCEPT !.handle = H]
  OBVIOUS
<1>10. r \in Invocation
  BY <1>2, <1>8, <1>9, Zenon DEF Invocation
<1>11. /\ r.keys = p.keys /\ r.at = p.at /\ r.phase = p.phase
       /\ r.since = p.since /\ r.started = p.started /\ r.failed = p.failed
       /\ r.handle = H
  BY <1>2, <1>9 DEF Invocation
<1>12. p.handle[d] = Latest /\ UNCHANGED <<wf, history>>
  BY <1>1, <1>3 DEF Attach, Current
<1>13. Asked(r, d)
  <2>1. Asked(p, d)
    BY <1>2, <1>3 DEF Awaited
  <2> QED
    BY <1>5, <1>6, <1>8, <1>11, <1>12, <2>1, MaxRunsAssumption DEF Asked
<1>14. \A e \in Docs \ {d} :
         /\ Asked(p, e) => Asked(r, e)
         /\ Settled(p, e) => Settled(r, e)
         /\ Converted(p, e) <=> Converted(r, e)
  BY <1>8, <1>11 DEF Asked, Settled, Converted
<1>15. Awaited(r)
  <2>1. \A i \in 1 .. Len(p.keys) : Asked(r, p.keys[i])
    BY <1>2, <1>3, <1>4, <1>13, <1>14 DEF Awaited
  <2>2. \A i \in 1 .. Len(p.keys) : i < p.at =>
          /\ Settled(r, p.keys[i])
          /\ Converted(p, p.keys[i]) <=> Converted(r, p.keys[i])
    BY <1>2, <1>4, <1>14 DEF Awaited
  <2> QED
    BY <1>2, <1>11, <2>1, <2>2 DEF Awaited
<1>16. InvocationInv(c, r)
  BY <1>2, <1>10, <1>11, <1>15 DEF InvocationInv
<1>17. cli' = [cli EXCEPT ![c] = r]
  BY <1>1, <1>3, <1>5, <1>7, <1>9 DEF Attach, Current
<1> QED
  BY <1>12, <1>16, <1>17, OneInvocationAlone

\* A result heard settles its document and counts for the exit code.
LEMMA HearResultKeeps ==
  ASSUME SInv, NEW c \in Clis, HearResult(c)
  PROVE  SInv'
<1>1. PICK p : p = cli[c]
  OBVIOUS
<1>2. /\ p \in Invocation /\ p.phase = "waiting"
      /\ p.keys \in Listings /\ p.at \in 1 .. Len(p.keys) /\ Awaited(p)
  BY <1>1 DEF SInv, InvocationInv, HearResult, At
<1>3. PICK d : d = p.keys[p.at]
  OBVIOUS
<1>4. Len(p.keys) \in Nat
  BY <1>2, ListingsAssumption
<1>5. PICK f : f = (p.failed \/ history[d][p.handle[d]] # "Completed")
  OBVIOUS
<1>6. f \in BOOLEAN
  BY <1>5
<1>7. PICK q : q = [p EXCEPT !.at = p.at + 1, !.failed = f]
  OBVIOUS
<1>8. q \in Invocation
  <2>1. p.at + 1 \in Nat
    BY <1>2, <1>4
  <2> QED
    BY <1>2, <1>6, <1>7, <2>1, Zenon DEF Invocation
<1>9. /\ q.keys = p.keys /\ q.at = p.at + 1 /\ q.phase = p.phase
      /\ q.handle = p.handle /\ q.since = p.since /\ q.started = p.started
      /\ q.failed = f
  BY <1>2, <1>7 DEF Invocation
<1>10. /\ p.handle[d] # Latest /\ history[d][p.handle[d]] # NoVerdict
       /\ UNCHANGED <<wf, history>>
       /\ cli' = [cli EXCEPT ![c] = IF p.at < Len(p.keys) THEN q
                                    ELSE Exit(q, IF q.failed THEN 1 ELSE 0)]
  BY <1>1, <1>3, <1>5, <1>7 DEF HearResult, Current
<1>11. ASSUME NEW r, r.keys = q.keys, r.at = q.at, r.handle = q.handle,
              r.since = q.since, r.started = q.started, r.failed = q.failed
       PROVE  Awaited(r)
  <2>1. \A e \in Docs : /\ Asked(r, e) <=> Asked(p, e)
                        /\ Settled(r, e) <=> Settled(p, e)
                        /\ Converted(r, e) <=> Converted(p, e)
    BY <1>9, <1>11 DEF Asked, Settled, Converted
  <2>2. \A i \in 1 .. Len(p.keys) : p.keys[i] \in Docs
    BY <1>2, ListingsAssumption
  <2>3. Settled(p, d) /\ (r.failed <=> p.failed \/ ~Converted(p, d))
    BY <1>5, <1>6, <1>9, <1>10, <1>11 DEF Settled, Converted
  <2>4. \A i \in 1 .. Len(p.keys) : i < r.at <=> i < p.at \/ i = p.at
    BY <1>2, <1>4, <1>9, <1>11
  <2>5. \A i \in 1 .. Len(p.keys) : i < r.at => Settled(p, p.keys[i])
    BY <1>2, <1>3, <2>3, <2>4 DEF Awaited
  <2>6. r.failed <=> \E i \in 1 .. Len(p.keys) :
                       i < r.at /\ ~Converted(p, p.keys[i])
    BY <1>2, <1>3, <2>3, <2>4 DEF Awaited
  <2> QED
    BY <1>2, <1>9, <1>11, <2>1, <2>2, <2>5, <2>6 DEF Awaited
<1>12. CASE p.at < Len(p.keys)
  <2>1. q.at \in 1 .. Len(q.keys)
    BY <1>2, <1>4, <1>9, <1>12
  <2>2. InvocationInv(c, q)
    BY <1>2, <1>8, <1>9, <1>11, <2>1 DEF InvocationInv
  <2> QED
    BY <1>10, <1>12, <2>2, OneInvocationAlone
<1>13. CASE ~(p.at < Len(p.keys))
  <2>1. PICK k : k = IF q.failed THEN 1 ELSE 0
    OBVIOUS
  <2>2. PICK r : r = [q EXCEPT !.phase = "exited", !.code = k]
    OBVIOUS
  <2>3. r \in Invocation
    <3>1. "exited" \in Phases /\ k \in {0, 1}
      BY <2>1 DEF Phases
    <3> QED
      BY <1>8, <2>2, <3>1, Zenon DEF Invocation
  <2>4. /\ r.keys = q.keys /\ r.at = q.at /\ r.handle = q.handle
        /\ r.since = q.since /\ r.started = q.started /\ r.failed = q.failed
        /\ r.phase = "exited" /\ r.code = k
    BY <1>8, <2>2 DEF Invocation
  <2>5. Len(p.keys) >= 1 /\ p.at = Len(p.keys)
    BY <1>2, <1>4, <1>13
  <2>6. Finished(r)
    BY <1>2, <1>9, <1>11, <2>1, <2>4, <2>5 DEF Finished
  <2>7. InvocationInv(c, r)
    BY <2>3, <2>4, <2>6 DEF InvocationInv
  <2>8. cli' = [cli EXCEPT ![c] = r]
    BY <1>10, <1>13, <2>1, <2>2 DEF Exit
  <2> QED
    BY <1>10, <2>7, <2>8, OneInvocationAlone
<1> QED
  BY <1>12, <1>13

LEMMA WorkflowRunsKeeps ==
  ASSUME SInv, WorkflowRuns
  PROVE  SInv'
<1>1. PICK e \in Docs : Progress(e)
  BY DEF WorkflowRuns
<1>2. IInv'
  BY <1>1, StepKeeps DEF SInv, Step
<1>3. \A d \in Docs : RunGrows(d)
  BY <1>1, ProgressGrows DEF SInv, RunGrows
<1>4. HistoryInv' /\ Grows
  BY <1>2, <1>3, RecordGrows DEF SInv, WorkflowRuns
<1>5. cli' = cli
  BY DEF WorkflowRuns
<1>6. ASSUME NEW c \in Clis PROVE InvocationInv(c, cli[c])'
  <2>1. PICK r : r = cli[c]
    OBVIOUS
  <2>2. InvocationInv(c, r)'
    BY <1>4, <2>1, InvocationStays DEF SInv
  <2> QED
    BY <1>5, <2>1, <2>2
<1> QED
  BY <1>2, <1>4, <1>5, <1>6 DEF SInv

LEMMA StarterInitEstablishes == StarterInit => SInv
<1> SUFFICES ASSUME StarterInit PROVE SInv
  OBVIOUS
<1>1. IInv
  BY InitEstablishes DEF StarterInit
<1>2. \A d \in Docs : wf[d].run = 0
  BY DEF StarterInit, Init, FreshRun
<1>3. HistoryInv
  BY <1>2, MaxRunsAssumption DEF StarterInit, HistoryInv
<1>4. \A c \in Clis : cli[c] = NotInvoked
  BY DEF StarterInit
<1>5. cli \in [Clis -> Invocation]
  BY NotInvokedType DEF StarterInit
<1>6. NotInvoked.phase = "idle"
  BY DEF NotInvoked
<1>7. \A c \in Clis : InvocationInv(c, NotInvoked)
  BY <1>6, NotInvokedType DEF InvocationInv
<1> QED
  BY <1>1, <1>3, <1>4, <1>5, <1>7 DEF SInv

\* Every step of the command lines and the workflows keeps the invariant.
LEMMA StarterNextKeeps == SInv /\ [StarterNext]_starterVars => SInv'
<1> SUFFICES ASSUME SInv, [StarterNext]_starterVars PROVE SInv'
  OBVIOUS
<1>1. CASE WorkflowRuns
  BY <1>1, WorkflowRunsKeeps
<1>2. CASE \E c \in Clis : Invoked(c)
  BY <1>2, ListKeeps, StartConversionKeeps, AlreadyRunningKeeps, AttachKeeps,
     HearResultKeeps, AbortsKeeps DEF Invoked
<1>3. CASE UNCHANGED starterVars
  <2>1. cli' = cli /\ wf' = wf /\ history' = history
    BY <1>3 DEF starterVars
  <2>2. IInv' /\ HistoryInv' /\ Grows
    BY <2>1, NothingGrows
  <2>3. ASSUME NEW c \in Clis PROVE InvocationInv(c, cli[c])'
    <3>1. PICK r : r = cli[c]
      OBVIOUS
    <3>2. InvocationInv(c, r)'
      BY <2>2, <3>1, InvocationStays DEF SInv
    <3> QED
      BY <2>1, <3>1, <3>2
  <2> QED
    BY <2>1, <2>2, <2>3 DEF SInv
<1> QED
  BY <1>1, <1>2, <1>3 DEF StarterNext

LEMMA StarterInvariance == StarterSpec => []SInv
BY StarterInitEstablishes, StarterNextKeeps, PTL DEF StarterSpec

-----------------------------------------------------------------------------
\* An invocation that waited either finished, or exited before with 1.
LEMMA ExitedFinished ==
  ASSUME SInv, NEW c \in Waiting, cli[c].phase = "exited",
         cli[c].code = 0 \/ (Len(cli[c].keys) >= 1 /\ cli[c].at > Len(cli[c].keys))
  PROVE  Finished(cli[c])
<1>1. InvocationInv(c, cli[c])
  BY WaitingAssumption DEF SInv
<1>2. Len(cli[c].keys) \in Nat /\ (cli[c].keys = << >> => Len(cli[c].keys) = 0)
  BY <1>1, ListingsAssumption DEF InvocationInv, Invocation
<1>3. cli[c].at \in Nat
  BY <1>1 DEF InvocationInv, Invocation
<1> QED
  BY <1>1, <1>2, <1>3 DEF InvocationInv

\* What a finished invocation knows of every document it listed.
LEMMA FinishedKnows ==
  ASSUME SInv, NEW r, Finished(r)
  PROVE  /\ Len(r.keys) \in Nat
         /\ \A i \in 1 .. Len(r.keys) :
              /\ r.keys[i] \in Docs /\ Asked(r, r.keys[i])
              /\ Settled(r, r.keys[i])
         /\ r.code = 0 => \A i \in 1 .. Len(r.keys) : Converted(r, r.keys[i])
         /\ r.code = 1 => \E i \in 1 .. Len(r.keys) : ~Converted(r, r.keys[i])
<1>1. Len(r.keys) \in Nat /\ \A i \in 1 .. Len(r.keys) : r.keys[i] \in Docs
  BY ListingsAssumption DEF Finished
<1>2. \A i \in 1 .. Len(r.keys) : i < r.at
  BY <1>1 DEF Finished
<1> QED
  BY <1>1, <1>2 DEF Finished, Awaited

\* For any documents, any number of invocations next to each other and any
\* runs the others start, the exit code of `convert --wait` is the truth about
\* the documents it listed (starter.py:52-98).
THEOREM ExitCodesAreHonest == StarterSpec => []ExitCodeHonest
<1>1. SInv => ExitCodeHonest
  <2> SUFFICES ASSUME SInv, NEW c \in Waiting, cli[c].phase = "exited"
               PROVE  LET r == cli[c]
                          listed == 1 .. Len(r.keys)
                      IN  /\ r.code = 0 =>
                               /\ listed # {}
                               /\ \A i \in listed :
                                    /\ Answers(c, r.keys[i])
                                    /\ Ended(c, r.keys[i]) = "Completed"
                          /\ r.code = 1 /\ listed # {} /\ r.at > Len(r.keys) =>
                               \E i \in listed :
                                 Ended(c, r.keys[i]) \in Verdicts \ {"Completed"}
    BY DEF ExitCodeHonest
  <2>1. PICK r : r = cli[c]
    OBVIOUS
  <2>2. r \in Invocation
    BY <2>1, WaitingAssumption DEF SInv
  <2>3. Len(r.keys) \in Nat
    BY <2>2, ListingsAssumption DEF Invocation
  <2>4. \A d \in Docs :
          /\ Asked(r, d) /\ Settled(r, d) => Answers(c, d)
          /\ Converted(r, d) => Ended(c, d) = "Completed"
    BY <2>1 DEF Asked, Settled, Answers, Converted, Ended
  <2>5. ASSUME NEW d \in Docs, Asked(r, d), Settled(r, d), ~Converted(r, d)
        PROVE  Ended(c, d) \in Verdicts \ {"Completed"}
    <3>1. r.handle[d] \in 1 .. MaxRuns
      BY <2>2, <2>5, MaxRunsAssumption DEF Settled, Latest, Invocation
    <3>2. history[d][r.handle[d]] \in Verdicts \cup {NoVerdict}
      BY <3>1 DEF SInv, HistoryInv
    <3> QED
      BY <2>1, <2>5, <3>2 DEF Settled, Converted, Ended
  <2>6. CASE r.code = 0
    <3>1. Finished(r)
      BY <2>1, <2>6, ExitedFinished
    <3>2. /\ \A i \in 1 .. Len(r.keys) :
               /\ r.keys[i] \in Docs /\ Asked(r, r.keys[i])
               /\ Settled(r, r.keys[i]) /\ Converted(r, r.keys[i])
          /\ 1 \in 1 .. Len(r.keys)
      BY <2>3, <2>6, <3>1, FinishedKnows DEF Finished
    <3> QED
      BY <2>1, <2>4, <2>6, <3>2
  <2>7. CASE r.code = 1
    <3> SUFFICES ASSUME 1 .. Len(r.keys) # {}, r.at > Len(r.keys)
                 PROVE  \E i \in 1 .. Len(r.keys) :
                          Ended(c, r.keys[i]) \in Verdicts \ {"Completed"}
      BY <2>1, <2>7
    <3>1. Finished(r)
      BY <2>1, <2>3, ExitedFinished
    <3>2. PICK i \in 1 .. Len(r.keys) : ~Converted(r, r.keys[i])
      BY <2>7, <3>1, FinishedKnows
    <3>3. /\ r.keys[i] \in Docs /\ Asked(r, r.keys[i])
          /\ Settled(r, r.keys[i])
      BY <3>1, FinishedKnows
    <3> QED
      BY <2>5, <3>2, <3>3
  <2>8. r.code \in {0, 1}
    BY <2>2 DEF Invocation
  <2> QED
    BY <2>1, <2>6, <2>7, <2>8
<1> QED
  BY <1>1, StarterInvariance, PTL

\* Among command lines the workflows are still those of ConvertWorkflow, so
\* that whatever is proved of them holds here (dispatch.py:14-27).
THEOREM WorkflowsAmongStarters == StarterSpec => Spec
<1>1. StarterInit => Init
  BY DEF StarterInit
<1>2. SInv /\ [StarterNext]_starterVars => [Next]_vars
  <2> SUFFICES ASSUME SInv, [StarterNext]_starterVars PROVE [Next]_vars
    OBVIOUS
  <2>1. CASE WorkflowRuns
    BY <2>1 DEF WorkflowRuns, Next, Step
  <2>2. ASSUME NEW c \in Clis, StartConversion(c) PROVE Next
    <3>1. PICK d : d = Current(c)
      OBVIOUS
    <3>2. At(c, "starting") /\ Start(d)
      BY <2>2, <3>1 DEF StartConversion
    <3>3. d \in Docs
      BY <3>1, <3>2, ListingsAssumption DEF At, Current, SInv, InvocationInv
    <3> QED
      BY <3>2, <3>3 DEF Next, Step
  <2>3. ASSUME NEW c \in Clis, Invoked(c), ~StartConversion(c) PROVE wf' = wf
    BY <2>3 DEF Invoked, List, AlreadyRunning, Attach, HearResult, Aborts
  <2>4. CASE UNCHANGED starterVars
    BY <2>4 DEF starterVars, vars
  <2> QED
    BY <2>1, <2>2, <2>3, <2>4 DEF StarterNext, vars
<1> QED
  BY <1>1, <1>2, StarterInvariance, PTL DEF StarterSpec, Spec
=============================================================================
