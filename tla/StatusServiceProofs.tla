-------------------------- MODULE StatusServiceProofs --------------------------
(***************************************************************************)
(* Proofs that DoclingApi implements StatusService, for any calls,         *)
(* tenants, waits and bounds, and that its requests come to an answer.     *)
(*                                                                         *)
(* The refinement mapping forgets the awaits, so what an answer may say    *)
(* has to be known from where its call awaits.  Course is that knowledge:  *)
(* which kind of call comes by, whether its own task was admitted, whether *)
(* a status was read.  With it every step is a step of the service, or     *)
(* none of it.                                                             *)
(***************************************************************************)
EXTENDS DoclingApiProofs

Submits == {"sync", "async"}

\* What a call is that awaits at a place; admitted says whether the task it is
\* named after was.
Course(k, admitted) ==
  /\ k.phase = "enqueueing" => k.kind \in Submits
  /\ k.phase \in {"waiting", "sleeping"} => k.kind = "sync" /\ admitted
  /\ k.phase = "positioning" => \/ k.kind = "async" /\ admitted
                                \/ k.kind = "poll" /\ k.read \in Known
  /\ k.phase = "reading" => k.kind \in {"poll", "result"}
  /\ k.phase = "collecting" => k.kind \in {"sync", "result"}
  /\ k.phase \in {"greeting", "sending"} => k.read \in Known
  /\ k.phase \in Streaming \cup {"opening"} => k.kind = "stream"

\* A submit is about its own task, and nothing else is.
OwnTask(c, k) == k.phase # "idle" => (k.about = c <=> k.kind \in Submits)

RInv == \A c \in Calls : Course(call[c], task[c] # "none") /\ OwnTask(c, call[c])

-----------------------------------------------------------------------------
\* One call moves on to phase p, with what it has read and was told and how it
\* is answered.
Turn(c, p, read, told, response) ==
  /\ \A x \in Calls \ {c} : call'[x] = call[x]
  /\ call'[c].kind = call[c].kind
  /\ call'[c].tenant = call[c].tenant
  /\ call'[c].about = call[c].about
  /\ call'[c].phase = p
  /\ call'[c].read = read
  /\ call'[c].told = told
  /\ call'[c].response = response

\* ... having read nothing, and told nothing.
Moves(c, p) == Turn(c, p, call[c].read, call[c].told, call[c].response)
Ends(c, response) == Turn(c, "done", call[c].read, call[c].told, response)

LEMMA GoesMoves ==
  ASSUME IInv, NEW c \in Calls, NEW p, Goes(c, p)
  PROVE  Moves(c, p)
<1>1. call \in [Calls -> CallState] /\ call[c] \in CallState
  BY CallType
<1> QED
  BY <1>1 DEF Goes, Moves, Turn, CallState

LEMMA AnswersEnds ==
  ASSUME IInv, NEW c \in Calls, NEW r, Answers(c, r)
  PROVE  Ends(c, r)
<1>1. call \in [Calls -> CallState] /\ call[c] \in CallState
  BY CallType
<1> QED
  BY <1>1 DEF Answers, Ends, Turn, CallState

LEMMA SleepMoves ==
  ASSUME IInv, NEW c \in Calls,
         call' = [call EXCEPT ![c].phase = "waiting", ![c].polls = @ + 1]
  PROVE  Moves(c, "waiting") /\ call'[c].polls = call[c].polls + 1
<1>1. call \in [Calls -> CallState] /\ call[c] \in CallState
  BY CallType
<1> QED
  BY <1>1 DEF Moves, Turn, CallState

LEMMA ReadMoves ==
  ASSUME IInv, NEW c \in Calls, NEW p, NEW v,
         \/ call' = [call EXCEPT ![c].phase = p, ![c].read = v]
         \/ call' = [call EXCEPT ![c].read = v, ![c].phase = p]
  PROVE  Turn(c, p, v, call[c].told, call[c].response)
<1>1. call \in [Calls -> CallState] /\ call[c] \in CallState
  BY CallType
<1> QED
  BY <1>1 DEF Turn, CallState

LEMMA TellMoves ==
  ASSUME IInv, NEW c \in Calls, NEW p, NEW v,
         call' = [call EXCEPT ![c].phase = p, ![c].told = v]
  PROVE  Turn(c, p, call[c].read, v, call[c].response)
<1>1. call \in [Calls -> CallState] /\ call[c] \in CallState
  BY CallType
<1> QED
  BY <1>1 DEF Turn, CallState

LEMMA TellEnds ==
  ASSUME IInv, NEW c \in Calls, NEW r, NEW v,
         call' = [call EXCEPT ![c].phase = "done", ![c].response = r, ![c].told = v]
  PROVE  Turn(c, "done", call[c].read, v, r)
<1>1. call \in [Calls -> CallState] /\ call[c] \in CallState
  BY CallType
<1> QED
  BY <1>1 DEF Turn, CallState

-----------------------------------------------------------------------------
\* What the service sees of a step of one call.
Seen(c, standing, look) ==
  /\ [x \in Calls |-> StandingOf(call[x])]' =
       [[x \in Calls |-> StandingOf(call[x])] EXCEPT ![c] = standing]
  /\ [x \in Calls |-> LookOf(call[x])]' =
       [[x \in Calls |-> LookOf(call[x])] EXCEPT ![c] = look]

ToldSeen(c, told) ==
  [x \in Calls |-> call[x].told]' = [[x \in Calls |-> call[x].told] EXCEPT ![c] = told]

AnswerSeen(c, response) ==
  [x \in Calls |-> call[x].response]' =
    [[x \in Calls |-> call[x].response] EXCEPT ![c] = response]

LEMMA TurnSeen ==
  ASSUME NEW c \in Calls, NEW p, NEW read, NEW told, NEW response,
         Turn(c, p, read, told, response)
  PROVE  /\ UNCHANGED SS!record
         /\ Seen(c, StandingOf(call'[c]), LookOf(call'[c]))
         /\ ToldSeen(c, told) /\ AnswerSeen(c, response)
<1>1. /\ \A x \in Calls : x # c => call'[x] = call[x]
      /\ call'[c].tenant = call[c].tenant /\ call'[c].kind = call[c].kind
      /\ call'[c].about = call[c].about
      /\ call'[c].told = told /\ call'[c].response = response
  BY DEF Turn
<1>2. UNCHANGED SS!record
  <2>1. \A x \in Calls : /\ call'[x].tenant = call[x].tenant
                         /\ call'[x].kind = call[x].kind
                         /\ call'[x].about = call[x].about
    BY <1>1
  <2>2. /\ [x \in Calls |-> call'[x].tenant] = [x \in Calls |-> call[x].tenant]
        /\ [x \in Calls |-> call'[x].kind] = [x \in Calls |-> call[x].kind]
        /\ [x \in Calls |-> call'[x].about] = [x \in Calls |-> call[x].about]
    BY <2>1
  <2> QED
    BY <2>2 DEF SS!record
<1>3. Seen(c, StandingOf(call'[c]), LookOf(call'[c]))
  <2>1. [x \in Calls |-> StandingOf(call'[x])] =
          [[x \in Calls |-> StandingOf(call[x])] EXCEPT ![c] = StandingOf(call'[c])]
    BY <1>1
  <2>2. [x \in Calls |-> LookOf(call'[x])] =
          [[x \in Calls |-> LookOf(call[x])] EXCEPT ![c] = LookOf(call'[c])]
    BY <1>1
  <2> QED
    BY <2>1, <2>2 DEF Seen, StandingOf, LookOf
<1>4. /\ [x \in Calls |-> call'[x].told] =
           [[x \in Calls |-> call[x].told] EXCEPT ![c] = told]
      /\ [x \in Calls |-> call'[x].response] =
           [[x \in Calls |-> call[x].response] EXCEPT ![c] = response]
  BY <1>1
<1> QED
  BY <1>2, <1>3, <1>4 DEF ToldSeen, AnswerSeen

-----------------------------------------------------------------------------
\* The words of the two modules are the same.
LEMMA SameWords ==
  /\ SS!Known = Known /\ SS!Ended = Ended
  /\ SS!Nothing = Nothing /\ SS!NoResponse = NoResponse
  /\ SS!Submits = Submits
BY DEF SS!Known, SS!Ended, SS!Nothing, SS!NoResponse, SS!Submits,
       Known, Ended, Nothing, NoResponse, Submits

\* A step that only moves on to another await is none of the service.
LEMMA NoneOfTheService ==
  ASSUME NEW c \in Calls, NEW p, NEW read,
         Turn(c, p, read, call[c].told, call[c].response),
         StandingOf(call'[c]) = StandingOf(call[c]), LookOf(call'[c]) = LookOf(call[c]),
         UNCHANGED <<task, outcome>>
  PROVE  UNCHANGED SS!service
<1>1. \A x \in Calls : /\ call'[x].tenant = call[x].tenant
                       /\ call'[x].kind = call[x].kind
                       /\ call'[x].about = call[x].about
                       /\ StandingOf(call'[x]) = StandingOf(call[x])
                       /\ LookOf(call'[x]) = LookOf(call[x])
                       /\ call'[x].told = call[x].told
                       /\ call'[x].response = call[x].response
  BY DEF Turn
<1>2. /\ [x \in Calls |-> call'[x].tenant] = [x \in Calls |-> call[x].tenant]
      /\ [x \in Calls |-> call'[x].kind] = [x \in Calls |-> call[x].kind]
      /\ [x \in Calls |-> call'[x].about] = [x \in Calls |-> call[x].about]
      /\ [x \in Calls |-> call'[x].told] = [x \in Calls |-> call[x].told]
      /\ [x \in Calls |-> call'[x].response] = [x \in Calls |-> call[x].response]
  BY <1>1
<1>3. /\ [x \in Calls |-> StandingOf(call'[x])] = [x \in Calls |-> StandingOf(call[x])]
      /\ [x \in Calls |-> LookOf(call'[x])] = [x \in Calls |-> LookOf(call[x])]
  BY <1>1
<1> QED
  BY <1>2, <1>3 DEF SS!service, StandingOf, LookOf

LEMMA ItIsOver ==
  ASSUME NEW c \in Calls, NEW read, NEW told, NEW r,
         Turn(c, "done", read, told, r), UNCHANGED <<task, outcome>>
  PROVE  SS!Over(c, r) /\ ToldSeen(c, told)
<1>1. call'[c].phase = "done"
  BY DEF Turn
<1>2. StandingOf(call'[c]) = "over" /\ LookOf(call'[c]) = SS!Nothing
  BY <1>1, Names, SameWords DEF StandingOf, LookOf
<1>3. Seen(c, "over", SS!Nothing)
  BY <1>2, TurnSeen
<1>4. UNCHANGED SS!record /\ ToldSeen(c, told) /\ AnswerSeen(c, r)
  BY TurnSeen
<1>5. SS!Over(c, r)
  BY <1>3, <1>4 DEF Seen, AnswerSeen, SS!Over, SS!tasks
<1> QED
  BY <1>4, <1>5

\* ... without another word.
LEMMA ItIsOverSilently ==
  ASSUME NEW c \in Calls, NEW r, Ends(c, r), UNCHANGED <<task, outcome>>
  PROVE  SS!Over(c, r) /\ UNCHANGED [x \in Calls |-> call[x].told]
<1>1. SS!Over(c, r)
  BY ItIsOver DEF Ends
<1>2. \A x \in Calls : call'[x].told = call[x].told
  BY DEF Ends, Turn
<1> QED
  BY <1>1, <1>2

\* What the service reads of a call.
LEMMA Readings ==
  ASSUME IInv, NEW c \in Calls
  PROVE  /\ SS!Now(c) = Target(c)
         /\ SS!Mine(c) <=> call[call[c].about].tenant = call[c].tenant
         /\ SS!Kept(c) = OutcomeOf(c)
         /\ [x \in Calls |-> call[x].kind][c] = call[c].kind
         /\ SS!Submitting(c) <=> call[c].kind \in Submits
         /\ SS!Collecting(c) <=> call[c].kind \in {"sync", "result"}
         /\ [x \in Calls |-> StandingOf(call[x])][c] = StandingOf(call[c])
         /\ [x \in Calls |-> LookOf(call[x])][c] = LookOf(call[c])
<1>1. call[c].about \in Calls
  BY CallType DEF CallState
<1> QED
  BY <1>1, SameWords DEF SS!Now, SS!Mine, SS!Kept, SS!Submitting, SS!Collecting,
                         Target, OutcomeOf

LEMMA Stated ==
  ASSUME IInv, NEW c \in Calls, NEW r \in SS!Answers, Ends(c, r),
         StandingOf(call[c]) = "open", SS!Facts(c, r), UNCHANGED <<task, outcome>>
  PROVE  SS!Next
<1>1. SS!State(c, r)
  BY Readings, ItIsOverSilently DEF SS!State
<1> QED
  BY <1>1 DEF SS!Next, SS!Step

LEMMA HungUp ==
  ASSUME IInv, NEW c \in Calls, NEW r \in {"vanished", "left"}, Ends(c, r),
         StandingOf(call[c]) = "streaming", r = "vanished" => Target(c) = "gone",
         UNCHANGED <<task, outcome>>
  PROVE  SS!Next
<1>1. SS!Hangup(c, r)
  BY Readings, ItIsOverSilently DEF SS!Hangup
<1>2. r \in SS!Answers
  BY DEF SS!Answers
<1> QED
  BY <1>1, <1>2 DEF SS!Next, SS!Step

LEMMA WasBusy ==
  ASSUME IInv, NEW c \in Calls, Ends(c, "busy"), UNCHANGED <<task, outcome>>,
         StandingOf(call[c]) \in {"open", "streaming"}
  PROVE  SS!Next
<1>1. SS!Busy(c)
  BY Readings, ItIsOverSilently DEF SS!Busy
<1> QED
  BY <1>1 DEF SS!Next, SS!Step

\* The call ends with the status it saw.
LEMMA Reported ==
  ASSUME IInv, NEW c \in Calls, NEW r,
         Turn(c, "done", call[c].read, call[c].read, r), UNCHANGED <<task, outcome>>,
         LookOf(call[c]) = call[c].read, call[c].read \in Known,
         \/ StandingOf(call[c]) = "open" /\ r = "status"
         \/ StandingOf(call[c]) = "streaming" /\ r = "closed" /\ call[c].read \in Ended
  PROVE  SS!Next
<1>1. call[c].read # SS!Nothing
  BY DEF Known, Ended, SS!Nothing
<1>2. SS!Report(c)
  BY <1>1, Readings, SameWords, ItIsOver DEF ToldSeen, SS!Report
<1> QED
  BY <1>2 DEF SS!Next, SS!Step

LEMMA LookedAt ==
  ASSUME IInv, NEW c \in Calls, NEW p, NEW as \in {"open", "streaming"},
         Turn(c, p, Target(c), call[c].told, call[c].response), UNCHANGED <<task, outcome>>,
         StandingOf(call[c]) \in {"open", as},
         call[c].kind = IF as = "streaming" THEN "stream" ELSE "poll", Visible(c),
         StandingOf(call'[c]) = as, LookOf(call'[c]) = Target(c)
  PROVE  SS!Next
<1>1. \A x \in Calls : call'[x].told = call[x].told /\ call'[x].response = call[x].response
  BY DEF Turn
<1>2. /\ UNCHANGED [x \in Calls |-> call[x].told]
      /\ UNCHANGED [x \in Calls |-> call[x].response]
  BY <1>1
<1>3. SS!Look(c, as)
  <2>1. Seen(c, as, SS!Now(c))
    <3>1. SS!Now(c) = Target(c)
      BY Readings
    <3>2. Seen(c, as, Target(c))
      BY TurnSeen
    <3> QED
      BY <3>1, <3>2
  <2>2. UNCHANGED SS!record
    BY TurnSeen
  <2>3. /\ SS!Mine(c) /\ SS!Now(c) \in SS!Known
        /\ [x \in Calls |-> StandingOf(call[x])][c] \in {"open", as}
        /\ [x \in Calls |-> call[x].kind][c] = IF as = "streaming" THEN "stream" ELSE "poll"
    BY Readings, SameWords DEF Visible
  <2> QED
    BY <1>2, <2>1, <2>2, <2>3 DEF Seen, SS!Look, SS!tasks
<1> QED
  BY <1>3 DEF SS!Next, SS!Step

LEMMA Told ==
  ASSUME IInv, NEW c \in Calls, NEW p,
         Turn(c, p, call[c].read, call[c].read, call[c].response), UNCHANGED <<task, outcome>>,
         StandingOf(call[c]) = "streaming", LookOf(call[c]) = call[c].read,
         call[c].read \in Known,
         StandingOf(call'[c]) = "streaming", LookOf(call'[c]) = Nothing
  PROVE  SS!Next
<1>1. call[c].read # SS!Nothing
  BY DEF Known, Ended, SS!Nothing
<1>2. \A x \in Calls : /\ StandingOf(call'[x]) = StandingOf(call[x])
                       /\ call'[x].response = call[x].response
  BY DEF Turn
<1>3. /\ [x \in Calls |-> StandingOf(call'[x])] = [x \in Calls |-> StandingOf(call[x])]
      /\ UNCHANGED [x \in Calls |-> call[x].response]
  BY <1>2
<1>4. SS!Tell(c)
  <2>1. Seen(c, "streaming", SS!Nothing)
    BY TurnSeen, SameWords
  <2>2. UNCHANGED SS!record
    BY TurnSeen
  <2>3. /\ [x \in Calls |-> StandingOf(call[x])][c] = "streaming"
        /\ [x \in Calls |-> LookOf(call[x])][c] = call[c].read
    BY Readings
  <2>4. ToldSeen(c, call[c].read)
    BY DEF Turn, ToldSeen
  <2>5. UNCHANGED [x \in Calls |-> StandingOf(call[x])]
    BY <1>3 DEF StandingOf
  <2> QED
    BY <1>1, <1>3, <2>1, <2>2, <2>3, <2>4, <2>5 DEF Seen, ToldSeen, SS!Tell,
         SS!tasks
<1> QED
  BY <1>4 DEF SS!Next, SS!Step

-----------------------------------------------------------------------------
\* Every step keeps the calls on their course, and is a step of the service.
Serves == RInv' /\ [SS!Next]_(SS!service)

LEMMA OnCourse ==
  ASSUME RInv, NEW c \in Calls, NEW p, NEW read, NEW told, NEW response,
         Turn(c, p, read, told, response), UNCHANGED <<task, outcome>>,
         call[c].phase # "idle", Course(call'[c], task[c] # "none")
  PROVE  RInv'
<1> SUFFICES ASSUME NEW x \in Calls
             PROVE  Course(call'[x], task'[x] # "none") /\ OwnTask(x, call'[x])
  BY DEF RInv, Course, OwnTask
<1>1. CASE x = c
  BY <1>1 DEF Turn, RInv, OwnTask
<1>2. CASE x # c
  BY <1>2 DEF Turn, RInv
<1> QED
  BY <1>1, <1>2

\* Over, a call has no course to keep.
LEMMA EndedOnCourse ==
  ASSUME RInv, NEW c \in Calls, NEW read, NEW told, NEW response,
         Turn(c, "done", read, told, response), call[c].phase # "idle",
         UNCHANGED <<task, outcome>>
  PROVE  RInv'
<1>1. Course(call'[c], task[c] # "none")
  BY Names DEF Turn, Course
<1> QED
  BY <1>1, OnCourse

LEMMA EndsOnCourse ==
  ASSUME RInv, NEW c \in Calls, NEW response,
         Ends(c, response), UNCHANGED <<task, outcome>>, call[c].phase # "idle"
  PROVE  RInv'
BY EndedOnCourse DEF Ends

LEMMA Standings ==
  ASSUME NEW k
  PROVE  /\ k.phase = "idle" => StandingOf(k) = "idle"
         /\ k.phase \in Streaming => StandingOf(k) = "streaming"
         /\ k.phase \in Awaiting \ Streaming => StandingOf(k) = "open"
<1>1. k.phase \in Streaming \cup Awaiting => k.phase \notin {"idle", "done"}
  BY DEF Streaming, Awaiting
<1>2. ASSUME k.phase = "idle" PROVE StandingOf(k) = "idle"
  BY <1>2 DEF StandingOf, Streaming
<1>3. k.phase \in Streaming => StandingOf(k) = "streaming"
  BY <1>1 DEF StandingOf
<1>4. ASSUME k.phase \in Awaiting \ Streaming PROVE StandingOf(k) = "open"
  <2>1. k.phase # "idle" /\ k.phase # "done" /\ k.phase \notin Streaming
    BY <1>1, <1>4
  <2> QED
    BY <2>1 DEF StandingOf
<1> QED
  BY <1>2, <1>3, <1>4

LEMMA Looks ==
  ASSUME NEW k
  PROVE  /\ k.phase \in {"greeting", "sending"} => LookOf(k) = k.read
         /\ k.phase = "positioning" /\ k.kind = "poll" => LookOf(k) = k.read
         /\ k.phase \notin {"greeting", "sending", "positioning"} => LookOf(k) = Nothing
         /\ k.phase = "positioning" /\ k.kind # "poll" => LookOf(k) = Nothing
BY DEF LookOf

Own(c) == call[call[c].about].tenant = call[c].tenant

LEMMA FactsStated ==
  ASSUME IInv, NEW c \in Calls
  PROVE  /\ SS!Facts(c, "accepted") <=> call[c].kind = "async" /\ Target(c) \in Known
         /\ SS!Facts(c, "result") <=>
              call[c].kind \in {"sync", "result"} /\ Own(c) /\ OutcomeOf(c) = "success"
         /\ SS!Facts(c, "failed") <=>
              call[c].kind = "result" /\ Own(c) /\ OutcomeOf(c) = "failure"
         /\ SS!Facts(c, "notFound") <=>
              \/ call[c].kind \in {"poll", "result"} /\ (~Own(c) \/ Target(c) \notin Known)
              \/ call[c].kind \in {"sync", "result"} /\ OutcomeOf(c) = Nothing
              \/ call[c].kind = "sync" /\ OutcomeOf(c) = "failure"
         /\ SS!Facts(c, "refused") <=>
              call[c].kind = "stream" /\ (~Own(c) \/ Target(c) \notin Known)
         /\ SS!Facts(c, "invalid") <=> call[c].kind \in Submits /\ Target(c) = "none"
         /\ SS!Facts(c, "full") <=> call[c].kind \in Submits /\ Target(c) = "none"
         /\ SS!Facts(c, "error") <=> call[c].kind \in Submits /\ Target(c) = "gone"
         /\ SS!Facts(c, "timeout") <=> call[c].kind = "sync" /\ Target(c) # "none"
BY Readings, SameWords DEF SS!Facts, Own

\* Opening a call; a submit is about itself from the start.
LEMMA Opens ==
  ASSUME IInv, RInv, NEW c \in Calls, NEW kind, NEW r \in Calls, NEW p \in Awaiting \ Streaming,
         Idle(c),
         call' = [call EXCEPT ![c] = [call[c] EXCEPT !.kind = kind, !.about = r, !.phase = p]],
         r = c <=> kind \in Submits,
         \/ p = "enqueueing" /\ kind \in Submits
         \/ p = "reading" /\ kind \in {"poll", "result"}
         \/ p = "opening" /\ kind = "stream",
         UNCHANGED <<task, outcome>>
  PROVE  Serves
<1>1. call \in [Calls -> CallState] /\ call[c] \in CallState
  BY CallType
<1>2. /\ \A x \in Calls \ {c} : call'[x] = call[x]
      /\ call'[c].kind = kind /\ call'[c].about = r /\ call'[c].phase = p
      /\ call'[c].tenant = call[c].tenant /\ call'[c].told = call[c].told
      /\ call'[c].response = call[c].response
  BY <1>1 DEF CallState
<1>3. RInv'
  <2> SUFFICES ASSUME NEW x \in Calls
               PROVE  Course(call'[x], task'[x] # "none") /\ OwnTask(x, call'[x])
    BY DEF RInv, Course, OwnTask
  <2>1. CASE x = c
    BY <2>1, <1>2 DEF Course, OwnTask, Streaming, Submits
  <2>2. CASE x # c
    BY <2>2, <1>2 DEF RInv
  <2> QED
    BY <2>1, <2>2
<1>4. /\ StandingOf(call[c]) = "idle" /\ LookOf(call[c]) = Nothing
      /\ StandingOf(call'[c]) = "open" /\ LookOf(call'[c]) = Nothing
  BY <1>2, Standings, Looks DEF Idle
<1>5. /\ UNCHANGED [x \in Calls |-> call[x].tenant]
      /\ UNCHANGED [x \in Calls |-> call[x].told]
      /\ UNCHANGED [x \in Calls |-> call[x].response]
  <2>1. \A x \in Calls : /\ call'[x].tenant = call[x].tenant
                         /\ call'[x].told = call[x].told
                         /\ call'[x].response = call[x].response
    BY <1>2
  <2> QED
    BY <2>1
<1>6. /\ [x \in Calls |-> call'[x].about] = [[x \in Calls |-> call[x].about] EXCEPT ![c] = r]
      /\ [x \in Calls |-> call'[x].kind] = [[x \in Calls |-> call[x].kind] EXCEPT ![c] = kind]
  <2>1. \A x \in Calls : /\ call'[x].about = IF x = c THEN r ELSE call[x].about
                         /\ call'[x].kind = IF x = c THEN kind ELSE call[x].kind
    BY <1>2
  <2> QED
    BY <2>1
<1>7. Seen(c, "open", Nothing) /\ UNCHANGED [x \in Calls |-> LookOf(call[x])]
  <2>1. \A x \in Calls :
          /\ StandingOf(call'[x]) = IF x = c THEN "open" ELSE StandingOf(call[x])
          /\ LookOf(call'[x]) = IF x = c THEN Nothing ELSE LookOf(call[x])
          /\ LookOf(call'[x]) = LookOf(call[x])
    <3> SUFFICES ASSUME NEW x \in Calls
                 PROVE  /\ StandingOf(call'[x]) = IF x = c THEN "open" ELSE StandingOf(call[x])
                        /\ LookOf(call'[x]) = IF x = c THEN Nothing ELSE LookOf(call[x])
                        /\ LookOf(call'[x]) = LookOf(call[x])
      OBVIOUS
    <3>1. CASE x = c
      BY <3>1, <1>4
    <3>2. CASE x # c
      <4>1. call'[x] = call[x]
        BY <3>2, <1>2
      <4> QED
        BY <3>2, <4>1
    <3> QED
      BY <3>1, <3>2
  <2>2. [x \in Calls |-> StandingOf(call'[x])] =
          [[x \in Calls |-> StandingOf(call[x])] EXCEPT ![c] = "open"]
    BY <2>1
  <2>3. [x \in Calls |-> LookOf(call'[x])] =
          [[x \in Calls |-> LookOf(call[x])] EXCEPT ![c] = Nothing]
    BY <2>1
  <2>4. [x \in Calls |-> LookOf(call'[x])] = [x \in Calls |-> LookOf(call[x])]
    BY <2>1
  <2> QED
    BY <2>2, <2>3, <2>4 DEF Seen, StandingOf, LookOf
<1>8. SS!Open(c, r, kind)
  BY <1>4, <1>5, <1>6, <1>7, Readings, SameWords DEF Seen, SS!Open, SS!tasks
<1>9. kind \in SS!Submits \cup SS!Questions
  BY SameWords DEF SS!Questions
<1> QED
  BY <1>3, <1>8, <1>9 DEF Serves, SS!Next, SS!Step

LEMMA SubmitServes ==
  ASSUME IInv, RInv, NEW c \in Calls, NEW kind \in Submits, Submit(c, kind)
  PROVE  Serves
<1>1. Idle(c) /\ call[c].about = c /\ UNCHANGED <<task, outcome>>
  BY DEF Submit, IInv, Fresh, orchestrator
<1>2. call' = [call EXCEPT ![c] = [call[c] EXCEPT !.kind = kind, !.about = c,
                                                 !.phase = "enqueueing"]]
  BY <1>1, CallType DEF Submit, CallState
<1>3. "enqueueing" \in Awaiting \ Streaming
  BY DEF Awaiting, Streaming
<1> QED
  BY <1>1, <1>2, <1>3, Opens

LEMMA AskServes ==
  ASSUME IInv, RInv, NEW c \in Calls, NEW r \in Calls \ {c},
         NEW kind \in {"poll", "result", "stream"}, Ask(c, r, kind)
  PROVE  Serves
<1> DEFINE p == IF kind = "stream" THEN "opening" ELSE "reading"
<1>1. /\ Idle(c) /\ UNCHANGED <<task, outcome>>
      /\ call' = [call EXCEPT ![c] = [call[c] EXCEPT !.kind = kind, !.about = r, !.phase = p]]
  BY DEF Ask, orchestrator
<1>2. p \in Awaiting \ Streaming /\ kind \notin Submits
  BY DEF Awaiting, Streaming, Submits
<1>3. CASE kind = "stream"
  <2>1. p = "opening"
    BY <1>3
  <2> QED
    BY <1>1, <1>2, <1>3, <2>1, Opens
<1>4. CASE kind # "stream"
  <2>1. p = "reading" /\ kind \in {"poll", "result"}
    BY <1>4
  <2> QED
    BY <1>1, <1>2, <2>1, Opens
<1> QED
  BY <1>3, <1>4

\* What every await knows of its call.
LEMMA Knows ==
  ASSUME IInv, RInv, NEW c \in Calls
  PROVE  /\ call[c] \in CallState /\ call[c].about \in Calls
         /\ Course(call[c], task[c] # "none") /\ OwnTask(c, call[c])
         /\ task[c] \in Known \cup {"none", "gone"}
         /\ Target(c) \in Known \cup {"none", "gone"}
         /\ call[c].about = c => Target(c) = task[c]
         /\ call[c].phase \notin {"reading", "opening", "done"} =>
              call[call[c].about].tenant = call[c].tenant
<1>1. call[c] \in CallState /\ call[c].about \in Calls
  BY CallType DEF CallState
<1>2. task \in [Calls -> Known \cup {"none", "gone"}]
  BY CallType DEF OthersTyped
<1>3. call[c].phase \notin {"reading", "opening", "done"} =>
        call[call[c].about].tenant = call[c].tenant
  BY PastTheCheck DEF Foreign
<1> QED
  BY <1>1, <1>2, <1>3 DEF RInv, Target

\* Where the awaits stand.
LEMMA Places ==
  /\ {"enqueueing", "positioning", "waiting", "sleeping", "reading", "collecting",
      "opening"} \subseteq Awaiting \ Streaming
  /\ {"greeting", "refreshing", "sending", "listening"} = Streaming
BY DEF Awaiting, Streaming

LEMMA EnqueuedServes ==
  ASSUME IInv, TInv, RInv, NEW c \in Calls, Enqueued(c)
  PROVE  Serves
<1>1. /\ call[c].phase = "enqueueing" /\ call[c].kind \in Submits
      /\ call[c].about = c /\ task[c] = "none"
  BY Knows DEF Enqueued, Course, OwnTask, TInv, NotYet
<1>2. PICK p \in {"waiting", "positioning"} :
        /\ Moves(c, p)
        /\ p = "waiting" => call[c].kind = "sync"
        /\ p = "positioning" => call[c].kind = "async"
  <2>1. CASE call[c].kind = "sync"
    BY <2>1, GoesMoves DEF Enqueued
  <2>2. CASE call[c].kind = "async"
    BY <2>2, GoesMoves DEF Enqueued
  <2> QED
    BY <1>1, <2>1, <2>2 DEF Submits
<1>3. /\ task' = [task EXCEPT ![c] = "pending"]
      /\ task'[c] = "pending" /\ \A x \in Calls : x # c => task'[x] = task[x]
      /\ UNCHANGED outcome
  BY CallType DEF Enqueued, OthersTyped
<1>4. RInv'
  <2> SUFFICES ASSUME NEW x \in Calls
               PROVE  Course(call'[x], task'[x] # "none") /\ OwnTask(x, call'[x])
    BY DEF RInv, Course, OwnTask
  <2>1. CASE x = c
    BY <2>1, <1>1, <1>2, <1>3, Places DEF Moves, Turn, Course, OwnTask, Submits
  <2>2. CASE x # c
    BY <2>2, <1>2, <1>3 DEF Moves, Turn, RInv
  <2> QED
    BY <2>1, <2>2
<1>5. /\ StandingOf(call[c]) = "open" /\ LookOf(call[c]) = Nothing
      /\ StandingOf(call'[c]) = "open" /\ LookOf(call'[c]) = Nothing
  BY <1>1, <1>2, Places, Standings, Looks DEF Moves, Turn
<1>6. \A x \in Calls : /\ call'[x].told = call[x].told /\ call'[x].response = call[x].response
                       /\ StandingOf(call'[x]) = StandingOf(call[x])
                       /\ LookOf(call'[x]) = LookOf(call[x])
  BY <1>2, <1>5 DEF Moves, Turn
<1>7. /\ UNCHANGED [x \in Calls |-> call[x].told]
      /\ UNCHANGED [x \in Calls |-> call[x].response]
  BY <1>6
<1>8. /\ UNCHANGED [x \in Calls |-> StandingOf(call[x])]
      /\ UNCHANGED [x \in Calls |-> LookOf(call[x])]
  <2>1. /\ [x \in Calls |-> StandingOf(call'[x])] = [x \in Calls |-> StandingOf(call[x])]
        /\ [x \in Calls |-> LookOf(call'[x])] = [x \in Calls |-> LookOf(call[x])]
    BY <1>6
  <2> QED
    BY <2>1 DEF StandingOf, LookOf
<1>9. UNCHANGED SS!record
  BY <1>2, TurnSeen DEF Moves
<1>10. SS!Admit(c)
  BY <1>1, <1>3, <1>5, <1>7, <1>8, <1>9, Readings DEF SS!Admit, SS!Lives
<1> QED
  BY <1>4, <1>10 DEF Serves, SS!Next, SS!Step

LEMMA EnqueueRefusedServes ==
  ASSUME IInv, TInv, RInv, NEW c \in Calls, NEW r \in {"invalid", "full", "busy"},
         EnqueueRefused(c, r)
  PROVE  Serves
<1>1. /\ call[c].phase = "enqueueing" /\ call[c].kind \in Submits /\ Target(c) = "none"
      /\ Ends(c, r) /\ UNCHANGED <<task, outcome>>
  BY Knows, AnswersEnds DEF EnqueueRefused, Course, OwnTask, TInv, NotYet, orchestrator
<1>2. RInv' /\ StandingOf(call[c]) = "open"
  BY <1>1, EndsOnCourse, Places, Standings
<1>3. CASE r = "busy"
  BY <1>1, <1>2, <1>3, WasBusy DEF Serves
<1>4. CASE r \in {"invalid", "full"}
  <2>1. SS!Facts(c, r) /\ r \in SS!Answers
    BY <1>1, <1>4, FactsStated DEF SS!Answers
  <2> QED
    BY <1>1, <1>2, <2>1, Stated DEF Serves
<1> QED
  BY <1>3, <1>4

LEMMA PositionedServes ==
  ASSUME IInv, RInv, NEW c \in Calls, Positioned(c)
  PROVE  Serves
<1>1. /\ call[c].phase = "positioning" /\ UNCHANGED <<task, outcome>>
      /\ \/ call[c].kind = "async" /\ call[c].about = c /\ Target(c) # "none"
         \/ call[c].kind = "poll" /\ call[c].about # c /\ call[c].read \in Known
  BY Knows DEF Positioned, Course, OwnTask, Submits, orchestrator
<1>2. StandingOf(call[c]) = "open"
  BY <1>1, Places, Standings
<1>3. CASE Target(c) \in Known /\ call[c].kind = "async"
  <2>1. Ends(c, "accepted")
    BY <1>3, AnswersEnds DEF Positioned
  <2>2. SS!Facts(c, "accepted") /\ "accepted" \in SS!Answers
    BY <1>1, <1>3, FactsStated, SameWords DEF SS!Answers
  <2> QED
    BY <1>1, <1>2, <2>1, <2>2, EndsOnCourse, Stated DEF Serves
<1>4. CASE Target(c) \in Known /\ call[c].kind = "poll"
  <2>1. Turn(c, "done", call[c].read, call[c].read, "status")
    BY <1>4, TellEnds DEF Positioned
  <2>2. LookOf(call[c]) = call[c].read
    BY <1>1, <1>4, Looks
  <2>3. RInv'
    BY <1>1, <2>1, EndedOnCourse
  <2>4. SS!Next
    BY <1>1, <1>2, <1>4, <2>1, <2>2, Reported
  <2> QED
    BY <2>3, <2>4 DEF Serves
<1>5. CASE Target(c) \notin Known /\ call[c].kind = "poll"
  <2>1. Ends(c, "notFound")
    BY <1>5, AnswersEnds DEF Positioned
  <2>2. SS!Facts(c, "notFound") /\ "notFound" \in SS!Answers
    BY <1>5, FactsStated DEF SS!Answers
  <2> QED
    BY <1>1, <1>2, <2>1, <2>2, EndsOnCourse, Stated DEF Serves
<1>6. CASE Target(c) \notin Known /\ call[c].kind = "async"
  <2>1. Ends(c, "error")
    BY <1>6, AnswersEnds DEF Positioned
  <2>2. Target(c) = "gone"
    BY <1>1, <1>6, Knows
  <2>3. SS!Facts(c, "error") /\ "error" \in SS!Answers
    BY <1>1, <1>6, <2>2, FactsStated DEF SS!Answers, Submits
  <2> QED
    BY <1>1, <1>2, <2>1, <2>3, EndsOnCourse, Stated DEF Serves
<1> QED
  BY <1>1, <1>3, <1>4, <1>5, <1>6

\* On to another await of the same request, with nothing seen to be told.
LEMMA GoesOnServes ==
  ASSUME IInv, RInv, NEW c \in Calls, NEW p, NEW read,
         Turn(c, p, read, call[c].told, call[c].response), UNCHANGED <<task, outcome>>,
         \/ {call[c].phase, p} \subseteq Awaiting \ Streaming
         \/ {call[c].phase, p} \subseteq Streaming,
         LookOf(call[c]) = Nothing, LookOf(call'[c]) = Nothing,
         Course(call'[c], task[c] # "none")
  PROVE  Serves
<1>1. call[c].phase # "idle" /\ call'[c].phase = p
  BY Names DEF Turn, Awaiting
<1>2. RInv'
  BY <1>1, OnCourse
<1>3. StandingOf(call'[c]) = StandingOf(call[c])
  BY <1>1, Standings
<1>4. UNCHANGED SS!service
  BY <1>3, NoneOfTheService
<1> QED
  BY <1>2, <1>4 DEF Serves

LEMMA WaitReadsServes ==
  ASSUME IInv, RInv, NEW c \in Calls, WaitReads(c)
  PROVE  Serves
<1>1. /\ call[c].phase = "waiting" /\ UNCHANGED <<task, outcome>>
      /\ call[c].kind = "sync" /\ call[c].about = c /\ task[c] # "none" /\ Target(c) # "none"
  BY Knows DEF WaitReads, Course, OwnTask, Submits, orchestrator
<1>2. StandingOf(call[c]) = "open" /\ LookOf(call[c]) = Nothing
  BY <1>1, Places, Standings, Looks
<1>3. ASSUME NEW p \in {"collecting", "sleeping"}, Goes(c, p) PROVE Serves
  <2>1. Turn(c, p, call[c].read, call[c].told, call[c].response)
    BY <1>3, GoesMoves DEF Moves
  <2>2. LookOf(call'[c]) = Nothing
    BY <2>1, Looks DEF Turn
  <2>3. Course(call'[c], task[c] # "none")
    BY <1>1, <2>1, Places DEF Turn, Course
  <2>4. {call[c].phase, p} \subseteq Awaiting \ Streaming
    BY <1>1, Places
  <2> QED
    BY <1>1, <1>2, <2>1, <2>2, <2>3, <2>4, GoesOnServes
<1>4. CASE Target(c) = "gone" /\ Answers(c, "error")
  <2>1. Ends(c, "error")
    BY <1>4, AnswersEnds
  <2>2. SS!Facts(c, "error") /\ "error" \in SS!Answers
    BY <1>1, <1>4, FactsStated DEF SS!Answers, Submits
  <2> QED
    BY <1>1, <1>2, <2>1, <2>2, EndsOnCourse, Stated DEF Serves
<1>5. \/ Goes(c, "collecting") \/ Goes(c, "sleeping")
      \/ Target(c) = "gone" /\ Answers(c, "error")
  <2>1. CASE Target(c) \in Ended
    BY <2>1 DEF WaitReads
  <2>2. CASE Target(c) = "pending"
    BY <2>2 DEF WaitReads, Ended
  <2>3. CASE Target(c) = "gone"
    BY <2>3 DEF WaitReads, Ended
  <2> QED
    BY <1>1, <2>1, <2>2, <2>3, Knows DEF Known
<1> QED
  BY <1>3, <1>4, <1>5

LEMMA WaitSleepsServes ==
  ASSUME IInv, RInv, NEW c \in Calls, WaitSleeps(c)
  PROVE  Serves
<1>1. /\ call[c].phase = "sleeping" /\ UNCHANGED <<task, outcome>>
      /\ call[c].kind = "sync" /\ call[c].about = c /\ task[c] # "none" /\ Target(c) # "none"
  BY Knows DEF WaitSleeps, Course, OwnTask, Submits, orchestrator
<1>2. StandingOf(call[c]) = "open" /\ LookOf(call[c]) = Nothing
  BY <1>1, Places, Standings, Looks
<1>3. CASE Answers(c, "timeout")
  <2>1. Ends(c, "timeout")
    BY <1>3, AnswersEnds
  <2>2. SS!Facts(c, "timeout") /\ "timeout" \in SS!Answers
    BY <1>1, FactsStated DEF SS!Answers
  <2> QED
    BY <1>1, <1>2, <2>1, <2>2, EndsOnCourse, Stated DEF Serves
<1>4. CASE call' = [call EXCEPT ![c].phase = "waiting", ![c].polls = @ + 1]
  <2>1. Turn(c, "waiting", call[c].read, call[c].told, call[c].response)
    BY <1>4, SleepMoves DEF Moves
  <2>2. LookOf(call'[c]) = Nothing
    BY <2>1, Looks DEF Turn
  <2>3. Course(call'[c], task[c] # "none")
    BY <1>1, <2>1, Places DEF Turn, Course
  <2>4. {call[c].phase, "waiting"} \subseteq Awaiting \ Streaming
    BY <1>1, Places
  <2> QED
    BY <1>1, <1>2, <2>1, <2>2, <2>3, <2>4, GoesOnServes
<1> QED
  BY <1>3, <1>4 DEF WaitSleeps

LEMMA ReadsServes ==
  ASSUME IInv, RInv, NEW c \in Calls, Reads(c)
  PROVE  Serves
<1>1. /\ call[c].phase = "reading" /\ UNCHANGED <<task, outcome>>
      /\ call[c].kind \in {"poll", "result"} /\ call[c].about # c
  BY Knows DEF Reads, Course, OwnTask, Submits, orchestrator
<1>2. StandingOf(call[c]) = "open" /\ LookOf(call[c]) = Nothing
  BY <1>1, Places, Standings, Looks
<1>3. CASE ~Visible(c)
  <2>1. Ends(c, "notFound")
    BY <1>3, AnswersEnds DEF Reads
  <2>2. SS!Facts(c, "notFound") /\ "notFound" \in SS!Answers
    BY <1>1, <1>3, FactsStated DEF Visible, SS!Answers, Own
  <2> QED
    BY <1>1, <1>2, <2>1, <2>2, EndsOnCourse, Stated DEF Serves
<1>4. CASE Visible(c) /\ call[c].kind = "poll"
  <2>1. Turn(c, "positioning", Target(c), call[c].told, call[c].response)
    BY <1>4, ReadMoves DEF Reads
  <2>2. call'[c].phase = "positioning" /\ call'[c].kind = "poll" /\ call'[c].read = Target(c)
    BY <1>4, <2>1 DEF Turn
  <2>3. StandingOf(call'[c]) = "open" /\ LookOf(call'[c]) = Target(c)
    BY <2>2, Places, Standings, Looks
  <2>4. Course(call'[c], task[c] # "none")
    BY <1>4, <2>2, Places DEF Course, Visible
  <2>5. RInv'
    BY <1>1, <2>1, <2>4, OnCourse
  <2>6. SS!Next
    BY <1>1, <1>2, <1>4, <2>1, <2>3, LookedAt
  <2> QED
    BY <2>5, <2>6 DEF Serves
<1>5. CASE Visible(c) /\ call[c].kind = "result"
  <2>1. Turn(c, "collecting", Target(c), call[c].told, call[c].response)
    BY <1>5, ReadMoves DEF Reads
  <2>2. LookOf(call'[c]) = Nothing
    BY <2>1, Looks DEF Turn
  <2>3. Course(call'[c], task[c] # "none")
    BY <1>5, <2>1, Places DEF Turn, Course
  <2>4. {call[c].phase, "collecting"} \subseteq Awaiting \ Streaming
    BY <1>1, Places
  <2> QED
    BY <1>1, <1>2, <2>1, <2>2, <2>3, <2>4, GoesOnServes
<1> QED
  BY <1>1, <1>3, <1>4, <1>5

LEMMA CollectsServes ==
  ASSUME IInv, RInv, NEW c \in Calls, Collects(c)
  PROVE  Serves
<1>1. /\ call[c].phase = "collecting" /\ UNCHANGED <<task, outcome>>
      /\ \/ call[c].kind = "sync" /\ call[c].about = c
         \/ call[c].kind = "result" /\ call[c].about # c
      /\ call[call[c].about].tenant = call[c].tenant
  BY Knows DEF Collects, Course, OwnTask, Submits, orchestrator
<1>2. StandingOf(call[c]) = "open"
  BY <1>1, Places, Standings
<1>3. PICK r \in {"result", "failed", "notFound"} :
        /\ Answers(c, r)
        /\ r = "result" => OutcomeOf(c) = "success"
        /\ r = "failed" => OutcomeOf(c) = "failure" /\ call[c].kind = "result"
        /\ r = "notFound" => \/ OutcomeOf(c) = Nothing
                             \/ OutcomeOf(c) = "failure" /\ call[c].kind = "sync"
  <2>1. OutcomeOf(c) \in {"success", "failure", Nothing}
    BY Knows, CallType DEF OthersTyped, OutcomeOf, Ended
  <2>2. CASE OutcomeOf(c) = "success"
    BY <2>2 DEF Collects
  <2>3. CASE OutcomeOf(c) = "failure" /\ call[c].kind = "result"
    BY <2>3 DEF Collects
  <2>4. CASE OutcomeOf(c) = "failure" /\ call[c].kind = "sync"
    BY <2>4 DEF Collects
  <2>5. CASE OutcomeOf(c) = Nothing
    BY <2>5 DEF Collects, Nothing
  <2> QED
    BY <1>1, <2>1, <2>2, <2>3, <2>4, <2>5
<1>4. SS!Facts(c, r) /\ r \in SS!Answers
  BY <1>1, <1>3, FactsStated DEF SS!Answers, Own
<1>5. Ends(c, r)
  BY <1>3, AnswersEnds
<1> QED
  BY <1>1, <1>2, <1>4, <1>5, EndsOnCourse, Stated DEF Serves

LEMMA StreamOpensServes ==
  ASSUME IInv, RInv, NEW c \in Calls, StreamOpens(c)
  PROVE  Serves
<1>1. /\ call[c].phase = "opening" /\ UNCHANGED <<task, outcome>>
      /\ call[c].kind = "stream" /\ call[c].about # c
  BY Knows DEF StreamOpens, Course, OwnTask, Submits, orchestrator
<1>2. StandingOf(call[c]) = "open"
  BY <1>1, Places, Standings
<1>3. CASE ~Visible(c)
  <2>1. Ends(c, "refused")
    BY <1>3, AnswersEnds DEF StreamOpens
  <2>2. SS!Facts(c, "refused") /\ "refused" \in SS!Answers
    BY <1>1, <1>3, FactsStated DEF Visible, SS!Answers, Own
  <2> QED
    BY <1>1, <1>2, <2>1, <2>2, EndsOnCourse, Stated DEF Serves
<1>4. CASE Visible(c)
  <2>1. Turn(c, "greeting", Target(c), call[c].told, call[c].response)
    BY <1>4, ReadMoves DEF StreamOpens
  <2>2. call'[c].phase = "greeting" /\ call'[c].kind = "stream" /\ call'[c].read = Target(c)
    BY <1>1, <2>1 DEF Turn
  <2>3. StandingOf(call'[c]) = "streaming" /\ LookOf(call'[c]) = Target(c)
    BY <2>2, Places, Standings, Looks
  <2>4. Course(call'[c], task[c] # "none")
    BY <1>4, <2>2, Places DEF Course, Visible
  <2>5. RInv'
    BY <1>1, <2>1, <2>4, OnCourse
  <2>6. SS!Next
    BY <1>1, <1>2, <1>4, <2>1, <2>3, LookedAt
  <2> QED
    BY <2>5, <2>6 DEF Serves
<1> QED
  BY <1>3, <1>4

\* What a served websocket knows.
LEMMA OfAWebsocket ==
  ASSUME IInv, RInv, NEW c \in Calls, call[c].phase \in Streaming
  PROVE  /\ call[c].kind = "stream" /\ call[c].about # c
         /\ call[c].phase \in {"greeting", "sending"} =>
              call[c].read \in Known /\ LookOf(call[c]) = call[c].read
         /\ call[c].phase \in {"refreshing", "listening"} => LookOf(call[c]) = Nothing
         /\ call[call[c].about].tenant = call[c].tenant
         /\ StandingOf(call[c]) = "streaming"
BY Knows, Places, Standings, Looks DEF Course, OwnTask, Submits

\* The status seen is told, and the socket served on.
LEMMA TellsServes ==
  ASSUME IInv, RInv, NEW c \in Calls, call[c].phase \in {"greeting", "sending"},
         NEW p \in {"refreshing", "listening"},
         call' = [call EXCEPT ![c].phase = p, ![c].told = call[c].read],
         UNCHANGED <<task, outcome>>
  PROVE  Serves
<1>1. /\ call[c].kind = "stream" /\ call[c].read \in Known
      /\ StandingOf(call[c]) = "streaming" /\ LookOf(call[c]) = call[c].read
  BY OfAWebsocket, Places
<1>2. Turn(c, p, call[c].read, call[c].read, call[c].response)
  BY TellMoves
<1>3. call'[c].phase = p /\ call'[c].kind = "stream"
  BY <1>1, <1>2 DEF Turn
<1>4. StandingOf(call'[c]) = "streaming" /\ LookOf(call'[c]) = Nothing
  <2>1. StandingOf(call'[c]) = "streaming"
    <3>1. call'[c].phase \in Streaming
      BY <1>3, Places
    <3> QED
      BY <3>1, Standings
  <2>2. LookOf(call'[c]) = Nothing
    BY <1>3, Looks
  <2> QED
    BY <2>1, <2>2
<1>5. Course(call'[c], task[c] # "none")
  BY <1>3, Places DEF Course
<1>6. RInv'
  BY <1>2, <1>5, OnCourse
<1>7. SS!Next
  BY <1>1, <1>2, <1>4, Told
<1> QED
  BY <1>6, <1>7 DEF Serves

LEMMA StreamGreetsServes ==
  ASSUME IInv, RInv, NEW c \in Calls, StreamGreets(c)
  PROVE  Serves
BY TellsServes DEF StreamGreets, orchestrator

LEMMA StreamRefreshesServes ==
  ASSUME IInv, RInv, NEW c \in Calls, StreamRefreshes(c)
  PROVE  Serves
<1>1. /\ call[c].phase = "refreshing" /\ UNCHANGED <<task, outcome>> /\ Target(c) \in Known
      /\ call' = [call EXCEPT ![c].phase = "sending", ![c].read = Target(c)]
  BY DEF StreamRefreshes, orchestrator
<1>2. /\ call[c].kind = "stream" /\ call[c].about # c /\ Visible(c)
      /\ StandingOf(call[c]) = "streaming"
  BY <1>1, OfAWebsocket, Places DEF Visible
<1>3. Turn(c, "sending", Target(c), call[c].told, call[c].response)
  BY <1>1, ReadMoves
<1>4. call'[c].phase = "sending" /\ call'[c].kind = "stream" /\ call'[c].read = Target(c)
  BY <1>2, <1>3 DEF Turn
<1>5. StandingOf(call'[c]) = "streaming" /\ LookOf(call'[c]) = Target(c)
  BY <1>4, Places, Standings, Looks
<1>6. Course(call'[c], task[c] # "none")
  BY <1>1, <1>4, Places DEF Course
<1>7. RInv'
  BY <1>1, <1>3, <1>6, OnCourse
<1>8. SS!Next
  BY <1>1, <1>2, <1>3, <1>5, LookedAt
<1> QED
  BY <1>7, <1>8 DEF Serves

LEMMA StreamSendsServes ==
  ASSUME IInv, RInv, NEW c \in Calls, StreamSends(c)
  PROVE  Serves
<1>1. call[c].phase = "sending" /\ UNCHANGED <<task, outcome>>
  BY DEF StreamSends, orchestrator
<1>2. CASE call[c].read \in Ended
  <2>1. Turn(c, "done", call[c].read, call[c].read, "closed")
    BY <1>2, TellEnds DEF StreamSends
  <2>2. RInv'
    BY <1>1, <2>1, EndedOnCourse
  <2>3. /\ call[c].read \in Known /\ LookOf(call[c]) = call[c].read
        /\ StandingOf(call[c]) = "streaming"
    BY <1>1, OfAWebsocket, Places
  <2>4. SS!Next
    BY <1>1, <1>2, <2>1, <2>3, Reported
  <2> QED
    BY <2>2, <2>4 DEF Serves
<1>3. CASE call[c].read \notin Ended
  BY <1>1, <1>3, TellsServes DEF StreamSends
<1> QED
  BY <1>2, <1>3

LEMMA ClientAsksServes ==
  ASSUME IInv, RInv, NEW c \in Calls, ClientAsks(c)
  PROVE  Serves
<1>1. call[c].phase = "listening" /\ Goes(c, "refreshing") /\ UNCHANGED <<task, outcome>>
  BY DEF ClientAsks, orchestrator
<1>2. call[c].kind = "stream" /\ LookOf(call[c]) = Nothing
  BY <1>1, OfAWebsocket, Places
<1>3. Turn(c, "refreshing", call[c].read, call[c].told, call[c].response)
  BY <1>1, GoesMoves DEF Moves
<1>4. LookOf(call'[c]) = Nothing
  BY <1>3, Looks DEF Turn
<1>5. Course(call'[c], task[c] # "none")
  BY <1>2, <1>3, Places DEF Turn, Course
<1>6. {call[c].phase, "refreshing"} \subseteq Streaming
  BY <1>1, Places
<1> QED
  BY <1>1, <1>2, <1>3, <1>4, <1>5, <1>6, GoesOnServes

\* A websocket that ends without an ending.
LEMMA LeavesServes ==
  ASSUME IInv, RInv, NEW c \in Calls, StreamVanishes(c) \/ ClientLeaves(c)
  PROVE  Serves
<1>1. PICK r \in {"vanished", "left"} :
        Answers(c, r) /\ (r = "vanished" => Target(c) = "gone")
  BY DEF StreamVanishes, ClientLeaves
<1>2. /\ call[c].phase \in Streaming /\ call[c].phase # "idle" /\ UNCHANGED <<task, outcome>>
      /\ StandingOf(call[c]) = "streaming"
  BY OfAWebsocket, Places, Names DEF StreamVanishes, ClientLeaves, orchestrator
<1>3. Ends(c, r)
  BY <1>1, AnswersEnds
<1> QED
  BY <1>1, <1>2, <1>3, EndsOnCourse, HungUp DEF Serves

LEMMA BackpressureServes ==
  ASSUME IInv, RInv, NEW c \in Calls, Backpressure(c)
  PROVE  Serves
<1>1. call[c].phase \in Awaiting /\ call[c].phase # "idle" /\ UNCHANGED <<task, outcome>>
  BY Names DEF Backpressure, Phases, orchestrator
<1>2. StandingOf(call[c]) \in {"open", "streaming"}
  BY <1>1, Standings
<1>3. Ends(c, "busy")
  BY AnswersEnds DEF Backpressure
<1> QED
  BY <1>1, <1>2, <1>3, EndsOnCourse, WasBusy DEF Serves

-----------------------------------------------------------------------------
\* Nothing of a call changes but what it was told.
SameCourses ==
  \A x \in Calls : /\ call'[x].kind = call[x].kind /\ call'[x].about = call[x].about
                   /\ call'[x].phase = call[x].phase /\ call'[x].read = call[x].read
                   /\ task[x] # "none" => task'[x] # "none"

LEMMA CoursesKept ==
  ASSUME RInv, SameCourses
  PROVE  RInv'
<1> SUFFICES ASSUME NEW x \in Calls
             PROVE  Course(call'[x], task'[x] # "none") /\ OwnTask(x, call'[x])
  BY DEF RInv, Course, OwnTask
<1>1. Course(call[x], task[x] # "none") /\ OwnTask(x, call[x])
  BY DEF RInv
<1> QED
  BY <1>1 DEF SameCourses, Course, OwnTask

\* What the service sees of the calls is what it saw.
LEMMA CallsUnseen ==
  ASSUME UNCHANGED call
  PROVE  /\ UNCHANGED SS!record
         /\ UNCHANGED [x \in Calls |-> StandingOf(call[x])]
         /\ UNCHANGED [x \in Calls |-> LookOf(call[x])]
         /\ UNCHANGED [x \in Calls |-> call[x].told]
         /\ UNCHANGED [x \in Calls |-> call[x].response]
<1>1. UNCHANGED SS!record
  BY DEF SS!record
<1>2. UNCHANGED [x \in Calls |-> StandingOf(call[x])]
  BY DEF StandingOf
<1>3. UNCHANGED [x \in Calls |-> LookOf(call[x])]
  BY DEF LookOf
<1> QED
  BY <1>1, <1>2, <1>3

LEMMA TaskServes ==
  ASSUME IInv, RInv, NEW t \in Calls,
         TaskGone(t) \/ OutcomeExpires(t) \/ \E how \in Ended : TaskEnds(t, how)
  PROVE  Serves
<1>1. task \in [Calls -> Known \cup {"none", "gone"}] /\ UNCHANGED call
  BY CallType DEF OthersTyped, TaskGone, OutcomeExpires, TaskEnds
<1>2. SameCourses
  BY <1>1 DEF SameCourses, TaskGone, OutcomeExpires, TaskEnds, Ended
<1>3. CASE TaskGone(t)
  <2>1. SS!Forget(t)
    BY <1>1, <1>3, CallsUnseen, SameWords DEF TaskGone, SS!Forget, SS!Lives
  <2> QED
    BY <1>2, <2>1, CoursesKept DEF Serves, SS!Next, SS!Step
<1>4. CASE \E how \in Ended : TaskEnds(t, how)
  <2>1. PICK how \in Ended : TaskEnds(t, how)
    BY <1>4
  <2>2. SS!End(t, how)
    BY <1>1, <2>1, CallsUnseen DEF TaskEnds, SS!End, SS!Lives
  <2> QED
    BY <1>2, <2>2, CoursesKept, SameWords DEF Serves, SS!Next, SS!Step
<1>5. CASE OutcomeExpires(t)
  <2>1. SS!Expire(t)
    BY <1>5, CallsUnseen, SameWords DEF OutcomeExpires, SS!Expire
  <2> QED
    BY <1>2, <2>1, CoursesKept DEF Serves, SS!Next, SS!Step
<1> QED
  BY <1>3, <1>4, <1>5

\* A push reaches the open websockets of the task: they are the subscribers.
LEMMA PushServes ==
  ASSUME IInv, RInv, NEW t \in Calls, Push(t)
  PROVE  Serves
<1>1. /\ task[t] \in Known /\ UNCHANGED <<task, outcome>>
      /\ \A x \in Calls : /\ call[x] \in CallState
                          /\ call'[x] = IF x \in subscribers[t]
                                        THEN [call[x] EXCEPT !.told = task[t]]
                                        ELSE call[x]
  BY CallType DEF Push, orchestrator
<1>2. \A x \in Calls : x \in subscribers[t] <=>
                         StandingOf(call[x]) = "streaming" /\ call[x].about = t
  <2> SUFFICES ASSUME NEW x \in Calls
               PROVE  call[x].phase \in Streaming <=> StandingOf(call[x]) = "streaming"
    BY DEF IInv, SubscribersAreServed
  <2> QED
    BY Names DEF StandingOf
<1>3. \A x \in Calls : /\ call'[x].tenant = call[x].tenant
                       /\ call'[x].about = call[x].about
                       /\ call'[x].kind = call[x].kind
                       /\ call'[x].phase = call[x].phase
                       /\ call'[x].read = call[x].read
                       /\ call'[x].response = call[x].response
                       /\ call'[x].told = IF StandingOf(call[x]) = "streaming"
                                             /\ call[x].about = t
                                          THEN task[t] ELSE call[x].told
  BY <1>1, <1>2 DEF CallState
<1>4. RInv'
  BY <1>1, <1>3, CoursesKept DEF SameCourses
<1>5. \A x \in Calls : StandingOf(call'[x]) = StandingOf(call[x])
                       /\ LookOf(call'[x]) = LookOf(call[x])
  BY <1>3 DEF StandingOf, LookOf
<1>6. /\ UNCHANGED [x \in Calls |-> StandingOf(call[x])]
      /\ UNCHANGED [x \in Calls |-> LookOf(call[x])]
  <2>1. /\ [x \in Calls |-> StandingOf(call'[x])] = [x \in Calls |-> StandingOf(call[x])]
        /\ [x \in Calls |-> LookOf(call'[x])] = [x \in Calls |-> LookOf(call[x])]
    BY <1>5
  <2> QED
    BY <2>1 DEF StandingOf, LookOf
<1>7. UNCHANGED SS!record /\ UNCHANGED [x \in Calls |-> call[x].response]
  <2>1. /\ [x \in Calls |-> call'[x].tenant] = [x \in Calls |-> call[x].tenant]
        /\ [x \in Calls |-> call'[x].kind] = [x \in Calls |-> call[x].kind]
        /\ [x \in Calls |-> call'[x].about] = [x \in Calls |-> call[x].about]
        /\ [x \in Calls |-> call'[x].response] = [x \in Calls |-> call[x].response]
    BY <1>3
  <2> QED
    BY <2>1 DEF SS!record
<1>8. [x \in Calls |-> call[x].told]' =
        [x \in Calls |-> IF /\ [y \in Calls |-> StandingOf(call[y])][x] = "streaming"
                            /\ [y \in Calls |-> call[y].about][x] = t
                         THEN task[t] ELSE [y \in Calls |-> call[y].told][x]]
  BY <1>3
<1>9. SS!Push(t)
  BY <1>1, <1>6, <1>7, <1>8, SameWords DEF SS!Push, SS!tasks
<1> QED
  BY <1>4, <1>9 DEF Serves, SS!Next, SS!Step

\* Whoever awaits is cut off; the tasks live on.
LEMMA RestartServes ==
  ASSUME IInv, RInv, PodRestarts
  PROVE  Serves
<1> DEFINE Standing == [x \in Calls |-> StandingOf(call[x])]
<1>1. /\ UNCHANGED <<task, outcome>>
      /\ \A x \in Calls : /\ call[x] \in CallState
                          /\ call'[x] = IF call[x].phase \in Awaiting
                                        THEN [call[x] EXCEPT !.phase = "done",
                                                             !.response = "dropped"]
                                        ELSE call[x]
  BY CallType DEF PodRestarts, orchestrator
<1>2. \A x \in Calls : /\ call'[x].tenant = call[x].tenant
                       /\ call'[x].about = call[x].about
                       /\ call'[x].kind = call[x].kind
                       /\ call'[x].read = call[x].read
                       /\ call'[x].told = call[x].told
                       /\ call[x].phase \in Awaiting =>
                            call'[x].phase = "done" /\ call'[x].response = "dropped"
                       /\ call[x].phase \notin Awaiting => call'[x] = call[x]
  BY <1>1 DEF CallState
<1>3. RInv'
  <2> SUFFICES ASSUME NEW x \in Calls
               PROVE  Course(call'[x], task'[x] # "none") /\ OwnTask(x, call'[x])
    BY DEF RInv, Course, OwnTask
  <2>1. Course(call[x], task[x] # "none") /\ OwnTask(x, call[x]) /\ "idle" \notin Awaiting
    BY DEF RInv, Awaiting, Streaming
  <2>2. CASE call[x].phase \in Awaiting
    BY <2>1, <2>2, <1>2, Names DEF Course, OwnTask, Awaiting
  <2>3. CASE call[x].phase \notin Awaiting
    BY <2>1, <2>3, <1>1, <1>2
  <2> QED
    BY <2>2, <2>3
<1>4. \A x \in Calls : call[x].phase \in Awaiting <=> StandingOf(call[x]) \in {"open", "streaming"}
  <2> SUFFICES ASSUME NEW x \in Calls
               PROVE  call[x].phase \in Awaiting <=> StandingOf(call[x]) \in {"open", "streaming"}
    OBVIOUS
  <2>1. CASE call[x].phase \in Awaiting
    BY <2>1, Standings
  <2>2. CASE call[x].phase \in {"idle", "done"}
    BY <2>2, Names DEF StandingOf, Awaiting
  <2> QED
    BY <2>1, <2>2, <1>1 DEF CallState, Phases
<1>5. \A x \in Calls :
        /\ StandingOf(call'[x]) = IF StandingOf(call[x]) \in {"open", "streaming"}
                                  THEN "over" ELSE StandingOf(call[x])
        /\ call'[x].response = IF StandingOf(call[x]) \in {"open", "streaming"}
                               THEN "dropped" ELSE call[x].response
        /\ LookOf(call'[x]) = Nothing
  <2> SUFFICES ASSUME NEW x \in Calls
               PROVE  /\ StandingOf(call'[x]) =
                           IF StandingOf(call[x]) \in {"open", "streaming"}
                           THEN "over" ELSE StandingOf(call[x])
                      /\ call'[x].response =
                           IF StandingOf(call[x]) \in {"open", "streaming"}
                           THEN "dropped" ELSE call[x].response
                      /\ LookOf(call'[x]) = Nothing
    OBVIOUS
  <2>1. CASE call[x].phase \in Awaiting
    <3>1. call'[x].phase = "done" /\ call'[x].response = "dropped"
      BY <2>1, <1>2
    <3>2. StandingOf(call'[x]) = "over"
      BY <3>1, Names DEF StandingOf
    <3>3. LookOf(call'[x]) = Nothing
      BY <3>1, Looks
    <3> QED
      BY <2>1, <1>4, <3>1, <3>2, <3>3
  <2>2. CASE call[x].phase \notin Awaiting
    <3>1. call'[x] = call[x]
      BY <2>2, <1>2
    <3>2. call[x].phase \notin {"greeting", "sending", "positioning"}
      BY <2>2 DEF Awaiting, Streaming
    <3>3. LookOf(call[x]) = Nothing
      BY <3>2, Looks
    <3> QED
      BY <2>2, <1>4, <3>1, <3>3
  <2> QED
    BY <2>1, <2>2
<1>6. UNCHANGED SS!record /\ UNCHANGED [x \in Calls |-> call[x].told]
  <2>1. /\ [x \in Calls |-> call'[x].tenant] = [x \in Calls |-> call[x].tenant]
        /\ [x \in Calls |-> call'[x].kind] = [x \in Calls |-> call[x].kind]
        /\ [x \in Calls |-> call'[x].about] = [x \in Calls |-> call[x].about]
        /\ [x \in Calls |-> call'[x].told] = [x \in Calls |-> call[x].told]
    BY <1>2
  <2> QED
    BY <2>1 DEF SS!record
<1>7. SS!Restart
  <2> DEFINE cut == {x \in Calls : Standing[x] \in {"open", "streaming"}}
  <2>1. \A x \in Calls : x \in cut <=> StandingOf(call[x]) \in {"open", "streaming"}
    OBVIOUS
  <2>2. [x \in Calls |-> StandingOf(call'[x])] =
          [x \in Calls |-> IF x \in cut THEN "over" ELSE Standing[x]]
    BY <1>5, <2>1
  <2>3. [x \in Calls |-> call'[x].response] =
          [x \in Calls |-> IF x \in cut THEN "dropped"
                           ELSE [y \in Calls |-> call[y].response][x]]
    BY <1>5, <2>1
  <2>4. [x \in Calls |-> LookOf(call'[x])] = [x \in Calls |-> SS!Nothing]
    BY <1>5, SameWords
  <2> QED
    BY <1>1, <1>6, <2>2, <2>3, <2>4 DEF SS!Restart, SS!tasks, StandingOf, LookOf
<1> QED
  BY <1>3, <1>7 DEF Serves, SS!Next

\* The queue processor is not the service's.
LEMMA ProcessorServes ==
  ASSUME RInv, UNCHANGED <<call, task, outcome>>
  PROVE  Serves
<1>1. RInv'
  BY CoursesKept DEF SameCourses
<1>2. UNCHANGED SS!service
  BY CallsUnseen DEF SS!service, SS!record
<1> QED
  BY <1>1, <1>2 DEF Serves

LEMMA StepServes == IInv /\ TInv /\ RInv /\ [Next]_vars => RInv' /\ [SS!Next]_(SS!service)
<1> SUFFICES ASSUME IInv, TInv, RInv, [Next]_vars PROVE Serves
  BY DEF Serves
<1>1. CASE UNCHANGED vars
  BY <1>1, ProcessorServes DEF vars
<1>2. ASSUME NEW c \in Calls, HandlerStep(c) PROVE Serves
  BY <1>2, EnqueuedServes, EnqueueRefusedServes, PositionedServes, WaitReadsServes,
     WaitSleepsServes, ReadsServes, CollectsServes, StreamOpensServes, StreamGreetsServes,
     StreamRefreshesServes, StreamSendsServes, LeavesServes DEF HandlerStep
<1>3. ASSUME NEW c \in Calls, ClientStep(c) PROVE Serves
  BY <1>3, SubmitServes, AskServes, ClientAsksServes, LeavesServes DEF ClientStep, Submits
<1>4. ASSUME ProcessorReturns \/ ProcessorDies \/ Supervise PROVE Serves
  BY <1>4, ProcessorServes DEF ProcessorReturns, ProcessorDies, Supervise, orchestrator
<1> QED
  BY <1>1, <1>2, <1>3, <1>4, BackpressureServes, TaskServes, PushServes, RestartServes DEF Next

LEMMA InitServes == Init => RInv /\ SS!Init
<1> SUFFICES ASSUME Init PROVE RInv /\ SS!Init
  OBVIOUS
<1>1. PICK who \in [Calls -> Tenants] :
        call = [c \in Calls |->
                  [kind |-> Nothing, tenant |-> who[c], about |-> c,
                   phase |-> "idle", polls |-> 0, read |-> Nothing,
                   told |-> Nothing, response |-> NoResponse]]
  BY DEF Init
<1>2. RInv
  BY <1>1, Names DEF RInv, Course, OwnTask
<1>3. \A c \in Calls : StandingOf(call[c]) = "idle" /\ LookOf(call[c]) = Nothing
  <2> SUFFICES ASSUME NEW c \in Calls
               PROVE  StandingOf(call[c]) = "idle" /\ LookOf(call[c]) = Nothing
    OBVIOUS
  <2>1. call[c].phase = "idle"
    BY <1>1
  <2> QED
    BY <2>1, Standings, Looks
<1>4. /\ [c \in Calls |-> StandingOf(call[c])] = [c \in Calls |-> "idle"]
      /\ [c \in Calls |-> LookOf(call[c])] = [c \in Calls |-> Nothing]
  BY <1>3
<1>5. /\ [c \in Calls |-> call[c].tenant] \in [Calls -> Tenants]
      /\ [c \in Calls |-> call[c].kind] = [c \in Calls |-> Nothing]
      /\ [c \in Calls |-> call[c].about] = [c \in Calls |-> c]
      /\ [c \in Calls |-> call[c].told] = [c \in Calls |-> Nothing]
      /\ [c \in Calls |-> call[c].response] = [c \in Calls |-> NoResponse]
  BY <1>1
<1>6. task = [c \in Calls |-> "none"] /\ outcome = [c \in Calls |-> Nothing]
  BY DEF Init
<1>7. SS!Init
  BY <1>4, <1>5, <1>6, SameWords DEF SS!Init
<1> QED
  BY <1>2, <1>7

LEMMA InitTimely == Init => TInv
<1> SUFFICES ASSUME Init, NEW c \in Calls PROVE Timely(call[c]) /\ NotYet(c)
  BY DEF TInv
<1>1. call[c].phase = "idle" /\ call[c].response = NoResponse /\ task[c] = "none"
  BY DEF Init
<1> QED
  BY <1>1 DEF Timely, NotYet, NoResponse

\* The API keeps the status service's promises, for any calls, tenants, waits
\* and faults: whatever ends, is forgotten, expires or is pushed between the
\* awaits of a call, its answer is true of the task's records when it is given,
\* and what it tells was read for it (app.py:659-689, 1463-1558, 1584-1608).
THEOREM ApiImplementsStatusService == Spec => ServiceKept
<1> QED
  BY InitInv, StepInv, InitTimely, StepTimely, InitServes, StepServes, PTL
     DEF Spec, ServiceKept, SS!Spec

-----------------------------------------------------------------------------
\* How far a request is from its answer, by where it awaits.
LEMMA Distances ==
  ASSUME NEW k
  PROVE  /\ k.phase = "enqueueing" => AwaitsLeft(k) = 2 * (MaxWaits - k.polls) + 3
         /\ k.phase = "waiting" => AwaitsLeft(k) = 2 * (MaxWaits - k.polls) + 2
         /\ k.phase = "sleeping" => AwaitsLeft(k) = 2 * (MaxWaits - k.polls) + 1
         /\ k.phase = "reading" => AwaitsLeft(k) = 2
         /\ k.phase \in {"positioning", "collecting"} => AwaitsLeft(k) = 1
         /\ k.phase = "done" => AwaitsLeft(k) = 0
BY DEF AwaitsLeft

Wears(c) ==
  call[c].phase \in Requesting /\ call'[c] # call[c] =>
    AwaitsLeft(call'[c]) < AwaitsLeft(call[c])

LEMMA Requests ==
  Requesting = {"enqueueing", "positioning", "waiting", "sleeping", "reading", "collecting"}
BY DEF Requesting, Awaiting, Streaming

\* Of no request to be answered, or of one that is.
LEMMA AnswerIsNear ==
  ASSUME IInv, NEW c \in Calls, call'[c].phase = "done"
  PROVE  Wears(c)
<1>1. SUFFICES ASSUME call[c].phase \in Requesting
               PROVE  AwaitsLeft(call'[c]) < AwaitsLeft(call[c])
  BY DEF Wears
<1>2. AwaitsLeft(call'[c]) = 0
  BY Distances
<1>3. MaxWaits - call[c].polls \in Nat
  BY CallType, MaxWaitsAssumption DEF CallState
<1>4. AwaitsLeft(call[c]) \in Nat /\ AwaitsLeft(call[c]) > 0
  BY <1>1, <1>3, Requests, Distances
<1> QED
  BY <1>2, <1>4

LEMMA OneWears ==
  ASSUME NEW c \in Calls, \A x \in Calls \ {c} : call'[x] = call[x], Wears(c)
  PROVE  \A x \in Calls : Wears(x)
BY DEF Wears

LEMMA AnswerWears ==
  ASSUME IInv, NEW c \in Calls, NEW read, NEW told, NEW r, Turn(c, "done", read, told, r)
  PROVE  \A x \in Calls : Wears(x)
<1>1. call'[c].phase = "done" /\ \A x \in Calls \ {c} : call'[x] = call[x]
  BY DEF Turn
<1>2. Wears(c)
  BY <1>1, AnswerIsNear
<1> QED
  BY <1>1, <1>2, OneWears

\* An answer, from any await; and a websocket's steps, or a call's first.
LEMMA AnsweredWears ==
  ASSUME IInv, NEW c \in Calls, NEW r, Answers(c, r)
  PROVE  \A x \in Calls : Wears(x)
BY AnswersEnds, AnswerWears DEF Ends

LEMMA OthersWear ==
  ASSUME NEW c \in Calls, call[c].phase \notin Requesting,
         \A x \in Calls \ {c} : call'[x] = call[x]
  PROVE  \A x \in Calls : Wears(x)
BY OneWears DEF Wears

\* On its way a request comes closer, wherever it turns.
LEMMA GoingWears ==
  ASSUME IInv, NEW c \in Calls, NEW p, Goes(c, p),
         \/ call[c].phase = "enqueueing" /\ p \in {"waiting", "positioning"}
         \/ call[c].phase = "waiting" /\ p \in {"collecting", "sleeping"}
  PROVE  \A x \in Calls : Wears(x)
<1>1. /\ call'[c].phase = p /\ call'[c].polls = call[c].polls
      /\ \A x \in Calls \ {c} : call'[x] = call[x]
      /\ MaxWaits - call[c].polls \in Nat
  BY CallType, MaxWaitsAssumption DEF Goes, CallState
<1>2. AwaitsLeft(call'[c]) < AwaitsLeft(call[c])
  <2>1. CASE call[c].phase = "enqueueing"
    <3>1. AwaitsLeft(call[c]) = 2 * (MaxWaits - call[c].polls) + 3
      BY <2>1, Distances
    <3>2. \/ AwaitsLeft(call'[c]) = 2 * (MaxWaits - call[c].polls) + 2
          \/ AwaitsLeft(call'[c]) = 1
      BY <2>1, <1>1, Distances
    <3> QED
      BY <3>1, <3>2, <1>1
  <2>2. CASE call[c].phase = "waiting"
    <3>1. AwaitsLeft(call[c]) = 2 * (MaxWaits - call[c].polls) + 2
      BY <2>2, Distances
    <3>2. \/ AwaitsLeft(call'[c]) = 2 * (MaxWaits - call[c].polls) + 1
          \/ AwaitsLeft(call'[c]) = 1
      BY <2>2, <1>1, Distances
    <3> QED
      BY <3>1, <3>2, <1>1
  <2> QED
    BY <2>1, <2>2
<1> QED
  BY <1>1, <1>2, OneWears DEF Wears

\* Each sleep spends an interval, and the last one ends the call.
LEMMA SleepsWear ==
  ASSUME IInv, NEW c \in Calls, WaitSleeps(c)
  PROVE  \A x \in Calls : Wears(x)
<1>1. CASE call[c].polls = MaxWaits
  BY <1>1, AnsweredWears DEF WaitSleeps
<1>2. CASE call[c].polls # MaxWaits
  <2>1. /\ call[c].phase = "sleeping"
        /\ call' = [call EXCEPT ![c].phase = "waiting", ![c].polls = @ + 1]
    BY <1>2 DEF WaitSleeps
  <2>2. /\ call'[c].phase = "waiting" /\ call'[c].polls = call[c].polls + 1
        /\ \A x \in Calls \ {c} : call'[x] = call[x]
    BY <2>1, SleepMoves DEF Moves, Turn
  <2>3. call[c].polls \in 0 .. MaxWaits
    BY CallType DEF CallState
  <2>4. /\ AwaitsLeft(call[c]) = 2 * (MaxWaits - call[c].polls) + 1
        /\ AwaitsLeft(call'[c]) = 2 * (MaxWaits - (call[c].polls + 1)) + 2
    BY <2>1, <2>2, Distances
  <2>5. AwaitsLeft(call'[c]) < AwaitsLeft(call[c])
    BY <2>3, <2>4, MaxWaitsAssumption
  <2> QED
    BY <2>2, <2>5, OneWears DEF Wears
<1> QED
  BY <1>1, <1>2

LEMMA ReadsWear ==
  ASSUME IInv, NEW c \in Calls, Reads(c)
  PROVE  \A x \in Calls : Wears(x)
<1>1. CASE ~Visible(c)
  BY <1>1, AnsweredWears DEF Reads
<1>2. CASE Visible(c)
  <2>1. PICK p \in {"positioning", "collecting"} :
          call' = [call EXCEPT ![c].read = Target(c), ![c].phase = p]
    BY <1>2 DEF Reads
  <2>2. call'[c].phase = p /\ \A x \in Calls \ {c} : call'[x] = call[x]
    BY <2>1, ReadMoves DEF Turn
  <2>3. AwaitsLeft(call[c]) = 2 /\ AwaitsLeft(call'[c]) = 1
    BY <2>2, Distances DEF Reads
  <2> QED
    BY <2>2, <2>3, OneWears DEF Wears
<1> QED
  BY <1>1, <1>2

LEMMA PositionedWears ==
  ASSUME IInv, NEW c \in Calls, Positioned(c)
  PROVE  \A x \in Calls : Wears(x)
<1>1. CASE \E r \in Responses : Answers(c, r)
  BY <1>1, AnsweredWears
<1>2. CASE call' = [call EXCEPT ![c].phase = "done", ![c].response = "status",
                                ![c].told = call[c].read]
  BY <1>2, TellEnds, AnswerWears
<1> QED
  BY <1>1, <1>2, AnswerNames DEF Positioned

LEMMA HandlerWears ==
  ASSUME IInv, NEW c \in Calls, HandlerStep(c)
  PROVE  \A x \in Calls : Wears(x)
<1>1. call \in [Calls -> CallState]
  BY CallType
<1>2. CASE Enqueued(c)
  BY <1>2, GoingWears DEF Enqueued
<1>3. CASE WaitReads(c)
  BY <1>3, GoingWears, AnsweredWears DEF WaitReads
<1>4. CASE \/ \E r \in {"invalid", "full", "busy"} : EnqueueRefused(c, r)
           \/ Collects(c) \/ StreamVanishes(c)
  BY <1>4, AnsweredWears DEF EnqueueRefused, Collects, StreamVanishes
<1>5. CASE StreamOpens(c) \/ StreamGreets(c) \/ StreamRefreshes(c) \/ StreamSends(c)
  <2>1. call[c].phase \notin Requesting
    BY <1>5, Requests DEF StreamOpens, StreamGreets, StreamRefreshes, StreamSends
  <2>2. \A x \in Calls \ {c} : call'[x] = call[x]
    BY <1>1, <1>5 DEF StreamOpens, StreamGreets, StreamRefreshes, StreamSends, Answers
  <2> QED
    BY <2>1, <2>2, OthersWear
<1> QED
  BY <1>2, <1>3, <1>4, <1>5, PositionedWears, SleepsWear, ReadsWear DEF HandlerStep

LEMMA ClientWears ==
  ASSUME IInv, NEW c \in Calls, ClientStep(c) \/ Backpressure(c)
  PROVE  \A x \in Calls : Wears(x)
<1>1. call \in [Calls -> CallState]
  BY CallType
<1>2. CASE Backpressure(c) \/ ClientLeaves(c)
  BY <1>2, AnsweredWears DEF Backpressure, ClientLeaves
<1>3. CASE \/ \E kind \in {"sync", "async"} : Submit(c, kind)
           \/ \E r \in Calls \ {c}, kind \in {"poll", "result", "stream"} : Ask(c, r, kind)
           \/ ClientAsks(c)
  <2>1. call[c].phase \notin Requesting
    BY <1>3, Requests DEF Submit, Ask, ClientAsks, Idle
  <2>2. \A x \in Calls \ {c} : call'[x] = call[x]
    BY <1>1, <1>3 DEF Submit, Ask, ClientAsks, Goes
  <2> QED
    BY <2>1, <2>2, OthersWear
<1> QED
  BY <1>2, <1>3 DEF ClientStep

LEMMA PushWears ==
  ASSUME IInv, NEW t \in Calls, Push(t)
  PROVE  \A x \in Calls : Wears(x)
<1> SUFFICES ASSUME NEW x \in Calls, call[x].phase \in Requesting PROVE call'[x] = call[x]
  BY DEF Wears
<1>1. x \notin subscribers[t]
  BY Requests, Places DEF IInv, SubscribersAreServed
<1> QED
  BY <1>1 DEF Push

LEMMA RestartWears ==
  ASSUME IInv, PodRestarts
  PROVE  \A x \in Calls : Wears(x)
<1> SUFFICES ASSUME NEW x \in Calls, call[x].phase \in Requesting PROVE Wears(x)
  BY DEF Wears
<1>1. call[x] \in CallState /\ call[x].phase \in Awaiting
  BY CallType DEF Requesting
<1>2. call'[x].phase = "done"
  BY <1>1 DEF PodRestarts, CallState
<1> QED
  BY <1>2, AnswerIsNear

\* No request awaits for ever on a road of its own: with any number of poll
\* intervals, each of its steps brings it closer to its answer, and no push,
\* task, processor or restart sets it back (app.py:676-689).
THEOREM RequestsComeToAnAnswer == Spec => RequestsWearOut
<1>1. IInv /\ [Next]_vars => [\A c \in Calls : Wears(c)]_vars
  <2> SUFFICES ASSUME IInv, Next PROVE \A c \in Calls : Wears(c)
    OBVIOUS
  <2>1. ASSUME UNCHANGED call PROVE \A c \in Calls : Wears(c)
    BY <2>1 DEF Wears
  <2> QED
    BY <2>1, HandlerWears, ClientWears, PushWears, RestartWears
       DEF Next, TaskGone, OutcomeExpires, TaskEnds, ProcessorReturns, ProcessorDies, Supervise
<1> QED
  BY <1>1, InitInv, StepInv, PTL DEF Spec, RequestsWearOut, Wears
=============================================================================
