------------------------------ MODULE Starter ------------------------------
(***************************************************************************)
(* `start convert` (src/orchestration/starter.py): the command line that   *)
(* starts one conversion per object under a prefix and, with --wait,       *)
(* reports in its exit code how they ended.  Any number of invocations run *)
(* next to each other and to the workflows they start.                     *)
(*                                                                         *)
(* What joins them is Temporal: it refuses a workflow id while a run of it *)
(* is open, and keeps how each run ended.  A handle the starter was given  *)
(* by a start is bound to that run; one it makes from the id alone is      *)
(* bound, when it is awaited, to whichever run is then the latest.         *)
(***************************************************************************)
EXTENDS ConvertWorkflow, Sequences

CONSTANTS
  Clis,      \* invocations of the command
  Waiting,   \* those with --wait
  Listings   \* what a prefix may list: objects in the order of their keys

ASSUME WaitingAssumption == Waiting \subseteq Clis

\* A bucket lists an object once.
ASSUME ListingsAssumption ==
  /\ Listings \subseteq Seq(Docs)
  /\ \A keys \in Listings : \A i, j \in 1 .. Len(keys) :
       keys[i] = keys[j] => i = j

VARIABLES
  cli,     \* each invocation of _convert()
  history  \* Temporal's record: how each run of each document ended

starterVars == <<wf, cli, history>>

-----------------------------------------------------------------------------
\* A handle made from the workflow id alone; run numbers begin at 1.
Latest == 0

Phases == {"idle", "starting", "waiting", "exited"}

\* handle is handles[key] of _convert(), as the run it follows; started the
\* documents it counts as started; at the document of the loop it is in.
\* since is not in the code: the run that was started, or that was in the
\* way, when the start of a document was answered.
Invocation ==
  [phase   : Phases,
   keys    : Listings \cup {<< >>},
   at      : Nat,
   handle  : [Docs -> 0 .. MaxRuns],
   since   : [Docs -> 0 .. MaxRuns],
   started : SUBSET Docs,
   failed  : BOOLEAN,
   code    : {0, 1}]

NotInvoked ==
  [phase |-> "idle", keys |-> << >>, at |-> 1,
   handle |-> [d \in Docs |-> Latest], since |-> [d \in Docs |-> Latest],
   started |-> {}, failed |-> FALSE, code |-> 0]

StarterInit ==
  /\ Init
  /\ cli = [c \in Clis |-> NotInvoked]
  /\ history = [d \in Docs |-> [n \in 1 .. MaxRuns |-> NoVerdict]]

\* Temporal keeps the ending of a document's run with its run id.
Recorded ==
  history' = [d \in Docs |-> [n \in 1 .. MaxRuns |->
                IF n = wf'[d].run THEN wf'[d].verdict ELSE history[d][n]]]

Exit(r, code) == [r EXCEPT !.phase = "exited", !.code = code]

\* The loop over the keys goes on; after the last one the handles are awaited
\* in the same order, or it is over.
Dispatched(c, r) ==
  IF r.at < Len(r.keys) THEN [r EXCEPT !.at = @ + 1]
  ELSE IF c \in Waiting THEN [r EXCEPT !.phase = "waiting", !.at = 1]
  ELSE Exit(r, 0)

At(c, where) == cli[c].phase = where
Current(c) == cli[c].keys[cli[c].at]

-----------------------------------------------------------------------------
\* _list_objects answers: nothing under the prefix is an error of its own.
List(c, keys) ==
  /\ At(c, "idle")
  /\ LET r == [cli[c] EXCEPT !.keys = keys]
     IN  cli' = [cli EXCEPT ![c] =
                   IF keys = << >> THEN Exit(r, 1)
                   ELSE [r EXCEPT !.phase = "starting"]]
  /\ UNCHANGED <<wf, history>>

\* Variant: only the workflow id is kept, not the handle the start returned.
StartConversionById(c) ==
  /\ At(c, "starting")
  /\ LET d == Current(c)
         n == wf[d].run + 1
     IN  /\ Start(d)
         /\ cli' = [cli EXCEPT ![c] =
                Dispatched(c, [cli[c] EXCEPT !.handle[d] = Latest,
                                             !.since[d] = n,
                                           !.started = cli[c].started \cup {d}])]
  /\ Recorded

\* start_conversion accepted: the handle follows the run it started.
StartConversion(c) ==
  /\ At(c, "starting")
  /\ LET d == Current(c)
         n == wf[d].run + 1
     IN  /\ Start(d)
         /\ cli' = [cli EXCEPT ![c] =
                Dispatched(c, [cli[c] EXCEPT !.handle[d] = n,
                                             !.since[d] = n,
                                           !.started = cli[c].started \cup {d}])]
  /\ Recorded

\* WorkflowAlreadyStartedError: a handle from the id alone.
AlreadyRunning(c) ==
  /\ At(c, "starting")
  /\ LET d == Current(c)
     IN  /\ Open(d)
         /\ cli' = [cli EXCEPT ![c] =
                Dispatched(c, [cli[c] EXCEPT !.handle[d] = Latest,
                                             !.since[d] = wf[d].run])]
  /\ UNCHANGED <<wf, history>>

\* handle.result() of a handle without a run: Temporal resolves the id.
Attach(c) ==
  /\ At(c, "waiting")
  /\ cli[c].handle[Current(c)] = Latest
  /\ cli' = [cli EXCEPT ![c].handle[Current(c)] = wf[Current(c)].run]
  /\ UNCHANGED <<wf, history>>

\* handle.result() returns or raises WorkflowFailureError, as the run the
\* handle follows closed; the last one decides the exit code.
HearResult(c) ==
  LET r == cli[c]
      d == Current(c)
      ending == history[d][r.handle[d]]
      heard == [r EXCEPT !.at = r.at + 1,
                         !.failed = r.failed \/ ending # "Completed"]
  IN  /\ At(c, "waiting")
      /\ r.handle[d] # Latest
      /\ ending # NoVerdict
      /\ cli' = [cli EXCEPT ![c] =
                   IF r.at < Len(r.keys) THEN heard
                   ELSE Exit(heard, IF heard.failed THEN 1 ELSE 0)]
      /\ UNCHANGED <<wf, history>>

\* Anything else a request raises, or an interrupt, ends the command where it
\* is; what it started goes on.
Aborts(c) ==
  /\ cli[c].phase # "exited"
  /\ cli' = [cli EXCEPT ![c] = Exit(cli[c], 1)]
  /\ UNCHANGED <<wf, history>>

Invoked(c) ==
  \/ \E keys \in Listings : List(c, keys)
  \/ StartConversion(c)
  \/ AlreadyRunning(c)
  \/ Attach(c)
  \/ HearResult(c)
  \/ Aborts(c)

WorkflowRuns ==
  /\ \E d \in Docs : Progress(d)
  /\ Recorded
  /\ UNCHANGED cli

StarterNext == WorkflowRuns \/ \E c \in Clis : Invoked(c)

StarterSpec == StarterInit /\ [][StarterNext]_starterVars

-----------------------------------------------------------------------------
\* The run a handle follows is one the invocation may answer for: its own if
\* it started one, else the one in its way or a later one.
Answers(c, d) ==
  IF d \in cli[c].started
  THEN cli[c].handle[d] = cli[c].since[d]
  ELSE cli[c].handle[d] >= cli[c].since[d]

Ended(c, d) == history[d][cli[c].handle[d]]

\* The exit code of `convert --wait` says what became of the documents it
\* listed, however many invocations and runs there are of each: 0 only if
\* there were any and each completed in a run not older than the request for
\* it, and in its own where it started one; 1 after all were awaited only if
\* one of those runs failed (starter.py:52-98).
ExitCodeHonest ==
  \A c \in Waiting :
    LET r == cli[c]
        listed == 1 .. Len(r.keys)
    IN  r.phase = "exited" =>
          /\ r.code = 0 =>
               /\ listed # {}
               /\ \A i \in listed : /\ Answers(c, r.keys[i])
                                    /\ Ended(c, r.keys[i]) = "Completed"
          /\ r.code = 1 /\ listed # {} /\ r.at > Len(r.keys) =>
               \E i \in listed :
                 Ended(c, r.keys[i]) \in Verdicts \ {"Completed"}
=============================================================================
