------------------------------- MODULE System -------------------------------
(***************************************************************************)
(* Conversions from end to end: the command lines of module Starter, the   *)
(* workflows they start or find running, and what surrounds those in       *)
(* module Orchestration, down to docling-serve's tasks.                    *)
(*                                                                         *)
(* The two meet in the workflows.  A command line starts runs and follows  *)
(* them through Temporal's record; everything else happens beside it.      *)
(***************************************************************************)
EXTENDS Orchestration

CONSTANTS
  Clis,      \* invocations of `start convert`
  Waiting,   \* those with --wait
  Listings   \* what a prefix may list: objects in the order of their keys

ASSUME WaitingAssumption == Waiting \subseteq Clis

\* A bucket lists an object once.
ASSUME ListingsAssumption ==
  /\ Listings \subseteq Seq(Docs)
  /\ \A keys \in Listings : \A i, j \in 1 .. Len(keys) :
       keys[i] = keys[j] => i = j

VARIABLES
  cli,     \* each invocation, as in Starter
  history  \* Temporal's record: how each run of each document ended

S == INSTANCE Starter

beside == <<tasks, slot, reply, json, abandoned>>
systemVars == <<wf, tasks, slot, reply, json, abandoned, cli, history>>

-----------------------------------------------------------------------------
SystemInit == Init /\ S!StarterInit

\* What a step of a workflow, a callback or a task leaves with Temporal.
Recorded == S!Recorded /\ UNCHANGED cli

Converts == Conversions /\ Recorded

Commands == \E c \in Clis : S!Invoked(c) /\ UNCHANGED beside

SystemNext == Converts \/ Commands

SystemSpec == SystemInit /\ [][SystemNext]_systemVars

\* The fairness of Orchestration, and an invocation that awaits its handles
\* goes on when Temporal has something to tell it.  Starts need not happen.
SystemFairness ==
  /\ WF_systemVars(SubmitReturns /\ Recorded)
  /\ \A d \in Docs :
       /\ SF_systemVars(SubmitLands(d) /\ Recorded)
       /\ WF_systemVars(Wake(d) /\ Recorded)
       /\ WF_systemVars(TimerFires(d) /\ Recorded)
       /\ WF_systemVars(CheckReads(d) /\ Recorded)
       /\ WF_systemVars(CheckAnswers(d) /\ Recorded)
       /\ WF_systemVars(FetchOutcome(d) /\ Recorded)
       /\ WF_systemVars(CollectOutputs(d) /\ Recorded)
  /\ \A c \in Clis :
       /\ WF_systemVars(S!Attach(c) /\ UNCHANGED beside)
       /\ WF_systemVars(S!HearResult(c) /\ UNCHANGED beside)

SystemFairSpec == SystemSpec /\ SystemFairness

-----------------------------------------------------------------------------
\* What docling-serve made of a task accounts for a verdict given on it.
Accounts(t, verdict) ==
  CASE verdict = "Completed" ->
         /\ Ended(t) /\ Status(t) = "success"
         /\ tasks[t].state = "empty" => ~tasks[t].known
         /\ json[tasks[t].doc] # NoTask
    [] verdict = "ConversionFailed" -> tasks[t].state \in {"failed", "empty"}
    [] verdict = "MissingOutputs" -> tasks[t].state \in {"unexported", "empty"}
    [] verdict = "TaskLost" -> ~tasks[t].known
    [] verdict = "PollBudgetExhausted" -> TRUE

\* Temporal's record stays honest: long after a run closed, and whatever later
\* runs, late callbacks and abandoned submits of the same document did since,
\* its ending is accounted for by a task that run itself submitted
\* (workflows.py:116-177; dispatch.py:14-27, where a closed id is used again).
RecordHonest ==
  \A d \in Docs, n \in 1 .. MaxRuns :
    history[d][n] \notin {S!NoVerdict, "SubmitRejected"} =>
      \E t \in Sent(d, n) : Accounts(t, history[d][n])

\* What exit code 0 of `convert --wait` is worth: for every document listed,
\* docling-serve really ended with success a task submitted by the very run
\* the command line answers for, and there is JSON under the document's
\* prefix, whoever else started, followed or repeated the conversion
\* (starter.py:52-98, workflows.py:128-177).
SuccessIsReal ==
  \A c \in Waiting :
    LET r == cli[c] IN
    r.phase = "exited" /\ r.code = 0 =>
      \A i \in 1 .. Len(r.keys) :
        LET d == r.keys[i] IN
        /\ S!Answers(c, d)
        /\ \E t \in Sent(d, r.handle[d]) : Accounts(t, "Completed")

\* Whoever waits is answered: a command line that awaits its handles exits,
\* although the run it follows may lose its callbacks, its tasks and the
\* answers of its submits (starter.py:84-98).
EveryWaitEnds ==
  \A c \in Waiting :
    cli[c].phase = "waiting" ~> cli[c].phase = "exited"
=============================================================================
