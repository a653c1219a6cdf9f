# Verification of docling-serve-ray

This directory holds a TLA+ model of the code of this repository that carries
its own logic: the Temporal workflow that converts documents, the command line that
starts it, the activities, worker and callback relay around it, the upload
facade, and the patched HTTP API of docling-serve. TLC checks small instances.
TLAPS proves every safety invariant the passing runs check, and the
refinements between the modules, for every value of the constants.

Paths below are relative to the repository (`src/orchestration/workflows.py`
and so on).

    tlc -workers 2 -config Starter.cfg MCStarter.tla
    tlapm ConvertWorkflowProofs.tla

`PROJECT.json` lists every run with its properties, the source lines of each
definition (`map`), the mutants, the findings and the hazards.

## 1. Inventory

| component | code | state it keeps | operations |
|---|---|---|---|
| conversion workflow | `src/orchestration/workflows.py`, `models.py`, `dispatch.py` | per run: `_task_id`, `_completed`, submissions, polls | start, submit, wait for callback or timer, check, fetch outcome, collect outputs, resubmit, the signal `task_completed` |
| activities and worker | `src/orchestration/activities.py`, `worker.py` | one submit slot per process (`max_concurrent_activities=1` on the submit queue) | `submit_conversion`, `check_task`, `fetch_task_outcome`, `collect_outputs`, their retries |
| admission | the submit queue above, docling-serve's queue limit, facade uploads | queue length per tenant, slots | check, push, 429 |
| upload facade | `src/facade/service.py`, `main.py`, `utils.py` | S3 inputs and outputs per request, the Redis claim ticket `facade:task:<id>` | two upload endpoints, result, background cleanup |
| callback relay | `src/callback_relay/relay/relay.go` | none | turn docling-serve's callback into a Temporal signal |
| docling-serve API | `src/patches/docling_serve/app.py` | websocket subscribers, queue processor task, `_queue_processor_failed` | submit (sync, async), poll, result, websocket, supervision |
| docling-serve engine, Ray, Temporal, S3, Redis | not in the repository | tasks, histories, objects, keys | external, see section 7 |
| output listing, formats | `activities.py`, `docling_client.py` | none | list a prefix, suffix to format |
| starter | `src/orchestration/starter.py`, `dispatch.py` | per invocation: the keys listed, a handle per document, how many started, whether one failed | list a prefix, start a workflow per object or find one running, await the handles, exit code |
| settings and clients | `config.py`, `src/facade/dependencies.py` | none that changes | read the environment, build clients |
| nginx, scripts, images | `src/nginx/nginx.conf`, `scripts/`, Bazel and compose files | none | routing, build |

How they interact. A starter starts one workflow per document, with an id
derived from the object key; Temporal refuses the id while a run of it is open,
and the starter then follows whichever run is there. The workflow submits through the one-slot queue;
docling-serve admits or answers 429, works the task off, posts a callback to
the relay, and the relay signals *the workflow id*, that is whichever run is
open. In between, the workflow polls as a safety net. The facade is a second
client of docling-serve, with its own S3 prefixes and a Redis record per task.
The patched API serves both, and pushes progress over websockets as long as its
queue processor lives.

What is hard there:

- **Ordering.** Callbacks come late, twice, for a lost predecessor task or for
  a task of an earlier run, and before or during the safety poll.
- **Stale state.** A status is read, and something happens before the answer is
  used: in `check_task`, in `resolve_result`, in every websocket handler.
- **Identity.** A workflow id, a prefix in the bucket and a file name each stand
  for more than one thing over time: runs, tasks, documents of one stem.
- **Partial failure.** A POST that lands and is never answered; a cleanup that
  stops between two buckets; a task accepted whose claim ticket is not written.
- **Limits.** A check-then-push queue limit; poll budgets per submission with a
  counter over all of them; a single submit slot everybody competes for.
- **Liveness.** Lost callbacks, tasks that hang, missed websocket pushes, a
  dead queue processor.

What makes each component correct:

- workflow: at most `MAX_SUBMISSIONS` submissions and one poll budget for each;
  the first report about a task stands; it gives up only on a spent budget; it
  cannot go on for ever by itself;
- workflow among its surroundings: the verdict is about the task this run
  submitted; no needless second conversion; docling-serve is given no more
  tasks than the run counts; the submit slot is held only for a run that awaits
  it; a callback is acknowledged only when nobody awaits it any more; every run
  ends;
- starter: its exit code says how the documents it listed ended, and success
  means real work of docling-serve's; who waits is answered;
- admission: the queue exceeds its limit by a known amount at most; a 429 never
  costs a document; each document submitted has its task;
- facade: uploads and artifacts go only after they were delivered; the ticket is
  deleted last; nothing comes back; each file is given its own artifacts; every
  call is answered;
- API: what it answers is true of the task when it is answered; pushed-to
  websockets are exactly the served ones; another tenant's task looks like none; a completed task closes its websocket, its ending told last;
  a dead processor is replaced.

`PROJECT.json` "hazards" holds the same at the level of single lines, each
with the properties that would catch it, or why none does.

## 2. Modules

| module | models | extends / instantiates |
|---|---|---|
| `Conversion` | abstract: what a conversion promises whoever starts it | |
| `ConvertWorkflow` | `ConvertDocumentWorkflow` alone, its answers arbitrary | `C == INSTANCE Conversion WITH ...` |
| `ConvertWorkflowProofs` | theorems | `ConvertWorkflow` |
| `Starter` | command lines next to the workflows | `ConvertWorkflow` |
| `StarterProofs` | theorems | `Starter`, `ConvertWorkflowProofs` |
| `MCStarter` | listings and symmetry for TLC | `Starter` |
| `CallbackRelay` | the relay's handler, a function | |
| `Orchestration` | workflows, docling-serve's tasks, callbacks, submit slot, checks in flight, output bucket | `W == INSTANCE ConvertWorkflow`, `Relay == INSTANCE CallbackRelay` |
| `OrchestrationProofs` | theorems | `Orchestration`, `WP == INSTANCE ConvertWorkflowProofs` |
| `System` | command lines, workflows, tasks together | `Orchestration`, `S == INSTANCE Starter` |
| `MCSystem` | listings for TLC | `System` |
| `SystemProofs` | theorems | `System`, `OrchestrationProofs`, `SP == INSTANCE StarterProofs` |
| `Admission` | submit slots, abandoned requests, uploads, the queue limit | |
| `AdmissionProofs` | theorems | `Admission` |
| `Artifacts` | how the facade reads the names of exported objects | |
| `ClaimCheck` | abstract: what the facade promises of an upload | |
| `Facade` | upload endpoints, results, cleanup | `Artifacts`, `CC == INSTANCE ClaimCheck WITH ...` |
| `FacadeProofs` | theorems | `Facade` |
| `MCFacade` | uploads, formats and symmetry for TLC | `Facade` |
| `StatusService` | abstract: what the API promises whoever asks about a task | |
| `DoclingApi` | the patched API | `SS == INSTANCE StatusService WITH ...` |
| `DoclingApiProofs` | theorems | `DoclingApi` |
| `MCDoclingApi` | one call's tenant fixed for TLC | `DoclingApi` |
| `StatusServiceProofs` | theorems: the refinement, and that requests end | `DoclingApiProofs` |

They stack: `System` implements both `Orchestration` and `Starter`, each of these
implements `ConvertWorkflow`, and that implements `Conversion`. `Facade`
implements `ClaimCheck`, `DoclingApi` implements `StatusService`.

Definitions whose comment begins with `Variant:` are not part of a
specification. Each is a plausible mistake in the definition that follows it (a
missing reset, a guard dropped, an order swapped), and each property of each
passing run fails when its variant is put in the definition's place
("mutants"): the property can see the code it is about.

### ConvertWorkflow

`wf[d]` is the current run of the workflow of document `d`: where it awaits
(`phase`), the attempt of the check, the task awaited (`_task_id`), what was
signalled (`_completed`, per task), `submissions`, `polls` of this submission,
`safetyPolls` over the run, and the verdict.

`Step` is `Start`, a new run, or `Progress`: one action per thing `run()` can be
resumed by. `SubmitSucceeds` and
`SubmitRejected` end `submit_conversion`; `TaskCompletedSignal` is the signal
handler, which may run at any await; `Wake` and `TimerFires` are the two ways
out of `wait_condition`; `CheckTerminal`, `CheckInProgress`, `CheckLost`,
`CheckUnanswered` and `CheckRejected` are the answers of `check_task` *together
with* what `_wait_until_terminal` and `run()` do next without awaiting: the
budget test, the resubmission, the end of the run. `FetchOutcome` and
`CollectOutputs` are the two remaining activities. `Start` with `run + 1` is
a new run under the same workflow id, allowed once the previous one closed.

A check that is rejected (`CheckRejected`, non-retryable) or unanswered after
its last attempt (`CheckUnanswered`) counts as a poll in progress, as in the
code.

`Left` is what a run has left to do: submissions, the way to the end of this
one, polls of its budget, attempts of the status check, in this order of weight.
A lost task puts a run back to the start with a fresh budget and a poll puts it
back to waiting, so no single count decreases; the four together do
(`RunsWearOut`).

### Conversion

What is left of a workflow without its awaits: `Request`, `Adopt` a task,
`Resubmit` after losing it, `Finish`, `Conclude` with a verdict that the
milestone reached can account for (`Endings`). The refinement mapping
(`Milestone`, `InHand`) makes the waits and checks of a task one milestone.
A callback, a poll and its retries are then invisible; what is not allowed to
happen is a submission after a task is known to have finished, a task given up
other than by a resubmission within the limit, or a verdict out of turn.

### Starter

`cli[c]` is one invocation of `_convert()`: the keys listed, where its two loops
are (`at`), `handles` as the run each follows, which documents it `started`,
whether a result was a failure, the exit code. `history` is Temporal's record of
how each run ended. `StartConversion` starts a run and keeps a handle bound to
it; `AlreadyRunning` is `WorkflowAlreadyStartedError`, after which the handle is
made from the id alone (`Latest`) and is bound to a run only when it is awaited
(`Attach`): the run that was in the way may have closed and a third party
started another one by then. `HearResult` takes the handles in the order of the
keys; `Aborts` is any other error and an interrupt. `since` is not in the code:
it remembers which run answered the start, for the property to refer to.

### Orchestration

Here the answers are the ones the surroundings give. `tasks` is the sequence of
everything docling-serve ever accepted; an element knows its document and the
run that submitted it, how it ended, whether docling-serve still knows it,
whether its submit was abandoned (`orphan`), and how many deliveries of its
callback are left. `slot` is the task whose submit holds the one slot, `reply`
what a status request already read while the workflow has not heard it yet,
`json[d]` the task whose JSON lies under the prefix of `d`.

`SubmitLands` / `SubmitReturns` / `SubmitAbandoned` are the three points of a
POST: docling-serve created the task, the workflow has its id, nobody has it.
A worker restart, the HTTP client's time limit, and a 503 answered *after* the
task was enqueued (`get_queue_position` under back pressure, `app.py:1047`)
all have the effect of `SubmitAbandoned`. `CheckReads` / `CheckAnswers` split a status poll the same
way; the signal handler may run in between. `CallbackArrives` is an attempt of
docling-serve that reaches the relay, `CallbackFails` one that does not. The
relay may refuse its token, find Temporal unavailable (with the signal landed or
not), or signal the run that is open *by now*, or none; `CallbackRelay` says
which of these it answers how, and docling-serve tries again unless it hears the
acknowledgement, up to `CallbackAttempts` times. 0 attempts are a deployment
without a relay.

`Next` is a new run (`Start`) or one of `Conversions`, everything that happens
once there are runs.

### System

`Orchestration` with the command lines of `Starter` in the place of its arbitrary
`Start`: `cli` and `history` are added, a step is one of `Conversions`, whose
closed runs Temporal records (`Recorded`), or one of a command line (`Commands`).
Properties can now relate the two ends: an exit code and what docling-serve made
of a task.

### CallbackRelay

The handler keeps nothing, so it is two operators on the request and Temporal's
answer: `Relays` (does it signal) and `Response`. A request may also carry other
events than a completion, no task id, or no verdict: those are acknowledged or
refused without a signal, so the composition posts completions only.

### Admission

`slot[w]` is the submit worker `w` has in docling-serve and how far it is:
arrived, past the check, pushed. `loose` counts the requests without a slot:
facade uploads, and submits whose caller gave up (docling-serve goes on with
them). `Check` reads the queue length, `Push` does not look again: these two
actions are why the limit is not exact. `admitted` counts the tasks pushed,
whatever became of them: it is there to be compared with the documents
`submitted` (`OneTaskEach`), and no guard reads it.

### Artifacts

A file name is the sequence of its dot-separated pieces. `Extension` finds the
first extension of the facade's table that ends the leaf of a key, as
`parse_artifact_key` does, which is why the order of the table matters
(`doctags.txt` before `txt`); a key with none of them is skipped. `Found` is what
is filed under an uploaded file's stem.

### Facade

A call is an asynchronous upload, a synchronous upload or a GET of a result.
`phase` says where it awaits; between two awaits the code is one action, so
calls interleave as coroutines of one event loop do. `inputs` and `outputs` are
the two S3 prefixes of a request, `record` the claim ticket (and, if it is not
there, why: expired or cleaned), `task` and `converted` what docling-serve made
of the upload. `Upload` holds the names of the files in the form (a name may
occur twice; the later file then replaces the earlier) and `Formats` the
extensions of the formats asked for, not all of which the facade has a response
field for. `LookUp` reads the ticket, `ListArtifacts` lists, one
`FetchArtifact` per artifact, `RespondWithResult` answers and leaves the
cleanup to the background: `CleanInputs`, `CleanOutputs`, `CleanRecord`, in that
order. `SubmitFails`, `RecordFails`, `ResolveFails`, `CleanupFails` are a
request to S3, Redis or docling-serve that fails at that await, with the
handler's reaction (502, 500 for Redis, or the cleanup's log line and return).

A request that fails may have been carried out: `SubmitFails` with the task
created, `RecordFails` with the record written.

### ClaimCheck

What is left of an upload without the calls about it: `upload`, `result`,
`ticket` and whether the result was `delivered`. Uploads are deleted once
delivered, the result after them, the ticket is withdrawn when both are gone, and
nothing comes back. `UploadOf` and `ResultOf` in `Facade` are the refinement
mapping, with `Delivered` and the record itself.

### DoclingApi

A call is a request or a websocket; a submit's task carries the call's name.
`phase` says where it awaits; `subscribers` is `notifier.task_subscribers`;
`processor` and `failed` are the queue processor and the flag `/livez` reads.
Supervision is `ProcessorDies` (external), `Supervise` (the done callback sets
the flag) and `PodRestarts` (the platform restarts a pod whose `/livez` fails:
every call in flight is dropped, subscribers are empty again, tasks live on in
Redis). What the orchestrator has of a task are two records: `task`, its status, and
`outcome`. `TaskEnds` writes both, because the handlers fetch a result as soon as
the status says that there is one (`app.py:964-980`); each is lost by itself,
the status by `TaskGone` (a reaped or flushed record) and the outcome by
`OutcomeExpires` (`DOCLING_SERVE_ENG_RAY_RESULTS_TTL`, `docker-compose.yml:142-148`;
`tests/temporal/test_temporal_orchestration.py:303-328` deletes that key alone).
`Reads` looks at the one, `Collects` at the other, and answers 404 when there is
no outcome whatever the status was. `Backpressure` is Redis being exhausted at any of the awaits that
reach it. `Positioned` is the second await of a submit and of a poll: the task may
have ended or gone since the first.

### StatusService

The API without its awaits. A call is idle, open, streaming or over
(`standing`), asks for something (`asks`) about a task, has seen at most one status
it has not told yet (`look`), and was told and answered something. Of each task
there is its `life` and the outcome that is `kept`. A status told is one `Look`'s,
told once, or a push. `Facts` says when an answer may be given: which are claims
about the task at that moment (`accepted`, `error`, `vanished`, and of its outcome
`result` and `failed`), which look alike on purpose (404 for a task there is not
and for another tenant's), when an own task that is known is nevertheless a 404
(its outcome was asked for and none is kept, or a synchronous call's task failed),
and that a submit turned away with 422 or 429 has no task.
`Busy`, the answer under back pressure, promises nothing, because the code may
have admitted the task before (`app.py:1047`). `StandingOf` and `LookOf` in `DoclingApi`
are the refinement mapping, with a call's kind, both records of the task and what a
call was told and answered as they are; waits, queue positions, polls and subscriber lists are forgotten.

## 3. Runs

| run | instance | distinct states | what it shows |
|---|---|---|---|
| `workflow` | `MCStarter`: 1 document, 2 task ids, 3 submissions, budget 2, 2 check attempts, 2 runs, 3 command lines of which 1 waits | 1.8 million | submission and poll bounds, giving up only when spent, a run wears out, first report stands and the contract of `Conversion`, under every possible answer and signal; honest exit codes |
| `reruns` | 1 document, 2 runs of 2 submissions, 2 tasks, budget 2, 1 abandoned submit, checks and callbacks attempted twice | 754 thousand | verdicts are honest, conversions needed and acknowledgements earned with tasks and callbacks of a lost task, an abandoned submit or an earlier run still around |
| `two_docs` | 2 documents, budget 1, 1 callback attempt, fair | 325 thousand | honest verdicts while documents share the slot, which is held for a run that awaits it; both runs end although a callback is lost |
| `system` | `MCSystem`: 1 document, 2 command lines of which 1 waits, 2 runs, 3 tasks, budget 1, 1 abandoned submit, no relay, fair | 391 thousand | Temporal's record and exit code 0 are accounted for by tasks; docling-serve is given no more than is counted; who waits is answered, by polling alone |
| `admission` | 2 workers, 4 documents, queue 1, 1 abandoned, 1 upload, fair | 55 thousand | the overshoot bound; a task for each document submitted, others only for lost answers and uploads; every document admitted |
| `facade_concurrent` | 3 calls, 1 file, 1 fault | 622 thousand | two GETs of one upload race each other's cleanup, any one request failing: nothing undelivered is lost, the ticket goes last and is honoured, and the claim check of `ClaimCheck` is kept |
| `facade_batch` | 2 calls, `a.pdf` and `a.v1.pdf`, formats `doctags.txt` and `yaml`, 2 faults, fair | 164 thousand | a batch of which part converts, with names that contain each other: each file gets its own; every call answered |
| `docling_api` | `MCDoclingApi`: 2 calls, 2 tenants, 1 wait, 1 back pressure, 1 death, fair | 337 thousand | subscriptions, tenants, completion, the last word on a websocket, answers, supervision; every await brings a request closer to its answer; the contract of `StatusService`, with status and outcome lost in any order |

The four remaining runs are expected to find a violation; see section 5.

Why the bounds are enough:

- *Documents.* Two workflows share the submit slot and the bucket and nothing
  else (task ids are docling-serve's own, a prefix is per document). Two
  documents show contention; one is enough where the question concerns one run.
  A command line with several documents is covered by the theorem
  `ExitCodesAreHonest`.
- *Command lines.* Three: one starts the run in the way, one is refused and
  follows the id, one starts the next run before the second attaches.
- *Submissions, runs.* 2 of each give a lost predecessor within a run and a
  predecessor run; a third adds another of the same kind. `workflow`, whose
  workflow state is small, has 3, the code has 4. `system` has 1 submission, where
  the second task of a run is an abandoned submit's: there one more than is
  counted would be seen at once.
- *Budgets.* `PollsBounded` needs a budget above 1 to tell "per submission"
  from "per run": `workflow` has 2. So has `reruns`. In the other
  composed runs a budget of 1 already lets the callback race the only poll and
  the last poll at once.
- *Check attempts.* 2 in `workflow` and `reruns` (the code has 3, `CHECK_RETRY`):
  a retry, and the last one. 1 elsewhere, where a retry changes nothing.
- *Callbacks.* 2 attempts, in `reruns`, give refused or unanswered first and
  relayed later, and the duplicate. In `two_docs` every task has one, early, late
  or lost. `system` has none.
- *Task ids.* `MaxTasks` is as many as the other bounds can use in `system` and
  `two_docs`, where liveness is at stake. In `reruns`, which has none, 2 of the 5
  tasks possible: a lost or abandoned one and its successor in one run, or one
  of each run. A verdict is wrong by another task's word, and one other is
  enough for that; `VerdictsAreHonest` is proved for any number.
- *Calls of the facade.* An upload and two GETs is the smallest race between a
  response and another response's cleanup. One fault stops a cleanup anywhere,
  and the other GET's finds what it left. Two, a cleanup failing after another
  that failed, are in `facade_batch`.
- *Files and formats.* The two names share a beginning and differ in dots only,
  where a stem is cut; one format's extension ends with another's of the table,
  the other has no field.
- *Calls of the API.* The handlers share a task, the subscriber set and the
  processor. Two calls give a submit and every kind of second call, of the same
  or another tenant. Two websockets of one task do not meet except in
  `subscribers`, from which each removes only itself. Tenants differ in nothing but
  their names, so `MCDoclingApi` fixes one call's. One poll interval gives a look
  before it, a look after it, and giving up; another would repeat the first.
- *Admission.* Two workers, one abandoned request and one upload against a
  queue of one fill the bound exactly (4 requests past one check).

`CHECK_DEADLOCK FALSE` is set everywhere: all instances end, when every run is
closed or every call is answered and nothing is left to fail.

## 4. Fairness

- `Orchestration`: Temporal keeps its promises. Timers are durable, activations
  are processed, an activity with attempts left is attempted again. An answered
  check or submit is heard. Nothing is assumed of tasks (they may never end),
  of callbacks (all may be lost) or of forgetting. `SubmitLands` is *strongly*
  fair, because the slot is taken by other submits in between; that is
  Temporal's retry without end (`SUBMIT_RETRY`, `workflows.py:45-51`) with
  docling-serve's queue having room again and again, which `Admission` in turn
  shows for its part.
- `Admission`: docling-serve answers its requests and works its queue off.
  `TakeSlot` is strongly fair per document, for the same reason as above.
  Nothing is assumed of uploads, abandoned requests and giving up.
- `Facade`: a coroutine whose await is answered runs on. Tasks need not end.
- `DoclingApi`: the event loop runs handlers and the done callback; a websocket
  client that stays goes on asking. Nothing is assumed of tasks and pushes. That
  the platform restarts a pod that fails `/livez` is what the code relies on
  (`app.py:162-167`, `806-815`). This repository's own `docker-compose.yml` does
  not do it (its health check asks `/readyz`, and the service has no restart
  policy), so `DeadProcessorReplaced` holds where a platform does.
- `Starter` states no fairness: a command line promises nothing about when.
- `System`: the fairness of `Orchestration`, and a command line that awaits a
  handle goes on when Temporal has something to tell it (`starter.py:84-98`).
  Nothing is assumed of the part before: a command line may take for ever to
  start its documents, and may be interrupted.

## 5. Where code and text disagree

| run | property | what the trace shows |
|---|---|---|
| `budget_message` | `BudgetSpentMeansNoCallback` | The callback's signal is handled while the last safety poll is in flight; the run still fails with "... with no callback" (`workflows.py:217-219`), the completion sitting in `_completed`. |
| `all_failed` | `AllFailedIsAFailure` | "the per-document counts are the real verdict" (`workflows.py:135`), but once the result record has expired they are skipped (`:145`), and JSON an earlier run left under the prefix completes a run that converted nothing. |
| `facade_cleanup` | `CleanupNeverRisksDelivery` | "cleanup never delays or risks delivery" (`service.py:85-87`), but a GET that read the ticket before another GET's cleanup and lists after it answers a successful, empty document. |
| `facade_manifest` | `FailedIsMarkedFailed` | a failed document "still gets a "failed" status" (`utils.py:129-133`), but artifacts are matched by stem, so a failed `a.pdf` next to a converted `a.docx` is marked a success. |

`docs/ARCHITECTURE.md:279-284` says that serial submits keep docling-serve's
limit exact. `Admission` gives the conditions: theorem `SerialIsExact` proves
`LimitIsExact` for one worker *if* no submit is abandoned and nobody else
submits; without them only `OvershootBounded` holds. A submit is abandoned as
soon as the HTTP client's 60 seconds are over, and the slot is then free while
docling-serve still handles the request.

## 6. Proofs

Proved by TLAPS, for all documents, tasks, command lines, workers, calls,
uploads, limits and budgets, from the ASSUMEs of the modules (the limits are
naturals, where the code needs it positive; sets whose size is taken are
finite; a bucket lists an object once).

**ConvertWorkflowProofs.** `TypeCorrect`, `SubmissionsAreBounded`,
`PollsAreBounded`, `GivingUpIsEarned`, `FirstReportStands`,
`WorkflowImplementsConversion`, `StepsWearARunOut`, `NothingWearsOutForEver`. The
properties are not inductive: that `safetyPolls` stays within one budget per submission needs
to know what the *current* submission has used. `Spent` says that the polls
so far are at most one budget per earlier submission plus the current `polls`,
and `RunInv` adds what must hold at each await: below the budget while waiting,
at least one poll while checking, no verdict while open. `IInv` is
`RunInv(wf[d])` for every document; no step touches more than one, so the proof
goes action by action for one run. `FirstReportStands` needs the type only.
Products of submissions and budget are hidden behind `Allowance`, with one
lemma (`OneMoreBudget`) for the arithmetic. The refinement takes `IInv` as well:
that an open run has no verdict yet and a waiting one has a task is what makes
`Conclude` and `Adopt` steps of the abstract conversion. That a run wears out
needs it too, for each of the four counts to stay above zero: `StepsWearARunOut`
says that every step of a run but a recorded callback lessens `Left`, and
`NothingWearsOutForEver` that no infinite sequence goes down in that order
forever (the first count settles, then the second, and so on). Together they say
that a run takes finitely many steps of its own, without any fairness and for
all limits.

**OrchestrationProofs.** `TypeCorrect`, `VerdictsAreHonest`,
`NoConversionIsNeedless`, `AcknowledgedHasBeenTold`,
`OrchestrationImplementsWorkflow`, `ConversionsKeepTheirContract`,
`SlotIsHeldForItsRun`, `LoadIsBounded`, `RunsWearOutHere`. A verdict is
given several steps after docling-serve said what it rests on, and the task may
since have ended or been forgotten. `DocInv` relates one document's
workflow and the answer on its way (`reply`) to all the tasks: the task in hand
is this run's own (`OwnTask`), every other task of the run is forgotten or an
orphan (`OthersGone`), what was signalled or answered is true of the task
(`ToldTrue`, `ReplyTrue`), and what the run has learned by its phase stays
true (`Learned`), because tasks only ever grow towards their end (`Grows`). So a
step of docling-serve preserves `DocInv` of every document, a step of one
workflow leaves the others' alone (`Elsewhere`), and only a few steps do both.
The refinement to `ConvertWorkflow` is then by cases; composed with
`WorkflowImplementsConversion` through `WP` it gives `Conversion` for the whole;
composed with `StepsWearARunOut`, `RunsWearOutHere`. `LoadIsBounded` counts what
docling-serve was given against what the run counts, and the two are not in step:
the count goes up when the workflow hears of a task, the task is there before, and
an abandoned submit leaves a task nobody counted. `LoadInv` bounds the run's tasks
that are not orphans, plus one while the submit is still out (`Unsent`), by the
count; which step can move which side is in a lemma for each kind of step
(`Quiet`, `SameSent`).

**StarterProofs.** `ExitCodesAreHonest`, `WorkflowsAmongStarters`. An invocation
looks at a document up to three times, with any number of steps of workflows
and other command lines in between. What it holds meanwhile is stable: runs
are only added, an ending once recorded stays (`Grows`), and so does
`InvocationInv` (`InvocationStays`), so only the invocation's own steps need work.
`HistoryInv` ties Temporal's record to the workflows. `WorkflowsAmongStarters`
carries everything proved of `ConvertWorkflow` over.

**SystemProofs.** `SystemImplementsOrchestration`, `SystemImplementsStarter`,
`RecordStaysHonest`, `SuccessIsEarned`. Both sides are refined by dropping the
other's variables: a command line's `StartConversion` is a `Start` there, a step of
docling-serve is one of the answers `Starter` leaves open. So both inductive
invariants hold, and with them everything proved of either. What neither can say
is proved on top: an ending is accounted for when it is recorded (from
`DocInv`), and stays so whatever later runs of the document do (`AccountStays`:
tasks grow towards their end, a run's tasks keep their run, JSON is not removed).
`SuccessIsEarned` joins that to the exit code, which is honest about the record.

**AdmissionProofs.** `TypeCorrect`, `OvershootIsBounded`, `SerialIsExact`,
`OneTaskForEach`. A
push is never guarded, so a bound on `queued` alone is not inductive. `IInv`
bounds the queue *plus everything already past the check* (`PastCheck`), which
grows only where the queue was seen with room, and needs a bound on the
requests without a slot (`LooseBounded`). At a check that finds room, at most
`Admitters - 1` others can be past theirs. `SlotMoves` states what one change of
a slot does to the number of checked requests and is cited by every action.
`OneTaskForEach` compares a count of tasks with a count of documents, which is
only right if no document is submitted, or about to be, twice: `HeldOnce` says so,
and `CountInv` is that together with the property. `PushedMoves` is to pushed
requests what `SlotMoves` is to checked ones.

**FacadeProofs.** `TypeCorrect`, `NothingLostUndelivered`,
`TicketOutlivesObjects`, `TicketsAreHonoured`, `FilesGetTheirOwn`,
`ClaimsAreKept`. A cleanup looks at nothing but
its own call, so why may it delete? Because of what a call carries in relation to
what is still stored: *as long as all artifacts of a task are there*, a call that
fetches has fetched or still lists all of them, and a call that cleans carries all
of them (`CallInv`). If they are not all there any more, none is, and somebody
delivered (`UploadInv`). Stated like this it is inductive across any number of
racing calls: the call that deletes the artifacts either finds them all, and is
itself the delivery, or finds that there was one. `CallMoves` covers the steps that
touch no storage; the others have a lemma each. The same invariant gives the
order of deletion, and that `LookUp` can miss a ticket only after an expiry or a
delivery (`PassedThrough`: no other step answers with docling-serve's bare
result of something converted). `FilesGetTheirOwn` is about names: an exported
leaf is read as the extension it was given because no extension of the table
listed earlier ends it, so its stem is the uploaded file's. It assumes
`Distinguishable`, without which the statement is false (`facade_manifest`).
`ClaimsAreKept` is the refinement of `ClaimCheck`. It needs to know where a call
can be with respect to the ticket: `ClaimInv` says that there is one from the
moment a call has looked it up, none before the submit wrote it, and that uploads
are gone only under a task that ended and had its ticket. A cleanup is then always
behind a delivery (`CleanupIsClaim`), and only a response that carries everything
is a step `Deliver` (`ResponseIsClaim`); every other step leaves the set of
deliveries as it is (`ResultsStay`, `NoDelivery`).

**DoclingApiProofs.** `TypeCorrect`, `ServedAndSubscribed`, `TenantsAreApart`,
`TheLastWordIsTheEnding`.
That no call is *told* anything of another tenant's task is a statement about
answers given several awaits after the tenant check. `Isolated` says where a call
about another tenant's task can be at all: before the check, or answered. A
push goes around the handlers, and does not reach it because the subscribers are
exactly the served websockets, which is the second part of `IInv`.
`OneCallMoves` states once what a handler's step must give; each action then
shows its part. `TheLastWordIsTheEnding` has an invariant of its own (`TInv`): what
a socket was told, and what its handler is about to say, is the task's present
state or an earlier one (`Timely`); a task ends once.

**StatusServiceProofs.** `ApiImplementsStatusService`, `RequestsComeToAnAnswer`.
The mapping forgets where a call awaits, so an answer's truth has to follow from
that place: a 500 of a synchronous call claims that its task is gone, which is so
because a call that waits was admitted; a 404 of an own task that is known can only
be that of a call that asked for its outcome and found none, or of a synchronous
one whose task failed. `RInv` is that knowledge: `Course` says which calls come by
each await, with its own task admitted or a status read, and `OwnTask` that
submits and nothing else are about themselves. It was checked by TLC first. With it, `IInv` (the tenant is checked, the
subscribers are the open websockets) and `TInv` (a submit that has not come
through has no task), every step is a step of the service or none. `Turn` says
what one step makes of a call's record, and `TurnSeen` what the service sees of
that, so that each action needs only its own reason. `RequestsComeToAnAnswer`
gives every await of a request its distance from the answer (`AwaitsLeft`) and
shows that each step shortens it: a poll interval spent is two awaits fewer, and
a push, which rewrites many calls at once, reaches no request.

Only model-checked: liveness (`EveryRunCloses`, `EveryWaitEnds`,
`EveryDocumentAdmitted`, `EveryCallAnswered`, `CompletionIsHeard`, `EveryRequestAnswered`,
`DeadProcessorReplaced`). Temporal properties under fairness need `ENABLED`, which
is out of the prover's reach. For the workflow the half that does not need it is
proved, `RunsWearOut`: if a run is open for ever then because nothing of its own
happens any more. `RequestsWearOut` is the same half of `EveryRequestAnswered`.

## 7. Not modelled, and what is abstracted

- Temporal, S3, Redis, Ray and the docling-serve engine are external: what the
  code relies on, no more. S3 requests succeed or fail as a whole, so
  `delete_objects`, whose per-key errors the facade does not read, deletes all
  or nothing here. docling-serve's tasks may end in any way, be forgotten at any
  time once it has them, and attempt a callback a bounded number of times.
- Settings, and the clients built from them once per process: they never change.
- Readiness, memory, metrics and documentation endpoints of the API, request
  validation, nginx, argument parsing and printing of the command lines, images
  and build files: no state, or none that other parts read. Chunking endpoints
  have the control of the conversion ones.
- A document converted *partially* counts as failed in the facade
  (`service.py:269` looks at `num_succeeded`) and as produced in the workflow.
  `Facade` has it (a task ends `"unsuccessful"` with names converted);
  `Orchestration` keeps converted or not.
- Which formats are found under a workflow's prefix: only whether JSON is there,
  which alone decides. A run with fewer formats than its predecessor lists the
  predecessor's too, and a starter that follows another's run gets its formats.
- Keys that are prefixes of each other. A source is named to docling-serve as a
  key prefix, which a longer key also matches; the comment at
  `docling_client.py:60` calls that acceptable. The models take no key for a
  prefix of another, and `VerdictHonest` is stated under that.
- The bytes of documents, of the archive and of the form's other options.
- In the facade, a response counts as delivered once it is sent; a client that
  went away meanwhile is not distinguished, and neither does the code.

## 8. Plan

Done: the workflow alone, among its surroundings and among its starters; both
together; the relay; admission; the facade with its names and formats; the API;
the abstract contracts of the conversion, of the claim check and of the status
service; the proofs of all their safety properties and refinements.

What could follow:

1. Formats under a prefix, with the listing as a set of formats and a claim
   about what a result lists; it needs a promise to check against first.
2. Keys that are prefixes of each other, in `Orchestration`'s bucket.
