# MaaS Tokenizer: specifications, model checks and proofs

The MaaS Tokenizer is one process that answers `POST /tokenizer` with the number of
prompt tokens a chat request has for one of thirteen registered models. This directory
specifies its core in TLA+, checks it with TLC on small instances and proves part of it
with TLAPS for every instance. Paths below are relative to the repository root; the
modules name the lines they translate in `PROJECT.json` ("map").

## 1. The system

| Part | Source | State it keeps | Operations |
|---|---|---|---|
| scheduler | `src/maas_tokenizer/scheduler.py` | bounded queue, consumer task, one executor thread, two futures and a `cancelled` flag per job, `active_started_at`, `_closed` | `start`, `submit`, `_consume`, `close`, `health_failure_reason` |
| token count service | `service.py`, `encoders.py` | renderer cache, encoder cache, one lock per profile, the Gigatoken cache budget (a global of the library) | `count`, `_renderer_for`, `_encoder_for`, `from_assets` |
| HTTP adapter | `api.py` | `app.state`, the per-request access fields | lifespan (warm-up, shutdown), access-log middleware, `token_count`, error mapping, `health` |
| request compatibility | `request_compat.py`, `service.py:53-99`, `vendor/vllm/extracted/protocol.py` | none | normalise thinking switches and continuation options, strip media, apply defaults, validate |
| renderers | `renderers.py`, `vendor/vllm/extracted/{chat_utils,hf_renderer,template_format}.py` | template tokenizer, encoder; the remote-code module cache (global) | `render`, `encode`, `build_renderer` |
| DeepSeek encodings | `vendor/vllm/extracted/deepseek_*_encoding.py` | none | merge tool results, order them, drop old reasoning, write the prompt |
| Kimi assets | `model_assets/moonshotai--Kimi-K3/…/{encoding_k3,tokenization_kimi}.py`, `model_assets/moonshotai--Kimi-K2.6/…/{tool_declaration_ts,tokenization_kimi}.py` | none | order tool results, parse arguments, write segments, declare tools, cut long texts |
| registry, assets | `registry.py`, `assets.py` | immutable profiles and aliases | `resolve`, `verify_asset_directory` |
| logging | `access_logging.py`, `run_logging.py` | handlers of the loggers, the streams that replace stdout and stderr | configure, one line per request |
| entry point | `main.py` | none | configure logging, run Uvicorn |

How they interact. Uvicorn runs the application on one event loop. The lifespan creates
the scheduler, starts it and sends one warm-up request per model through `submit`; then
requests come. A request passes the middleware, `token_count` submits
`service.count(body)` to the scheduler and awaits it, the consumer hands the call to the
executor's only thread, and the thread runs `count`: normalise, validate, find or build
the renderer, render, encode. The result (or exception) travels back through the job's
`completed` future, is mapped to a status, and the middleware writes one access line.
`/health` reads the scheduler's fields without entering the queue. Shutdown closes the
scheduler and the access handlers.

What is hard about it:

* the event loop interleaves every `submit`, the consumer and `close` at each await, and
  the executor's thread runs beside them;
* a caller may stop waiting at any moment (queue timeout, client disconnect, shutdown)
  while its job is in the queue, about to start, or running;
* the state a decision rests on may be older than the decision: `job.cancelled` is set by
  one task and read by another, `active_started_at` describes a thread that does not
  write it;
* the lifespan has an end for every point a start can fail at, and requests, the thread and
  a second signal may be under way when it comes;
* first use of a model builds shared objects that can fail half-way, some of them behind
  a lock per profile and some behind none;
* the thinking switches and continuation options can be given in several redundant and
  contradictory ways, and every renderer reads them differently.

What makes each part correct:

* *scheduler*: jobs run in arrival order, one at a time, each at most once, never after
  giving up; every accepted call is answered, with its own result; close terminates and
  leaves nobody waiting; health tells idle, busy, stuck and dead apart;
* *service*: a model is built once, from verified assets, with the encoder of its group;
  a failed build leaves nothing behind;
* *HTTP adapter*: one access line per request that fits the response; ready only after
  every warm-up; whatever happens, scheduler and handlers are released;
* *compatibility and renderers*: the documented precedence decides, whatever the form of
  the request;
* *encodings*: every message that should be in the prompt is there once and in order; the
  client's text is text, whatever it looks like; texts are cut only where they must be.

## 2. The plan

| # | Modules | What | State |
|---|---|---|---|
| 1 | `SerialScheduler`, `MCSerialScheduler` | the scheduler, safety and liveness | done |
| 2 | `SerialExecution`, `SchedulerRefinement` | the abstract one-at-a-time line, and that the scheduler implements it | done; its safety part proved |
| 3 | `SchedulerProofs` | every safety property of the scheduler and, with 7, of the lifecycle, for any number of calls and requests | done |
| 4 | `TokenService`, `MCTokenService`, `TokenServiceProofs` | caches, locks, shared encoders, failures of a build | done |
| 5 | `RequestCompat`, `MCRequestCompat`, `RequestCompatProofs` | precedence of thinking and continuation options down to the renderer | done |
| 6 | `DeepSeekEncodings`, `MCDeepSeekEncodings`, `DeepSeekProofs`, `DeepSeekPromptProofs` | `parse_chat_messages` as far as the encoders read it, merging and ordering of tool results, forgetting old reasoning, what reaches the prompt | done, all proved |
| 7 | `Lifecycle`, `MCLifecycle`, `SchedulerProofs` | composed with the scheduler: warm-up, readiness, requests and their access lines, shutdown, second signal, full disk | done |
| 8 | `KimiEncoding`, `ToolDeclarations`, `MCKimi`, `KimiEncodingProofs`, `KimiTextProofs` | what Kimi's own code does to a conversation and to tools before it is counted | done, all proved |
| 9 | `TextPieces`, `KimiTextProofs` | how Kimi's tokenizers cut long texts | done, all proved |
| 10 | `OrderLemmas` | what the proofs for 6 and 8 share: ranks in a finite ordered set, first and last numbers | done |

The order is by weight: everything passes the scheduler, and its interleavings are the
part a test reaches least; then the shared objects that the scheduler's single thread
protects; then the pure code, where the cases are many but nothing is concurrent.
Abstract specifications: `SerialExecution` for the scheduler, and the scheduler itself for
the lifecycle, every behavior of which is one of the scheduler; for the pure parts a
reference definition written as a property (`FirstOpinionDecides` is the one of the
thinking switches, `IsObject` the one of call arguments). Bounds: three calls for the
scheduler, two warm-ups and two requests for the lifecycle, two threads for the service,
conversations of two messages for requests and of four for encodings.

## 3. The modules and the code

### SerialScheduler

The state is the object's fields and those of every job; the comment on each variable
names its field. A step is the code between two awaits.

| Code (`scheduler.py`) | Actions |
|---|---|
| `start` | `Start` |
| `submit` until the first await | `RefuseNotRunning`, `RefuseFull`, `Enqueue` |
| `wait_for(shield(job.started))` | `ObserveStart`, `Expire` then `RaiseTimeout`, `Abort` then `RaiseAbort`, `ObserveClose` |
| `shield(job.completed)` | `Deliver`, `AbortExecuting` |
| `_consume` | `Wake` (get, skip, start, hand over), `Finish` (settle, `task_done`, and on to the next item), `CancelIdle`, `CancelExecuting` |
| the executor's thread | `PickUp`, `Drop`, `EndCall` |
| `close` | `Close`, `Shutdown`, `CloseFails`, `Joined` |
| `health_failure_reason` | the operator `HealthFailureReason` |

Two details of asyncio carry the interesting behaviours. `wait_for` needs one more turn
of the loop between its timer (or a cancellation) and the exception in `submit`; these
are the states `expiring` and `aborting`. And `executor.shutdown(wait=True)` blocks the
event loop, the state `joining`, in which nothing but the thread can move (`LoopFree`).

`SerialExecution` is what a caller is promised: calls take tickets, may leave while they
wait, and are computed one at a time in the order of the tickets. `SchedulerRefinement`
maps the scheduler to it: the ticket of a job is the time of its `put`, a queued job waits
until it is marked cancelled, and a job is computed while its work item is in the executor.

### TokenService

One action per piece of `count`, `_renderer_for`, `_encoder_for`, `from_assets` and the
remote-code context manager that touches something another thread could see: the unlocked
look into the cache, taking the profile's lock, the second look, saving, setting and
restoring the library's budget, making the encoder, storing it, loading the template
tokenizer, swapping the module cache, publishing the renderer, encoding. Every piece that
can raise has a failing alternative that unwinds the `with` and `finally` blocks around
it. An encoder is a record of the assets and the budget it was made with and a number, so
that two encoders of one group can be told apart.

### RequestCompat

A request is the record of the fields that these functions read, and goes through the
stages in the order `count` calls them: `Thinking`, `Continuation` or
`RefuseContinuation`, `Defaults`, `Validate`, `Render`. The last one is what the five
renderers read from the request and the conditions under which the specialised encoders
refuse it: the thinking mode, the effort, and both ends of the prompt, whether the last message is left
open and whether an answer is opened (`add_generation_prompt`, which HF templates and Kimi K3
take). Values that behave alike are one value. For an effort these are an unknown name ("other"), an integer
from 1 to 100 ("number"), any other integer or a boolean ("outside"), and what is neither a string
nor an integer ("odd"): V4 replaces all but strings by its default, V4.1 only "odd".

### DeepSeekEncodings

A message is its role and what the encoders look at, its content is its place in the
request; a prompt is a sequence of contents and special tokens. One action per message and
pass, for whichever of the three encoders the request meets:

| Code | Actions |
|---|---|
| `parse_chat_messages`, the renderers' system message with the tools | `Parse`, `RefuseToParse` |
| `merge_tool_messages` (V4, V4.1) | `Merge`, `EndMerge` |
| `sort_tool_results_by_call_order` (V4, V4.1) | `Sort`, `EndSort` |
| `drop_thinking_messages`, `_drop_thinking_messages` | `Forget`, `EndForget` |
| the loop of `encode_messages` and `render_message` | `Render`, `Raise`, `EndRender` |

V3.2 has no merging and sorting and its own `render_message` (`BodyV32`, `RefusalV32`); V4
and V4.1 share one (`Body`, `Transition`, `Refusal`), since they differ in what begins a
turn, in what asks for an answer and in developer messages. The properties speak of the
request, not of the passes: `Turns`, `IsForgetful` and `Forgotten` say once more, of the
messages sent, what the passes compute on merged, reordered and shortened lists.

`ThinkingIsClosed` holds of the conversations `WellFormed` describes. What it leaves out
gives prompts that are out of shape but not refused: an answer that follows an answer, a
reminder right after a user's message (V4 and V4.1 open the answer before it), and with V4.1 a
developer message, or one of an unknown role, before the only system message, which makes that one
the first when it is dropped. The second case was found by the proof: [other, system, assistant with
reasoning] is three messages of kinds that the run only combines two at a time. The first system
message asks for no answer, so the reasoning of the last message is written with nothing to open it.

`ResultsInCallOrder` compares results after the same calls with nothing but users' texts and other
results between them (`AreTogether`). A user with a task ends the message that results are merged
into, so that what comes after it is sorted by itself; a result without an id, or with one that two
calls have, does not say where it belongs, and sorting puts it first or with the last of the calls.

### Lifecycle

`Lifecycle` extends `SerialScheduler`: its jobs are the warm-ups of the lifespan and the
requests to `/tokenizer`, and each of its steps is a step of the scheduler or leaves the
scheduler alone. What the scheduler's own model lets an environment do at any time (cancel a caller or
the consumer, close) is done here only by the code that does it.

| Code | Actions |
|---|---|
| `main`, configuration of the run log | `LifeInit`, `ConfigureLogs`, `ConfigureAllLogs` |
| `lifespan` until its yield | `Startup`, `RunLogFails`, `StartupFails`, `AccessLogFails`, `WarmUp`, `WarmUpFails`, `Ready` |
| `lifespan` behind it | `EndLife` or `CancelLife`, then `Released` or `Unreleased` |
| `tokenizer_access_log` and `token_count` | `Arrive`, `RefuseEarly`, `Reply`, `WriteLine`, `LoseLine`, `Lose`, `DropReply` |
| an exception that is no `APIError` | `Unencodable`, then `ReportException` (Uvicorn) |
| `health` | the operator `HealthStatus` |
| `_LoggerStream`, where a log cannot be written | `LoopBlocks`, `ThreadBlocks`, `ReportFailure` |
| Uvicorn, asyncio.run, the disk (external) | `Signal`, `Kill`, `Teardown`, `DiskStep` |

Uvicorn hands out requests once the lifespan is ready. A signal makes it wait for what is
in flight and then end the lifespan; a second one makes it leave at once, and asyncio.run cancels
every task that is left, the consumer and the lifespan included. What a request leaves behind is a code
on `request.state`, a line in the access log, and a traceback in the run log: `LineIsTrue`
relates the three to what the scheduler did with its job.

A lone surrogate in a request cannot be encoded, and where this is noticed depends on `LogBodies`. If
bodies are logged, the body is prepared for the log outside the `try` of the handler, and raises
there. If not, the call goes to the scheduler. Should it raise an error that quotes the client, such as
that of an unknown model, it is the answer that cannot be encoded, and `api_error_handler` raises.
Either way the exception passes the middleware, Uvicorn answers 500 and no line is written
(`Unencodable`, `ReportException`). And if the call was refused before anybody looked at the model,
the answer is sent but its line, which has the model in it, is not written (`LoseLine`). README.md:80
speaks of one line per request; `LineIsTrue` is about the lines there are.

`configure_run_logger` closes and removes the handler that `main` gave to all loggers before it
opens the file again, and `api.py:65` calls it outside the `try`. If the file cannot be opened (`RunLogFails`),
the start fails and the root and Uvicorn's loggers have a closed handler. Uvicorn reports the failure with
it, which opens the file once more. If that fails too, the handler reports to `sys.stderr`, the run
logger has no handler, logging writes to `sys.stderr` as its last resort, and the lock of the stream is
taken: the process hangs where it should exit (`ReportFailure`). `EverythingReleased` allows the
closed handler in this state only, in which there is no scheduler and nothing was served.

### KimiEncoding, ToolDeclarations, TextPieces

`KimiEncoding` follows a conversation through `build_chat_segments` and
`KimiK3Renderer.encode`: `Pass`, `Collect` and `EndRun` are the loop of
`normalize_xtml_tool_result_messages`; `Begin`, `Render`, `Raise` and `EndRender` write
segments, the open message of the answer only if `add_generation_prompt` is on, which it is not when a
message is continued; `Encode` gives each segment to Gigatoken, which makes control tokens of their
texts, or to the template tokenizer, which does not. A client's text is "marker" when it
contains the text of a control token. A string of arguments is a sequence of lexemes, and
`Pairs` is the parser's walk over it as a recursive function.

`ToolDeclarations` converts the tools of a request one after the other, passing over what
is no function (`SkipTool`); a schema is the sequence of what the parser meets in it
(definitions, references, what it raises for). `Register`, `Resolve` and `ResolveSelf` are
the registry's operations, `EndRoot`, `Declare` and `EndFunction` write, `GiveUp` is the
template's fallback to JSON.
Declared late, a definition inside a definition is registered but not written: the code
copies the registry before it parses the definitions, and so does `EndRoot`. The properties
speak of what the parameters of a function refer to. A definition named `parameters` would
collide with the name the converter gives to the root, and is assumed away
(`DefNamesAssumption`).

`TextPieces` is the loop of `_split_whitespaces_or_nonwhitespaces` inside that of
`_encode_text_piece`, a step per character; K2.6 has a copy of both.

`MCKimi` runs the three side by side in one state space, so that a behavior is one of one part.

## 4. The runs

Each `.cfg` is one question.

| Run | Instance | Shows |
|---|---|---|
| `scheduler_cancelled_consumer` | 3 calls, queue of 2, consumer cancelled up to twice | jobs start in order of arrival, none is lost, futures settle once, `task_done` balances, answers are true, no job starts that gave up or that `close` found, `close` answers everybody, even if something cancels the consumer task |
| `scheduler_liveness` | 3 calls, queue of 1, fair | every accepted call is answered, `close` returns, health has a start time for every busy thread, `SerialExecution` is implemented with its fairness |
| `scheduler_timeout_race` | 2 calls | *violation*: a call answered `queue_timeout` is computed all the same |
| `scheduler_full_queue` | 3 calls, queue of 1 | *violation*: a call is refused although nobody waits |
| `service` | 5 models (a group of two, two of one, one outside), 2 threads with 2 and 1 counts, fair | the lock of a model is held exactly while it is built, renderers stay, encoders fit their groups, what a load changes in the libraries is put back, every count returns, whatever fails |
| `request_compat` | every combination of the thinking fields; every conversation of at most 2 messages with every continuation option; every renderer | precedence, agreement of the three ways to ask for a continuation, idempotence |
| `request_unprocessable` | conversations of at most 1 message | *violation*: a request an encoder refuses is answered 500 |
| `deepseek_encodings` | every conversation of at most 2 messages of any kind and of at most 4 of 8 common kinds, with and without tools, thinking or not, three encoders | no message is lost, doubled or moved, but for results, which come in the order of their calls; thinking is closed; reasoning is kept in the last turn (or with tools) and nowhere else |
| `deepseek_v32_developer` | at most 2 messages | *violation*: V3.2 renders more messages than are left |
| `lifecycle` | 2 warm-ups, 2 requests, queue of 1, a second signal, a disk that fills and is freed, a run log that cannot be opened again, answers that cannot be encoded, fair | only a healthy service is ready, a quiet end meets no request, lines are true, everything is released, start-up, shutdown and every request end |
| `lifecycle_full_disk` | 2 warm-ups, 1 request, bodies logged | *violation*: the event loop blocks for ever when a log cannot be written |
| `kimi` | conversations of at most 2 messages of every kind under all options, of at most 4 calls and results; every short string of arguments; one tool with 3 schema events, two with 1, three with a gap; every text of at most 9 characters | results follow their calls and bear their names and numbers, arguments are those of the object, control tokens tell the conversation; references are declared, tools in one form; pieces are the text, cut only where needed |

### Bounds, and why they are enough

* *Jobs*: the shortest overtaking has one call computed and two waiting. With the consumer
  cancelled, one call runs, one waits and one more arrives after the damage.
* *Warm-ups and requests*: the first warm-up succeeds and the second fails, or both succeed; a
  request runs while another waits or is refused by a queue of one. *LogBodies* is FALSE in `lifecycle`,
  where requests end in more ways; the theorems hold for both values.
* *QueueSize* 1 or 2: a queue of one shows the full queue early, a queue of two the order.
* *MaxConsumerCancels* 2: the first cancellation hits a running job, which the consumer
  survives; the second one the job it starts next, or the idle consumer, which ends it.
  It is 0 in the runs whose properties need it: nothing in the repository cancels the
  consumer before `close`.
* *clock* only orders the jobs; a duration never counts, because every timer may fire at
  any time after it is set.
* *MaxCounts* (2 and 1) lets one thread fill a group's cache and use it, or fail and start
  over, and the other meet it at every lock; the properties that need one thread (`Alone`)
  are about the behaviors in which the other has not counted.
* *MaxMessages* 2 has a last message and one before it, which is all the continuation
  rules tell apart; a sequence of two is the shortest where a prefix can be misplaced.
* *MaxShort* 2, *MaxLong* 4: an encoder looks at a message, the one before and after it, and
  the last user's. Two calls, an assistant in between and two results in the wrong order need
  four messages, as do a turn with an answer that is forgotten and one that is not. Kimi K3's
  ordering looks at a run of results and the assistant before it: two calls, and one to three
  results before and after it, with ids of either, of none and of another turn.
* *MaxLexemes* 4, alone and behind the first pair of an object: no, one and two pairs, each cut
  short or followed by anything. *MaxSchema* 3: a definition, one it refers to, and a reference.
* *MaxText* 9 with chunks of *MaxChars* 5 and runs of *MaxRun* 2: two chunks, the last one short,
  runs that are cut once, twice and not at all, and that reach over the chunks' boundary.

Symmetry: `JobSymmetry` in the safety run of the scheduler, where no property names a job. It is not
used for liveness. Deadlock is checked except in the `request_`, `deepseek_` and `kimi` runs,
where the pipeline ends at "done"; the ends of the scheduler and of the lifecycle are the explicit
steps `Quiet` and `LifeQuiet`, so a deadlock there would be a call nobody answers.

### Fairness

`FairSpec` of the scheduler says that the event loop runs every callback it has scheduled
(each `submit` coroutine whose future is done, the consumer, `close`) and that the thread
goes on and ends every call it started. asyncio runs ready callbacks in order and an
operating system thread is scheduled, so the first is given; the second is a real
assumption about `count`, which has no loop that depends on anything but its input, and
`health_failure_reason` is there for the case that it fails. Nothing is assumed of timers,
of callers that give up, of new calls, or of `close` being called. In `TokenService` each
thread goes on when it can; locks need no fairness of their own, since a finite number of
counts contend for them.

`LifeFairness` asks less than the scheduler's: that the event loop does not rest while
something is due (`LoopDue`: one weak fairness for all of it, since it takes what is due in
any order and each call needs finitely many steps) and that the thread ends its calls or
blocks. Requests, signals, timers, the disk and asyncio.run's cancellations are free.

### Findings

1. *A timed-out call may be computed* (`scheduler_timeout_race`). README.md:47 says a job
   that timed out is not computed in the background. If the running job ends in the turn
   of the loop between the timer and `job.cancelled = True`, the consumer starts the job.
   The caller gets 429 and the thread is busy with a result nobody reads.
2. *Jobs that gave up fill the queue* (`scheduler_full_queue`). The design says that the
   capacity counts waiting requests; a job whose caller left keeps its place until the
   consumer comes to it.
3. *A refused request is answered 500* (`request_unprocessable`). Some efforts and
   messages make a specialised encoder raise ValueError; `count` only maps
   `InvalidToolArgumentsError`, so that the client's mistake is reported as an internal
   error where README.md:159 promises 400.
4. *V3.2 runs past the end* (`deepseek_v32_developer`). A thinking V3.2 model drops a
   developer message that is before the last user's message, but `encode_messages` still
   loops over as many messages as there were; the check at the head of `render_message`
   raises and the request is answered 500. V4 counts what is left. The only test with a
   developer message passes `drop_thinking=False`.
5. *A full disk stops the service* (`lifecycle_full_disk`). When a handler cannot write,
   logging reports it to `sys.stderr`; `main` replaced that by a `_LoggerStream`, which takes
   a lock and logs to the run log on the same disk, whose failure is reported to the same
   stream by the same thread: it waits for the lock it holds. If it is the event loop's, nothing is
   answered any more, `/health` included; freeing the disk does not help.
   `EveryRequestEnds` and `LifespanMovesOn` therefore except a service that is blocked.

Two observations that contradict no text that is precise enough: two threads that load two models
of one group make an encoder each, because the encoder cache is filled under the lock of a
profile (README.md:185 calls the cache thread-safe, but the executor has one thread;
`EncodersFit` is about that case); and those told in section 3: requests that cannot be encoded, a
run log that cannot be opened again, late definitions.

## 5. The proofs

All safety properties of the passing runs are theorems, for any number of calls, warm-ups,
requests, threads, models, messages, tools, lexemes and characters. So are some that no run
checks because a deeper one covers what they say: most type invariants, `OneJobAtATime`,
`OnlyExecutionTimesOut`, `SwitchAndEffortAgree`, `ClearThinkingReplaced`. The inductive
invariants, and why the properties alone are not enough:

* `SchedulerProofs`, about the scheduler — `LineInv` is `TypeOK`, `NoJobLost` and `QueueInv`. That no
  accepted job is lost needs that the consumer skips only jobs nobody waits for (a job in
  `wait_for` that is not started is not marked) and that an enqueued job has untouched
  futures.
  `StartsOnce` and `CompletesOnce` bound what any step does to the
  futures of a job; `FuturesSettleOnce` and `NothingStartsInVain` follow. `DrainedInv`:
  after `close` the queue only holds the stop item. `BalanceInv`: unfinished items are those
  in the queue and the one in hand. `HandInv`: `active_started_at` is set exactly while the
  consumer has a job, and only that job is started and unsettled. `LeftInv`: what can be
  left in the executor at each stage of `close`.
  `OrderInv`: the queue is sorted by arrival and every job that
  arrived is in it, was started or gave up; this is what turns "the head is started" into
  "nobody is overtaken". `AnswerInv` follows a result from the executor's future to the
  caller. `ExecInv`: what the executor has is the consumer's job. `OneAtATime` and
  `OverrunIsSeen` assume `MaxConsumerCancels = 0`: a cancelled consumer goes on to the next
  job while the thread still runs the last one. Under the same assumption `SchedulerIsSerial`
  (`Spec => Execution!ExecSpec`) joins the three invariants: nothing else is computed when the
  consumer takes a job (`ExecInv`), which has the least ticket of those that wait (`OrderInv`)
  and was never in the executor (`AnswerInv`); skipped and stop items change no phase.
* `TokenServiceProofs` — `BuildInv`: a thread that builds a model holds its lock and the
  model has no renderer yet. `RemoteInv`: the saved module cache is the process's own.
  `EncoderInv` follows the encoder and the saved budget in a thread's hand, as long as one
  thread makes all the calls (`Alone`), without which it is false.
* `RequestCompatProofs` — `IInv` says which function of the client's request the working
  copy is at each stage, which makes the properties statements about functions; lemmas
  about these (`SwitchIsFirstOpinion`, `RendererFollowsSwitch`, `EffortDoesNotReverse`,
  `UnitedIsConsistent`, `SwitchAgain`, `ContinuationAgain`) do the rest.

* `SchedulerProofs`, about the lifecycle — `LifecycleUsesScheduler` (`LifeSpec => Spec`) first: every step of the
  lifecycle is one of the scheduler or a stutter, so that the scheduler's invariants may be
  cited. `SchedulerInv` adds what they lack here: what the executor holds at each stage of `close`
  (`LeftInv`), where an answer comes from (`AnswerInv`), and that before `close` the consumer lives and no
  stop item is in the queue (`OpenInv`). `PlaceInv` says for each stage of the lifespan how far
  scheduler and server are. On these two rest `HandlerInv` and `WarmInv`. `HandlerInv` says that every handler in use is open, or
  that the start failed at the run log, before there was anything but this
  (`NoRunLog`; `NobodyIsServed` keeps it so); `WarmInv`, that a
  ready service has all its warm-ups behind it. `RequestInv`, what a request's code and line have to do with
  its job, and `MeetInv`, that nothing but a second signal cancels anybody, join them in `LifeInv`.
* `DeepSeekProofs` — `IInv` says for each pass where the messages are. A turn brings its message into
  the prompt, or the messages its blocks are made of (`Has`); turns are made of messages of the request
  and stand in their order (`Line`); what the pass has written has exactly the messages it has come to,
  and after forgetting exactly those that are not `Forgotten`; the prompt has each message of the turns
  rendered so far once (`Tells`). That sorting neither loses nor doubles a block rests on
  `RanksAreReached` (`OrderLemmas`): in a finite ordered set each number below its size is the rank of one element.
  `TypeCorrect` and `MessagesAreOnce` follow.
* `DeepSeekPromptProofs` — four more layers on top of `IInv`. `TurnsInv`: a user's turn ends only where
  the next message could not be merged into it, and once sorted its results are in the order of the last
  calls before it, those that `order` holds when sorting comes to it. `PlacesInv`: a piece of the prompt that
  is no result has as many pieces before it as messages before its own are left, and the blocks of a turn
  are in the prompt in their order. `ReasoningInv`: turns keep the reasoning they were sent with, or
  that of the last turn, and the prompt has that of the answers that show it; the message an
  encoder looks for among merged and shortened turns is the one that begins the last turn of the
  request. `ClosedInv`: what the prompt opens it closes at once, but for a last token, which opens
  reasoning exactly if the turn rendered last asks for it. One theorem rests on each layer.
* `KimiEncodingProofs` — `OrderInv` for the ordering of results. `Reading`: what was put out and the run
  in hand are the messages read so far, and the calls in hand are those of the last assistant before
  the run. `Arranged`: outside runs nothing changed, and a run put out (`RunFits`) has each of its messages
  once and, if all of them answer calls, in the order of the calls and with their names; the
  properties speak of the finished order only, and not of which result stands where. `Ordered` sorts by rank, so
  this is again `RanksAreReached`, with the place in the run where two results answer one call. That the
  k-th result of a complete run is that of the k-th call needs that as many different positions as
  there are calls are all of them. `PromptInv` for the segments. `Tells`: how many messages were begun, with
  which roles, how many elements are open, and that every element is closed by its own tag (`Tidy`); it
  is a property of concatenations, so that each operator (`Element`, `Whole`, `Answer`, `Body`) has
  a lemma saying what it adds (`IsElement`, `IsBlock`). `Counted` and `NamesWritten`: `tool_index` is the
  distance to the assistant as long as there are only results between, and every result behind an
  assistant is written with its name and that number. `ControlsTellTheConversation` follows because
  with `allow_special` the encoder writes nothing but texts of control tokens (`Piece`), so that a segment is
  encoded as one exactly if it was written as one; `IndexNamesTheCall` joins the two invariants. `ArgumentsAreTheObject`
  says nothing of the state's history: the number of pairs from a place on obeys the equation
  of the walk `Pairs`, and two solutions would differ at a last place, where they cannot.
* `KimiTextProofs`, about texts — `LoopInv` says what the counters mean: the slice begins behind the last
  piece, its last `sliceLen` characters are of one kind, and no longer run of it exceeds the
  limit. `PiecesAreTheText` and `CutsAreNeeded` follow for texts of any length and any two limits.
* `KimiTextProofs`, about tools — both properties speak of the finished declaration, so the invariant
  says where things are before: the registry has the last body of each name among the events
  parsed so far (`ParseInv`); what is to be declared was registered by the root under different
  names and is not declared yet (`DeclareInv`); what is declared belongs to the tools so far, in
  order (`OutputInv`); a name a function uses is registered, to be declared or declared, and with
  its function once that is written (`UsedInv`).

Assumptions: those of the modules on their constants (the stop item is no job, the queue
has at least one place, groups and profiles fit together, requests have their types), and
the two named above where a theorem states them.

Only model-checked: liveness (`EveryCallAnswered`, `CloseReturns`, `EveryCountReturns`,
`LifespanMovesOn`, `EveryRequestEnds`), the fairness in `ImplementsSerialExecution`, and of
course the violations. Temporal properties under fairness are out of the prover's reach.
Where a proof needs induction over a sequence (`FlattenSeq`, the walk `Pairs`), it argues by a
first counterexample instead.

## 6. What is not modelled

* Uvicorn, Starlette and asyncio: external, modelled as far as the code above relies on them.
  A client that disconnects does not cancel the handler (nothing in `src/` listens for it), so
  that in `Lifecycle` only a second signal cancels a request.
* Templates, tokenizers, Gigatoken and most of the remote code of the models: third-party. They
  appear as calls that return or raise.
* Of the DeepSeek encodings: the text of tools and calls and how arguments become it, images
  and `content_blocks` a client sends itself, contexts (the service has none), and the
  parsers of answers, which the service does not call. Content parts and call arguments the
  parser refuses are one flag of a message.
* Of Kimi: images (the service strips media), response schemas, arguments that are objects already
  (one pair each, without a parser), batches, decoding and padding; of a tool's
  types what they register and refer to, not their text.
* Stripping of media parts: it touches no field the model tells apart.
* Asset verification: file input whose only effect is that a build fails.
* Registry and model profiles: immutable data, constants of the modules.
* Of the logs: rotation, levels, sanitising and the fields that are copied into a line.
