# Verification of llama.rn's decoding engine and context lifecycle

llama.rn binds llama.cpp to React Native. This directory holds TLA+ models of its own
logic (the C++ under `cpp/rn-*` and `cpp/jsi`, and the thin TypeScript above it), TLC
configurations that check them on small instances, and TLAPS proofs that hold for every
value of the constants. Paths below are relative to the repository root.

## 1. The system

    JavaScript (src/index.ts)        one JS thread; promises
      |  llamaQueueCompletion, llamaCancelRequest, llamaCompletion, ...
    JSI bridge (cpp/jsi)             RequestManager, TaskManager, ThreadPool, registry
      |  queue_request / cancel_request / callbacks
    Context (cpp/rn-llama.cpp)       model, params, parallel_mode_enabled
      |-- Slot manager (cpp/rn-slot-manager.cpp)    n_parallel slots, one worker thread
      |     `-- Slot (cpp/rn-slot.cpp)              one request: prompt, tokens, files
      `-- Single completion (cpp/rn-completion.cpp) used when parallel mode is off
    llama.cpp, ggml, mtmd, codec     vendored

| Component | State | Operations | Interaction | Hard behaviour | What makes it correct |
|---|---|---|---|---|---|
| Slot manager | request queue, slots, `active_requests`, batch, `n_batch`, `processing_active`, condition variable | queue x3, cancel, assign, build batch, decode, checkpoint, sample, release, loop, stop | clients and one worker share `slots_mutex`; the decode and the notifications run without it; callbacks run under it | cancel at any point, failed batches, failed loads, a batch shared by slots, sleeping and waking | each request in one place and answered once; logits, counters and limits stay right; nobody sleeps on work |
| Slot | state, counters, speculative queue, callbacks, memory view, paths | reset, load_prompt, MTP init/refill/next, checkpoint, load/save state | called by the manager only | reuse by the next request, speculative acceptance at the limits, crash between two files | nothing leaks to the next request; file and memory agree |
| Status feed | subscribers, snapshots | subscribe, unsubscribe, notify, get_status | worker and clients call `notify_status_change` | snapshots overtake each other, missing notifications, two mutexes | the last snapshot delivered is the current one |
| Request bridge | `RequestManager` callbacks per context and id | queue, cancel, deliver token/complete/result | pool threads, worker, JS thread via `invokeAsync` | cancel before or during delivery, late callbacks, release | every promise settles once |
| Context registry and tasks | `g_llamaContexts`, task counts | init, release, releaseAll, tracked tasks | pool threads use raw pointers | 5 s timeout, double release, stale pointers | a context is deleted once, when unused |
| Thread pool | job queue, workers, stop flag | enqueue, ensureRunning, shutdown | all asynchronous JSI calls | restart during shutdown | every accepted job runs or is dropped by a shutdown |
| Single completion | `embd`, `n_past`, interrupt flag | loadPrompt, nextToken, stop, bench, rerank, embedding | one task at a time, stop from JS | context shift, prefix reuse, stale memory | cached tokens describe the memory; nothing is sampled from old logits |
| Checkpoint cache | snapshots of recurrent state by position | capture, evict, invalidate, restore | inside the single completion | memory that cannot be rolled back, another picture | a snapshot is what its tokens say; the stable prefix stays |
| State files | state file and media sidecar | save, load, trim | written by a slot or a session, read by a later one | crash between the two writes | a sidecar never describes another state |
| UTF-8 gate, stop words | pending bytes, generated text, bytes sent | feed, finish, search | per slot, per completion | characters and stop words split between tokens | output is the input, cut at characters, and ends at a stop word |
| Media prompts | chunks, bitmap hashes | processMedia | slot and single completion | reuse of a picture, failed chunks | memory of one picture is never used for another |
| TTS, JSI conversion, vendored libraries, platform glue | - | - | - | numeric or stateless | not modelled, see section 9 |

`PROJECT.json` lists the hazards of this code, each at the line where it bites, with the
properties that cover it and a note where they leave something out.

## 2. Modules

| Module | Models | Composed with |
|---|---|---|
| `SlotManager` | the parallel engine: `llama_rn_slot_manager` with the slots it schedules | implements `RequestService` |
| `RequestService` | what the engine promises: first come first served, at most `n_parallel` at a time, taken back only while waiting, one final status per request | |
| `ParallelRequests` | the bridge between `context.parallel` and the engine, its status feed, mode switches and release | its engine is an instance of `RequestService` |
| `ContextTasks` | one context outside the parallel engine: the JS thread, the thread pool, the task count, the release and the shutdown | |
| `SequenceMemory` | what llama.cpp's memory of one sequence does with the calls made on it: attention, recurrent and hybrid | |
| `MediaPrompts` | prompts with pictures, and the pure part of `processMedia` | extends `SequenceMemory` |
| `PromptCache` | single completions and the cache they share: `embd`, memory, snapshots, session file | extends `MediaPrompts` |
| `SlotState` | what one slot keeps from request to request: memory, `cache_tokens`, state file | extends `MediaPrompts` |
| `TokenText` | from the bytes of tokens to the text and the deltas: UTF-8 gate and stop words | |

Each `MC...` module holds the instances TLC checks, each `...Proofs` module theorems and
their proofs (section 6): `SlotManagerProofs` and `SlotServiceProofs` about `SlotManager`,
`MediaPromptsProofs` about `MediaPrompts` and `SequenceMemory`, `ContextTasksProofs`,
`ParallelRequestsProofs`, `SlotStateProofs`, `PromptCacheProofs` and `TokenTextProofs` about
the modules they are named for.

The parallel engine is seen by three modules. `SlotManager` has its threads, locks and
batches and forgets what the memory holds; `SlotState` has the memory of one slot and
forgets the other slots; `ParallelRequests` takes the engine as the service that
`SlotManager` is shown to implement, and adds what lies between it and the application.
`PromptCache` and `ContextTasks` divide the single completion the same way: the first
takes operations one at a time, the second lets them overlap and forgets their data.

### How SlotManager corresponds to the code

*Threads.* Client threads run `QueueRequest`, `AnswerAtOnce`, `CancelRequest` and the
`Notify` that follows a queueing or cancelling call; one of them may run `StopStore`,
`StopNotify`, `StopJoin`. The worker's program counter `pc` names the step of
`update_slots` it has reached:

| `pc` | Code | Action |
|---|---|---|
| `loop_top` | `while (processing_active.load())` | `LoopTop` |
| `step1`, `assign` | step 1: cancelled slots, then `process_pending_queue`, one critical section | `TerminalizeCancelled`, `AssignHead`, `StopAssigning` |
| `step2` | step 2: any slot active? | `CheckActive` |
| `step3`, `build` | step 3: both passes of `build_batch`, one critical section | `BuildGenerating`, `BuildPrompt` per slot |
| `step4`, `abort` | step 4: `process_batch` without the mutex, clean-up after a failure | `DecodeBatch`, `DecodeFails`, `AbortBatch` |
| `step46` | step 4.6: prompt checkpoints (4.5 only measures time) | `SaveCheckpoints` |
| `step5`, `sample` | step 5: cancelled slots, then `sample_and_callback`, one critical section | `TerminalizeBeforeSampling`, `sample_and_callback` per slot |
| `step6`, `step7`, `reassign` | steps 6 and 7 | `release_completed_slots`, `AssignHead`, `StopAssigning` |
| `loop_end`, `parking`, `waiting`, `woken` | `has_work`, `slots_cv.wait` and its predicate | `CheckWork`, `FallAsleep`, `SpuriousWakeup`, `Reevaluate` |

While `WorkerHoldsMutex` the clients that need the mutex are blocked; the three actions
of the stopping thread and `Notify` need none, as in the code. Splitting a critical
section over several actions keeps each action readable and lets exactly those calls in
between that the mutex does not exclude.

*Data.* A request is a model value and carries its parameters in constant functions. A
prompt is its length; sampled tokens are of three kinds (ordinary, completing a stop
word, end of generation), chosen freely. `slots[s]` is a record of the fields that
steer a slot's life. `t_last_used` is kept as the order it induces (`released_before`),
which makes `get_available_slot` deterministic as in the code. `i_batch` becomes the
set `batch_outputs` of slots whose tokens of the current batch the context still has the
outputs of: all that have a token in it, until an MTP slot decodes on the same context
while it is sampled (`SampleMtp`; `eval_mtp_prompt` and `refill_mtp_tokens`). A loaded state offers
any reusable prefix that leaves a token to evaluate. Media evaluation has the outcomes
`build_batch` distinguishes: evaluated with a first token sampled at once, cut short
inside the trailing text, context full, exception. A checkpoint save may fail.
`outcomes` and `prompt_files` are history variables: what the callbacks were given and
what the prompt files hold.

*Named bounds.* Each request is queued at most once and cancelled at most once
(`Cancellable`), since ids are never reused while an engine lives; `NCtx`, `NPredict`
and `PromptLen` bound the counters. That prompts have at least one token
is an assumption (`TaskAssumption`) the code does not enforce, see the hazards. The number
of slots may exceed `n_batch`, as in the code.

### How ContextTasks corresponds to the code

*Threads.* The JS thread runs one thing at a time (`js`): a host function or the next of
the `callbacks` queued by `invokeAsync`. A worker of the pool runs one job at a time; the
job of call `c` is where `stage[c]` says. The invalidating thread runs
`cleanupJSIBindings()` (`cleanup`).

| `stage[c]` | Code | Left by |
|---|---|---|
| `calling` | `completion()` on the JS thread has looked the context up | `PostCompletion` (busy test, `rewind`, job) |
| `queued`, `taken` | the job waits; a worker has it and has not counted it | `Take`, `StartTask` |
| `started` | counted by `startTask` | `LookUp` |
| `holding`, `checked` | context looked up; busy test passed | `CheckBusy`, `BeginCompletion` |
| `testing`, `decoding` | the loop test; `doCompletion` | `ContinueGeneration`, `DecodeToken`, `DecodeThrows`, `EndCompletion`, `LoadPromptFails` |
| `waiting`, `removing`, `deleting` | the release job | `ReleaseStopsWaiting`, `RemoveContext`, `DeleteContext` |
| `ended`, `scheduled` | the answer is handed to the JS thread | `Schedule`, `RunResultCallback`, `DeliverResult` |
| `over` | the promise is settled, or dropped in a shutdown | |

The steps are split where the code reads something another thread may change: lookup and
use, test and set, removal and deletion. `generated_by` stands for `generated_text`: the
set of calls whose tokens are in it since `rewind()`. When a generation ends is left open
up to `MaxTokens`; loading the prompt, setting up the sampler and decoding may fail. The
five seconds of a release may be over at any moment. `Awaits` and `CallsAfterRelease` say
how the application calls; `stopCompletion` is one step, as it stores one flag.

### How ParallelRequests corresponds to the code

*Threads.* The JS thread runs one host function or callback at a time (`callbacks` is
what `invokeAsync` queued; `js` the `stop()` it is in the middle of, which another
thread's notification can overtake). `stage[r]` is how far the pool job that queues
request `r` has come: `StartJob` (reserve and register), `QueueRequest`,
`AnnounceQueued`, `EndJob`. `update` is the step of the worker in `update_slots`;
`BeginUpdate`, `Admit`, `DecodeBatch`, `SampleAndRelease` are steps of the engine,
constrained by `RequestService`'s actions, joined with the callbacks the worker sends.
`clearContext`, `stop_processing_loop`, `DeleteContext` are the release job.

*Data.* `requests` is `RequestManager`: whose callbacks lie under an id. A status is
reduced to which requests are active and which are queued. `TakeStatus` (under
`slots_mutex`) and `TellStatus` (under `subscribers_mutex`) are separate steps of
whichever thread notifies; `old` marks a status overtaken by a later one. `outer` and
`inner` are the two promises of a call (`{ requestId, promise, stop }` and `promise`).

*Left out.* The job's checks, the reservation and the registration are one step, since no
other thread can tell them apart; the test for subscribers belongs to the snapshot that
follows it. The pool's queue, its shutdown and the five seconds of a release are the
subject of `ContextTasks`. The application awaits a mode switch before it queues and its
queue calls before it switches, as in `README.md`; requests may well be unanswered then.

### How PromptCache corresponds to the code

`pc` is the step of the operation that runs: `chunks` (`processMedia`), `loop`, `decode`,
`sample` (`nextToken` and `doCompletion`), `state`, `sidecar` (`saveSession`). `mem` is
the memory of sequence 0 as `SequenceMemory` describes it, by the items it has read. The
snapshots in `ckpts` carry the tokens they name and the recurrent state they restore.
`Decodable` is what `llama_decode` asks of the tokens of a batch.
`loadPrompt` and its helpers (`Recoveries`, `captureStateCheckpoint`,
`evictStateCheckpoints`, `eraseStateCheckpointsAfter`, boundaries) are operators of the
code's names. `stopCompletion` comes at any time. `logits` is history: what had been read
when the logits were computed.

*Assumptions.* Operations follow one another, as `throwIfContextBusy` has it. No
speculative decoding, speech or encoder models; no sliding window, no M-RoPE, `n_rs_seq`
0. A failed decode leaves memory and logits as they were. A prompt has at most one
picture. The byte budget of the cache is a number of snapshots. Overlong prompts are
truncated as in the code.

`Bench` has the ways out of `bench()`: it leaves before it has used the memory
(`BenchRefused`: more asked for than the context has room for, or the warm-up fails at
once, as it does whenever the memory holds something, since its positions start at 0), it
leaves with a part of the warm-up in the memory (`BenchFails`), or it empties the memory
after its runs (`BenchRuns`). `SidecarDescribesFile` compares the sidecar with the memory that
is in the file (`file.mem`), not with the variable it was written from.

*`stale`* marks what the code leaves behind in disagreement: a `bench` that empties or fills
the memory or trims `embd`, `rerank`, a failed `loadSession`, a failed media chunk, a completion that ends before its first batch with
tokens in `embd`, a context shift on a recurrent or hybrid memory, a snapshot that cannot
tell a new picture from the old (`KeepsOtherPicture`), snapshots kept over a
`loadSession` with another picture, and a file saved while it is set. `clearCache` takes
it back. The properties say what holds as long as none of these has happened;
`stale_cache` checks one of them against its comment.

### How SlotState corresponds to the code

One slot through `update_slots`: `Claim` (`process_pending_queue` with `load_state` and
`load_prompt`), `LoadMedia`, `EvaluateChunk`, `FinishMedia` (`processMedia` as
`build_batch` calls it), `DecodePrompt`, `SkipPlaceholders` (placeholders at the end of a
prompt), `DecodeGenerated`, `Checkpoint`, and the actions of `sample_and_callback`.
`Consecutive` is what `llama_decode` asks of the positions of a batch. Where a file is written the pass is broken up (`pc` `state
file`, `sidecar`), so that a crash or a failed write comes between the two files.
`ClearCache` comes while the slot is idle. A slot that failed to load stays `done` with
its paths until it is released; an embedding or rerank that claims it first keeps them, so
that its own prompt is saved to the path of the failed request.

*Assumptions.* A prompt has at least one item and at most one picture, and no text token is
`LLAMA_TOKEN_NULL`, nor is a sampled one (`IsPrompt`, `SlotStateAssumption`); documents have
no pictures. What slots do to each other is `SlotManager`'s subject. There is one state
file. When a generation ends (limit, stop word, full context) is left open. No speculative
decoding; with it only, a checkpoint can be missed. A failed decode leaves the memory
alone. Prompts are shorter than the context. No sliding window and no M-RoPE.

### How TokenText corresponds to the code

Tokens are byte sequences chosen freely from an instance's `pieces`. Every token goes
through `feed` (`utf8_incomplete_suffix_length`, `utf8_sanitize`), bit for bit as in
`cpp/rn-llama.cpp`. `case.consumer` selects who uses the text: the loop of
`llamaCompletion` (`IncompleteToken`, `CompleteToken`, `EndToken`, `EndCompletion`) or a
slot (`SlotToken`, `CompleteSlot`). `fed`, `delivered`, `checked` and `unseen` are
history. `max` bounds the bytes of a behaviour. Stop words are nonempty and well-formed
(`CasesAssumption`, `StopWordsAssumption`): they come from JavaScript as
`asString(runtime).utf8(runtime)`. (The code also takes an empty one; it is found in any
text and ends the generation at once.)

## 3. Properties

Of `SlotManager`, in the order of the module:

* `RequestPlacement` - queue, `active_requests` and slots agree; `cancel_request`
  reaches exactly its request.
* `OneOutcome`, `NothingLost` - a request is answered at most once, never after it was
  taken back; a completion is never dropped.
* `SampledLogitsAreOwn` - no slot samples from logits of another slot's tokens; the
  exception is a slot behind an MTP slot that has decoded in between (section 7).
* `PromptFilesExact` - a prompt checkpoint is written when the memory holds exactly the
  tokens the file claims.
* `WithinPredictLimit`, `WithinContext`, `BatchBounded` - the three arithmetic
  limits, with speculative decoding and shrinking batches. The batch holds at most
  `n_batch` tokens or, with more slots than that, one of each slot (section 7).
* `NoLostWakeup` - the worker sleeps only when nothing is to do or a notification is due.
* `CancelAnswersTruly` - what `cancel_request` returns is true: after "not found" nothing
  more happens to the request, and no token is delivered for one that was "active".
* `ImplementsService` - `SlotManager` implements `RequestService` under the mapping of
  `service_status`.
* `CompletionAnswered`, `CancelFreesSlot` - liveness.

Of `ParallelRequests`:

* `OwnResultOnce` - a promise is settled once, with its own result, and cancelled only by
  its own `stop()`.
* `CallbacksMatchRequests` - `RequestManager` holds the callbacks of exactly the requests
  that still need them.
* `NoTokenAfterResult` - no `onToken` after the result.
* `ReleaseWaitsForCallbacks` - nothing that uses the context is left when it is deleted.
* `FeedIsCurrent` - the last status told is the current one, but for two named cases.
* `CompletionsSettle` - no promise of a completion hangs, but for the named cases.

Of `ContextTasks`:

* `TaskCountExact` - the task count is right on every way out of a job.
* `DeletionWaitsForTasks` - release or shutdown: a context is deleted only when no task
  counted before uses it, unless the release timed out. (A call that is counted later is
  not covered: section 7.)
* `DeletedOnce` - release and shutdown together delete it once.
* `ResultIsOwn`, `InterruptStopsGeneration` - an application that awaits each completion
  gets that completion's text, and an interrupt sent at any time ends it within a token.
* `EveryCallSettles`, `ShutdownEnds` - liveness. The shutdown may hang when jobs are queued
  meanwhile: `ensureRunning()` takes back the stop flag (`called_late`).

Of `PromptCache`:

* `EmbdDescribesMemory` - while a prompt is ingested the memory holds exactly
  `embd[0, n_past)`, between operations all of `embd`, of the right picture.
* `SampledFromOwnPrompt` - a token comes from logits of its own prompt, however much of it
  was reused.
* `SnapshotsAreExact`, `StablePrefixKept` - snapshots are what they say, and the smallest
  one survives eviction.
* `SidecarDescribesFile` - whenever the process dies, a sidecar lies beside a whole file only
  and the memory in that file holds the picture it names; the exception is a session saved
  while `embd` did not describe the memory (section 7).

Of `SlotState`:

* `MemoryIsOwn` - a slot works on its own prompt, whatever was left in it; the exception is
  a picture of which the end was passed over (`PassedOver`, section 7).
* `FilesTellTheTruth` - the tokens of a state file are what its memory holds, and the
  sidecar names its picture.

Of `TokenText`: `TextExact` - no character is lost, repeated or torn and what was
delivered is a beginning of the text; `StopWordEndsGeneration` - also when it is spread
over tokens.

Every property of a passing run has a faulty variant of a definition (marked *Faulty
variant*) under which TLC finds it violated.

## 4. Runs and their bounds

| Run | Instance | Shows |
|---|---|---|
| `completions` | 3 completions (plain; loads and saves state; media with a checkpoint), 2 slots, batch of 2, context 3, two cancellable; ~10^6 states | safety and the refinement |
| `mixed_tasks` | MTP completion with drafts of 2, embedding, rerank with 2 documents, one request answered at once, 2 slots, context 5, the engine may be stopped; ~10^6 states | limits of speculative decoding, the other task types |
| `progress` | MTP completion without limit and a checkpointing one, 1 slot, both cancellable, `FairSpec` | liveness, no lost wakeup |
| `parallel_requests` | 2 completions and an embedding of at most 1 token on 1 slot; 8 applications that stop, fail, watch, release, configure, disable; ~2.7*10^5 states, `FairSpec` | the bridge, the feed, the release |
| `context_tasks` | 2 awaited completions of up to 2 tokens, 1 release, 2 workers, a shutdown, stops and calls after the release; ~6*10^5 states, `FairSpec` | counting, release, ownership of results, interrupts, liveness |
| `prompt_cache` | 7 prompts (two turns of a conversation, another one, an overlong one, three with pictures), 3 kinds of memory, with and without context shift, up to 3 operations, all faults; ~1.8*10^6 states | the cache of the single completion |
| `slot_state` | 5 prompts, 3 kinds of memory, 3 requests, 8 uses of the state file, all faults; ~6*10^5 states | a slot's memory and files |
| `token_text` | all sequences of 5 bytes out of 12 classes, of 3 out of 23 edge bytes, of 6 bytes in tokens that split stop words; ~6*10^5 states | the gate and stop words |
| `foreign_error`, `stop_hangs`, `context_release`, `stale_cache` | the smallest instance with the behaviour | the disagreements of section 7 |

Why these are enough:

* `SlotManager`: three requests on two slots is the least that has one request
  waiting while two run, so that a freed slot is taken over at once, and two slots finish
  in the same critical section. A batch of two with prompts of two tokens makes a prompt
  wait for room, be split, and fill the batch of another slot; `MinBatch` 1 lets one
  failed decode halve it below the number of slots. A context of three is filled during
  generation. Two documents make a rerank request go round once. Drafts of two reach each
  of the three terms of the draft limit. One slot is the harder case for progress.
* `ContextTasks`: two workers are the least that run a job and a release side by side; two
  completions let the second rewind what the first left, and two tokens let an interrupt
  come in between. `DeletedOnce` is checked for one release and a shutdown; two releases
  of one context that overlap do delete it twice (hazards).
* `ParallelRequests`: one slot keeps one request waiting while another runs, and ids of
  both a queued and a running request can be stopped. One mode switch makes ids start
  again while two requests of the old manager have their ids. One subscriber and
  four tellers overtake each other.
* `PromptCache`: a context of 6 with batches of 2 is filled and shifted within one
  operation; `MaxCheckpoints` 2, `MinGap` 2 and `PrefillInterval` 2 reach eviction within one
  prompt of 6. Three operations (`MaxOps`; two where a shift multiplies the states) are
  what an effect needs that is left by one, picked up by a second and seen in a third.
  `MaxRemain` bounds the tokens granted for incomplete characters; `Saved` lets a file of
  an earlier process be there.
* `SlotState`: `MaxRequests` 3: one writes the file, a second loads it and leaves a memory,
  a third takes that over.
* `TokenText`: a UTF-8 sequence has four bytes; five bytes have one before it or after it.
  The 23 edge bytes are both sides of every range in the code.

`mixed_tasks`, `stop_hangs` and the runs of the other modules switch deadlock checking off
because a stopped engine, an application without calls and a behaviour whose bound is
used up rest.

## 5. Fairness

`FairSpec` assumes that the worker thread is scheduled (`WF` of `Worker`; no client can
keep it out, as clients hold the mutex for one action only), that a thread that has
queued or cancelled gets to its `notify_one`, and a stopping thread to its `notify_all`
and through its join. Nothing is assumed of clients submitting or cancelling, of
spurious wakeups, or of decodes succeeding. That a completion ends at all follows from
the context limit, not from an assumption that the model stops.

In `ParallelRequests` the JS thread, the worker, the release job and each request's job
are scheduled (`WF` of `JsThread`, `update_slots`, `ReleaseContext`, `Job(r)`); nothing is
assumed of the application. In `ContextTasks` every thread is scheduled: the JS thread, the pool and each job on it,
the invalidating thread. Nothing is assumed of the application's calls, of stops, or that
a shutdown comes.

## 6. Proofs

Every theorem is about `Spec` and holds for every value of the constants that satisfies
the assumptions named in the modules; TLC evaluates those on the instances. Each
inductive invariant was checked by TLC on the instances of section 4 before it was
proved. The proof of a step reduces the actions to a few kinds of change first (lemmas
that say what a step does to the variables the invariant reads), then shows each kind to
preserve each part.

### SlotManager

| Module | Theorem | States |
|---|---|---|
| `SlotManagerProofs` | `TypeCorrect`, `BatchInvariant`, `BatchFits`, `LogitsAreOwn`, `CheckpointsExact`, `PredictLimitKept`, `ContextLimitKept` | `TypeOK`, `BatchInv`, `BatchBounded`, `SampledLogitsAreOwn`, `PromptFilesExact`, `WithinPredictLimit`, `WithinContext` |
| `SlotServiceProofs` | `PlacementInvariant`, `PlacementCorrect`, `AtMostOneOutcome`, `NoCompletionLost`, `WakeupKept`, `CancelTrue`, `EngineImplementsService` | `PlacementInv`, `RequestPlacement`, `OneOutcome`, `NothingLost`, `NoLostWakeup`, `CancelAnswersTruly`, `ImplementsService` |

`TypeOK` is not inductive: that subtractions such as the MTP prompt's
`num_prompt_tokens - 1` or `spec_pending_tokens - 1` stay natural needs `TypeInv`, which
adds (`WellFormed`) that a slot that is working holds a request and that request's prompt
length, which is at least one.

`PlacementInv` strengthens its three properties by what they rest on:

* `QueuedUntouched`: a waiting request is unanswered and owns nothing, so assigning it
  cannot answer it twice;
* `HeldLeftQueue`, `OneHolder`: a slot that is not idle holds a request that left the
  queue, and no two hold the same, including slots a failed load left `DONE`;
* `BusyOwnsRequest`: a busy slot is the one in `active_requests`, still has its callback
  and its request is unanswered: completing it answers exactly once;
* `EntryIsHeld`: an entry of `active_requests` leads to a slot with that request, which
  is busy except between `build` and `step6` (`Finishing`). The exception is what makes
  the invariant hold: inside it slots are `DONE` with their entry, and no slot is
  claimed there; outside it a claimable slot owns no entry;
* `UnknownUntouched`: nothing happens to requests not yet queued.

`BatchInv` says what one slot may count on, and that depends on where the worker is:

* `FlightKept`: from `build` until the slot is sampled (`InFlight`) a generating slot has
  logits of its own (`HasLogits`), or an MTP slot of smaller index was sampled before it
  (`MtpBefore`); the rest of the time it has a token that is not in
  memory yet (`HasNextToken`), which is why the next `build_batch` can give it one. Neither
  half is an invariant without the other;
* `BudgetKept`: delivered and remaining tokens add up to `n_predict`, and the accepted
  draft tokens that wait fit into the rest, which bounds the draft before it is decoded;
* `ContextKept`, `PromptAhead`, `CheckpointAhead`: the position stays within the context,
  behind the end of the prompt while it is evaluated, and at or before a pending
  checkpoint, so that the checkpoint is written exactly when it is reached;
* `FreshKept`: a slot that is claimed has counters at their initial values, except for what
  section 7 says of a failed load.

`Asleep` (wakeups) adds to `NoLostWakeup` what the worker knows between its test of the
queue under the mutex and its sleep. `CancelInv` adds that a cancelled request never
returns to the queue and that none is left when sampling begins, since `sample_and_callback`
does not look at the flag. The refinement maps the slots and `outcomes` to the status of
each request (`service_status`); each step of the engine is one step of the service or
changes nothing the service sees, which `PlacementInv` (who holds a request) and
`CancelInv` (which answers are interrupted) make provable.

### ContextTasks (`ContextTasksProofs`)

`TypeCorrect`, `CountIsExact`, `DeletionWaits`, `DeletedAtMostOnce`, `ResultsAreOwn` and
`InterruptsAreObeyed` state all safety properties of the run. They rest on `StageInv`: a
queued call is in the pool's queue once, and a call whose answer is on its way has one
callback, queued or running. On it stand

* `CountInv`: `activeTasks` is the cardinality of the set of jobs that have started and not
  finished (`Counted`), releases are never in it;
* `TokensInv`: a call's tokens precede its result among the callbacks, so that until a
  shutdown nothing of a call is on its way after it is over;
* `WaitInv`: what a release waited for (`covered`) stays over, since no call starts twice,
  and after the shutdown's join no worker is past the test of the shutdown flag;
* `DeletionInv`: the release that found the context and the shutdown exclude each other
  through the registry;
* `AwaitInv`: for an application that awaits, at most one completion is between its call
  and its settlement; its text is its own and its interrupt stands until it is obeyed.

`DeletedAtMostOnce` has the hypothesis `OneRelease`, that the application releases the
context once: two overlapping releases both find the pointer and do delete it twice
(hazards), so the statement is false without it.

### ParallelRequests (`ParallelRequestsProofs`)

`BridgeInvariant`, `TypeCorrect`, `ResultsAreOwn`, `TokensComeFirst`, `CallbacksKept`,
`ReleaseWaits` and `FeedCurrent` state all safety properties of the run, for any number of
requests and slots. `BridgeInv` follows a request's callbacks, which are kept by
`RequestManager` under its id, on their way to the JS thread, or called:

* `EngineInv`: ids of one manager are distinct and counted by `next_request_id`, the queue
  holds each waiting request once, and the engine knows only requests queued with it. Two
  requests of different managers may share an id, so everything else is said of
  `Served`, the requests of the present manager;
* `HeldInv`: under an id are the callbacks of its own request or none, and they are there
  exactly as long as the engine owes an answer (`Owed`), the request is about to be queued,
  or a `stop()` has withdrawn it and has not yet called them;
* `MessagesInv`, `OrderInv`, `SettledInv`: while callbacks are kept no result has been
  sent; once one is on its way no token is behind it and no second result exists;
* `StopInv`: a cancellation stems from the request's own `stop()` or a stale one;
* `ReleaseInv`: after the join nothing is sent and no job begins;
* `FeedInv`: a status that was told and is not current is marked old, or some thread is
  between the change and its notification (`Owing`), or has taken a newer status and not
  told it yet (`Telling`). At rest the last two cannot be.

The module assumes that requests are none of the names `"worker"` and `"js"` of the
threads (`ParallelRequestsAssumption`).

### SlotState (`SlotStateProofs`, `MediaPromptsProofs`)

`SlotInvariant`, `SlotMemoryIsOwn` and `SlotFilesTellTheTruth` state both safety properties of
the run, for all prompts, kinds of memory, uses of the file and numbers of requests.
`MediaPromptsProofs` holds what they need of the operators: what a removal and an extension
leave of attention and recurrent memory, and what `KeptPrefix` keeps (`KeptPrefixIs`): a
common beginning of the cached tokens and the prompt, shorter than the prompt, and nothing
of another picture.

`MemoryIsOwn` is not inductive: what a request reuses was left by an earlier request, came
from a file, or was cleared in between. `SlotInv` follows it on this way:

* `CacheInv`: while no request is worked on, a memory that is not longer than
  `cache_tokens` holds what they name, with the picture `hashes` names (`Backed`). A memory
  that is longer is one a failed request left; `load_prompt` then keeps nothing of it;
* `ChunksInv`, `CaptureInv`: inside `processMedia` the memory holds a beginning of the new
  prompt up to `n_past`, and so does what it captured of it;
* `OwnInv`: afterwards the memory holds a beginning of the request's own items, which
  `cache_tokens` names (`OwnMemory`). It reaches `n_past`, and at `sample` the logits are of
  all of it, unless the end of a picture was passed over (`PassedOver`). `Remainder` is what
  keeps that apart: what is left of a prompt either has no placeholder or nothing else, so
  that no text is ever decoded behind a gap;
* `SaveInv`: a prompt checkpoint is due exactly where the batch stopped;
* `FileInv`: what is in the file, or about to be written, was in the memory at that time, and
  the sidecar, which is written second, is empty or names its picture. The tokens of a
  file may name the end of a picture its memory lacks; `load_state` never resumes that
  part;
* `StageInv` and `TypeInv` say at which steps of `update_slots` a slot can be, and that
  the attention and the recurrent part of a memory agree (`Sound`).

### PromptCache (`PromptCacheProofs`)

`CacheInvariant`, `TypeCorrect`, `EmbdIsInMemory`, `SampledIsOwn`, `SnapshotsExact`,
`SidecarIsTrue` and `SmallestSnapshotStays` state all properties of the run, for all prompts
with at most one picture, kinds of memory, limits, and sizes of context, batch and
snapshot cache (`PromptCacheAssumption`; `NKeep + 4 <= NCtx` is what `loadPrompt`'s
truncation needs). What is said of the memory is said while `stale` is not set.

`EmbdDescribesMemory` is not inductive: what one operation leaves is reused by the next,
rewound, replaced by a snapshot or a file, and shifted when the context is full. `CacheInv`
follows it:

* `IdleInv`: between operations, while one waits and while a session is saved, `embd` names
  what the memory holds, with the picture `hash` names;
* `ChunksInv`: inside `processMedia` the memory holds the prompt up to `n_past`, and
  `n_past` is where a chunk begins (or the last has ended), so that no picture is
  decoded twice or in part;
* `LoopInv`: in the generation loop `n_past`, the length of `embd` and `n_ctx` are in order,
  whatever the memory holds: a context shift, a failed decode or a stale cache cannot
  make the loop read behind `embd`;
* `OwnInv`: there the memory holds `Own`, the items of `embd[0, n_past)`, and wherever a token
  may be sampled next the logits are those of all of it;
* `SnapshotInv`: a snapshot's recurrent state has read the tokens it names (`Exact`). While
  chunks are evaluated the picture is the new prompt's, though `hash` is still that
  of the old; snapshots of another picture were dropped before;
* `FileInv`: a session file in one piece holds what was in the memory, perhaps more than its
  tokens name, and its sidecar, written second, names no other picture: between the two
  writes `FileOfPicture` says of the file's memory what `hash`, from which the sidecar will be
  written, says of it;
* `StageInv`, `CountInv` and `SoundInv` say which operation is at which step, that a limit
  leaves a token while generation goes on, and that the attention and the recurrent part of
  a memory agree.

`SmallestSnapshotStays` is the action property `StablePrefixKept`. It needs no invariant
beyond `CacheInv`: eviction (`evictStateCheckpoints`) takes the first snapshot that is not
the smallest, and a capture at a position already there replaces it.

`Remaining` and the other recursive functions of a prompt exist for prompts of every length
by `Recursion`, a lemma of `MediaPromptsProofs` about recursion over `0 .. n`.

### TokenText (`TokenTextProofs`)

`TokenInvariant`, `TextIsExact` and `StopWordEnds` state both safety properties of the run, for
tokens of any bytes, any number and length of well-formed stop words and any length of the
output. TLC checks the same on five bytes.

The module reads UTF-8 three times: in the scan of `utf8_sanitize` and the test
`utf8_is_well_formed`, which go by the ranges of bytes in the Unicode standard's table
3-7 as the code does, and in `Text`, the reference, which goes by code points. The proofs reduce all to one scan that takes the bytes that
belong together at the front (`Width`) and goes on with the rest: `SanitizeIsReading`,
`TextIsReading` and `WellFormedIsSound`. `CharacterIs` and `CompletableIs` show that the
ranges of the table are exactly the code points that may be encoded, in the shortest form. On these stand `SuffixIs`, what
`utf8_incomplete_suffix_length` keeps: all of the beginning of a character at the end, and
nothing else; and `Joined`: bytes read in two parts mean the same as read at once if the
first part does not end inside a character, which is why a gate at that place changes
nothing.

`TokenInv` is the inductive invariant:

* `GateInv`: the gate holds the beginning of a character or nothing; if nothing, what was
  fed ends with a whole one (or a dead byte);
* `ReadInv`: the text is that of all bytes fed before those the gate holds; after a cut at a
  stop word it is a beginning of it that tears no character;
* `DeliveredInv`: the deltas, put together, are a beginning of the text, up to
  `sent_count` for a completion, and tear no character either;
* `SearchInv`: no stop word ends within the bytes looked at (`checked`), and none begins
  in the part that was sent and goes on to its end (`NoneBegun`). The second half is
  what makes a search that starts at `sent_count` enough: `findStoppingStrings` withholds
  text that may be the beginning of a stop word (`SearchFinds`).

That a cut tears no character rests on stop words being well-formed
(`StopWordsAssumption`): a stop word that began with a continuation byte could split one.

The library's induction theorems, which take an operator, cannot be used: existence and
uniqueness of the recursive functions, and what holds for sequences of any length, come
from the least position or length at which it could fail (`LeastExists`, `FromTheEnd`,
`ByLength`).

### Only model-checked

* Liveness (`CompletionAnswered`, `CancelFreesSlot`, `CompletionsSettle`,
  `EveryCallSettles`, `ShutdownEnds`): it depends on fairness and `ENABLED`, which the
  prover does not reason about. Every other property of a passing run is stated by a theorem.
* The four disagreements of section 7, whose runs are counterexamples.

## 7. Where the code and its documentation disagree

Shown by a run:

* `foreign_error`: after a failed `load_state` the slot is left `DONE` and never reset;
  the next request to claim it inherits `incomplete`, `error_message` and, for embedding
  and rerank, `save_prompt_state_path` (`cpp/rn-slot-manager.cpp:606-619`). A successful
  completion is then rejected with another request's error (`src/index.ts:529`), against
  the comment at `cpp/rn-slot-manager.cpp:572`.
* `stop_hangs`: the stop flag and `notify_all` can both fall between the worker's test
  and its sleep (`cpp/rn-slot-manager.cpp:1593-1618`); the join then never returns.
* `context_release`: a job is counted only when its worker has started it
  (`cpp/jsi/JSIUtils.cpp:71`). With two workers, a completion that one has taken and not
  counted does not keep the release on the other waiting; it then looks the context up and
  uses it while it is deleted, against the comment at `cpp/jsi/RNLlamaJSI.cpp:1747`. No
  timeout is needed for this.
* `stale_cache`: a completion stopped after its prompt was loaded and before its first
  batch leaves the whole prompt in `embd` over an empty memory
  (`cpp/rn-completion.cpp:617`), against the comment at `cpp/rn-completion.cpp:1433`.

Seen in the models, without a run of their own:

* An MTP slot decodes on the context all slots share while it is sampled
  (`llama_decode(parent_ctx->ctx, spec_batch)`, `cpp/rn-slot.cpp:463, 540`). The slots of
  larger index, which `sample_and_callback` comes to afterwards, then read its outputs in
  place of their own: another sequence's logits, embedding or score
  (`cpp/rn-slot-manager.cpp:1061, 1210`). `README.md:282` promises MTP for "queued parallel
  completions", and the comments at `cpp/rn-slot.h:85-87` and
  `cpp/rn-slot-manager.cpp:912-915` guard the first token after media against exactly this
  kind of overwriting. `SampledLogitsAreOwn` excepts these slots; without the exception (its
  last disjunct) TLC finds the violation in `mixed_tasks` within 16 states, without any failure
  or cancellation.
* With more slots than `n_batch` the first pass of `build_batch` writes past the array that
  `init()` allocated for `n_batch` tokens (`cpp/rn-slot-manager.cpp:65, 732`); neither
  `enableParallelMode` nor `init` compares the two. `BatchBounded` says how far; what the
  write does is not modelled.
* A media chunk that fails (`cpp/rn-mtmd.hpp:659`) leaves the memory with a part of the new
  prompt and `embd` and the hashes as they were. A session saved then pairs the old picture's
  hash with the new picture's memory, which the sidecar is there to prevent
  (`cpp/jsi/JSISession.h:138`). `SidecarDescribesFile` excepts it (`stale`).
* `bench()` after a completion always returns `{}`: its warm-up starts at position 0 of a
  sequence that goes on elsewhere, which `llama_decode` refuses (`cpp/llama-batch.cpp:292-316`).

* `n_predict` 0 does not stop a slot (`cpp/rn-slot-manager.cpp:1264`), against
  `src/types.ts:282`. Slots that use MTP and single completions do honour it.
* An embedding or rerank request whose batch fails, or that is cancelled while running or
  queued, ends without its callback (`cpp/rn-slot-manager.cpp:1042-1050, 1470`,
  `cpp/jsi/RNLlamaJSI.cpp:1416`), against `README.md:635, 643`. `RequestService` allows it
  for these tasks (`CanBeDropped`), so that the refinement still says what holds of the rest.
* `configure()` and `disable()` drop the requests of the old manager: their promises hang.
  Request ids start from 1 again, so that an old `stop()` cancels a new request
  (`cpp/rn-slot-manager.cpp:18`), against `README.md:623, 626` ("Unique request identifier").
* Failed batches and failed loads are not announced to status subscribers
  (`cpp/rn-slot-manager.cpp:1474`), and two notifications can arrive in the opposite order,
  against `src/index.ts:657` ("Called whenever parallel status changes").
* A stop word can be missed when a token completes a held-back character or ends in a dead
  byte (`unseen` in `TokenText`), and a slot's text includes the stop word, against
  `src/types.ts:276`.
* A state cut inside the picture that ends a prompt (`load_state_size`) is resumed without
  the rest of the picture: the slot passes over the placeholders
  (`cpp/rn-slot-manager.cpp:953-958`) and samples from logits that do not come from the
  prompt (`SkipPlaceholders` in `SlotState`); the next decode fails, as its position does
  not follow. The comment there says "media placeholders already in KV cache", and
  `cpp/rn-mtmd.hpp:517` that "placeholders cannot be decoded as ordinary tokens". In a
  single completion such a rest fails to decode (`Decodable` in `PromptCache`). The media
  outcomes of `SlotManager` leave the case out.
* A snapshot can survive a change of picture (`KeepsOtherPicture` in `PromptCache`): the
  invalidation at `cpp/rn-mtmd.hpp:506` starts at the first picture of the new prompt, so
  that a snapshot of the old picture that ends before it stays, and a later prompt with
  yet another picture at the old place cannot tell it from its own.

## 8. Plan

Done: all modules of section 2, checked; all their safety properties, the action property
and the refinement proved.

What a next step could take up: speculative decoding in `SlotState` and `PromptCache`
(`SlotManager` has its counters, not its memory), several pictures in a prompt, and
`releaseAllContexts` in `ContextTasks`.

## 9. Not modelled, and why

* Vendored code - llama.cpp, ggml and its backends, mtmd, miniaudio, stb, codec, anyascii,
  the Unicode tables, nlohmann json - is nearly all of the repository's half a million
  lines of implementation. It is third-party numeric and parsing code, taken here as the
  engine uses it: a decode succeeds or fails, evaluating media has the outcomes the caller
  distinguishes, `SequenceMemory` says what the memory calls do. What is modelled is
  llama.rn's own logic; the share of the repository's lines it makes up is small for this
  reason.
* Text to speech: a sequential numeric pipeline; its results depend on tensor data.
* JSI parameter and result conversion: stateless translation.
* Chat parsing, token probabilities, timings, log lines: data no property is about.
* Platform glue, build files, artifact download, jest mock.
* Inside `SlotManager`: the construction of the shared MTP context, an exception thrown by
  `common_sampler_init` and a sampler that is null (which nothing survives), empty
  prompts, and what a write past the end of the batch does.
* Inside `ContextTasks`: promise calls other than `completion()` and `releaseContext()`
  (they take the same path without the flags), `releaseAllContexts`, restarting the
  pool's workers, and what the JS thread does while a shutdown deletes the context: which
  thread invalidates the module and whether JavaScript still runs then is the platform's
  choice.
* Of `PromptCache` and `SlotState`: speculative decoding and the draft's memory, sliding
  windows, M-RoPE positions, several sequences in one memory, the check of OpenCL and of
  the cache types before a state file is used, and liveness (a generation ends by a limit
  or by the model's choice).
