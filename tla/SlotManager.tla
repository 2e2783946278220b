---------------------------- MODULE SlotManager ----------------------------
(***************************************************************************)
(* The parallel decoding engine of the binding: llama_rn_slot_manager      *)
(* (cpp/rn-slot-manager.cpp) and the slots it schedules (cpp/rn-slot.cpp). *)
(*                                                                         *)
(* Any number of client threads queue and cancel requests and one may stop *)
(* the engine.  A single worker thread runs update_slots() in a loop.  The *)
(* engine's data is guarded by slots_mutex: a critical section is one      *)
(* action, or a run of actions during which WorkerHoldsMutex keeps the     *)
(* clients out.  What the code does without the mutex (llama_decode, the   *)
(* notifications, the two stores of the stopping thread) are actions of    *)
(* their own.                                                              *)
(*                                                                         *)
(* Tokens are counted, not named.  A sampled token is one of: an ordinary  *)
(* token, a token that completes a stop word, an end-of-generation token.  *)
(***************************************************************************)
EXTENDS Integers, Sequences, FiniteSets

CONSTANTS
  Request,      \* the request ids handed out during the run
  NoRequest,    \* request_id = -1
  NSlots,       \* n_parallel
  NBatch,       \* n_batch as configured: the capacity the batch is allocated with
  MinBatch,     \* below or at this size a failed decode does not halve n_batch (32)
  NCtx,         \* n_ctx of a slot
  Task,         \* Task[r]: "completion", "embedding" or "rerank"
  PromptLen,    \* PromptLen[r]: number of prompt tokens (of each document, for rerank)
  NPredict,     \* NPredict[r]: n_predict, the tokens a completion may generate
  NDocs,        \* NDocs[r]: number of documents of a rerank request
  Mtp,          \* completions that use MTP speculative decoding
  MaxDraft,     \* speculative.draft.n_max
  Media,        \* completions with media_paths
  LoadsState,   \* completions with a load_state_path
  SavesPrompt,  \* completions with a save_prompt_state_path
  AtOnce,       \* embedding/rerank requests answered inside queue_*_request
  Cancellable,  \* requests the application may cancel (once each)
  MayStop       \* whether stop_processing_loop() may be called

Slot == 1..NSlots
NoSlot == 0

ASSUME RequestAssumption == NoRequest \notin Request
ASSUME SizeAssumption ==
  /\ NSlots \in Nat \ {0} /\ NBatch \in Nat \ {0} /\ MinBatch \in Nat \ {0}
  /\ NCtx \in Nat \ {0} /\ MaxDraft \in Nat
ASSUME TaskAssumption ==
  /\ Task \in [Request -> {"completion", "embedding", "rerank"}]
  /\ PromptLen \in [Request -> Nat \ {0}]
  /\ NPredict \in [Request -> Int]
  /\ NDocs \in [Request -> Nat \ {0}]
ASSUME FeatureAssumption ==
  /\ Mtp \cup Media \cup LoadsState \cup SavesPrompt
       \subseteq {r \in Request : Task[r] = "completion"}
  /\ AtOnce \subseteq {r \in Request : Task[r] # "completion"}
  /\ Cancellable \subseteq Request
  /\ MayStop \in BOOLEAN

VARIABLES
  queue_requests,     \* requests waiting for a slot, oldest first
  slots,              \* slots[s]: the fields of a slot, see SlotRecord
  active_requests,    \* request -> slot, NoSlot when the map has no entry
  released_before,    \* <<s, t>>: t_last_used of s orders before that of t
  n_batch,            \* current batch size
  n_tokens,           \* batch.n_tokens
  batch_outputs,      \* slots whose logits or embeddings the batch's decode yields; {}
                      \* once another decode on the context has replaced them all
  cursor,             \* loop index of build_batch and sample_and_callback
  pc,                 \* where the worker is
  processing_active,  \* the flag the worker's loop tests
  stopper,            \* progress of the thread inside stop_processing_loop
  submitted,          \* requests accepted so far
  to_notify,          \* calls that released slots_mutex and still owe a notify_one
  cancel_result,      \* what cancel_request returned, "none" before the call
  outcomes,           \* outcomes[r]: the results delivered to r's callback
  prompt_files        \* prompt_files[r]: last write of r's save_prompt_state_path

vars == <<queue_requests, slots, active_requests, released_before, n_batch, n_tokens,
          batch_outputs, cursor, pc, processing_active, stopper, submitted,
          to_notify, cancel_result, outcomes, prompt_files>>

batchVars == <<n_batch, n_tokens, batch_outputs, cursor>>
clientVars == <<stopper, submitted, to_notify, cancel_result>>

State == {"IDLE", "PROCESSING_PROMPT", "GENERATING", "DONE"}

\* The fields of llama_rn_slot that steer its life.  media: no media_paths, paths
\* not evaluated yet, evaluated, evaluated with media_pending_token set.
\* save_prompt_state_tokens is -1 unless save_prompt_state_pending is set.
\* error_of is the request whose failure wrote error_message.
SlotRecord ==
  [state : State, request_id : Request \cup {NoRequest}, is_interrupted : BOOLEAN,
   callback : BOOLEAN, n_past : Nat, num_prompt_tokens : Nat, n_decoded : Nat,
   n_remaining : Int, rerank_current_index : Nat,
   media : {"none", "deferred", "processed", "pending_token"},
   spec : BOOLEAN, spec_pending_tokens : Nat, stopped_eos : BOOLEAN,
   save_prompt_state_path : Request \cup {NoRequest},
   save_prompt_state_tokens : Nat \cup {-1},
   incomplete : BOOLEAN, error_of : Request \cup {NoRequest}]

\* What llama_rn_slot::reset() leaves behind.
reset ==
  [state |-> "IDLE", request_id |-> NoRequest, is_interrupted |-> FALSE,
   callback |-> FALSE, n_past |-> 0, num_prompt_tokens |-> 0, n_decoded |-> 0,
   n_remaining |-> -1, rerank_current_index |-> 0, media |-> "none",
   spec |-> FALSE, spec_pending_tokens |-> 0, stopped_eos |-> FALSE,
   save_prompt_state_path |-> NoRequest, save_prompt_state_tokens |-> -1,
   incomplete |-> FALSE, error_of |-> NoRequest]

NoFile == [by |-> NoRequest, n_past |-> 0, tokens |-> 0]

Init ==
  /\ queue_requests = <<>>
  /\ slots = [s \in Slot |-> reset]
  /\ active_requests = [r \in Request |-> NoSlot]
  /\ released_before = {p \in Slot \X Slot : p[1] < p[2]}
  /\ n_batch = NBatch
  /\ n_tokens = 0
  /\ batch_outputs = {}
  /\ cursor = 1
  /\ pc = "loop_top"
  /\ processing_active = TRUE
  /\ stopper = "none"
  /\ submitted = {}
  /\ to_notify = {}
  /\ cancel_result = [r \in Request |-> "none"]
  /\ outcomes = [r \in Request |-> <<>>]
  /\ prompt_files = [r \in Request |-> NoFile]

Active(slot) == slot.state \in {"PROCESSING_PROMPT", "GENERATING"}
ActiveSlots == {s \in Slot : Active(slots[s])}
DoneSlots == {s \in Slot : slots[s].state = "DONE"}
InterruptedSlots == {s \in ActiveSlots : slots[s].is_interrupted}
UsesMtp(slot) == slot.request_id \in Mtp
IsCompletion(slot) == Task[slot.request_id] = "completion"

-----------------------------------------------------------------------------
(* Completing and releasing slots                                          *)

OutcomeRecord ==
  [incomplete : BOOLEAN, error_of : Request \cup {NoRequest}, n_decoded : Nat,
   interrupted : BOOLEAN]

\* What the application's callback is given.
OutcomeOf(slot) ==
  [incomplete |-> slot.incomplete, error_of |-> slot.error_of,
   n_decoded |-> slot.n_decoded, interrupted |-> slot.is_interrupted]

Answer(r, slot) == outcomes' = [outcomes EXCEPT ![r] = Append(@, OutcomeOf(slot))]

\* complete_slot() moves on_complete_callback out and calls it.  The callbacks of
\* embedding and rerank requests are other fields, which it does not touch.
complete_slot(slot) ==
  [slot EXCEPT !.state = "DONE", !.callback = @ /\ ~IsCompletion(slot)]

CallsBack(slot, r) == slot.request_id = r /\ slot.callback /\ IsCompletion(slot)

\* The callbacks run when the slots of D are completed, their fields being f[s].
AnswerAll(D, f) ==
  outcomes' = [r \in Request |->
    IF \E s \in D : CallsBack(f[s], r)
    THEN Append(outcomes[r], OutcomeOf(f[CHOOSE s \in D : CallsBack(f[s], r)]))
    ELSE outcomes[r]]

\* Slot s ends the step completed, its fields before complete_slot being `slot`.
CompleteOne(s, slot) ==
  /\ slots' = [slots EXCEPT ![s] = complete_slot(slot)]
  /\ AnswerAll({s}, [slots EXCEPT ![s] = slot])

\* Faulty variant: the entry of active_requests is not erased.
Release_KeepsEntry(D) ==
  /\ UNCHANGED active_requests
  /\ released_before' = {p \in Slot \X Slot :
       \/ p[1] \notin D /\ p[2] \in D
       \/ p[1] \in D /\ p[2] \in D /\ p[1] < p[2]
       \/ p[1] \notin D /\ p[2] \notin D /\ p \in released_before}

\* release_completed_slots() resets the slots of D (those in state DONE), stamps
\* them in index order, and erases their requests from active_requests.
Release(D) ==
  /\ active_requests' = [r \in Request |->
       IF \E s \in D : slots[s].request_id = r THEN NoSlot ELSE active_requests[r]]
  /\ released_before' = {p \in Slot \X Slot :
       \/ p[1] \notin D /\ p[2] \in D
       \/ p[1] \in D /\ p[2] \in D /\ p[1] < p[2]
       \/ p[1] \notin D /\ p[2] \notin D /\ p \in released_before}

\* The slots of C are completed, their fields being f[s], and then every DONE slot
\* is released, in one critical section.
CompleteAndRelease(C, f) ==
  LET D == C \cup DoneSlots IN
  /\ AnswerAll(C, f)
  /\ slots' = [s \in Slot |-> IF s \in D THEN reset ELSE f[s]]
  /\ Release(D)

-----------------------------------------------------------------------------
(* Client threads                                                          *)

\* Critical sections of the worker that span several actions.
WorkerHoldsMutex == pc \in {"assign", "reassign", "build", "sample", "parking"}

MutexFree == ~WorkerHoldsMutex

\* Faulty variant: a new request overtakes the waiting ones.
QueueRequest_Front(r) ==
  /\ MutexFree
  /\ r \notin submitted /\ r \notin AtOnce
  /\ queue_requests' = <<r>> \o queue_requests
  /\ submitted' = submitted \cup {r}
  /\ to_notify' = to_notify \cup {r}
  /\ UNCHANGED <<slots, active_requests, released_before, batchVars, pc,
                 processing_active, stopper, cancel_result, outcomes, prompt_files>>

\* queue_request, queue_embedding_request, queue_rerank_request: push under the
\* mutex, notify after it.
QueueRequest(r) ==
  /\ MutexFree
  /\ r \notin submitted /\ r \notin AtOnce
  /\ queue_requests' = Append(queue_requests, r)
  /\ submitted' = submitted \cup {r}
  /\ to_notify' = to_notify \cup {r}
  /\ UNCHANGED <<slots, active_requests, released_before, batchVars, pc,
                 processing_active, stopper, cancel_result, outcomes, prompt_files>>

\* Embeddings disabled, wrong pooling type, nothing to rank, a tokenizer error:
\* the callback runs in the calling thread and nothing is queued.
AnswerAtOnce(r) ==
  /\ r \notin submitted /\ r \in AtOnce
  /\ Answer(r, reset)
  /\ submitted' = submitted \cup {r}
  /\ UNCHANGED <<queue_requests, slots, active_requests, released_before, batchVars,
                 pc, processing_active, stopper, to_notify, cancel_result,
                 prompt_files>>

\* cancel_request up to the end of its critical section.
CancelActive(r) ==
  LET s == active_requests[r] IN
  /\ s \in ActiveSlots
  /\ slots' = [slots EXCEPT ![s].is_interrupted = TRUE]
  /\ cancel_result' = [cancel_result EXCEPT ![r] = "ACTIVE"]
  /\ to_notify' = to_notify \cup {r}
  /\ UNCHANGED queue_requests

\* Faulty variant: the cancelled request is found but not erased.
Without_Nothing(q, i) == q

\* The queue without its i-th element.
Without(q, i) == [j \in 1..(Len(q) - 1) |-> IF j < i THEN q[j] ELSE q[j + 1]]

NotActive(r) == active_requests[r] \notin ActiveSlots

CancelQueued(r) ==
  /\ NotActive(r)
  /\ \E i \in DOMAIN queue_requests :
       /\ queue_requests[i] = r
       /\ queue_requests' = Without(queue_requests, i)
  /\ cancel_result' = [cancel_result EXCEPT ![r] = "QUEUED"]
  /\ to_notify' = to_notify \cup {r}
  /\ UNCHANGED slots

CancelNotFound(r) ==
  /\ NotActive(r)
  /\ \A i \in DOMAIN queue_requests : queue_requests[i] # r
  /\ cancel_result' = [cancel_result EXCEPT ![r] = "NOT_FOUND"]
  /\ UNCHANGED <<queue_requests, slots, to_notify>>

\* The application learns the id of a request when its queueing call has returned.
CancelRequest(r) ==
  /\ MutexFree
  /\ r \in Cancellable /\ r \in submitted /\ r \notin to_notify
  /\ cancel_result[r] = "none"
  /\ CancelActive(r) \/ CancelQueued(r) \/ CancelNotFound(r)
  /\ UNCHANGED <<active_requests, released_before, batchVars, pc, processing_active,
                 stopper, submitted, outcomes, prompt_files>>

\* slots_cv.notify_one() of a queueing or cancelling call.
Notify(r) ==
  /\ r \in to_notify
  /\ to_notify' = to_notify \ {r}
  /\ pc' = IF pc = "waiting" THEN "woken" ELSE pc
  /\ UNCHANGED <<queue_requests, slots, active_requests, released_before, batchVars,
                 processing_active, stopper, submitted, cancel_result, outcomes,
                 prompt_files>>

\* stop_processing_loop: the store, the notify_all and the join.  The mutex is
\* not taken.
StopStore ==
  /\ MayStop /\ stopper = "none"
  /\ processing_active' = FALSE
  /\ stopper' = "stored"
  /\ UNCHANGED <<queue_requests, slots, active_requests, released_before, batchVars,
                 pc, submitted, to_notify, cancel_result, outcomes, prompt_files>>

StopNotify ==
  /\ stopper = "stored"
  /\ stopper' = "notified"
  /\ pc' = IF pc = "waiting" THEN "woken" ELSE pc
  /\ UNCHANGED <<queue_requests, slots, active_requests, released_before, batchVars,
                 processing_active, submitted, to_notify, cancel_result, outcomes,
                 prompt_files>>

StopJoin ==
  /\ stopper = "notified" /\ pc = "exited"
  /\ stopper' = "joined"
  /\ UNCHANGED <<queue_requests, slots, active_requests, released_before, batchVars,
                 pc, processing_active, submitted, to_notify, cancel_result,
                 outcomes, prompt_files>>

-----------------------------------------------------------------------------
(* The worker, step 1 of update_slots: terminalize cancelled requests and  *)
(* hand free slots to queued requests.  Step 7 repeats the second half.    *)

LoopTop ==
  /\ pc = "loop_top"
  /\ pc' = IF processing_active THEN "step1" ELSE "exited"
  /\ UNCHANGED <<queue_requests, slots, active_requests, released_before, batchVars,
                 processing_active, outcomes, prompt_files, clientVars>>

TerminalizeCancelled ==
  /\ pc = "step1"
  /\ IF InterruptedSlots = {}
     THEN UNCHANGED <<slots, active_requests, released_before, outcomes>>
     ELSE CompleteAndRelease(InterruptedSlots, slots)
  /\ pc' = "assign"
  /\ UNCHANGED <<queue_requests, batchVars, processing_active, prompt_files,
                 clientVars>>

Available(s) == slots[s].state \in {"IDLE", "DONE"}

\* The available slot with the oldest t_last_used.
get_available_slot(s) ==
  /\ Available(s)
  /\ \A t \in Slot \ {s} : Available(t) => <<s, t>> \in released_before

\* process_pending_queue, before the switch over the task type.  The fields it
\* leaves alone keep what the slot's last occupant wrote.
Claim(slot, r) ==
  [slot EXCEPT !.request_id = r, !.is_interrupted = FALSE, !.callback = FALSE,
               !.save_prompt_state_path = IF Task[r] # "completion" THEN @
                                          ELSE IF r \in SavesPrompt THEN r
                                          ELSE NoRequest]

\* One token short of the prompt, so that the last one is evaluated again on reload.
CheckpointTarget(r) == IF PromptLen[r] > 1 THEN PromptLen[r] - 1 ELSE PromptLen[r]

\* `start`: the tokens the sequence memory already holds.
load_prompt(slot, r, start) ==
  [slot EXCEPT !.state = "PROCESSING_PROMPT", !.n_decoded = 0,
               !.num_prompt_tokens = PromptLen[r], !.n_past = start,
               !.save_prompt_state_tokens =
                 IF slot.save_prompt_state_path = NoRequest \/ start > CheckpointTarget(r)
                 THEN -1 ELSE CheckpointTarget(r)]

\* The part of a loaded state that is a prefix of the prompt and still in memory;
\* at least one token is left to evaluate.  Media prompts reuse memory later.
ReusableTokens(r) ==
  IF r \in LoadsState \ Media THEN 0..(PromptLen[r] - 1) ELSE {0}

\* The head request is given slot s.
Assign(r, s) ==
  \E start \in ReusableTokens(r) :
    /\ slots' = [slots EXCEPT ![s] =
         [load_prompt(Claim(slots[s], r), r, start) EXCEPT
            !.callback = TRUE, !.rerank_current_index = 0,
            !.media = IF r \in Media THEN "deferred" ELSE "none",
            !.n_remaining = IF Task[r] = "completion" THEN NPredict[r] ELSE -1]]
    /\ active_requests' = [active_requests EXCEPT ![r] = s]
    /\ UNCHANGED outcomes

\* load_state() fails: the slot is left DONE, outside active_requests, until it is
\* claimed again or some other slot is released.
FailLoad(r, s) ==
  LET failed == [Claim(slots[s], r) EXCEPT !.state = "DONE", !.incomplete = TRUE,
                                           !.error_of = r] IN
  /\ r \in LoadsState
  /\ slots' = [slots EXCEPT ![s] = failed]
  /\ Answer(r, failed)
  /\ UNCHANGED active_requests

AssignHead ==
  /\ pc \in {"assign", "step7", "reassign"}
  /\ queue_requests # <<>>
  /\ \E s \in Slot :
       /\ get_available_slot(s)
       /\ Assign(Head(queue_requests), s) \/ FailLoad(Head(queue_requests), s)
  /\ queue_requests' = Tail(queue_requests)
  /\ pc' = IF pc = "assign" THEN "assign" ELSE "reassign"
  /\ UNCHANGED <<released_before, batchVars, processing_active, prompt_files,
                 clientVars>>

StopAssigning ==
  /\ pc \in {"assign", "step7", "reassign"}
  /\ queue_requests = <<>> \/ \A s \in Slot : ~Available(s)
  /\ pc' = IF pc = "assign" THEN "step2" ELSE "loop_end"
  /\ UNCHANGED <<queue_requests, slots, active_requests, released_before, batchVars,
                 processing_active, outcomes, prompt_files, clientVars>>

\* Step 2: return early when no slot is active.
CheckActive ==
  /\ pc = "step2"
  /\ pc' = IF ActiveSlots = {} THEN "loop_end" ELSE "step3"
  /\ UNCHANGED <<queue_requests, slots, active_requests, released_before, batchVars,
                 processing_active, outcomes, prompt_files, clientVars>>

-----------------------------------------------------------------------------
(* Steps 3 and 4: one batch for all active slots                           *)

\* build_batch, first pass: one token of every generating completion.
HasGeneratedToken(slot) ==
  slot.state = "GENERATING" /\ IsCompletion(slot) /\ ~UsesMtp(slot) /\ slot.n_decoded > 0

BuildGenerating ==
  LET G == {s \in Slot : HasGeneratedToken(slots[s])} IN
  /\ pc = "step3"
  /\ slots' = [s \in Slot |-> IF s \in G THEN [slots[s] EXCEPT !.n_past = @ + 1]
                                         ELSE slots[s]]
  /\ batch_outputs' = G
  /\ n_tokens' = Cardinality(G)
  /\ cursor' = 1
  /\ pc' = "build"
  /\ UNCHANGED <<queue_requests, active_requests, released_before, n_batch,
                 processing_active, outcomes, prompt_files, clientVars>>

Least(a, b) == IF a <= b THEN a ELSE b
\* Faulty variant: the tokens already in the batch are not counted.
Room_WholeBatch == n_batch

Room == IF n_tokens >= n_batch THEN 0 ELSE n_batch - n_tokens

\* Faulty variant: the prompt loop runs past the checkpoint.
PromptEnd_IgnoresCheckpoint(slot) == slot.num_prompt_tokens

\* The prompt loop stops at the checkpoint, so that it can be written exactly there.
PromptEnd(slot) ==
  IF slot.save_prompt_state_tokens # -1 /\ slot.n_past <= slot.save_prompt_state_tokens
  THEN Least(slot.num_prompt_tokens, slot.save_prompt_state_tokens)
  ELSE slot.num_prompt_tokens

PromptTokensTaken(slot) ==
  IF slot.n_past >= PromptEnd(slot) THEN 0 ELSE Least(PromptEnd(slot) - slot.n_past, Room)

\* Faulty variant: the slot starts to generate one prompt token early.
TakePromptTokens_Early(s, slot) ==
  LET taken == PromptTokensTaken(slot)
      past  == slot.n_past + taken IN
  /\ slots' = [slots EXCEPT ![s] =
       [slot EXCEPT !.n_past = past,
                    !.state = IF past + 1 >= slot.num_prompt_tokens THEN "GENERATING"
                              ELSE @]]
  /\ n_tokens' = n_tokens + taken
  /\ batch_outputs' = IF taken > 0 THEN batch_outputs \cup {s} ELSE batch_outputs
  /\ UNCHANGED outcomes

\* build_batch, second pass, a slot whose next prompt tokens go into the batch.
TakePromptTokens(s, slot) ==
  LET taken == PromptTokensTaken(slot)
      past  == slot.n_past + taken IN
  /\ slots' = [slots EXCEPT ![s] =
       [slot EXCEPT !.n_past = past,
                    !.state = IF past >= slot.num_prompt_tokens THEN "GENERATING" ELSE @]]
  /\ n_tokens' = n_tokens + taken
  /\ batch_outputs' = IF taken > 0 THEN batch_outputs \cup {s} ELSE batch_outputs
  /\ UNCHANGED outcomes

\* processMedia: the whole prompt is evaluated and a token sampled at once; or a
\* cached prefix ends inside the trailing text, whose rest goes through the batch;
\* or the context is full; or it throws.  On success the checkpoint, if one is
\* pending, moves to the end of the prompt or has been written on the way.
MovedCheckpoint(slot) ==
  IF slot.save_prompt_state_tokens = -1 THEN {-1} ELSE {-1, slot.num_prompt_tokens}

ProcessMedia(s, slot) ==
  \/ /\ CompleteOne(s, slot)
     /\ UNCHANGED <<n_tokens, batch_outputs>>
  \/ /\ CompleteOne(s, [slot EXCEPT !.incomplete = TRUE])
     /\ UNCHANGED <<n_tokens, batch_outputs>>
  \/ \E target \in MovedCheckpoint(slot) :
       /\ slots' = [slots EXCEPT ![s] =
            [slot EXCEPT !.state = "GENERATING", !.n_past = slot.num_prompt_tokens,
                         !.media = "pending_token", !.save_prompt_state_tokens = target]]
       /\ UNCHANGED <<n_tokens, batch_outputs, outcomes>>
  \/ \E target \in MovedCheckpoint(slot), past \in 1..(slot.num_prompt_tokens - 1) :
       TakePromptTokens(s, [slot EXCEPT !.n_past = past, !.media = "processed",
                                        !.save_prompt_state_tokens = target])

\* Faulty variant: the loop runs one slot too far.
NextSlot_TooFar(last) ==
  /\ cursor' = IF cursor > NSlots THEN 1 ELSE cursor + 1
  /\ pc' = IF cursor > NSlots THEN last ELSE pc

NextSlot(last) ==
  /\ cursor' = IF cursor = NSlots THEN 1 ELSE cursor + 1
  /\ pc' = IF cursor = NSlots THEN last ELSE pc

SkipSlot(slot) ==
  /\ slot.state # "PROCESSING_PROMPT"
  /\ UNCHANGED <<slots, n_tokens, batch_outputs, outcomes>>

\* MTP evaluates the prompt itself when it samples; it does not support media.
EnterMtp(s, slot) ==
  /\ slot.state = "PROCESSING_PROMPT" /\ UsesMtp(slot)
  /\ UNCHANGED <<n_tokens, batch_outputs>>
  /\ IF slot.media # "none"
     THEN CompleteOne(s, [slot EXCEPT !.incomplete = TRUE, !.error_of = slot.request_id])
     ELSE /\ slots' = [slots EXCEPT ![s].state = "GENERATING"]
          /\ UNCHANGED outcomes

EvaluateMedia(s, slot) ==
  /\ slot.state = "PROCESSING_PROMPT" /\ ~UsesMtp(slot) /\ slot.media = "deferred"
  /\ ProcessMedia(s, slot)

EvaluateText(s, slot) ==
  /\ slot.state = "PROCESSING_PROMPT" /\ ~UsesMtp(slot) /\ slot.media # "deferred"
  /\ TakePromptTokens(s, slot)

BuildPrompt ==
  /\ pc = "build"
  /\ \/ SkipSlot(slots[cursor])
     \/ EnterMtp(cursor, slots[cursor])
     \/ EvaluateMedia(cursor, slots[cursor])
     \/ EvaluateText(cursor, slots[cursor])
  /\ NextSlot("step4")
  /\ UNCHANGED <<queue_requests, active_requests, released_before, n_batch,
                 processing_active, prompt_files, clientVars>>

\* process_batch without the mutex; an empty batch is not decoded.
DecodeBatch ==
  /\ pc = "step4"
  /\ pc' = "step46"
  /\ UNCHANGED <<queue_requests, slots, active_requests, released_before, batchVars,
                 processing_active, outcomes, prompt_files, clientVars>>

DecodeFails ==
  /\ pc = "step4" /\ n_tokens > 0
  /\ n_batch' = IF n_batch > MinBatch THEN n_batch \div 2 ELSE n_batch
  /\ pc' = "abort"
  /\ UNCHANGED <<queue_requests, slots, active_requests, released_before, n_tokens,
                 batch_outputs, cursor, processing_active, outcomes, prompt_files,
                 clientVars>>

\* A failed batch ends every active request as incomplete, and the update.
AbortBatch ==
  /\ pc = "abort"
  /\ CompleteAndRelease(ActiveSlots,
       [s \in Slot |-> IF s \in ActiveSlots THEN [slots[s] EXCEPT !.incomplete = TRUE]
                                            ELSE slots[s]])
  /\ pc' = "loop_end"
  /\ UNCHANGED <<queue_requests, batchVars, processing_active, prompt_files,
                 clientVars>>

\* Faulty variant: a checkpoint is due only beyond its target, which the prompt loop
\* never passes.
DueForCheckpoint_Beyond(slot) ==
  slot.save_prompt_state_tokens # -1 /\ slot.n_decoded = 0
  /\ slot.n_past > slot.save_prompt_state_tokens

\* Step 4.6: write the prompt checkpoints that are due.  A slot that has already
\* generated tokens has missed its own.
DueForCheckpoint(slot) ==
  slot.save_prompt_state_tokens # -1 /\ slot.n_decoded = 0
  /\ slot.n_past >= slot.save_prompt_state_tokens

MissedCheckpoint(slot) == slot.save_prompt_state_tokens # -1 /\ slot.n_decoded > 0

Writes(slot, r) == slot.save_prompt_state_path = r

\* The saves of the slots in `saved` succeed, the other due ones fail and are not retried.
SaveCheckpoints ==
  /\ pc = "step46"
  /\ slots' = [s \in Slot |->
       IF DueForCheckpoint(slots[s]) \/ MissedCheckpoint(slots[s])
       THEN [slots[s] EXCEPT !.save_prompt_state_tokens = -1] ELSE slots[s]]
  /\ \E saved \in SUBSET {s \in Slot : DueForCheckpoint(slots[s])} :
       prompt_files' = [r \in Request |->
         IF \E s \in saved : Writes(slots[s], r)
         THEN LET slot == slots[CHOOSE s \in saved : Writes(slots[s], r)] IN
              [by |-> slot.request_id, n_past |-> slot.n_past,
               tokens |-> slot.save_prompt_state_tokens]
         ELSE prompt_files[r]]
  /\ pc' = "step5"
  /\ UNCHANGED <<queue_requests, active_requests, released_before, batchVars,
                 processing_active, outcomes, clientVars>>

-----------------------------------------------------------------------------
(* Step 5: terminalize cancelled requests again, then sample every         *)
(* generating slot.  Steps 6 and 7: release what finished, assign again.   *)

\* Faulty variants: a cancelled slot is marked done without its callback; cancelled
\* slots are sampled like the others.
TerminalizeBeforeSampling_Silent ==
  /\ pc = "step5"
  /\ slots' = [s \in Slot |-> IF s \in InterruptedSlots
                              THEN [slots[s] EXCEPT !.state = "DONE"] ELSE slots[s]]
  /\ cursor' = 1
  /\ pc' = "sample"
  /\ UNCHANGED <<queue_requests, active_requests, released_before, n_batch, n_tokens,
                 batch_outputs, processing_active, outcomes, prompt_files, clientVars>>

TerminalizeBeforeSampling_Omitted ==
  /\ pc = "step5"
  /\ cursor' = 1
  /\ pc' = "sample"
  /\ UNCHANGED <<queue_requests, slots, active_requests, released_before, n_batch,
                 n_tokens, batch_outputs, processing_active, outcomes, prompt_files,
                 clientVars>>

\* The test of is_interrupted inside sample_and_callback, in the same critical section,
\* finds nothing left to do.
TerminalizeBeforeSampling ==
  /\ pc = "step5"
  /\ slots' = [s \in Slot |-> IF s \in InterruptedSlots THEN complete_slot(slots[s])
                                                        ELSE slots[s]]
  /\ AnswerAll(InterruptedSlots, slots)
  /\ cursor' = 1
  /\ pc' = "sample"
  /\ UNCHANGED <<queue_requests, active_requests, released_before, n_batch, n_tokens,
                 batch_outputs, processing_active, prompt_files, clientVars>>

\* A delivered token counts against n_predict, unless that is not positive.
CountToken(slot) ==
  [slot EXCEPT !.n_decoded = @ + 1,
               !.n_remaining = IF @ > 0 THEN @ - 1 ELSE @]

ReachesLimit(slot) == slot.n_remaining = 1

\* One sampled token of an ordinary completion.
SampleToken(s, slot) ==
  LET sampled == [slot EXCEPT !.media = IF @ = "pending_token" THEN "processed" ELSE @]
  IN  \/ CompleteOne(s, sampled)                                \* end of generation
      \/ CompleteOne(s, CountToken(sampled))                    \* stop word
      \/ IF ReachesLimit(slot) \/ slot.n_past >= NCtx
         THEN CompleteOne(s, CountToken(sampled))
         ELSE slots' = [slots EXCEPT ![s] = CountToken(sampled)] /\ UNCHANGED outcomes

\* next_token_mtp: the first call evaluates the prompt but for its last token.
InitMtp(slot) ==
  IF slot.spec THEN slot
  ELSE [slot EXCEPT !.spec = TRUE, !.n_past = slot.num_prompt_tokens - 1]

MtpSupported(slot) ==
  slot.spec \/ (slot.request_id \notin LoadsState /\ slot.save_prompt_state_path = NoRequest)

Greatest(a, b) == IF a >= b THEN a ELSE b

\* Faulty variant: the target model's own token is not counted against n_predict.
DraftLimit_OneTooMany(slot) ==
  Greatest(0, Least(MaxDraft, Least(NCtx - slot.n_past - 1,
                IF slot.n_remaining < 0 THEN MaxDraft ELSE slot.n_remaining)))

DraftLimit(slot) ==
  Greatest(0, Least(MaxDraft, Least(NCtx - slot.n_past - 1,
                IF slot.n_remaining < 0 THEN MaxDraft ELSE slot.n_remaining - 1)))

\* Faulty variant: the refill does not look at the context.
CannotRefill_NoContextCheck(slot) == slot.n_remaining = 0

CannotRefill(slot) == slot.n_remaining = 0 \/ slot.n_past + 1 >= NCtx

\* refill_mtp_tokens: the target model accepts a prefix of the draft and adds one
\* token of its own; the last of them may be the end of generation.
Refill(slot, accepted, eos) ==
  [slot EXCEPT !.n_past = @ + accepted, !.stopped_eos = eos,
               !.spec_pending_tokens = IF eos THEN accepted - 1 ELSE accepted]

\* Deliver the first pending token, if any, and decide whether the slot is done.
EmitMtp(s, slot) ==
  LET rest == [slot EXCEPT !.spec_pending_tokens = @ - 1] IN
  IF slot.spec_pending_tokens = 0
  THEN CompleteOne(s, slot)
  ELSE \/ CompleteOne(s, CountToken(rest))                      \* stop word
       \/ IF ReachesLimit(slot) \/ (slot.stopped_eos /\ rest.spec_pending_tokens = 0)
          THEN CompleteOne(s, CountToken(rest))
          ELSE slots' = [slots EXCEPT ![s] = CountToken(rest)] /\ UNCHANGED outcomes

MtpFails(s, slot) ==
  CompleteOne(s, [slot EXCEPT !.incomplete = TRUE, !.error_of = slot.request_id])

\* eval_mtp_prompt decodes only what precedes the last token of the prompt.
DecodesPrompt(slot) == ~slot.spec /\ slot.num_prompt_tokens > 1

\* The decodes of MTP run on the context the batch was decoded on: from then on it holds
\* no outputs of the batch, although the slots after this one have yet to read theirs.
SampleMtp(s, slot) ==
  IF ~MtpSupported(slot) THEN MtpFails(s, slot) /\ UNCHANGED batch_outputs
  ELSE IF slot.spec_pending_tokens > 0 THEN EmitMtp(s, slot) /\ UNCHANGED batch_outputs
  ELSE \/ /\ ~slot.spec \/ ~CannotRefill(slot)
          /\ \/ MtpFails(s, slot) /\ UNCHANGED batch_outputs   \* thrown before a decode
             \/ MtpFails(s, [slot EXCEPT !.spec = TRUE])       \* by one, or after it
                /\ batch_outputs' = {}
       \/ /\ CannotRefill(InitMtp(slot))
          /\ CompleteOne(s, InitMtp(slot))
          /\ batch_outputs' = IF DecodesPrompt(slot) THEN {} ELSE batch_outputs
       \/ /\ ~CannotRefill(InitMtp(slot))
          /\ \E accepted \in 1..(DraftLimit(InitMtp(slot)) + 1), eos \in BOOLEAN :
               EmitMtp(s, Refill(InitMtp(slot), accepted, eos))
          /\ batch_outputs' = {}

\* The result of an embedding request, or of the last document of a rerank request.
DeliverResult(s, slot) ==
  /\ slots' = [slots EXCEPT ![s].state = "DONE"]
  /\ IF slot.callback THEN Answer(slot.request_id, slot) ELSE UNCHANGED outcomes

\* Faulty variant: the next document is loaded into a slot that keeps generating.
ScoreDocument_KeepsState(s, slot) ==
  LET next == slot.rerank_current_index + 1 IN
  IF next < NDocs[slot.request_id]
  THEN /\ slots' = [slots EXCEPT ![s] =
            [load_prompt(slot, slot.request_id, 0) EXCEPT
               !.state = "GENERATING", !.rerank_current_index = next]]
       /\ UNCHANGED outcomes
  ELSE DeliverResult(s, [slot EXCEPT !.rerank_current_index = next])

ScoreDocument(s, slot) ==
  LET next == slot.rerank_current_index + 1 IN
  IF next < NDocs[slot.request_id]
  THEN /\ slots' = [slots EXCEPT ![s] =
            [load_prompt(slot, slot.request_id, 0) EXCEPT !.rerank_current_index = next]]
       /\ UNCHANGED outcomes
  ELSE DeliverResult(s, [slot EXCEPT !.rerank_current_index = next])

SkipSample(slot) ==
  slot.state # "GENERATING" /\ UNCHANGED <<slots, batch_outputs, outcomes>>

SampleCompletion(s, slot) ==
  /\ slot.state = "GENERATING" /\ IsCompletion(slot)
  /\ IF UsesMtp(slot) THEN SampleMtp(s, slot)
                      ELSE SampleToken(s, slot) /\ UNCHANGED batch_outputs

SampleEmbedding(s, slot) ==
  /\ slot.state = "GENERATING" /\ Task[slot.request_id] = "embedding"
  /\ DeliverResult(s, slot) /\ UNCHANGED batch_outputs

SampleRerank(s, slot) ==
  /\ slot.state = "GENERATING" /\ Task[slot.request_id] = "rerank"
  /\ ScoreDocument(s, slot) /\ UNCHANGED batch_outputs

sample_and_callback ==
  /\ pc = "sample"
  /\ \/ SkipSample(slots[cursor])
     \/ SampleCompletion(cursor, slots[cursor])
     \/ SampleEmbedding(cursor, slots[cursor])
     \/ SampleRerank(cursor, slots[cursor])
  /\ NextSlot("step6")
  /\ UNCHANGED <<queue_requests, active_requests, released_before, n_batch, n_tokens,
                 processing_active, prompt_files, clientVars>>

release_completed_slots ==
  /\ pc = "step6"
  /\ slots' = [s \in Slot |-> IF s \in DoneSlots THEN reset ELSE slots[s]]
  /\ Release(DoneSlots)
  /\ pc' = "step7"
  /\ UNCHANGED <<queue_requests, batchVars, processing_active, outcomes,
                 prompt_files, clientVars>>

-----------------------------------------------------------------------------
(* The loop around update_slots: go on while there is work, else sleep on  *)
(* slots_cv until there is a request or the engine stops.  wait() returns  *)
(* holding the mutex and evaluates its predicate before sleeping again.    *)

HasWork == queue_requests # <<>> \/ ActiveSlots # {}

workerLocals == <<queue_requests, slots, active_requests, released_before, batchVars,
                  processing_active, outcomes, prompt_files, clientVars>>

\* Faulty variant: the queue is not looked at before sleeping.
CheckWork_ActiveOnly ==
  /\ pc = "loop_end"
  /\ pc' = IF ActiveSlots # {} \/ ~processing_active THEN "loop_top" ELSE "parking"
  /\ UNCHANGED workerLocals

CheckWork ==
  /\ pc = "loop_end"
  /\ pc' = IF HasWork \/ ~processing_active THEN "loop_top" ELSE "parking"
  /\ UNCHANGED workerLocals

FallAsleep ==
  /\ pc = "parking"
  /\ pc' = "waiting"
  /\ UNCHANGED workerLocals

SpuriousWakeup ==
  /\ pc = "waiting"
  /\ pc' = "woken"
  /\ UNCHANGED workerLocals

Reevaluate ==
  /\ pc = "woken"
  /\ pc' = IF queue_requests # <<>> \/ ~processing_active THEN "loop_top" ELSE "parking"
  /\ UNCHANGED workerLocals

-----------------------------------------------------------------------------
Update ==
  \/ TerminalizeCancelled \/ AssignHead \/ StopAssigning \/ CheckActive
  \/ BuildGenerating \/ BuildPrompt \/ DecodeBatch \/ DecodeFails \/ AbortBatch
  \/ SaveCheckpoints \/ TerminalizeBeforeSampling \/ sample_and_callback
  \/ release_completed_slots

Worker == LoopTop \/ Update \/ CheckWork \/ FallAsleep \/ Reevaluate

Client(r) == QueueRequest(r) \/ AnswerAtOnce(r) \/ CancelRequest(r) \/ Notify(r)

Stopper == StopStore \/ StopNotify \/ StopJoin

Next == Worker \/ SpuriousWakeup \/ Stopper \/ \E r \in Request : Client(r)

Spec == Init /\ [][Next]_vars

\* The worker thread keeps running; a thread that has released the mutex after
\* queueing, cancelling or storing the stop flag gets to its notification.
Fairness ==
  /\ WF_vars(Worker)
  /\ \A r \in Request : WF_vars(Notify(r))
  /\ WF_vars(StopNotify) /\ WF_vars(StopJoin)

FairSpec == Spec /\ Fairness

-----------------------------------------------------------------------------
(* Safety                                                                  *)

Pc == {"loop_top", "step1", "assign", "step2", "step3", "build", "step4", "abort",
       "step46", "step5", "sample", "step6", "step7", "reassign", "loop_end",
       "parking", "waiting", "woken", "exited"}

\* Every variable keeps its type.
TypeOK ==
  /\ queue_requests \in Seq(Request)
  /\ slots \in [Slot -> SlotRecord]
  /\ active_requests \in [Request -> Slot \cup {NoSlot}]
  /\ released_before \subseteq Slot \X Slot
  /\ n_batch \in Nat /\ n_tokens \in Nat /\ batch_outputs \subseteq Slot
  /\ cursor \in Slot
  /\ pc \in Pc
  /\ processing_active \in BOOLEAN
  /\ stopper \in {"none", "stored", "notified", "joined"}
  /\ submitted \subseteq Request /\ to_notify \subseteq Request
  /\ cancel_result \in [Request -> {"none", "ACTIVE", "QUEUED", "NOT_FOUND"}]
  /\ outcomes \in [Request -> Seq(OutcomeRecord)]
  /\ prompt_files \in [Request ->
       [by : Request \cup {NoRequest}, n_past : Nat, tokens : Nat \cup {-1}]]

Queued(r) == \E i \in DOMAIN queue_requests : queue_requests[i] = r
Running(r) == \E s \in Slot : slots[s].request_id = r /\ Active(slots[s])

\* The queue, active_requests and the slots agree: a request waits at one place of
\* the queue or occupies one slot, never both, and a busy slot is the one
\* active_requests names, so that cancel_request reaches exactly its request.
RequestPlacement ==
  /\ \A i, j \in DOMAIN queue_requests :
       queue_requests[i] = queue_requests[j] => i = j
  /\ \A r \in Request : Queued(r) => active_requests[r] = NoSlot /\ ~Running(r)
  /\ \A s \in Slot : Active(slots[s]) => active_requests[slots[s].request_id] = s
  /\ \A r \in Request : active_requests[r] # NoSlot =>
       /\ slots[active_requests[r]].request_id = r
       /\ slots[active_requests[r]].state # "IDLE"

\* Whatever cancellations, failures and releases overlap, the callback of a request
\* runs at most once, and never for a request taken back from the queue.
OneOutcome ==
  \A r \in Request :
    /\ Len(outcomes[r]) <= 1
    /\ cancel_result[r] = "QUEUED" => outcomes[r] = <<>>

\* A completion that left the queue is running with its callback in place, has been
\* answered, or was cancelled while queued: none is dropped.
NothingLost ==
  \A r \in submitted : Task[r] = "completion" =>
    \/ Queued(r)
    \/ \E s \in Slot : Active(slots[s]) /\ CallsBack(slots[s], r)
    \/ outcomes[r] # <<>>
    \/ cancel_result[r] = "QUEUED"

\* A completion, embedding or score is read from outputs of its own: its slot has tokens
\* in the batch just decoded, or a token sampled right after its media were evaluated,
\* however the batch was split between the slots.  What the code does not keep is the
\* exception: an MTP slot with a smaller index decodes before the slots after it are
\* sampled, and these then read what its tokens left in the context.
SampledLogitsAreOwn ==
  pc = "sample" =>
    \A s \in Slot :
      s >= cursor /\ slots[s].state = "GENERATING" /\ ~UsesMtp(slots[s])
        => \/ s \in batch_outputs
           \/ slots[s].media = "pending_token"
           \/ \E t \in Slot : t < cursor /\ slots[t].spec

\* A prompt checkpoint is written when the sequence memory holds exactly the tokens
\* the file claims, so that it can be resumed.
PromptFilesExact == \A r \in Request : prompt_files[r].n_past = prompt_files[r].tokens

\* A completion with a positive n_predict delivers no more tokens than that, also
\* when speculative decoding accepts several at once.
WithinPredictLimit ==
  /\ \A r \in Request : NPredict[r] > 0 =>
       \A i \in DOMAIN outcomes[r] : outcomes[r][i].n_decoded <= NPredict[r]
  /\ \A s \in Slot : Active(slots[s]) /\ IsCompletion(slots[s]) /\ slots[s].n_remaining > 0
       => slots[s].n_decoded + slots[s].spec_pending_tokens <= NPredict[slots[s].request_id]

\* No slot decodes past its share of the context, beyond a prompt that was itself
\* longer.
WithinContext ==
  \A s \in Slot : Active(slots[s]) =>
    slots[s].n_past <= Greatest(NCtx, slots[s].num_prompt_tokens)

\* The batch holds no more than n_batch tokens as configured, which is what it was
\* allocated with, or one token of each slot where there are more slots than that: the
\* first pass of build_batch does not look at n_batch, and failed decodes only shrink it.
\* Nothing keeps n_parallel within n_batch; what writing past the array does is not
\* modelled.
BatchBounded == n_tokens <= Greatest(NBatch, NSlots)

\* When the worker sleeps no slot is busy, and a request that waits in the queue is
\* about to be announced by a notification.
NoLostWakeup ==
  pc = "waiting" => ActiveSlots = {} /\ (queue_requests # <<>> => to_notify # {})

\* What cancel_request answers is true: NOT_FOUND only for a completion whose callback
\* has already run; and once it has returned ACTIVE the slot delivers no further token,
\* and the outcome says that the request was interrupted.
CancelAnswersTruly ==
  [][\A r \in Request :
       /\ cancel_result[r] = "none" /\ cancel_result'[r] = "NOT_FOUND"
          /\ Task[r] = "completion" => outcomes[r] # <<>>
       /\ cancel_result[r] = "ACTIVE" =>
            /\ \A s \in Slot : Active(slots[s]) /\ slots[s].request_id = r =>
                 slots'[s].n_decoded <= slots[s].n_decoded
            /\ \A i \in DOMAIN outcomes'[r] : outcomes'[r][i].interrupted]_vars

\* What one request leaves in its slot does not reach the next one ("generation state
\* must not leak into the new request", process_pending_queue): a completion is not
\* answered with the error of another request, and the file at a request's
\* save_prompt_state_path is written for that request.
NothingLeaks ==
  /\ \A r \in Request : Task[r] = "completion" =>
       \A i \in DOMAIN outcomes[r] : outcomes[r][i].error_of \in {NoRequest, r}
  /\ \A r \in Request : prompt_files[r].by \in {NoRequest, r}

\* Where a slot may be DONE and its request still be in active_requests.
Finishing == {"build", "step4", "abort", "step46", "step5", "sample", "step6"}

Vacant(s) == slots[s].state = "IDLE"

QueueDistinct ==
  \A i, j \in DOMAIN queue_requests : queue_requests[i] = queue_requests[j] => i = j

QueuedUntouched ==
  \A r \in Request : Queued(r) =>
    /\ r \in submitted /\ active_requests[r] = NoSlot
    /\ outcomes[r] = <<>> /\ cancel_result[r] # "QUEUED"

HeldLeftQueue ==
  \A s \in Slot : ~Vacant(s) =>
    /\ slots[s].request_id \in submitted /\ ~Queued(slots[s].request_id)
    /\ cancel_result[slots[s].request_id] # "QUEUED"

OneHolder ==
  \A s, t \in Slot :
    ~Vacant(s) /\ ~Vacant(t) /\ slots[s].request_id = slots[t].request_id => s = t

BusyOwnsRequest ==
  \A s \in Slot : Active(slots[s]) =>
    /\ active_requests[slots[s].request_id] = s
    /\ slots[s].callback /\ outcomes[slots[s].request_id] = <<>>

EntryIsHeld ==
  \A r \in Request : active_requests[r] # NoSlot =>
    /\ slots[active_requests[r]].request_id = r /\ ~Vacant(active_requests[r])
    /\ pc \notin Finishing => Active(slots[active_requests[r]])

UnknownUntouched ==
  \A r \in Request \ submitted : outcomes[r] = <<>> /\ cancel_result[r] = "none"

\* RequestPlacement, OneOutcome and NothingLost with what they rest on: a request in
\* the queue has touched nothing, a busy slot owns its request and the right to answer
\* it, no two slots hold one request (not even a failed load left DONE), and a slot
\* that can be claimed owns no entry of active_requests.
PlacementInv ==
  /\ QueueDistinct /\ QueuedUntouched /\ HeldLeftQueue /\ OneHolder
  /\ BusyOwnsRequest /\ EntryIsHeld /\ UnknownUntouched
  /\ OneOutcome /\ NothingLost

-----------------------------------------------------------------------------
(* What the engine promises to the application                             *)

\* The status of a request as the application can tell it.
service_status(r) ==
  IF r \notin submitted THEN "unknown"
  ELSE IF Queued(r) THEN "waiting"
  ELSE IF cancel_result[r] = "QUEUED" THEN "withdrawn"
  ELSE IF outcomes[r] # <<>> THEN "answered"
  ELSE IF Running(r) THEN "running"
  ELSE "dropped"

Service == INSTANCE RequestService WITH
  Capacity <- NSlots,
  CanBeDropped <- {r \in Request : Task[r] # "completion"},
  waiting <- queue_requests,
  status <- [r \in Request |-> service_status(r)]

\* The engine serves requests first come first served, at most n_parallel at a time,
\* and every request keeps the one final status it reaches.
ImplementsService == Service!Spec

-----------------------------------------------------------------------------
(* Liveness                                                                *)

\* A queued completion is answered, unless it is taken back.
CompletionAnswered ==
  \A r \in Request :
    (r \in submitted /\ Task[r] = "completion")
      ~> (outcomes[r] # <<>> \/ cancel_result[r] = "QUEUED")

\* A cancelled request gives its slot back.
CancelFreesSlot ==
  \A r \in Request : cancel_result[r] = "ACTIVE" ~> active_requests[r] = NoSlot

\* stop_processing_loop() returns.
StopReturns == (stopper = "stored") ~> (stopper = "joined")
=============================================================================
