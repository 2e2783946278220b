----------------------------- MODULE PromptCache -----------------------------
(***************************************************************************)
(* Single completions on one context, and the state they share from one to *)
(* the next: the memory of sequence 0, the tokens `embd' that say what it  *)
(* holds, the identity of the media in it, the snapshots from which a      *)
(* recurrent memory is brought back, and a session file.                   *)
(*                                                                         *)
(* A completion reuses the longest prefix of its prompt that the memory is *)
(* known to hold, evaluates the rest, and samples.  Embedding, rerank,     *)
(* bench, clearCache, saveSession and loadSession come in between.         *)
(* Operations follow one another, as throwIfContextBusy() has it; what     *)
(* goes wrong when two of them overlap is the subject of ContextTasks.     *)
(* Only stopCompletion() comes at any time.                                *)
(*                                                                         *)
(* Speculative decoding and speech are left out.                           *)
(***************************************************************************)
EXTENDS Integers, MediaPrompts

CONSTANTS
  Models,          \* kinds of memory to consider
  MayShift,        \* values of ctx_shift to consider
  Prompts,         \* what is asked for
  Delimiters,      \* tokens of the chat template (CONTROL or USER_DEFINED)
  Sampled,         \* tokens that may be sampled
  Fragment,        \* a sampled token that ends within a character
  NPredict,        \* values of n_predict (-1: no limit)
  NCtx, NBatch, NKeep,
  MaxCheckpoints,  \* state_cache_max_checkpoints
  MinGap,          \* state_ckpt_min_gap
  PrefillInterval, \* state_ckpt_prefill_interval
  MaxRemain,       \* bound: n_remain is not raised above it
  Operations,      \* the operations the application uses
  MaxOps,          \* bound: how many operations are started, by ctx_shift
  Saved,           \* prompts an earlier process may have left in the session file
  Faults           \* what may fail: "decode", "capture", "restore", "media", "crash"

Zero == "zero"              \* the token embd.resize() fills with

ASSUME PromptCacheAssumption ==
  /\ Models \subseteq Kinds /\ MayShift \subseteq BOOLEAN
  /\ NCtx \in Nat /\ NKeep \in Nat /\ NKeep + 4 <= NCtx
  /\ {NBatch, MaxCheckpoints, MinGap, PrefillInterval, MaxRemain} \subseteq Nat \ {0}
  /\ Saved \subseteq Prompts /\ MaxOps \in [BOOLEAN -> Nat] /\ NPredict \subseteq Nat \cup {-1}
  /\ {Null, NoPicture, Zero, Unaccounted} \cap (Pictures \cup Delimiters \cup Sampled) = {}
  /\ Pictures \cap (Delimiters \cup Sampled) = {} /\ Fragment \in Sampled
  /\ \A p \in Prompts : IsPrompt(p)

VARIABLES
  ctx_shift,     \* params.ctx_shift, fixed with the model when the context is created
  mem,           \* the memory of sequence 0
  embd, n_past,
  ckpts,         \* state_checkpoints, oldest first
  boundary_ckpts, checkpoint_pending,
  hash,          \* bitmap_past_hashes
  op, pc,        \* the operation that runs and the step it has reached
  prompt, n_predict, num_prompt_tokens, n_remain,
  has_next_token, is_interrupted,
  incomplete,    \* the UTF-8 gate holds back the start of a character
  logits,        \* history: what had been read when the current logits were computed
  file,          \* the session file and its sidecar
  saving,        \* what the running saveSession writes
  ops,           \* operations started
  stale          \* history: an operation after which embd need not describe the memory

cache == <<mem, embd, n_past, ckpts, hash>>
request == <<prompt, n_predict, num_prompt_tokens>>
control == <<n_remain, has_next_token, incomplete>>
ingest == <<boundary_ckpts, checkpoint_pending>>
vars == <<ctx_shift, cache, ingest, op, pc, request, control, is_interrupted, logits,
          file, saving, ops, stale>>

NoFile(kind) == [state |-> "none", tokens |-> <<>>, mem |-> Cleared(kind),
                 sidecar |-> NoPicture, stale |-> FALSE]
FileOf(p, kind) == [NoFile(kind) EXCEPT !.state = "whole", !.tokens = Tokens(p),
  !.mem = Extended(Cleared(kind), p), !.sidecar = Picture(p)]
NotSaving == [tokens |-> <<>>, picture |-> NoPicture]

Item == Pictures \cup Delimiters \cup Sampled \cup UNION {ToSet(p) : p \in Prompts}
TokenType == {Token(i) : i \in Item} \cup {Zero}
Hash == Pictures \cup {NoPicture}

TypeOK ==
  /\ ctx_shift \in BOOLEAN
  /\ mem.kind \in Kinds /\ mem.pos \in Nat
  /\ mem.attn \in Seq(Item) /\ mem.rec \in Seq(Item \cup {Unaccounted})
  /\ embd \in Seq(TokenType) /\ n_past \in Nat /\ hash \in Hash
  /\ \A i \in DOMAIN ckpts : ckpts[i].tokens \in Seq(TokenType)
  /\ boundary_ckpts \subseteq 1 .. NCtx /\ checkpoint_pending \in BOOLEAN
  /\ op \in {"none", "completion", "embedding", "saveSession"}
  /\ pc \in {"idle", "queued", "chunks", "loop", "decode", "sample", "state", "sidecar"}
  /\ prompt \in Prompts \cup {<<>>} /\ n_predict \in NPredict \cup {0, -1}
  /\ num_prompt_tokens \in 0 .. NCtx /\ n_remain \in Nat
  /\ {has_next_token, is_interrupted, incomplete, stale} \subseteq BOOLEAN
  /\ file.state \in {"none", "cut", "whole"} /\ file.sidecar \in Hash
  /\ ops \in 0 .. MaxOps[ctx_shift]

Init ==
  /\ ctx_shift \in MayShift
  /\ mem \in {Cleared(k) : k \in Models}
  /\ embd = <<>> /\ n_past = 0 /\ ckpts = <<>> /\ hash = NoPicture
  /\ boundary_ckpts = {} /\ checkpoint_pending = FALSE
  /\ op = "none" /\ pc = "idle"
  /\ prompt = <<>> /\ n_predict = 0 /\ num_prompt_tokens = 0 /\ n_remain = 0
  /\ has_next_token = FALSE /\ is_interrupted = FALSE
  /\ incomplete = FALSE
  /\ file \in {NoFile(mem.kind)} \cup {FileOf(p, mem.kind) : p \in Saved}
  /\ logits = <<>> /\ saving = NotSaving
  /\ ops = 0 /\ stale = FALSE

-----------------------------------------------------------------------------
(* The snapshots                                                           *)

\* probeStateCache: recurrent and hybrid models only.
state_cache_enabled == HasRecurrent(mem)

\* state_cache_capture_allowed: an embedding's prompt is not worth a snapshot.
Captures == state_cache_enabled /\ op = "completion"

Snapshot(tokens, m) == [tokens |-> tokens, state |-> PartialState(m)]
Size(c) == Len(c.tokens)

\* Faulty variant: a new picture does not invalidate the snapshots behind it.
EraseNothing(cs, n) == cs

\* The snapshots at the indices I, in their order.
Remaining(cs, I) ==
  LET upto[i \in 0 .. Len(cs)] ==
        IF i = 0 THEN <<>> ELSE IF i \in I THEN Append(upto[i - 1], cs[i]) ELSE upto[i - 1]
  IN upto[Len(cs)]

eraseStateCheckpointAt(cs, n) == Remaining(cs, {i \in DOMAIN cs : Size(cs[i]) # n})
eraseStateCheckpointsAfter(cs, n) == Remaining(cs, {i \in DOMAIN cs : Size(cs[i]) <= n})

\* Faulty variant: the oldest goes, whatever it is.
EvictOldest(cs) == IF Len(cs) <= MaxCheckpoints \/ Len(cs) = 1 THEN cs ELSE Tail(cs)

\* The oldest goes, but never the one with the smallest position.
evictStateCheckpoints(cs) ==
  IF Len(cs) <= MaxCheckpoints \/ Len(cs) = 1 THEN cs
  ELSE IF \A i \in DOMAIN cs : Size(cs[1]) <= Size(cs[i]) THEN RemoveAt(cs, 2)
  ELSE Tail(cs)

\* captureStateCheckpoint: cs with a snapshot of m for the first n tokens of seq.
captureStateCheckpoint(cs, seq, n, m) ==
  IF ~Captures \/ \E i \in DOMAIN cs : cs[i].tokens = FirstItems(seq, n) THEN cs
  ELSE evictStateCheckpoints(
         Append(eraseStateCheckpointAt(cs, n), Snapshot(FirstItems(seq, n), m)))

\* A capture may fail: too little memory for it, nothing written.
CaptureFails == {FALSE} \cup (IF "capture" \in Faults THEN {TRUE} ELSE {})

\* findStateCheckpoint: the snapshots that may stand for a prefix of target, and of them
\* the longest.
Usable(cs, target, max_len) ==
  {i \in DOMAIN cs : Size(cs[i]) <= max_len /\ IsPrefix(cs[i].tokens, target)}
Longest(cs, candidates) ==
  CHOOSE i \in candidates : \A j \in candidates : Size(cs[j]) <= Size(cs[i])

\* Faulty variant: the attention part keeps what is past the snapshot.
RestoredInPart(m, c) == WithPartialState(m, c.state)

\* restoreStateCheckpoint, then seq_rm from the snapshot's end.
Restored(m, c) == Truncated(WithPartialState(m, c.state), Size(c))

\* recoverStateCheckpoint: the memory, if it was brought back to a snapshot that leaves
\* a token of target to evaluate and ends at a position of Fitting; a restore may fail.
Recoveries(cs, m, target, max_reuse, Fitting) ==
  LET candidates == {i \in Usable(cs, target, Min({max_reuse, Len(target) - 1})) :
                       Size(cs[i]) \in Fitting}
      c == cs[Longest(cs, candidates)]
      lost == [ok |-> FALSE, mem |-> m, n |-> 0]
  IN IF candidates = {} THEN {lost}
     ELSE {[ok |-> TRUE, mem |-> Restored(m, c), n |-> Size(c)]}
          \cup (IF "restore" \in Faults THEN {lost} ELSE {})

-----------------------------------------------------------------------------
(* Helpers                                                                 *)

\* truncatePrompt: n_keep tokens, then the end of the prompt in whole blocks.
truncatePrompt(text) ==
  LET block == (NCtx - NKeep) \div 2
      erased == (Len(text) - NKeep - block) \div block
  IN FirstItems(text, NKeep) \o SubSeq(text, NKeep + erased * block + 1, Len(text))

\* computeMessageBoundaries: where a message's text begins, at least min_gap tokens
\* after the boundary before.
computeMessageBoundaries(text, min_gap) ==
  LET starts == {i \in 1 .. Len(text) - 1 :
                   text[i] \in Delimiters /\ text[i + 1] \notin Delimiters}
      last_accepted[i \in 0 .. Len(text)] ==
        IF i = 0 THEN 0
        ELSE IF i \in starts /\ i - last_accepted[i - 1] >= min_gap THEN i
        ELSE last_accepted[i - 1]
  IN {i \in starts : i - last_accepted[i - 1] >= min_gap}

\* Of too many boundaries the first and the last stay.
FewBoundaries(bs) ==
  IF Cardinality(bs) <= MaxCheckpoints THEN bs
  ELSE {b \in bs : b = Min(bs) \/ Cardinality({c \in bs : c >= b}) < MaxCheckpoints}

\* The positions at which a cold prompt is captured.
ColdBoundaries(text) ==
  LET all == computeMessageBoundaries(text, 1)
  IN computeMessageBoundaries(text, MinGap) \cup (IF all = {} THEN {} ELSE {Max(all)})

\* The operation is over.  What is reset here is read by no later operation: the next
\* completion sets it before it reads it.
EndOperation ==
  /\ pc' = "idle" /\ op' = "none"
  /\ prompt' = <<>> /\ n_predict' = 0 /\ num_prompt_tokens' = 0 /\ n_remain' = 0
  /\ has_next_token' = FALSE /\ is_interrupted' = FALSE
  /\ incomplete' = FALSE
  /\ boundary_ckpts' = {} /\ checkpoint_pending' = FALSE /\ logits' = <<>>

\* endCompletion: the tokens that were not evaluated are taken off embd.
endCompletion(tokens, n) == IF n > 0 /\ n < Len(tokens) THEN FirstItems(tokens, n) ELSE tokens

\* Operations that are begun while nothing runs.
Begin(name) == pc = "idle" /\ name \in Operations /\ ops < MaxOps[ctx_shift] /\ ops' = ops + 1

-----------------------------------------------------------------------------
(* Beginning a completion or an embedding                                  *)

\* completion() on the JS thread: rewind() and the parameters.  The job is queued.
StartCompletion ==
  /\ Begin("completion")
  /\ \E p \in Prompts, n \in NPredict :
       /\ prompt' = p /\ n_predict' = n
  /\ op' = "completion" /\ pc' = "queued"
  /\ n_past' = 0 /\ num_prompt_tokens' = 0 /\ n_remain' = 0
  /\ is_interrupted' = FALSE /\ incomplete' = FALSE
  /\ UNCHANGED <<ctx_shift, mem, embd, ckpts, hash, ingest, has_next_token, logits, file,
                 saving, stale>>

\* embedding(): the memory is emptied first, and n_predict is 0.
StartEmbedding ==
  /\ Begin("embedding")
  /\ \E p \in Prompts : Picture(p) = NoPicture /\ prompt' = p
  /\ mem' = Cleared(mem.kind) /\ embd' = <<>>
  /\ op' = "embedding" /\ pc' = "queued"
  /\ n_predict' = 0 /\ n_past' = 0 /\ num_prompt_tokens' = 0 /\ n_remain' = 0
  /\ is_interrupted' = FALSE /\ incomplete' = FALSE
  /\ UNCHANGED <<ctx_shift, ckpts, hash, ingest, has_next_token, logits, file, saving, stale>>

\* stopCompletion() at any time.
StopCompletion ==
  /\ "stop" \in Operations
  /\ op \in {"completion", "embedding"} /\ ~is_interrupted
  /\ is_interrupted' = TRUE
  /\ UNCHANGED <<ctx_shift, cache, ingest, op, pc, request, control, logits, file, saving,
                 ops, stale>>

\* A prompt that fills the context: the promise is rejected, the cache stays as it is.
RejectPrompt ==
  /\ pc = "queued" /\ Len(prompt) >= NCtx
  /\ Picture(prompt) # NoPicture \/ ~ctx_shift
  /\ EndOperation
  /\ UNCHANGED <<ctx_shift, cache, file, saving, ops, stale>>

\* Where the memory is brought to hold a prefix of a text prompt, by what it has or by a
\* snapshot; the snapshots that are left.
Reuses(text, common) ==
  LET n == IF common = Len(text) THEN common - 1 ELSE common
  IN IF CanTruncate(mem, n)
     THEN {[removed |-> TRUE, mem |-> Truncated(mem, n), n |-> n, ckpts |-> ckpts]}
     ELSE {IF r.ok
           THEN [removed |-> FALSE, mem |-> r.mem, n |-> r.n, ckpts |-> ckpts]
           ELSE [removed |-> FALSE, mem |-> Cleared(mem.kind), n |-> 0, ckpts |-> <<>>] :
             r \in Recoveries(ckpts, mem, text, common, Nat)}

\* loadPrompt for a text prompt.
LoadText ==
  /\ pc = "queued" /\ Picture(prompt) = NoPicture
  /\ Len(prompt) < NCtx \/ ctx_shift
  /\ LET text == IF Len(prompt) < NCtx THEN prompt ELSE truncatePrompt(prompt)
         common == CommonPrefix(embd, text)
     IN \E r \in Reuses(text, common), fails \in CaptureFails :
          /\ mem' = r.mem /\ n_past' = r.n /\ embd' = text
          /\ num_prompt_tokens' = Len(text)
          /\ ckpts' = IF r.n = 0 \/ fails THEN r.ckpts
                      ELSE captureStateCheckpoint(r.ckpts, text, r.n, r.mem)
          /\ boundary_ckpts' =
               IF ~Captures THEN {}
               ELSE FewBoundaries(
                 IF r.n = 0 THEN ColdBoundaries(text)
                 ELSE IF ~r.removed /\ r.n < common /\ common < Len(text) THEN {common}
                 ELSE {})
          /\ checkpoint_pending' = (Captures /\ (r.n = 0 \/ boundary_ckpts' # {}))
  /\ n_remain' = Max({n_predict, 0}) /\ has_next_token' = TRUE /\ pc' = "loop"
  /\ UNCHANGED <<ctx_shift, hash, op, prompt, n_predict, is_interrupted,
                 incomplete, logits, file, saving, ops, stale>>

-----------------------------------------------------------------------------
(* A prompt with a picture: processMedia                                   *)

\* Another picture than before, and further back: a snapshot that ends before it stays,
\* though it holds the picture before, and will pass for one of the new picture.
KeepsOtherPicture(items) ==
  hash # Picture(items) /\ \E i \in DOMAIN ckpts :
    Null \in ToSet(ckpts[i].tokens) /\ Size(ckpts[i]) <= FirstPicture(items)

\* processMedia up to the evaluation of the chunks.
LoadMedia ==
  /\ pc = "queued" /\ Picture(prompt) # NoPicture /\ Len(prompt) < NCtx
  /\ LET stable == hash = Picture(prompt)
         kept == IF stable THEN ckpts
                 ELSE eraseStateCheckpointsAfter(ckpts, FirstPicture(prompt))
         n == KeptPrefix(embd, prompt, stable)
         removed == Truncated(mem, n)
         resumable == CanTruncate(mem, n) /\ (n = 0 \/ Frontier(removed) = n)
         outcomes ==
           IF resumable THEN {[mem |-> removed, n |-> n]}
           ELSE {IF r.ok THEN [mem |-> r.mem, n |-> r.n]
                 ELSE [mem |-> Cleared(mem.kind), n |-> 0] :
                   r \in Recoveries(kept, removed, Tokens(prompt), n,
                                    {i \in 0 .. Len(prompt) : ResumesAt(prompt, i)})}
     IN \E r \in outcomes, fails \in CaptureFails :
          /\ mem' = r.mem /\ n_past' = r.n
          /\ ckpts' = IF r.n = 0 \/ fails THEN kept
                      ELSE captureStateCheckpoint(kept, Tokens(prompt), r.n, r.mem)
  /\ stale' = (stale \/ KeepsOtherPicture(prompt))
  /\ n_remain' = Max({n_predict, 0})
  /\ pc' = "chunks"
  /\ UNCHANGED <<ctx_shift, embd, hash, ingest, op, request, has_next_token,
                 incomplete, is_interrupted, logits, file, saving, ops>>

NextChunks == {c \in ChunkStarts(prompt) : c >= n_past}

\* One chunk is evaluated.  The batch names its positions: it must follow what the
\* memory holds, or the memory is empty.
EvaluateChunk ==
  /\ pc = "chunks" /\ NextChunks # {}
  /\ LET c == Min(NextChunks)
         e == ChunkEnd(prompt, c)
     IN /\ Frontier(mem) \in {0, n_past}
        /\ mem' = Extended(mem, SubSeq(prompt, c + 1, e))
        /\ n_past' = n_past + (e - c)
        /\ logits' = IF e = Len(prompt) THEN Contents(mem') ELSE logits
        /\ \E fails \in CaptureFails :
             ckpts' = IF n_past' = MediaBoundary(prompt) /\ ~fails
                      THEN captureStateCheckpoint(ckpts, Tokens(prompt), n_past', mem')
                      ELSE ckpts
  /\ UNCHANGED <<ctx_shift, embd, hash, ingest, op, pc, request, control, is_interrupted,
                 file, saving, ops, stale>>

\* mtmd_helper_eval_chunk_single fails, and loadPrompt throws: embd and the media hashes
\* are still those of the last prompt.
ChunkFails ==
  /\ pc = "chunks" /\ NextChunks # {}
  /\ "media" \in Faults \/ Frontier(mem) \notin {0, n_past}
  /\ embd' = endCompletion(embd, n_past)
  /\ stale' = TRUE
  /\ EndOperation
  /\ UNCHANGED <<ctx_shift, mem, n_past, ckpts, hash, file, saving, ops>>

\* Faulty variant: the media hashes stay those of the prompt before.
FinishMediaKeepingHashes ==
  /\ pc = "chunks" /\ NextChunks = {}
  /\ embd' = Tokens(prompt)
  /\ num_prompt_tokens' = Len(prompt)
  /\ boundary_ckpts' = {} /\ checkpoint_pending' = FALSE
  /\ has_next_token' = TRUE /\ pc' = "loop"
  /\ UNCHANGED <<ctx_shift, mem, n_past, ckpts, hash, op, prompt, n_predict, n_remain, incomplete, is_interrupted, logits, file, saving, ops, stale>>

\* All chunks are evaluated.
FinishMedia ==
  /\ pc = "chunks" /\ NextChunks = {}
  /\ embd' = Tokens(prompt) /\ hash' = Picture(prompt)
  /\ num_prompt_tokens' = Len(prompt)
  /\ boundary_ckpts' = {} /\ checkpoint_pending' = FALSE
  /\ has_next_token' = TRUE /\ pc' = "loop"
  /\ UNCHANGED <<ctx_shift, mem, n_past, ckpts, op, prompt, n_predict, n_remain, incomplete, is_interrupted, logits, file, saving, ops, stale>>

-----------------------------------------------------------------------------
(* The generation loop                                                     *)

\* Faulty variant: going on costs a token that is not there.
AfterTokenKeepingCount(has_next, pending, remain) ==
  /\ incomplete' = pending
  /\ has_next_token' = (has_next \/ pending)
  /\ n_remain' = remain

\* What doCompletion does after nextToken: while a character is incomplete there is a
\* next token, whatever nextToken found.  (n_remain is not counted without a limit.)
AfterToken(has_next, pending, remain) ==
  /\ incomplete' = pending
  /\ has_next_token' = (has_next \/ pending)
  /\ n_remain' = IF pending /\ ~has_next /\ n_predict # -1 THEN Min({remain + 1, MaxRemain})
                 ELSE remain

\* The loop test.  An embedding runs doCompletion once, whatever is_interrupted says.
Continues == pc = "loop" /\ has_next_token /\ (is_interrupted => op = "embedding")

ContextIsFull == Len(embd) >= NCtx

\* nextToken begins; is there something to evaluate?
EnterNextToken ==
  /\ Continues /\ ~ContextIsFull
  /\ pc' = IF n_past < Len(embd) THEN "decode" ELSE "sample"
  /\ UNCHANGED <<ctx_shift, cache, ingest, op, request, control, is_interrupted, logits,
                 file, saving, ops, stale>>

\* The context is full and must not be shifted (context_full).
ContextFull ==
  /\ Continues /\ ContextIsFull /\ ~ctx_shift
  /\ AfterToken(FALSE, incomplete, n_remain)
  /\ UNCHANGED <<ctx_shift, cache, ingest, op, pc, request, is_interrupted, logits, file,
                 saving, ops, stale>>

\* The context is full: half of what follows the first NKeep + 1 tokens is dropped.  (The
\* logits are those of the text of which a part is now dropped.)
ShiftContext ==
  /\ Continues /\ ContextIsFull /\ ctx_shift
  /\ LET discard == (n_past - NKeep - 1) \div 2
         kept == NKeep + 1
         Without(s) == FirstItems(s, kept) \o SubSeq(s, kept + discard + 1, Len(s))
     IN /\ mem' = ShiftedAt(mem, kept, discard)
        /\ embd' = Without(embd) /\ logits' = Without(logits)
        /\ n_past' = n_past - discard
  /\ ckpts' = <<>> /\ boundary_ckpts' = {} /\ checkpoint_pending' = FALSE
  /\ stale' = (stale \/ HasRecurrent(mem))
  /\ pc' = IF n_past' < Len(embd') THEN "decode" ELSE "sample"
  /\ UNCHANGED <<ctx_shift, hash, op, request, control, is_interrupted, file, saving, ops>>

\* Without message boundaries a long cold prompt is captured at regular intervals.
Interval == checkpoint_pending /\ boundary_ckpts = {}
OnInterval(n) == Interval /\ n < num_prompt_tokens /\ n % PrefillInterval = 0

\* How far the next batch reaches.
DecodeTo ==
  LET boundaries == IF checkpoint_pending THEN {b \in boundary_ckpts : b > n_past} ELSE {}
      intervals == {b \in n_past + 1 .. Len(embd) : OnInterval(b)}
  IN Min({Len(embd), n_past + NBatch} \cup boundaries \cup intervals)

NextBatch == SubSeq(embd, n_past + 1, DecodeTo)

\* llama_decode takes no placeholders.
Decodable == Null \notin ToSet(NextBatch)

\* One batch of the loop in nextToken, and the capture at its end.
Decode ==
  /\ pc = "decode" /\ Decodable
  /\ LET n == DecodeTo
     IN /\ mem' = Extended(mem, NextBatch)
        /\ n_past' = n
        /\ logits' = Contents(mem')
        /\ IF is_interrupted
           THEN /\ embd' = FirstItems(embd, n) /\ pc' = "loop"
                /\ AfterToken(FALSE, incomplete, n_remain)
                /\ UNCHANGED <<ckpts, ingest>>
           ELSE /\ \E fails \in CaptureFails :
                     ckpts' = IF ~fails /\ (OnInterval(n) \/ (checkpoint_pending /\ n \in boundary_ckpts))
                              THEN captureStateCheckpoint(ckpts, embd, n, mem') ELSE ckpts
                /\ pc' = IF n < Len(embd) THEN "decode" ELSE "sample"
                /\ checkpoint_pending' =
                     (checkpoint_pending /\ ~(n = Len(embd) /\ n >= num_prompt_tokens))
                /\ UNCHANGED <<embd, control, boundary_ckpts>>
  /\ UNCHANGED <<ctx_shift, hash, op, request, is_interrupted, file, saving,
                 ops, stale>>

\* llama_decode finds no room, or what it is given is not a token, which leaves the memory
\* and the last logits alone: what was not evaluated is taken off embd.
DecodeFails ==
  /\ pc = "decode" /\ ("decode" \in Faults \/ ~Decodable)
  /\ embd' = FirstItems(embd, n_past) /\ pc' = "loop"
  /\ AfterToken(FALSE, incomplete, n_remain)
  /\ UNCHANGED <<ctx_shift, mem, n_past, ckpts, hash, ingest, op, request,
                 is_interrupted, logits, file, saving, ops, stale>>

\* A token is sampled and appended.  A token that completes a stop word ends the
\* generation, unless a character is incomplete: then stop words are not looked for.
SampleToken ==
  /\ pc = "sample" /\ n_predict # 0
  /\ \E t \in Sampled :
       LET pending == t = Fragment /\ ~incomplete
           remain == IF n_predict = -1 THEN n_remain ELSE n_remain - 1
       IN /\ embd' = Append(embd, t)
          /\ \/ AfterToken(n_predict = -1 \/ remain # 0, pending, remain)
             \/ ~pending /\ AfterToken(FALSE, FALSE, remain)
  /\ pc' = "loop"
  /\ UNCHANGED <<ctx_shift, mem, n_past, ckpts, hash, ingest, op, request,
                 is_interrupted, logits, file, saving, ops, stale>>

\* The end of generation is sampled, or n_predict is 0 and nothing is: embd stays.
SampleEnd ==
  /\ pc = "sample"
  /\ AfterToken(FALSE, incomplete, n_remain)
  /\ pc' = "loop"
  /\ UNCHANGED <<ctx_shift, cache, ingest, op, request, is_interrupted,
                 logits, file, saving, ops, stale>>

\* endCompletion, when the loop ends.  If nothing has been evaluated (an interrupt before
\* the first batch) the prompt stays in embd.
Finish ==
  /\ pc = "loop" /\ ~Continues
  /\ embd' = endCompletion(embd, n_past)
  /\ stale' = (stale \/ (n_past = 0 /\ embd # <<>>))
  /\ EndOperation
  /\ UNCHANGED <<ctx_shift, mem, n_past, ckpts, hash, file, saving, ops>>

Generation ==
  \/ EnterNextToken \/ ContextFull \/ ShiftContext \/ Decode \/ DecodeFails
  \/ SampleToken \/ SampleEnd \/ Finish

-----------------------------------------------------------------------------
(* The other operations                                                    *)

\* rerank() with p as the last document: the memory is emptied after it, embd is not.
Rerank ==
  /\ Begin("rerank")
  /\ \E p \in Prompts :
       /\ Picture(p) = NoPicture /\ Len(p) < NCtx
       /\ embd' = p /\ n_past' = Len(p)
  /\ mem' = Cleared(mem.kind) /\ stale' = TRUE
  /\ UNCHANGED <<ctx_shift, ckpts, hash, ingest, op, pc, request, control,
                 is_interrupted, logits, file, saving>>

\* bench() leaves before it has used the memory: more is asked for than the context has
\* room for, or the warm-up, whose positions start at 0, does not follow what the memory
\* holds or fails at once.  Only embd is trimmed, by endCompletion().
BenchRefused ==
  /\ embd' = endCompletion(embd, n_past)
  /\ mem' = mem /\ stale' = (stale \/ embd' # embd)

\* The warm-up fails in a later part: some of its random tokens stay in the memory.
BenchFails ==
  /\ "decode" \in Faults /\ Frontier(mem) = 0
  /\ embd' = endCompletion(embd, n_past)
  /\ \E t \in Sampled : mem' = Extended(mem, <<t>>)
  /\ stale' = TRUE

\* The runs, whether they succeed or not: the memory is emptied after them.
BenchRuns ==
  /\ Frontier(mem) = 0
  /\ embd' = endCompletion(embd, n_past)
  /\ mem' = Cleared(mem.kind) /\ stale' = (stale \/ embd' # <<>>)

Bench ==
  /\ Begin("bench")
  /\ BenchRefused \/ BenchFails \/ BenchRuns
  /\ UNCHANGED <<ctx_shift, n_past, ckpts, hash, ingest, op, pc, request, control,
                 is_interrupted, logits, file, saving>>

\* clearCache(): everything but the media hashes.
ClearCache ==
  /\ Begin("clearCache")
  /\ mem' = Cleared(mem.kind) /\ embd' = <<>> /\ n_past' = 0
  /\ ckpts' = <<>> /\ boundary_ckpts' = {} /\ checkpoint_pending' = FALSE
  /\ stale' = FALSE
  /\ UNCHANGED <<ctx_shift, hash, op, pc, request, control, is_interrupted, logits, file,
                 saving>>

\* Faulty variant: the sidecar is left until it is written anew.
KeepingSidecar(f) == f

\* write_state_meta(path, {})
WithoutSidecar(f) == [f EXCEPT !.sidecar = NoPicture]

\* saveSession(): the old sidecar is dropped first.  It saves all tokens or, if size says
\* so, all but the last; the picture only if no position of it is cut off.
StartSave ==
  /\ Begin("saveSession")
  /\ \E size \in {n \in {Len(embd) - 1, Len(embd)} : n > 0 \/ embd = <<>>} \ {-1} :
       saving' = [tokens |-> FirstItems(embd, size),
                  picture |-> IF \E i \in 1 .. size : embd[i] = Null
                              THEN IF \E i \in size + 1 .. Len(embd) : embd[i] = Null
                                   THEN NoPicture ELSE hash
                              ELSE NoPicture]
  /\ file' = WithoutSidecar(file)
  /\ op' = "saveSession" /\ pc' = "state"
  /\ UNCHANGED <<ctx_shift, cache, ingest, request, control, is_interrupted, logits, stale>>

\* llama_state_save_file writes the memory of the sequence in place.  `stale' is history:
\* the tokens need not describe the memory that was saved with them.
WriteState ==
  /\ pc = "state"
  /\ file' = [file EXCEPT !.state = "whole", !.tokens = saving.tokens,
                          !.mem = mem, !.stale = stale]
  /\ pc' = "sidecar"
  /\ UNCHANGED <<ctx_shift, cache, ingest, op, request, control, is_interrupted, logits,
                 saving, ops, stale>>

\* write_state_meta: through a temporary file, so that it is written or not.
WriteSidecar ==
  /\ pc = "sidecar"
  /\ file' = [file EXCEPT !.sidecar = saving.picture]
  /\ saving' = NotSaving
  /\ EndOperation
  /\ UNCHANGED <<ctx_shift, cache, ops, stale>>

SaveSession == StartSave \/ WriteState \/ WriteSidecar

\* loadSession() of a whole file.  The memory may hold more than the tokens that were
\* saved; it is cut back to them if it can be, otherwise nothing is kept.  The snapshots
\* stay: they are of the tokens they name, but may be of a picture the file does not have.
LoadSession ==
  /\ Begin("loadSession") /\ file.state = "whole"
  /\ LET cut == Truncated(file.mem, Len(file.tokens))
         resumable == Frontier(cut) = Len(file.tokens)
     IN /\ mem' = IF resumable THEN cut ELSE Cleared(mem.kind)
        /\ embd' = IF resumable THEN file.tokens ELSE <<>>
        /\ hash' = IF embd' = <<>> THEN NoPicture ELSE file.sidecar
        /\ stale' = (stale \/ file.stale
                     \/ \E i \in DOMAIN ckpts :
                          Null \in ToSet(ckpts[i].tokens) /\ hash # hash')
  /\ UNCHANGED <<ctx_shift, n_past, ckpts, ingest, op, pc, request, control,
                 is_interrupted, logits, file, saving>>

\* llama_state_load_file fails and loadSession() throws.  embd has been filled up to the
\* size of the context; of a file that breaks off the tokens have been read already and
\* the memory has been emptied.
LoadSessionFails ==
  /\ Begin("loadSession") /\ file.state # "whole"
  /\ LET filled == [i \in 1 .. NCtx |-> IF i <= Len(embd) THEN embd[i] ELSE Zero]
         read == [i \in 1 .. NCtx |-> IF i <= Len(file.tokens) THEN file.tokens[i] ELSE filled[i]]
     IN IF file.state = "cut"
        THEN embd' = read /\ mem' = Cleared(mem.kind)
        ELSE embd' = filled /\ mem' = mem
  /\ stale' = TRUE
  /\ UNCHANGED <<ctx_shift, n_past, ckpts, hash, ingest, op, pc, request, control,
                 is_interrupted, logits, file, saving>>

\* The process dies, perhaps in the middle of writing the state, and is started anew with
\* the same model: only the file is left.  (While a completion runs the file is not
\* touched: a crash then leaves what a crash before it leaves.)
Crash ==
  /\ "crash" \in Faults /\ op \in {"none", "saveSession"}
  /\ file' = IF pc = "state" THEN [file EXCEPT !.state = "cut", !.tokens = saving.tokens,
                                               !.mem = Cleared(mem.kind)]
             ELSE file
  /\ mem' = Cleared(mem.kind) /\ embd' = <<>> /\ n_past' = 0 /\ ckpts' = <<>>
  /\ hash' = NoPicture /\ saving' = NotSaving /\ stale' = FALSE
  /\ EndOperation
  /\ UNCHANGED <<ctx_shift, ops>>

LoadPrompt ==
  RejectPrompt \/ LoadText \/ LoadMedia \/ EvaluateChunk \/ ChunkFails \/ FinishMedia

\* What the pool's worker does for the running operation.
Worker == LoadPrompt \/ Generation

Application ==
  \/ StartCompletion \/ StartEmbedding \/ StopCompletion
  \/ Rerank \/ Bench \/ ClearCache \/ SaveSession \/ LoadSession \/ LoadSessionFails

Next == Worker \/ Application \/ Crash

Spec == Init /\ [][Next]_vars

-----------------------------------------------------------------------------
(* Properties                                                              *)

\* Tokens that stand for what was read, with the picture they are known to be of.
Describes(tokens, read) ==
  \E p \in Hash :
    /\ read = Items(tokens, p)
    /\ Null \in ToSet(tokens) /\ hash # NoPicture => p = hash

\* "The memory holds exactly embd[0, n_past)" (captureStateCheckpoint), with the picture
\* of this prompt, from the moment the prompt is loaded: through reuse of a prefix,
\* recovery from a snapshot, context shifts and failed batches.  Between operations all
\* of embd describes the memory, whatever ended the last one: the limit, a stop word, an
\* interrupt, a failed batch, a rejected prompt, a loaded session.
EmbdDescribesMemory ==
  ~stale =>
    /\ pc \in {"loop", "decode", "sample"} =>
         Holds(mem, Items(FirstItems(embd, n_past), Picture(prompt)))
    /\ pc = "idle" => \E p \in Hash :
         /\ Holds(mem, Items(embd, p))
         /\ Null \in ToSet(embd) /\ hash # NoPicture => p = hash

\* A token is sampled from logits of this prompt and what was generated for it: never
\* from those of an earlier completion, though all of the prompt may be reused.
SampledFromOwnPrompt ==
  pc = "sample" /\ ~stale => logits = Items(embd, Picture(prompt))

\* A snapshot brings back what its tokens say, of the picture that is in the cache: it
\* is not used for a prompt with another picture.
SnapshotsAreExact ==
  ~stale /\ pc # "chunks" => \A i \in DOMAIN ckpts :
    /\ Describes(ckpts[i].tokens, ckpts[i].state.rec)
    /\ ckpts[i].state.pos = Size(ckpts[i])

\* While a prompt is ingested the snapshot with the smallest position is kept ("the first
\* message boundary a brand-new session shares"), however many are taken.
StablePrefixKept ==
  [][pc = "decode" =>
       \A i \in DOMAIN ckpts : \E j \in DOMAIN ckpts' : Size(ckpts'[j]) <= Size(ckpts[i])]_vars

\* "A failure in between can never pair stale hashes with the new file" (saveSession): a
\* sidecar lies only beside a whole state file, whenever the process dies, and the memory
\* in that file holds what the saved tokens say with the picture the sidecar names.
\* (Unless embd did not describe the memory when it was saved: after a media chunk that
\* failed, the hashes of the last prompt are saved with the picture of this one.)
SidecarDescribesFile ==
  file.sidecar # NoPicture =>
    /\ file.state = "whole"
    /\ ~file.stale => /\ Null \in ToSet(file.tokens)
                      /\ IsPrefix(Items(file.tokens, file.sidecar), Contents(file.mem))

\* "Trim embd to what the memory actually contains so a later prefix match can't claim
\* never-written cells" (nextToken).
ClaimsOnlyWrittenCells == pc = "idle" => Len(embd) <= Frontier(mem)
=============================================================================
