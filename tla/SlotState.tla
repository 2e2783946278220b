------------------------------ MODULE SlotState ------------------------------
(***************************************************************************)
(* What one slot of the slot manager keeps from request to request: the    *)
(* memory of its sequence, the tokens cache_tokens that say what is in it, *)
(* the identity of the media among them (bitmap_past_hashes), and a state  *)
(* file with its sidecar that requests load from and save to.              *)
(*                                                                         *)
(* One slot, and the passes of update_slots() over it, broken up where a   *)
(* file is written so that the process may die there.  How slots share a   *)
(* batch, the queue and its locks are the subject of SlotManager.          *)
(* Speculative decoding is left out.                                       *)
(***************************************************************************)
EXTENDS Integers, MediaPrompts

CONSTANTS
  Models,       \* kinds of memory to consider
  Completions,  \* prompts of completions
  Documents,    \* text prompts: embeddings, and the documents of a rerank
  UsesOfFile,   \* what a completion asks of the state file: see NoUse
  Sampled,      \* the token that is sampled
  NCtx, NBatch,
  MaxRequests,  \* bound: requests that are claimed
  Faults        \* what may fail: "decode", "media", "write", "crash"

\* load_state_path, save_state_path, save_prompt_state_path: whether they name the file;
\* load_state_size, save_state_size: 0 when they are not given.
NoUse == [load |-> FALSE, save |-> FALSE, save_prompt |-> FALSE,
          load_size |-> 0, save_size |-> 0]

ASSUME SlotStateAssumption ==
  /\ Models \subseteq Kinds /\ {NCtx, NBatch, MaxRequests} \subseteq Nat \ {0}
  /\ \A p \in Completions \cup Documents : IsPrompt(p) /\ Len(p) < NCtx
  /\ \A p \in Documents : ToSet(p) \cap Pictures = {}
  /\ Sampled \notin Pictures \cup {Null}
  /\ UsesOfFile \subseteq [load : BOOLEAN, save : BOOLEAN, save_prompt : BOOLEAN,
                           load_size : Nat, save_size : Nat]

VARIABLES
  mem,              \* the memory of the slot's sequence
  cache_tokens,
  hashes,           \* bitmap_past_hashes
  state,            \* "idle", "prompt", "generating" or "done"
  task_type,
  prompt,           \* the prompt, as items
  documents,        \* the documents of a rerank that follow it
  paths,            \* what the file is used for
  media_processed,
  n_past,
  save_prompt_state_tokens,  \* where the prompt is saved, -1: not pending
  captured,         \* prompt_ckpt_written
  pc,               \* the step update_slots() has reached
  logits,           \* history: what had been read when the current logits were computed
  file,             \* the state file and its sidecar
  writing,          \* what is being written, and the step that follows
  requests          \* claimed so far

cache == <<mem, cache_tokens, hashes>>
request == <<task_type, prompt, documents, paths>>
progress == <<n_past, save_prompt_state_tokens, media_processed, captured>>
vars == <<cache, state, request, progress, pc, logits, file, writing, requests>>

NotWriting == [tokens |-> <<>>, picture |-> NoPicture, then |-> "update"]
NoFile(kind) ==
  [state |-> "none", tokens |-> <<>>, mem |-> Cleared(kind), sidecar |-> NoPicture]

Init ==
  /\ mem \in {Cleared(k) : k \in Models} /\ cache_tokens = <<>> /\ hashes = NoPicture
  /\ state = "idle" /\ task_type = "completion" /\ prompt = <<>> /\ documents = <<>>
  /\ paths = NoUse /\ media_processed = FALSE
  /\ n_past = 0 /\ save_prompt_state_tokens = -1 /\ captured = FALSE
  /\ pc = "update" /\ logits = <<>>
  /\ file = NoFile(mem.kind) /\ writing = NotWriting
  /\ requests = 0

Active == state \in {"prompt", "generating"}
MediaPending == ~media_processed /\ Picture(prompt) # NoPicture

-----------------------------------------------------------------------------
(* The memory and the file                                                 *)

\* Faulty variant: a rollback that is refused is not noticed.
reconcile_memory_to_Trusting(m, n) == [mem |-> Truncated(m, n), n |-> n]

\* The memory brought back to n positions, or emptied if it cannot be.
reconcile_memory_to(m, n) ==
  IF n > 0 /\ Frontier(m) >= n /\ Frontier(Truncated(m, n)) = n
  THEN [mem |-> Truncated(m, n), n |-> n]
  ELSE [mem |-> Cleared(m.kind), n |-> 0]

\* load_state() of a whole file: memory, tokens and media identity.
load_state(f, size) ==
  LET limited == size > 0 /\ ~HasRecurrent(f.mem)
      tokens == IF limited THEN FirstItems(f.tokens, size) ELSE f.tokens
      r == reconcile_memory_to(f.mem, Len(tokens))
  IN IF r.n < Len(tokens)
     THEN [mem |-> r.mem, tokens |-> <<>>, hashes |-> NoPicture]
     ELSE [mem |-> r.mem, tokens |-> tokens, hashes |-> f.sidecar]

\* Where a prompt is saved: before its last token, unless that is reused already.
CheckpointTarget(use, text, n) ==
  LET target == IF Len(text) > 1 THEN Len(text) - 1 ELSE Len(text)
  IN IF use.save_prompt /\ n <= target THEN target ELSE -1

\* The prefix of a text prompt that a loaded state stands for; a recurrent state is used
\* as a whole or not at all.  One token is left to evaluate.
LoadedPrefix(m, cached, text) ==
  LET common == CommonPrefix(cached, text)
  IN IF HasRecurrent(m) /\ common < Len(cached) THEN 0
     ELSE IF common = Len(text) THEN common - 1 ELSE common

\* load_prompt(): s is the cache it finds, use the paths.
load_prompt(items, use, s) ==
  LET text == Tokens(items)
      reuse == IF use.load /\ s.tokens # <<>> THEN LoadedPrefix(s.mem, s.tokens, text) ELSE 0
      r == reconcile_memory_to(s.mem, reuse)
  IN /\ prompt' = items /\ state' = "prompt" /\ captured' = FALSE
     /\ IF Picture(items) # NoPicture
        THEN /\ mem' = s.mem /\ cache_tokens' = s.tokens /\ hashes' = s.hashes
             /\ n_past' = 0 /\ media_processed' = FALSE
        ELSE /\ mem' = r.mem /\ cache_tokens' = text /\ hashes' = NoPicture
             /\ n_past' = r.n /\ media_processed' = TRUE
     /\ save_prompt_state_tokens' = CheckpointTarget(use, text, n_past')

\* reset(): the memory, cache_tokens and the media identity stay.  (The history is kept
\* for one request.)
reset ==
  /\ state' = "idle" /\ task_type' = "completion" /\ prompt' = <<>> /\ documents' = <<>>
  /\ paths' = NoUse /\ media_processed' = FALSE
  /\ n_past' = 0 /\ save_prompt_state_tokens' = -1 /\ captured' = FALSE
  /\ logits' = <<>>

\* A file is overwritten: the sidecar goes first.
WithoutSidecar(f) == [f EXCEPT !.sidecar = NoPicture]
StateFile(f, tokens, m) == [f EXCEPT !.state = "whole", !.tokens = tokens, !.mem = m]
Broken(f) == [f EXCEPT !.state = "cut"]

\* The media identity to be saved with the first n of tokens: none if they hold no
\* media, or media are cut off.
MediaRetained(tokens, n) ==
  IF Null \in ToSet(FirstItems(tokens, n)) /\ Null \notin ToSet(SubSeq(tokens, n + 1, Len(tokens)))
  THEN hashes ELSE NoPicture

StartWriting(tokens, n, then) ==
  /\ file' = WithoutSidecar(file)
  /\ writing' = [tokens |-> FirstItems(tokens, n), picture |-> MediaRetained(tokens, n),
                 then |-> then]
  /\ pc' = "state file"

-----------------------------------------------------------------------------
(* Claiming the slot: process_pending_queue                                *)

\* A slot that failed to load is done, and may be claimed before it is reset.
Claims ==
  /\ pc = "update" /\ state \in {"idle", "done"} /\ requests < MaxRequests
  /\ requests' = requests + 1

ClaimCompletion(p, use) ==
  /\ Claims
  /\ use.load => file.state = "whole"
  /\ task_type' = "completion" /\ documents' = <<>> /\ paths' = use
  /\ load_prompt(p, use, IF use.load THEN load_state(file, use.load_size)
                         ELSE [mem |-> mem, tokens |-> cache_tokens, hashes |-> hashes])
  /\ UNCHANGED <<pc, logits, file, writing>>

\* There is no file, or it breaks off: then the memory has been emptied.
FailLoad(use) ==
  /\ Claims
  /\ use.load /\ file.state # "whole"
  /\ task_type' = "completion" /\ paths' = use
  /\ state' = "done" /\ cache_tokens' = <<>>
  /\ mem' = IF file.state = "cut" THEN Cleared(mem.kind) ELSE mem
  /\ UNCHANGED <<hashes, prompt, documents, progress, pc, logits, file, writing>>

\* An embedding leaves the paths of a request that failed to load in place.
ClaimEmbedding(p) ==
  /\ Claims
  /\ task_type' = "embedding" /\ documents' = <<>>
  /\ load_prompt(p, paths, [mem |-> mem, tokens |-> cache_tokens, hashes |-> hashes])
  /\ UNCHANGED <<paths, pc, logits, file, writing>>

\* A rerank empties the memory; without documents that is all.
ClaimRerank(docs) ==
  /\ Claims
  /\ task_type' = "rerank"
  /\ IF docs = <<>>
     THEN /\ mem' = Cleared(mem.kind)
          /\ UNCHANGED <<cache_tokens, hashes, state, prompt, documents, progress>>
     ELSE /\ documents' = Tail(docs)
          /\ load_prompt(Head(docs), paths,
                         [mem |-> Cleared(mem.kind), tokens |-> cache_tokens, hashes |-> hashes])
  /\ UNCHANGED <<paths, pc, logits, file, writing>>

Claim ==
  \/ \E use \in UsesOfFile : FailLoad(use) \/ \E p \in Completions : ClaimCompletion(p, use)
  \/ \E p \in Documents : ClaimEmbedding(p)
  \/ \E docs \in {<<>>} \cup (Documents \X Documents) : ClaimRerank(docs)

-----------------------------------------------------------------------------
(* A pass over the slot: build_batch and process_batch                     *)

\* What a request for a picture may rely on: the tokens the memory backs; nothing if the
\* memory holds more than they say.
Seeded ==
  IF Len(cache_tokens) >= Frontier(mem)
  THEN [mem |-> mem, tokens |-> FirstItems(cache_tokens, Frontier(mem)), hashes |-> hashes]
  ELSE [mem |-> Cleared(mem.kind), tokens |-> <<>>, hashes |-> NoPicture]

\* A recurrent prompt is saved while the memory stands at the end of a chunk: it could
\* not be rolled back to one later.
Captures == HasRecurrent(mem) /\ save_prompt_state_tokens # -1

\* capture(): f with the first n tokens of the prompt and memory m; it may fail.
Capture(f, n, m) ==
  {[file |-> StateFile(f, Tokens(FirstItems(prompt, n)), m), done |-> TRUE]}
  \cup (IF "write" \in Faults THEN {[file |-> Broken(f), done |-> FALSE]} ELSE {})

\* processMedia up to the evaluation of the chunks.
LoadMedia ==
  /\ pc = "update" /\ state = "prompt" /\ MediaPending
  /\ LET s == Seeded
         n == KeptPrefix(s.tokens, prompt, s.hashes = Picture(prompt))
         r == IF CanTruncate(s.mem, n) /\ Frontier(Truncated(s.mem, n)) = n
              THEN [mem |-> Truncated(s.mem, n), n |-> n]
              ELSE [mem |-> Cleared(s.mem.kind), n |-> 0]
         f == IF Captures THEN WithoutSidecar(file) ELSE file
     IN /\ mem' = r.mem /\ n_past' = r.n /\ hashes' = s.hashes
        /\ \E c \in IF Captures /\ r.n > 0 THEN Capture(f, r.n, r.mem)
                   ELSE {[file |-> f, done |-> FALSE]} :
             file' = c.file /\ captured' = c.done
  /\ pc' = "chunks"
  /\ UNCHANGED <<cache_tokens, state, request, save_prompt_state_tokens, media_processed,
                 logits, writing, requests>>

NextChunks == {c \in ChunkStarts(prompt) : c >= n_past}

EvaluateChunk ==
  /\ pc = "chunks" /\ NextChunks # {}
  /\ LET e == ChunkEnd(prompt, Min(NextChunks))
     IN /\ mem' = Extended(mem, SubSeq(prompt, n_past + 1, e))
        /\ n_past' = e
        /\ logits' = IF e = Len(prompt) THEN Contents(mem') ELSE logits
        /\ \E c \in IF Captures /\ e = MediaBoundary(prompt) THEN Capture(file, e, mem')
                   ELSE {[file |-> file, done |-> FALSE]} :
             file' = c.file /\ captured' = (captured \/ c.done)
  /\ UNCHANGED <<cache_tokens, hashes, state, request, save_prompt_state_tokens,
                 media_processed, pc, writing, requests>>

\* The evaluation fails: memory and history are dropped, the request is answered.
ChunkFails ==
  /\ "media" \in Faults
  /\ pc = "chunks" /\ NextChunks # {}
  /\ mem' = Cleared(mem.kind) /\ cache_tokens' = <<>> /\ hashes' = NoPicture
  /\ reset /\ pc' = "update"
  /\ UNCHANGED <<file, writing, requests>>

\* All chunks are evaluated; a rest of the text that was reused to within it goes into
\* the batch, otherwise there is a token to sample.
FinishMedia ==
  /\ pc = "chunks" /\ NextChunks = {}
  /\ cache_tokens' = Tokens(prompt) /\ hashes' = Picture(prompt) /\ media_processed' = TRUE
  /\ file' = IF captured THEN [file EXCEPT !.sidecar = Picture(prompt)] ELSE file
  /\ save_prompt_state_tokens' = IF captured \/ save_prompt_state_tokens = -1 THEN -1
                                 ELSE Len(prompt)
  /\ IF n_past < Len(prompt) THEN pc' = "batch" /\ state' = state
     ELSE pc' = "checkpoint" /\ state' = "generating"
  /\ UNCHANGED <<mem, request, n_past, captured, logits, writing, requests>>

\* How far this batch takes the prompt: it stops where the prompt is to be saved.
BatchEnd ==
  LET prompt_end == IF n_past <= save_prompt_state_tokens
                    THEN Min({Len(prompt), save_prompt_state_tokens}) ELSE Len(prompt)
  IN Min({prompt_end, n_past + NBatch})

BuildsBatch == pc \in {"update", "batch"} /\ ~MediaPending

\* llama_decode takes the positions that follow those in memory.
Consecutive == Frontier(mem) \in {0, n_past}

\* build_batch passes over placeholders, as being in memory already.
AtPlaceholder ==
  state = "prompt" /\ n_past < Len(prompt) /\ cache_tokens[n_past + 1] = Null

\* The batch goes up to n, which may be where it is already.
DecodeTo(n) ==
  /\ n > n_past => Consecutive
  /\ mem' = Extended(mem, Items(SubSeq(cache_tokens, n_past + 1, n), Picture(prompt)))
  /\ logits' = IF n > n_past THEN Contents(mem') ELSE logits
  /\ n_past' = n /\ pc' = "checkpoint"
  /\ UNCHANGED <<cache_tokens, hashes, request, save_prompt_state_tokens, media_processed,
                 captured, file, writing, requests>>

DecodePrompt ==
  /\ BuildsBatch /\ state = "prompt" /\ ~AtPlaceholder
  /\ DecodeTo(BatchEnd)
  /\ state' = IF BatchEnd = Len(prompt) THEN "generating" ELSE state

\* A rest of the prompt that lies within the picture at its end, left by a state that was
\* cut there (load_state_size), is not evaluated at all.
SkipPlaceholders ==
  /\ BuildsBatch /\ AtPlaceholder
  /\ n_past' = Len(prompt) /\ state' = "generating" /\ pc' = "checkpoint"
  /\ UNCHANGED <<cache, request, save_prompt_state_tokens, media_processed, captured, logits,
                 file, writing, requests>>

\* The token that was sampled last.
DecodeGenerated ==
  /\ BuildsBatch /\ state = "generating"
  /\ DecodeTo(n_past + 1)
  /\ state' = state

\* llama_decode fails and leaves the memory alone: the request is answered, and its
\* tokens stay in cache_tokens.
DecodeFails ==
  /\ "decode" \in Faults \/ ~Consecutive
  /\ BuildsBatch /\ Active /\ ~AtPlaceholder /\ (state = "prompt" => BatchEnd > n_past)
  /\ reset /\ pc' = "update"
  /\ UNCHANGED <<cache, file, writing, requests>>

\* Step 4.6: the prompt is saved when it has been decoded as far as that.
Checkpoint ==
  /\ pc = "checkpoint"
  /\ IF save_prompt_state_tokens # -1 /\ n_past >= save_prompt_state_tokens
     THEN /\ StartWriting(cache_tokens, save_prompt_state_tokens, "sample")
          /\ save_prompt_state_tokens' = -1
     ELSE /\ pc' = "sample"
          /\ UNCHANGED <<save_prompt_state_tokens, file, writing>>
  /\ UNCHANGED <<cache, state, request, n_past, media_processed, captured, logits, requests>>

\* llama_state_seq_save_file writes the memory in place; then the sidecar goes through a
\* temporary file.
WriteState ==
  /\ pc = "state file"
  /\ \/ file' = StateFile(file, writing.tokens, mem) /\ pc' = "sidecar"
     \/ "write" \in Faults /\ file' = Broken(file) /\ pc' = writing.then
  /\ writing' = IF pc' = "sidecar" THEN writing ELSE NotWriting
  /\ UNCHANGED <<cache, state, request, progress, logits, requests>>

WriteSidecar ==
  /\ pc = "sidecar"
  /\ file' = [file EXCEPT !.sidecar = writing.picture] /\ pc' = writing.then
  /\ writing' = NotWriting
  /\ UNCHANGED <<cache, state, request, progress, logits, requests>>

Batch ==
  \/ LoadMedia \/ EvaluateChunk \/ ChunkFails \/ FinishMedia
  \/ DecodePrompt \/ SkipPlaceholders \/ DecodeGenerated \/ DecodeFails
  \/ Checkpoint \/ WriteState \/ WriteSidecar

-----------------------------------------------------------------------------
(* The end of a pass: sample_and_callback                                  *)

\* Faulty variant: the token that was sampled last is saved with the rest.
Decoded_AllTokens(tokens) == tokens

\* The tokens that have been decoded.
Decoded(tokens) == FirstItems(tokens, Frontier(mem))

\* How many of n tokens save_state() saves: save_state_size, and one less so that loading
\* leaves one to evaluate; a recurrent state needs them all.
SaveSize(n) ==
  LET size == IF paths.save_size \in 1 .. n THEN paths.save_size ELSE n
  IN IF HasRecurrent(mem) THEN n ELSE IF size > 1 THEN size - 1 ELSE size

\* complete_slot() and, before the lock is left, release_slot().
Complete == reset /\ pc' = "update"

\* A completion ends with these tokens.
Finish(tokens) ==
  /\ cache_tokens' = tokens
  /\ IF paths.save /\ Decoded(tokens) # <<>>
     THEN /\ StartWriting(Decoded(tokens), SaveSize(Len(Decoded(tokens))), "complete")
          /\ UNCHANGED <<state, request, progress, logits>>
     ELSE Complete /\ UNCHANGED <<file, writing>>

\* The prompt is not complete: nothing is sampled.
SkipSampling ==
  /\ pc = "sample" /\ state = "prompt"
  /\ pc' = "update"
  /\ UNCHANGED <<cache, state, request, progress, logits, file, writing, requests>>

\* A token is sampled.  It may be the last: the limit, a stop word, or the context is full.
SampleToken ==
  /\ pc = "sample" /\ state = "generating" /\ task_type = "completion"
  /\ LET tokens == Append(cache_tokens, Sampled)
     IN \/ Finish(tokens)
        \/ /\ n_past < NCtx
           /\ cache_tokens' = tokens /\ pc' = "update"
           /\ UNCHANGED <<state, request, progress, logits, file, writing>>
  /\ UNCHANGED <<mem, hashes, requests>>

\* The end of generation is sampled.
SampleEnd ==
  /\ pc = "sample" /\ state = "generating" /\ task_type = "completion"
  /\ Finish(cache_tokens)
  /\ UNCHANGED <<mem, hashes, requests>>

AnswerEmbedding ==
  /\ pc = "sample" /\ state = "generating" /\ task_type = "embedding"
  /\ Complete
  /\ UNCHANGED <<cache, file, writing, requests>>

\* The score of a document: the memory is emptied, and the next one is loaded.
ScoreDocument ==
  /\ pc = "sample" /\ state = "generating" /\ task_type = "rerank"
  /\ IF documents = <<>>
     THEN Complete /\ mem' = Cleared(mem.kind) /\ UNCHANGED <<cache_tokens, hashes>>
     ELSE /\ load_prompt(Head(documents), paths, [mem |-> Cleared(mem.kind),
                                                  tokens |-> cache_tokens, hashes |-> hashes])
          /\ documents' = Tail(documents) /\ pc' = "update"
          /\ UNCHANGED <<task_type, paths, logits>>
  /\ UNCHANGED <<file, writing, requests>>

\* save_state() is done.
CompleteSaved ==
  /\ pc = "complete" /\ Complete
  /\ UNCHANGED <<cache, file, writing, requests>>

\* A request that was cancelled is answered at the beginning of a pass or before sampling.
Cancel ==
  /\ pc \in {"update", "sample"} /\ Active /\ Complete
  /\ UNCHANGED <<cache, file, writing, requests>>

\* release_completed_slots() comes to the slot that failed to load.
Release ==
  /\ pc = "update" /\ state = "done" /\ Complete
  /\ UNCHANGED <<cache, file, writing, requests>>

Sampling ==
  \/ SkipSampling \/ SampleToken \/ SampleEnd \/ AnswerEmbedding \/ ScoreDocument
  \/ CompleteSaved \/ Cancel \/ Release

-----------------------------------------------------------------------------
(* What comes from outside                                                 *)

\* clearCache() empties every sequence, and knows nothing of the slots.
ClearCache ==
  /\ pc = "update" /\ state = "idle" /\ mem # Cleared(mem.kind)
  /\ mem' = Cleared(mem.kind)
  /\ UNCHANGED <<cache_tokens, hashes, state, request, progress, pc, logits, file, writing,
                 requests>>

\* The process dies, perhaps while it writes the state file, and is started anew.
Crash ==
  /\ "crash" \in Faults
  /\ \/ file' = file
     \/ pc = "state file" /\ file' = Broken(file)
     \/ pc = "chunks" /\ Captures /\ file' = Broken(file)
  /\ mem' = Cleared(mem.kind) /\ cache_tokens' = <<>> /\ hashes' = NoPicture
  /\ Complete
  /\ writing' = NotWriting
  /\ UNCHANGED requests

Next == Claim \/ Batch \/ Sampling \/ ClearCache \/ Crash

Spec == Init /\ [][Next]_vars

-----------------------------------------------------------------------------
(* Properties                                                              *)

\* What the running request consists of: its prompt, and what was generated for it.
Own == Items(cache_tokens, Picture(prompt))

\* Only placeholders follow what a memory m holds, in tokens.
OnlyPlaceholdersMissing(m, tokens) ==
  Frontier(m) \in 1 .. Len(tokens) - 1 /\ \A i \in Frontier(m) + 1 .. Len(tokens) : tokens[i] = Null

\* Placeholders were passed over: the picture is not all in memory.
PassedOver == OnlyPlaceholdersMissing(mem, FirstItems(cache_tokens, n_past))

\* While a slot works for a request the memory of its sequence holds the request's own
\* prompt, its own picture and what was generated for it, up to n_past: whatever an
\* earlier request, a state file, a failed load or clearCache() left in it.  What is
\* sampled comes from all of it ("re-evaluate the last token to get fresh logits").  The
\* exception is a picture of which the end was passed over.
MemoryIsOwn ==
  /\ Active /\ ~MediaPending =>
       /\ IsPrefix(prompt, Own)
       /\ Holds(mem, FirstItems(Own, IF PassedOver THEN Frontier(mem) ELSE n_past))
  /\ pc = "sample" /\ state = "generating" => PassedOver \/ logits = Own

\* "The token list must cover the same positions or the file cannot be resumed": the
\* tokens of a state file are the beginning of what the memory saved with it holds, for
\* a recurrent state all of it; and a sidecar names the picture that is in it, whatever
\* wrote the file last, a failed write or a crash between two writes.  (The end of a
\* picture that a file lacks is not resumed.)
FilesTellTheTruth ==
  file.state = "whole" => \E p \in Pictures \cup {NoPicture} :
    LET items == Items(file.tokens, p)
    IN /\ \/ /\ IsPrefix(items, Contents(file.mem))
             /\ HasRecurrent(file.mem) => Holds(file.mem, items)
          \/ /\ OnlyPlaceholdersMissing(file.mem, file.tokens)
             /\ IsPrefix(Contents(file.mem), items)
       /\ file.sidecar # NoPicture => file.sidecar = Picture(items)
=============================================================================
