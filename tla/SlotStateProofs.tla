-------------------------- MODULE SlotStateProofs --------------------------
(***************************************************************************)
(* Theorems about SlotState for all prompts with at most one picture, all  *)
(* kinds of memory and any number of requests: a slot works on its own     *)
(* prompt, and its state file is what its tokens and its sidecar say.      *)
(*                                                                         *)
(* Between requests the memory is backed by cache_tokens, if at all;       *)
(* while a request is worked on, it holds the request's own items up to    *)
(* n_past; and what is in the state file was in the memory.                *)
(***************************************************************************)
EXTENDS SlotState, MediaPromptsProofs

-----------------------------------------------------------------------------
(* The inductive invariant                                                 *)

Prompts == Completions \cup Documents
Pic == Pictures \cup {NoPicture}
Mentioned == UNION {ToSet(p) : p \in Prompts}
Item == Mentioned \cup Pic \cup {Sampled, Null}
Memory == [kind : Kinds, attn : Seq(Item), rec : Seq(Item), pos : Nat]
Use == [load : BOOLEAN, save : BOOLEAN, save_prompt : BOOLEAN,
        load_size : Nat, save_size : Nat]

IsTokens(t) == t \in Seq(Item) /\ \A i \in 1 .. Len(t) : t[i] \notin Pictures

CacheTyped == Sound(mem, Item) /\ IsTokens(cache_tokens) /\ hashes \in Pic

RequestTyped ==
  /\ state \in {"idle", "prompt", "generating", "done"}
  /\ task_type \in {"completion", "embedding", "rerank"}
  /\ Active => prompt \in Prompts
  /\ documents \in Seq(Documents) /\ paths \in Use

ProgressTyped ==
  /\ n_past \in Nat /\ save_prompt_state_tokens \in Nat \cup {-1}
  /\ media_processed \in BOOLEAN /\ captured \in BOOLEAN
  /\ pc \in {"update", "chunks", "batch", "checkpoint", "state file", "sidecar", "sample",
             "complete"}

File == [state : {"none", "whole", "cut"}, tokens : Seq(Item), mem : Memory, sidecar : Pic]
Writing == [tokens : Seq(Item), picture : Pic, then : {"update", "sample", "complete"}]

FileTyped ==
  /\ file \in File /\ Sound(file.mem, Item) /\ IsTokens(file.tokens)
  /\ writing \in Writing /\ IsTokens(writing.tokens)

TypeInv == CacheTyped /\ RequestTyped /\ ProgressTyped /\ FileTyped

\* A request whose prompt is ready to be decoded, or decoded.
Working == Active /\ ~MediaPending

\* Which steps of update_slots() a slot can be at.
StageInv ==
  /\ pc = "chunks" => state = "prompt" /\ MediaPending
  /\ pc = "batch" => state = "prompt"
  /\ pc \notin {"update", "chunks"} => Working
  /\ state = "generating" => ~MediaPending
  /\ pc = "complete" => state = "generating"
  /\ pc \in {"state file", "sidecar"} =>
       /\ writing.then \in {"sample", "complete"}
       /\ writing.then = "complete" => state = "generating"
  /\ ~Active /\ paths.load => cache_tokens = <<>>

\* Between the decoding and the sampling of a batch.
SampleNext ==
  pc \in {"checkpoint", "sample"} \/ (pc \in {"state file", "sidecar"} /\ writing.then = "sample")

\* The memory holds the request's own items, up to n_past unless the end of a picture was
\* passed over.
OwnMemory ==
  /\ Contents(mem) = FirstItems(Own, Frontier(mem))
  /\ Frontier(mem) = n_past \/ PassedOver

\* What is left of a prompt is to be decoded, or passed over as a whole.
Remainder ==
  /\ Frontier(mem) = n_past
  /\ \/ \A i \in n_past + 1 .. Len(prompt) : cache_tokens[i] # Null
     \/ /\ n_past > 0 /\ \A i \in n_past + 1 .. Len(prompt) : cache_tokens[i] = Null
        /\ save_prompt_state_tokens \in {-1, Len(prompt)}

OwnInv == Working =>
  /\ hashes = Picture(prompt) /\ n_past <= Len(cache_tokens)
  /\ IsPrefix(Tokens(prompt), cache_tokens)
  /\ OwnMemory
  /\ state = "prompt" =>
       cache_tokens = Tokens(prompt) /\ n_past < Len(prompt) /\ Remainder
  /\ state = "generating" =>
       /\ pc = "update" => Len(cache_tokens) = n_past + 1
       /\ SampleNext => Len(cache_tokens) = n_past /\ (PassedOver \/ logits = Own)

\* The prompt is saved exactly where the batch was made to stop for it.
SaveInv == Working /\ save_prompt_state_tokens # -1 =>
  /\ n_past <= save_prompt_state_tokens /\ save_prompt_state_tokens <= Len(prompt)
  /\ state = "generating" => pc = "checkpoint" /\ n_past = save_prompt_state_tokens

\* A capture that succeeded last holds the beginning of the prompt, of which the picture
\* is part once it has been evaluated.
CaptureInv ==
  captured /\ file.state = "whole" =>
    \E k \in 0 .. Len(prompt) :
      /\ file.tokens = Tokens(FirstItems(prompt, k))
      /\ Contents(file.mem) = FirstItems(prompt, k)
      /\ n_past > FirstPicture(prompt) => k > FirstPicture(prompt)

ChunksInv == pc = "chunks" =>
  /\ n_past <= Len(prompt) /\ Contents(mem) = FirstItems(prompt, n_past)
  /\ n_past = Len(prompt) => logits = prompt
  /\ Captures => file.sidecar = NoPicture
  /\ captured => Captures
  /\ CaptureInv

\* The memory m, if it is not longer than tokens, holds what they name; and the picture
\* among them, if one is known, is picture.
Backed(m, tokens, picture) ==
  Frontier(m) <= Len(tokens) => \E p \in Pic :
    /\ Contents(m) = FirstItems(Items(tokens, p), Len(Contents(m)))
    /\ picture # NoPicture => p = picture

CacheInv ==
  ~Active \/ (MediaPending /\ pc = "update") => Backed(mem, cache_tokens, hashes)

\* A state of m saved with these tokens, and with picture as its sidecar.
Truthful(tokens, m, picture) ==
  \E p \in Pic :
    /\ \/ /\ IsPrefix(Items(tokens, p), Contents(m))
          /\ HasRecurrent(m) => Contents(m) = Items(tokens, p)
       \/ OnlyPlaceholdersMissing(m, tokens) /\ IsPrefix(Contents(m), Items(tokens, p))
    /\ picture # NoPicture => p = picture /\ Null \in ToSet(tokens)

FileTrue == file.state = "whole" => Truthful(file.tokens, file.mem, file.sidecar)

FileInv ==
  /\ FileTrue
  /\ pc = "state file" =>
       file.sidecar = NoPicture /\ Truthful(writing.tokens, mem, writing.picture)
  /\ pc = "sidecar" =>
       file.state = "whole" /\ Truthful(file.tokens, file.mem, writing.picture)

SlotInv ==
  TypeInv /\ StageInv /\ OwnInv /\ SaveInv /\ ChunksInv /\ CacheInv /\ FileInv

-----------------------------------------------------------------------------
(* Values                                                                  *)

LEMMA ItemIs ==
  /\ Null \in Item /\ NoPicture \in Item /\ Sampled \in Item /\ Sampled # Null
  /\ Sampled \notin Pictures /\ Null \notin Pictures /\ NoPicture \notin Pictures
  /\ Pictures \subseteq Item /\ Pic \subseteq Item
  <1>1. Sampled # Null /\ Sampled \notin Pictures
    BY SlotStateAssumption
  <1>2. Null \notin Pictures /\ NoPicture \notin Pictures
    BY PicturesAssumption
  <1>3. /\ Null \in Item /\ NoPicture \in Item /\ Sampled \in Item
        /\ Pictures \subseteq Item /\ Pic \subseteq Item
    BY DEF Item, Pic
  <1>4. QED BY <1>1, <1>2, <1>3

LEMMA PromptTyped ==
  ASSUME NEW x \in Prompts
  PROVE  /\ x \in Seq(Item) /\ IsPrompt(x) /\ x # <<>> /\ Picture(x) \in Pic
         /\ IsTokens(Tokens(x)) /\ Len(Tokens(x)) = Len(x) /\ Len(x) \in Nat /\ Len(x) > 0
         /\ Items(Tokens(x), Picture(x)) = x
  <1>1. IsPrompt(x) /\ ToSet(x) \subseteq Item
    BY SlotStateAssumption DEF Prompts, Item, Mentioned
  <1>2. x \in Seq(Item) /\ x # <<>>
    BY <1>1 DEF IsPrompt
  <1>3. Picture(x) \in Pic
    BY <1>1, <1>2, ItemIs, PromptIs, PictureIs DEF Pic
  <1>4. Items(Tokens(x), Picture(x)) = x
    BY <1>1, <1>2, ItemIs, PromptRecovered
  <1>5. Len(x) \in Nat /\ Len(x) > 0
    BY <1>2
  <1>6. IsTokens(Tokens(x)) /\ Len(Tokens(x)) = Len(x)
    BY <1>2, ItemIs, TokensAre DEF IsTokens
  <1>7. QED BY <1>1, <1>2, <1>3, <1>4, <1>5, <1>6

LEMMA EmptyTokens == IsTokens(<<>>)
  BY DEF IsTokens

LEMMA FirstTokens ==
  ASSUME NEW t, IsTokens(t), NEW n \in Nat
  PROVE  IsTokens(FirstItems(t, n))
  <1>1. t \in Seq(Item)
    BY DEF IsTokens
  <1>2. FirstItems(t, n) \in Seq(Item)
    BY <1>1, FirstItemsAre
  <1>3. /\ Len(FirstItems(t, n)) <= Len(t)
        /\ \A i \in 1 .. Len(FirstItems(t, n)) : FirstItems(t, n)[i] = t[i]
    BY <1>1, FirstItemsAre
  <1>4. ASSUME NEW i \in 1 .. Len(FirstItems(t, n))
        PROVE  FirstItems(t, n)[i] \notin Pictures
    <2>1. i \in 1 .. Len(t)
      BY <1>1, <1>2, <1>3
    <2>2. QED BY <1>3, <2>1 DEF IsTokens
  <1>5. QED BY <1>2, <1>4 DEF IsTokens

LEMMA AppendedTokens ==
  ASSUME NEW t, IsTokens(t)
  PROVE  IsTokens(Append(t, Sampled)) /\ Len(Append(t, Sampled)) = Len(t) + 1
  <1>1. /\ t \in Seq(Item) /\ Append(t, Sampled) \in Seq(Item)
        /\ Len(Append(t, Sampled)) = Len(t) + 1 /\ Len(t) \in Nat
        /\ Append(t, Sampled)[Len(t) + 1] = Sampled
        /\ \A i \in 1 .. Len(t) : Append(t, Sampled)[i] = t[i] /\ t[i] \notin Pictures
    BY ItemIs DEF IsTokens
  <1>2. \A i \in 1 .. Len(t) + 1 : i = Len(t) + 1 \/ i \in 1 .. Len(t)
    BY <1>1
  <1>3. QED BY <1>1, <1>2, ItemIs DEF IsTokens

LEMMA TokenItems ==
  ASSUME NEW t, IsTokens(t), NEW p \in Pic
  PROVE  /\ t \in Seq(Item) /\ Len(t) \in Nat
         /\ Items(t, p) \in Seq(Item) /\ Len(Items(t, p)) = Len(t)
  <1>1. t \in Seq(Item) /\ p \in Item
    BY ItemIs DEF IsTokens
  <1>2. QED BY <1>1, ItemsAre

\* The picture of what tokens name is the one they are given.
LEMMA PictureOfItems ==
  ASSUME NEW t, IsTokens(t), NEW p \in Pictures, Null \in ToSet(t)
  PROVE  Picture(Items(t, p)) = p
  <1>1. t \in Seq(Item) /\ p \in Item /\ p \in Pic
    BY ItemIs DEF IsTokens, Pic
  <1>2. /\ Items(t, p) \in Seq(Item) /\ Len(Items(t, p)) = Len(t)
        /\ \A i \in 1 .. Len(t) : Items(t, p)[i] = IF t[i] = Null THEN p ELSE t[i]
    BY <1>1, ItemsAre
  <1>3. \A i \in 1 .. Len(t) : Items(t, p)[i] \in Pictures <=> t[i] = Null
    BY <1>2 DEF IsTokens
  <1>4. DOMAIN Items(t, p) = 1 .. Len(t)
    BY <1>2
  <1>5. OnePicture(Items(t, p))
    BY <1>2, <1>3, <1>4 DEF OnePicture
  <1>6. PICK i \in 1 .. Len(t) : t[i] = Null
    BY <1>1 DEF ToSet
  <1>7. Items(t, p)[i] \in Pictures /\ Items(t, p)[i] = p /\ i \in 1 .. Len(Items(t, p))
    BY <1>2, <1>6
  <1>8. QED BY <1>2, <1>5, <1>7, PictureIs

\* Of a memory that tokens name, a beginning they share with a prompt is the prompt's, if
\* its picture is the prompt's too or has not come yet.
LEMMA CommonContents ==
  ASSUME NEW c \in Seq(Item), NEW tokens, IsTokens(tokens), NEW p \in Pic,
         c = FirstItems(Items(tokens, p), Len(c)),
         NEW x \in Prompts, NEW n \in Nat, n <= Len(c), n <= Len(x),
         FirstItems(tokens, n) = FirstItems(Tokens(x), n),
         p = Picture(x) \/ \A i \in 1 .. n : x[i] \notin Pictures
  PROVE  FirstItems(c, n) = FirstItems(x, n)
  <1>1. /\ tokens \in Seq(Item) /\ p \in Item /\ Items(tokens, p) \in Seq(Item)
        /\ x \in Seq(Item) /\ Tokens(x) \in Seq(Item) /\ Len(Tokens(x)) = Len(x)
    BY TokenItems, PromptTyped, ItemIs DEF IsTokens
  <1>2. FirstItems(c, n) = FirstItems(Items(tokens, p), n)
    <2>1. Len(c) \in Nat
      OBVIOUS
    <2>2. QED BY <1>1, <2>1, FirstOfFirst
  <1>3. FirstItems(Items(tokens, p), n) = Items(FirstItems(tokens, n), p)
    BY <1>1, FirstOfItems
  <1>4. Items(FirstItems(Tokens(x), n), p) = FirstItems(Items(Tokens(x), p), n)
    BY <1>1, FirstOfItems
  <1> DEFINE y == Items(Tokens(x), p)
  <1>5. /\ y \in Seq(Item) /\ Len(y) = Len(x)
        /\ \A i \in 1 .. Len(x) : y[i] = IF Tokens(x)[i] = Null THEN p ELSE Tokens(x)[i]
    BY <1>1, ItemsAre
  <1>6. ASSUME NEW i \in 1 .. n
        PROVE  y[i] = x[i]
    <2>1. i \in 1 .. Len(x)
      BY <1>1
    <2>2. Tokens(x)[i] = IF x[i] \in Pictures THEN Null ELSE x[i]
      BY <1>1, <2>1, ItemIs, TokensAre
    <2>3. x[i] # Null
      BY <1>1, <2>1, ItemIs, PromptTyped, PromptIs
    <2>4. x[i] \in Pictures => Picture(x) = x[i]
      BY <1>1, <2>1, ItemIs, PromptTyped, PromptIs, PictureIs
    <2>5. QED BY <1>5, <2>1, <2>2, <2>3, <2>4
  <1>7. FirstItems(y, n) = FirstItems(x, n)
    <2> HIDE DEF y
    <2>1. /\ FirstItems(y, n) \in Seq(Item) /\ Len(FirstItems(y, n)) = n
          /\ \A i \in 1 .. n : FirstItems(y, n)[i] = y[i]
      BY <1>5, FirstItemsAre
    <2>2. /\ FirstItems(x, n) \in Seq(Item) /\ Len(FirstItems(x, n)) = n
          /\ \A i \in 1 .. n : FirstItems(x, n)[i] = x[i]
      BY <1>1, FirstItemsAre
    <2>3. QED BY <1>6, <2>1, <2>2, SeqEqual
  <1>8. QED BY <1>2, <1>3, <1>4, <1>7

\* An empty memory is backed by anything.
LEMMA ClearedBacked ==
  ASSUME NEW kind \in Kinds, NEW t, IsTokens(t), NEW h \in Pic
  PROVE  Backed(Cleared(kind), t, h)
  <1>1. Contents(Cleared(kind)) = <<>>
    BY ClearedSound
  <1>2. /\ Items(t, h) \in Seq(Item) /\ Items(t, NoPicture) \in Seq(Item)
    BY TokenItems DEF Pic
  <1>3. FirstItems(Items(t, h), 0) = <<>>
    BY <1>2, FirstItemsNone
  <1>4. Len(<<>>) = 0
    OBVIOUS
  <1>5. QED BY <1>1, <1>3, <1>4 DEF Backed

LEMMA Reconciled ==
  ASSUME NEW m, Sound(m, Item), NEW n \in Nat
  PROVE  LET r == reconcile_memory_to(m, n)
         IN /\ Sound(r.mem, Item) /\ r.mem.kind = m.kind
            /\ r.n \in {0, n} /\ Contents(r.mem) = FirstItems(Contents(m), r.n)
            /\ Len(Contents(r.mem)) = r.n /\ r.n <= Len(Contents(m))
  <1>1. /\ m.kind \in Kinds /\ Contents(m) \in Seq(Item) /\ Frontier(m) = Len(Contents(m))
    BY ContentsAre
  <1>2. CASE n > 0 /\ Frontier(m) >= n /\ Frontier(Truncated(m, n)) = n
    <2>1. reconcile_memory_to(m, n) = [mem |-> Truncated(m, n), n |-> n]
      BY <1>2 DEF reconcile_memory_to
    <2>2. Sound(Truncated(m, n), Item) /\ Truncated(m, n).kind = m.kind
      BY TruncatedSound
    <2>3. Len(Contents(Truncated(m, n))) = n
      BY <1>2, <2>2, ContentsAre
    <2>4. CASE CanTruncate(m, n)
      BY <1>1, <1>2, <2>1, <2>2, <2>3, <2>4, TruncatedSound
    <2>5. CASE ~CanTruncate(m, n)
      <3>1. Truncated(m, n) = m
        BY <2>5 DEF Truncated
      <3>2. FirstItems(Contents(m), n) = Contents(m)
        BY <1>1, <2>3, <3>1, FirstItemsAll
      <3>3. QED BY <1>1, <1>2, <2>1, <2>2, <2>3, <3>1, <3>2
    <2>6. QED BY <2>4, <2>5
  <1>3. CASE ~(n > 0 /\ Frontier(m) >= n /\ Frontier(Truncated(m, n)) = n)
    <2>1. reconcile_memory_to(m, n) = [mem |-> Cleared(m.kind), n |-> 0]
      BY <1>3 DEF reconcile_memory_to
    <2>2. FirstItems(Contents(m), 0) = <<>> /\ Len(<<>>) = 0 /\ Len(Contents(m)) \in Nat
      BY <1>1, FirstItemsNone
    <2>3. QED BY <1>1, <2>1, <2>2, ClearedSound
  <1>4. QED BY <1>2, <1>3

LEMMA EmptyBacked ==
  ASSUME NEW m, Sound(m, Item), NEW h \in Pic
  PROVE  Backed(m, <<>>, h)
  <1>1. Contents(m) \in Seq(Item) /\ Frontier(m) = Len(Contents(m))
    BY ContentsAre
  <1>2. Items(<<>>, h) \in Seq(Item) /\ Len(Items(<<>>, h)) = 0
    BY EmptyTokens, TokenItems
  <1>3. FirstItems(Items(<<>>, h), 0) = <<>>
    BY <1>2, FirstItemsNone
  <1>4. Frontier(m) <= Len(<<>>) => Contents(m) = <<>>
    BY <1>1
  <1>5. Len(<<>>) = 0
    OBVIOUS
  <1>6. QED BY <1>3, <1>4, <1>5 DEF Backed

\* What was generated comes after what was there.
LEMMA AppendedItems ==
  ASSUME NEW t, IsTokens(t), NEW p \in Pic, NEW n \in Nat, n <= Len(t)
  PROVE  FirstItems(Items(Append(t, Sampled), p), n) = FirstItems(Items(t, p), n)
  <1>1. /\ t \in Seq(Item) /\ Len(t) \in Nat /\ p \in Item
        /\ Items(t, p) \in Seq(Item) /\ Len(Items(t, p)) = Len(t)
    BY TokenItems, ItemIs
  <1>2. IsTokens(Append(t, Sampled)) /\ Len(Append(t, Sampled)) = Len(t) + 1
    BY AppendedTokens
  <1> DEFINE a == Items(t, p)
             b == Items(Append(t, Sampled), p)
  <1>3. b = Append(a, Sampled)
    BY <1>1, ItemIs, ItemsOfAppend
  <1> HIDE DEF a, b
  <1>4. a \in Seq(Item) /\ Len(a) = Len(t)
    BY <1>1 DEF a
  <1>5. b \in Seq(Item) /\ Len(b) = Len(t) + 1 /\ \A i \in 1 .. Len(t) : b[i] = a[i]
    BY <1>1, <1>3, <1>4, ItemIs
  <1>6. /\ FirstItems(a, n) \in Seq(Item) /\ Len(FirstItems(a, n)) = n
        /\ \A i \in 1 .. n : FirstItems(a, n)[i] = a[i]
    BY <1>1, <1>4, FirstItemsAre
  <1>7. /\ FirstItems(b, n) \in Seq(Item) /\ Len(FirstItems(b, n)) = n
        /\ \A i \in 1 .. n : FirstItems(b, n)[i] = b[i]
    BY <1>1, <1>5, FirstItemsAre, SMTT(30)
  <1>8. \A i \in 1 .. n : b[i] = a[i]
    BY <1>1, <1>5
  <1>9. FirstItems(b, n) = FirstItems(a, n)
    BY <1>6, <1>7, <1>8, SeqEqual
  <1>10. QED BY <1>9 DEF a, b

\* What a memory holds, saved with the beginning of what names it.
LEMMA SavedTruthful ==
  ASSUME NEW m, Sound(m, Item), NEW t, IsTokens(t), NEW p \in Pic,
         Contents(m) = FirstItems(Items(t, p), Len(Contents(m))),
         NEW n \in Nat, n <= Len(Contents(m)), HasRecurrent(m) => n = Len(Contents(m)),
         NEW picture, picture # NoPicture => p = picture /\ Null \in ToSet(FirstItems(t, n))
  PROVE  Truthful(FirstItems(t, n), m, picture)
  <1>1. Contents(m) \in Seq(Item) /\ Len(Contents(m)) \in Nat
    BY ContentsAre
  <1>2. t \in Seq(Item) /\ p \in Item /\ Items(t, p) \in Seq(Item)
    BY TokenItems, ItemIs
  <1>3. Items(FirstItems(t, n), p) = FirstItems(Items(t, p), n)
    BY <1>2, FirstOfItems
  <1>4. FirstItems(Contents(m), n) = FirstItems(Items(t, p), n)
    BY <1>1, <1>2, FirstOfFirst
  <1>5. IsPrefix(FirstItems(Contents(m), n), Contents(m))
    BY <1>1, FirstIsPrefix
  <1>6. HasRecurrent(m) => FirstItems(Contents(m), n) = Contents(m)
    BY <1>1, FirstItemsAll
  <1>7. QED BY <1>3, <1>4, <1>5, <1>6 DEF Truthful

LEMMA TruthfulWithout ==
  ASSUME NEW t, NEW m, NEW h, Truthful(t, m, h)
  PROVE  Truthful(t, m, NoPicture)
  BY DEF Truthful

LEMMA LoadedStateIs ==
  ASSUME FileTyped, FileTrue, file.state = "whole", NEW size \in Nat
  PROVE  LET s == load_state(file, size)
         IN /\ Sound(s.mem, Item) /\ IsTokens(s.tokens) /\ s.hashes \in Pic
            /\ Backed(s.mem, s.tokens, s.hashes)
            /\ Frontier(s.mem) <= Len(s.tokens)
  <1> DEFINE limited == size > 0 /\ ~HasRecurrent(file.mem)
             tokens == IF limited THEN FirstItems(file.tokens, size) ELSE file.tokens
             r == reconcile_memory_to(file.mem, Len(tokens))
             s == load_state(file, size)
  <1>1. /\ Sound(file.mem, Item) /\ IsTokens(file.tokens) /\ file.sidecar \in Pic
        /\ Truthful(file.tokens, file.mem, file.sidecar)
    BY DEF FileTyped, File, FileTrue
  <1>2. IsTokens(tokens)
    BY <1>1, FirstTokens
  <1>3. /\ s.mem = r.mem
        /\ IF r.n < Len(tokens) THEN s.tokens = <<>> /\ s.hashes = NoPicture
           ELSE s.tokens = tokens /\ s.hashes = file.sidecar
    BY DEF load_state
  <1>4. file.tokens \in Seq(Item) /\ Len(file.tokens) \in Nat
    BY <1>1, TokenItems, ItemIs DEF IsTokens
  <1>5. tokens = FirstItems(file.tokens, Len(tokens)) /\ Len(tokens) <= Len(file.tokens)
    <2>1. CASE limited
      <3>1. FirstItems(file.tokens, size) = FirstItems(file.tokens, Len(tokens))
            /\ Len(tokens) <= Len(file.tokens)
        <4>1. Len(FirstItems(file.tokens, size)) =
                IF size <= Len(file.tokens) THEN size ELSE Len(file.tokens)
          BY <1>4, FirstItemsAre
        <4>2. CASE size <= Len(file.tokens)
          BY <2>1, <4>1, <4>2
        <4>3. CASE size > Len(file.tokens)
          <5>1. FirstItems(file.tokens, size) = file.tokens
            BY <1>4, <4>3, FirstItemsAll
          <5>2. FirstItems(file.tokens, Len(file.tokens)) = file.tokens
            BY <1>4, FirstItemsAll
          <5>3. QED BY <2>1, <1>4, <5>1, <5>2
        <4>4. QED BY <1>4, <4>2, <4>3
      <3>2. QED BY <2>1, <3>1
    <2>2. CASE ~limited
      BY <1>4, <2>2, FirstItemsAll
    <2>3. QED BY <2>1, <2>2
  <1> HIDE DEF tokens, s
  <1>6. Len(tokens) \in Nat /\ tokens \in Seq(Item)
    BY <1>2, TokenItems, ItemIs DEF IsTokens
  <1>7. /\ Sound(r.mem, Item) /\ r.n \in {0, Len(tokens)}
        /\ Contents(r.mem) = FirstItems(Contents(file.mem), r.n)
        /\ Len(Contents(r.mem)) = r.n /\ r.n <= Len(Contents(file.mem))
    BY <1>1, <1>6, Reconciled
  <1> HIDE DEF r
  <1>8. Frontier(r.mem) = r.n /\ r.n \in Nat
    BY <1>6, <1>7, ContentsAre
  <1>9. CASE r.n < Len(tokens)
    <2>1. /\ s.mem = r.mem /\ s.tokens = <<>> /\ s.hashes = NoPicture /\ NoPicture \in Pic
          /\ r.n = 0
      BY <1>3, <1>7, <1>9 DEF Pic
    <2>2. Backed(s.mem, <<>>, NoPicture)
      BY <1>7, <2>1, EmptyBacked
    <2>3. QED BY <1>7, <1>8, <2>1, <2>2, EmptyTokens DEF s
  <1>10. CASE ~(r.n < Len(tokens))
    <2>1. s.mem = r.mem /\ s.tokens = tokens /\ s.hashes = file.sidecar /\ r.n = Len(tokens)
      BY <1>3, <1>6, <1>7, <1>10
    <2>2. PICK p \in Pic : /\ \/ IsPrefix(Items(file.tokens, p), Contents(file.mem))
                              \/ IsPrefix(Contents(file.mem), Items(file.tokens, p))
                           /\ file.sidecar # NoPicture => p = file.sidecar
      BY <1>1 DEF Truthful
    <2>3. /\ Items(file.tokens, p) \in Seq(Item) /\ p \in Item
          /\ Len(Items(file.tokens, p)) = Len(file.tokens)
      BY <1>1, <2>2, TokenItems, ItemIs
    <2>4. Contents(file.mem) \in Seq(Item) /\ Len(Contents(file.mem)) \in Nat
      BY <1>1, ContentsAre
    <2>5. Items(tokens, p) = FirstItems(Items(file.tokens, p), Len(tokens))
      BY <1>4, <1>5, <1>6, <2>3, FirstOfItems
    <2> DEFINE c == Contents(file.mem)
               all == Items(file.tokens, p)
    <2>6. c \in Seq(Item) /\ all \in Seq(Item) /\ Len(tokens) <= Len(c) /\ Len(tokens) <= Len(all)
      BY <1>4, <1>5, <1>6, <1>7, <2>1, <2>3, <2>4
    <2>7. FirstItems(c, Len(tokens)) = FirstItems(all, Len(tokens))
      <3> HIDE DEF c, all
      <3>1. CASE IsPrefix(all, c)
        <4>1. all = FirstItems(c, Len(all)) /\ Len(all) \in Nat
          BY <2>6, <3>1, PrefixIs
        <4>2. FirstItems(FirstItems(c, Len(all)), Len(tokens)) = FirstItems(c, Len(tokens))
          BY <1>6, <2>6, <4>1, FirstOfFirst
        <4>3. QED BY <4>1, <4>2
      <3>2. CASE IsPrefix(c, all)
        <4>1. c = FirstItems(all, Len(c)) /\ Len(c) \in Nat
          BY <2>6, <3>2, PrefixIs
        <4>2. FirstItems(FirstItems(all, Len(c)), Len(tokens)) = FirstItems(all, Len(tokens))
          BY <1>6, <2>6, <4>1, FirstOfFirst
        <4>3. QED BY <4>1, <4>2
      <3>3. IsPrefix(all, c) \/ IsPrefix(c, all)
        BY <2>2 DEF c, all
      <3>4. QED BY <3>1, <3>2, <3>3
    <2>8. Contents(r.mem) = Items(tokens, p)
      BY <1>7, <2>1, <2>5, <2>7
    <2>9. FirstItems(Items(tokens, p), Len(tokens)) = Items(tokens, p)
      <3>1. Items(tokens, p) \in Seq(Item) /\ Len(Items(tokens, p)) = Len(tokens)
        BY <1>2, <2>2, TokenItems
      <3>2. QED BY <1>6, <3>1, FirstItemsAll
    <2>10. Backed(r.mem, tokens, file.sidecar)
      BY <1>7, <2>1, <2>2, <2>8, <2>9 DEF Backed
    <2>11. QED BY <1>1, <1>2, <1>6, <1>7, <1>8, <2>1, <2>10 DEF s
  <1>11. QED BY <1>9, <1>10

-----------------------------------------------------------------------------
(* The slot between requests                                               *)

\* A slot that is not working on anything: nothing but the cache and the file matters.
LEMMA AtRest ==
  ASSUME TypeInv', pc' = "update", state' \in {"idle", "done"},
         paths'.load => cache_tokens' = <<>>,
         Backed(mem', cache_tokens', hashes'), FileTrue'
  PROVE  SlotInv'
  <1>1. ~Active' /\ ~Working'
    BY DEF Active, Working
  <1>2. StageInv'
    BY <1>1 DEF StageInv
  <1>3. OwnInv' /\ SaveInv' /\ ChunksInv' /\ CacheInv' /\ FileInv'
    BY <1>1 DEF OwnInv, SaveInv, ChunksInv, CacheInv, FileInv
  <1>4. QED BY <1>2, <1>3 DEF SlotInv

\* After reset() the slot is at rest, whatever it did before.
LEMMA ResetStep ==
  ASSUME reset, pc' = "update", CacheTyped', FileTyped', FileTrue',
         Backed(mem', cache_tokens', hashes')
  PROVE  SlotInv'
  <1>1. /\ state' = "idle" /\ task_type' = "completion" /\ documents' = <<>>
        /\ paths' = NoUse /\ media_processed' = FALSE
        /\ n_past' = 0 /\ save_prompt_state_tokens' = -1 /\ captured' = FALSE
    BY DEF reset
  <1>2. paths' \in Use /\ ~paths'.load
    BY <1>1 DEF Use, NoUse
  <1>3. RequestTyped'
    <2>1. <<>> \in Seq(Documents)
      OBVIOUS
    <2>2. QED BY <1>1, <1>2, <2>1 DEF RequestTyped, Active
  <1>4. ProgressTyped'
    BY <1>1 DEF ProgressTyped
  <1>5. TypeInv'
    BY <1>3, <1>4 DEF TypeInv
  <1>6. QED BY <1>1, <1>2, <1>5, AtRest

\* What is in a memory that is worked with is named by cache_tokens and its picture.
LEMMA WorkingMemory ==
  ASSUME SlotInv, Working
  PROVE  /\ prompt \in Prompts /\ Picture(prompt) \in Pic /\ hashes = Picture(prompt)
         /\ Sound(mem, Item) /\ IsTokens(cache_tokens) /\ n_past \in Nat
         /\ Len(cache_tokens) \in Nat /\ n_past <= Len(cache_tokens)
         /\ Own \in Seq(Item) /\ Len(Own) = Len(cache_tokens)
         /\ Contents(mem) = FirstItems(Own, Frontier(mem))
         /\ Len(Contents(mem)) = Frontier(mem) /\ Frontier(mem) \in Nat
         /\ Frontier(mem) <= n_past /\ (Frontier(mem) = n_past \/ PassedOver)
  <1>1. /\ prompt \in Prompts /\ hashes = Picture(prompt)
        /\ Sound(mem, Item) /\ IsTokens(cache_tokens) /\ n_past \in Nat
        /\ n_past <= Len(cache_tokens) /\ Contents(mem) = FirstItems(Own, Frontier(mem))
        /\ Frontier(mem) = n_past \/ PassedOver
    BY DEF SlotInv, TypeInv, CacheTyped, RequestTyped, ProgressTyped, OwnInv, OwnMemory, Working
  <1>2. Picture(prompt) \in Pic
    BY <1>1, PromptTyped
  <1>3. /\ Own \in Seq(Item) /\ Len(Own) = Len(cache_tokens) /\ Len(cache_tokens) \in Nat
        /\ cache_tokens \in Seq(Item)
    BY <1>1, <1>2, TokenItems DEF Own
  <1>4. Len(Contents(mem)) = Frontier(mem) /\ Frontier(mem) \in Nat
    BY <1>1, ContentsAre
  <1>5. Frontier(mem) <= n_past
    <2>1. Len(FirstItems(cache_tokens, n_past)) = n_past
      BY <1>1, <1>3, FirstItemsAre
    <2>2. PassedOver => Frontier(mem) <= n_past
      BY <1>1, <1>4, <2>1 DEF PassedOver, OnlyPlaceholdersMissing
    <2>3. QED BY <1>1, <1>4, <2>2
  <1>6. QED BY <1>1, <1>2, <1>3, <1>4, <1>5

LEMMA WorkingBacked ==
  ASSUME SlotInv, Working
  PROVE  Backed(mem, cache_tokens, hashes)
  BY WorkingMemory DEF Backed, Own

\* The memory is backed whenever a request may be answered.
LEMMA AnsweredBacked ==
  ASSUME SlotInv, pc # "chunks"
  PROVE  Backed(mem, cache_tokens, hashes)
  <1>1. CASE Working
    BY <1>1, WorkingBacked
  <1>2. CASE ~Working
    BY <1>2 DEF SlotInv, StageInv, CacheInv, Working
  <1>3. QED BY <1>1, <1>2

\* The slot is reset, and its cache and file are left as they are.
LEMMA AnsweredStep ==
  ASSUME SlotInv, pc # "chunks", reset, pc' = "update", UNCHANGED <<cache, file, writing>>
  PROVE  SlotInv'
  <1>1. CacheTyped' /\ FileTyped' /\ FileTrue'
    BY DEF SlotInv, TypeInv, CacheTyped, FileTyped, FileInv, FileTrue, cache
  <1>2. Backed(mem', cache_tokens', hashes')
    BY AnsweredBacked DEF cache
  <1>3. QED BY <1>1, <1>2, ResetStep

\* The slot is reset, and its memory is emptied.
LEMMA EmptiedStep ==
  ASSUME SlotInv, reset, pc' = "update", mem' = Cleared(mem.kind),
         IsTokens(cache_tokens'), hashes' \in Pic, FileTyped', FileTrue'
  PROVE  SlotInv'
  <1>1. mem.kind \in Kinds
    BY ContentsAre DEF SlotInv, TypeInv, CacheTyped
  <1>2. CacheTyped'
    BY <1>1, ClearedSound DEF CacheTyped
  <1>3. Backed(mem', cache_tokens', hashes')
    BY <1>1, ClearedBacked
  <1>4. QED BY <1>2, <1>3, ResetStep

LEMMA ChunkFailsStep ==
  ASSUME SlotInv, ChunkFails
  PROVE  SlotInv'
  <1>1. /\ mem' = Cleared(mem.kind) /\ cache_tokens' = <<>> /\ hashes' = NoPicture
        /\ reset /\ pc' = "update" /\ file' = file /\ writing' = writing
    BY DEF ChunkFails
  <1>2. FileTyped' /\ FileTrue'
    BY <1>1 DEF SlotInv, TypeInv, FileTyped, FileInv, FileTrue
  <1>3. IsTokens(cache_tokens') /\ hashes' \in Pic
    BY <1>1, EmptyTokens DEF Pic
  <1>4. QED BY <1>1, <1>2, <1>3, EmptiedStep

LEMMA CrashStep ==
  ASSUME SlotInv, Crash
  PROVE  SlotInv'
  <1>1. /\ mem' = Cleared(mem.kind) /\ cache_tokens' = <<>> /\ hashes' = NoPicture
        /\ reset /\ pc' = "update" /\ writing' = NotWriting
        /\ file' \in {file, Broken(file)}
    BY DEF Crash, Complete
  <1>2. /\ file \in File /\ Sound(file.mem, Item) /\ IsTokens(file.tokens) /\ FileTrue
    BY DEF SlotInv, TypeInv, FileTyped, FileInv
  <1>3. file' \in File /\ file'.mem = file.mem /\ file'.tokens = file.tokens
    BY <1>1, <1>2 DEF Broken, File
  <1>4. writing' \in Writing /\ IsTokens(writing'.tokens)
    BY <1>1, EmptyTokens DEF Writing, NotWriting, Pic
  <1>5. FileTyped'
    BY <1>2, <1>3, <1>4 DEF FileTyped
  <1>6. FileTrue'
    BY <1>1, <1>2 DEF FileTrue, Broken, File
  <1>7. IsTokens(cache_tokens') /\ hashes' \in Pic
    BY <1>1, EmptyTokens DEF Pic
  <1>8. QED BY <1>1, <1>5, <1>6, <1>7, EmptiedStep

LEMMA DecodeFailsStep ==
  ASSUME SlotInv, DecodeFails
  PROVE  SlotInv'
  BY AnsweredStep DEF DecodeFails, BuildsBatch

LEMMA AnswerEmbeddingStep ==
  ASSUME SlotInv, AnswerEmbedding
  PROVE  SlotInv'
  BY AnsweredStep DEF AnswerEmbedding, Complete

LEMMA CompleteSavedStep ==
  ASSUME SlotInv, CompleteSaved
  PROVE  SlotInv'
  BY AnsweredStep DEF CompleteSaved, Complete

LEMMA CancelStep ==
  ASSUME SlotInv, Cancel
  PROVE  SlotInv'
  BY AnsweredStep DEF Cancel, Complete

LEMMA ReleaseStep ==
  ASSUME SlotInv, Release
  PROVE  SlotInv'
  BY AnsweredStep DEF Release, Complete

\* clearCache(): the memory is empty, whatever cache_tokens say.
LEMMA ClearCacheStep ==
  ASSUME SlotInv, ClearCache
  PROVE  SlotInv'
  <1>1. /\ pc' = "update" /\ state' = "idle" /\ state = "idle" /\ mem' = Cleared(mem.kind)
        /\ UNCHANGED <<cache_tokens, hashes, request, progress, file, writing>>
    BY DEF ClearCache
  <1>2. mem.kind \in Kinds /\ IsTokens(cache_tokens) /\ hashes \in Pic
    BY ContentsAre DEF SlotInv, TypeInv, CacheTyped
  <1>3. Sound(mem', Item) /\ Backed(mem', cache_tokens, hashes)
    BY <1>1, <1>2, ClearedSound, ClearedBacked
  <1>4. TypeInv'
    <2>1. CacheTyped'
      BY <1>1, <1>2, <1>3 DEF CacheTyped
    <2>2. RequestTyped' /\ ProgressTyped' /\ FileTyped'
      BY <1>1 DEF SlotInv, TypeInv, RequestTyped, ProgressTyped, FileTyped, Active,
                  request, progress
    <2>3. QED BY <2>1, <2>2 DEF TypeInv
  <1>5. paths'.load => cache_tokens' = <<>>
    BY <1>1 DEF SlotInv, StageInv, Active, request
  <1>6. FileTrue'
    BY <1>1 DEF SlotInv, FileInv, FileTrue
  <1>7. QED BY <1>1, <1>3, <1>4, <1>5, <1>6, AtRest

-----------------------------------------------------------------------------
(* Loading a prompt                                                        *)

LEMMA LoadedPrefixIs ==
  ASSUME NEW m, NEW t, IsTokens(t), NEW text, IsTokens(text), text # <<>>
  PROVE  LET n == LoadedPrefix(m, t, text)
         IN /\ n \in Nat /\ n < Len(text) /\ n <= Len(t)
            /\ FirstItems(t, n) = FirstItems(text, n)
  <1> DEFINE common == CommonPrefix(t, text)
             n == LoadedPrefix(m, t, text)
  <1>1. /\ t \in Seq(Item) /\ text \in Seq(Item)
        /\ Len(t) \in Nat /\ Len(text) \in Nat /\ Len(text) > 0
    BY DEF IsTokens
  <1>2. /\ common \in Nat /\ common <= Len(t) /\ common <= Len(text)
        /\ FirstItems(t, common) = FirstItems(text, common)
    BY <1>1, CommonPrefixIs
  <1>3. n = IF HasRecurrent(m) /\ common < Len(t) THEN 0
            ELSE IF common = Len(text) THEN common - 1 ELSE common
    BY DEF LoadedPrefix
  <1> HIDE DEF common, n
  <1>4. n \in Nat /\ n < Len(text) /\ n <= common
    BY <1>1, <1>2, <1>3
  <1>5. /\ FirstItems(FirstItems(t, common), n) = FirstItems(t, n)
        /\ FirstItems(FirstItems(text, common), n) = FirstItems(text, n)
    <2>1. FirstItems(FirstItems(t, common), n) = FirstItems(t, n)
      BY <1>1, <1>2, <1>4, FirstOfFirst
    <2>2. FirstItems(FirstItems(text, common), n) = FirstItems(text, n)
      BY <1>1, <1>2, <1>4, FirstOfFirst
    <2>3. QED BY <2>1, <2>2
  <1>6. n <= Len(t) /\ FirstItems(t, n) = FirstItems(text, n)
    BY <1>1, <1>2, <1>4, <1>5
  <1>7. QED BY <1>4, <1>6 DEF n

LEMMA CheckpointTargetIs ==
  ASSUME NEW use, NEW text, IsTokens(text), text # <<>>, NEW n \in Nat
  PROVE  LET target == CheckpointTarget(use, text, n)
         IN target = -1 \/ (target \in Nat /\ n <= target /\ target <= Len(text))
  <1>1. Len(text) \in Nat /\ Len(text) > 0
    BY DEF IsTokens
  <1>2. QED BY <1>1 DEF CheckpointTarget

\* load_prompt() from a cache that backs what it holds: what is kept of it is the
\* beginning of the prompt.
LEMMA LoadPrompt ==
  ASSUME NEW items \in Prompts, NEW use, NEW m, NEW t, NEW h,
         Sound(m, Item), IsTokens(t), h \in Pic, Backed(m, t, h),
         use.load => Frontier(m) <= Len(t) \/ t = <<>>,
         load_prompt(items, use, [mem |-> m, tokens |-> t, hashes |-> h]),
         pc' = "update", task_type' \in {"completion", "embedding", "rerank"},
         documents' \in Seq(Documents), paths' \in Use, FileTyped', FileTrue'
  PROVE  SlotInv'
  <1> DEFINE text == Tokens(items)
             reuse == IF use.load /\ t # <<>> THEN LoadedPrefix(m, t, text) ELSE 0
             r == reconcile_memory_to(m, reuse)
  <1>1. /\ IsPrompt(items) /\ items # <<>> /\ items \in Seq(Item) /\ Picture(items) \in Pic
        /\ IsTokens(text) /\ Len(text) = Len(items) /\ Len(items) \in Nat /\ Len(items) > 0
        /\ Items(text, Picture(items)) = items
    BY PromptTyped
  <1>2. /\ prompt' = items /\ state' = "prompt" /\ captured' = FALSE
        /\ IF Picture(items) # NoPicture
           THEN /\ mem' = m /\ cache_tokens' = t /\ hashes' = h
                /\ n_past' = 0 /\ media_processed' = FALSE
           ELSE /\ mem' = r.mem /\ cache_tokens' = text /\ hashes' = NoPicture
                /\ n_past' = r.n /\ media_processed' = TRUE
        /\ save_prompt_state_tokens' = CheckpointTarget(use, text, n_past')
    BY DEF load_prompt
  <1>3. text # <<>>
    BY <1>1
  <1>4. /\ reuse \in Nat /\ reuse < Len(text)
        /\ reuse > 0 => /\ use.load /\ t # <<>> /\ reuse <= Len(t)
                        /\ FirstItems(t, reuse) = FirstItems(text, reuse)
    <2>1. CASE use.load /\ t # <<>>
      <3> DEFINE n == LoadedPrefix(m, t, text)
      <3>1. /\ n \in Nat /\ n < Len(text) /\ n <= Len(t)
            /\ FirstItems(t, n) = FirstItems(text, n)
        BY <1>1, <1>3, LoadedPrefixIs
      <3>2. reuse = n
        BY <2>1
      <3> HIDE DEF n, reuse
      <3>3. QED BY <2>1, <3>1, <3>2
    <2>2. CASE ~(use.load /\ t # <<>>)
      <3>1. reuse = 0
        BY <2>2
      <3> HIDE DEF reuse
      <3>2. QED BY <1>1, <3>1
    <2>3. QED BY <2>1, <2>2
  <1> HIDE DEF text, reuse
  <1>5. /\ Sound(r.mem, Item) /\ r.n \in {0, reuse}
        /\ Contents(r.mem) = FirstItems(Contents(m), r.n)
        /\ Len(Contents(r.mem)) = r.n /\ r.n <= Len(Contents(m))
    BY <1>4, Reconciled
  <1> HIDE DEF r
  <1>6. RequestTyped' /\ FileTyped'
    BY <1>2 DEF RequestTyped, Active
  <1>7. n_past' \in Nat
    BY <1>2, <1>4, <1>5
  <1>8. \/ save_prompt_state_tokens' = -1
        \/ /\ save_prompt_state_tokens' \in Nat /\ n_past' <= save_prompt_state_tokens'
           /\ save_prompt_state_tokens' <= Len(items)
    BY <1>1, <1>2, <1>3, <1>7, CheckpointTargetIs
  <1>9. ProgressTyped'
    BY <1>2, <1>7, <1>8 DEF ProgressTyped
  <1>10. CASE Picture(items) # NoPicture
    <2>1. Active' /\ MediaPending' /\ ~Working'
      BY <1>2, <1>10 DEF Active, MediaPending, Working
    <2>2. TypeInv'
      BY <1>2, <1>6, <1>9, <1>10 DEF TypeInv, CacheTyped
    <2>3. StageInv'
      BY <1>2, <2>1 DEF StageInv
    <2>4. CacheInv'
      BY <1>2, <1>10 DEF CacheInv
    <2>5. OwnInv' /\ SaveInv' /\ ChunksInv' /\ FileInv'
      BY <2>1 DEF OwnInv, SaveInv, ChunksInv, FileInv
    <2>6. QED BY <2>2, <2>3, <2>4, <2>5 DEF SlotInv
  <1>11. CASE Picture(items) = NoPicture
    <2>1. Active' /\ ~MediaPending' /\ Working'
      BY <1>2, <1>11 DEF Active, MediaPending, Working
    <2>2. TypeInv'
      BY <1>1, <1>2, <1>5, <1>6, <1>9, <1>11 DEF TypeInv, CacheTyped, Pic
    <2>3. StageInv'
      BY <1>2, <2>1 DEF StageInv
    <2>4. n_past' < Len(items)
      BY <1>1, <1>2, <1>4, <1>5, <1>11
    <2>5. Own' = items
      BY <1>1, <1>2, <1>11 DEF Own
    <2>6. Contents(mem') = FirstItems(items, n_past')
      <3>1. CASE n_past' = 0
        <4>1. Contents(m) \in Seq(Item)
          BY ContentsAre
        <4>2. FirstItems(Contents(m), 0) = <<>> /\ FirstItems(items, 0) = <<>>
          BY <1>1, <4>1, FirstItemsNone
        <4>3. QED BY <1>2, <1>5, <1>11, <3>1, <4>2
      <3>2. CASE n_past' # 0
        <4>1. n_past' = reuse /\ r.n = reuse /\ reuse > 0
          BY <1>2, <1>4, <1>5, <1>11, <3>2
        <4>2. Frontier(m) <= Len(t) /\ FirstItems(t, reuse) = FirstItems(text, reuse)
          BY <1>4, <4>1
        <4>3. PICK p \in Pic : Contents(m) = FirstItems(Items(t, p), Len(Contents(m)))
          BY <4>2 DEF Backed
        <4>4. \A i \in 1 .. reuse : items[i] \notin Pictures
          <5>1. OnePicture(items)
            BY <1>1, ItemIs, PromptIs
          <5>2. \A i \in 1 .. Len(items) : items[i] \in Pictures => Picture(items) = items[i]
            BY <1>1, <5>1, PictureIs
          <5>3. QED BY <1>1, <1>4, <1>11, <5>2, ItemIs
        <4>5. Contents(m) \in Seq(Item)
          BY ContentsAre
        <4>6. reuse <= Len(Contents(m)) /\ reuse <= Len(items)
          BY <1>1, <1>4, <1>5, <4>1
        <4>7. FirstItems(Contents(m), reuse) = FirstItems(items, reuse)
          BY <1>4, <4>2, <4>3, <4>4, <4>5, <4>6, CommonContents DEF text
        <4>8. QED BY <1>2, <1>5, <1>11, <4>1, <4>7
      <3>3. QED BY <3>1, <3>2
    <2>7. IsPrefix(Tokens(prompt), cache_tokens)'
      <3>1. text \in Seq(Item) /\ FirstItems(text, Len(text)) = text
        BY <1>1, FirstItemsAll DEF IsTokens
      <3>2. IsPrefix(text, text)
        BY <1>1, <3>1, PrefixIs
      <3>3. QED BY <1>2, <1>11, <3>2 DEF text
    <2>8. Frontier(mem') = n_past'
      <3>1. Sound(mem', Item) /\ Len(Contents(mem')) = n_past'
        BY <1>2, <1>5, <1>11
      <3>2. QED BY <3>1, ContentsAre
    <2>9. \A i \in n_past' + 1 .. Len(items) : cache_tokens'[i] # Null
      <3>1. /\ \A i \in 1 .. Len(items) : text[i] = IF items[i] \in Pictures THEN Null ELSE items[i]
            /\ \A i \in 1 .. Len(items) : items[i] # Null
        BY <1>1, ItemIs, TokensAre, PromptIs DEF text
      <3>2. \A i \in 1 .. Len(items) : items[i] \notin Pictures
        <4>1. OnePicture(items)
          BY <1>1, ItemIs, PromptIs
        <4>2. \A i \in 1 .. Len(items) : items[i] \in Pictures => Picture(items) = items[i]
          BY <1>1, <4>1, PictureIs
        <4>3. QED BY <1>11, <4>2, ItemIs
      <3>3. \A i \in 1 .. Len(items) : text[i] # Null
        BY <3>1, <3>2
      <3>4. \A i \in n_past' + 1 .. Len(items) : i \in 1 .. Len(items)
        <4>1. \A a, b \in Nat : \A i \in a + 1 .. b : i \in 1 .. b
          OBVIOUS
        <4>2. QED BY <1>1, <1>7, <4>1
      <3>5. cache_tokens' = text
        BY <1>2, <1>11
      <3>6. QED BY <3>3, <3>4, <3>5
    <2>10. OwnMemory' /\ Remainder'
      BY <1>2, <2>5, <2>6, <2>8, <2>9 DEF OwnMemory, Remainder
    <2>11. OwnInv'
      BY <1>1, <1>2, <1>7, <1>11, <2>4, <2>7, <2>10 DEF OwnInv, text
    <2>12. SaveInv'
      BY <1>2, <1>8 DEF SaveInv
    <2>13. ChunksInv' /\ CacheInv' /\ FileInv'
      BY <2>1 DEF ChunksInv, CacheInv, FileInv, Working
    <2>14. QED BY <2>2, <2>3, <2>11, <2>12, <2>13 DEF SlotInv
  <1>12. QED BY <1>10, <1>11

\* What holds of a slot that may be claimed.
LEMMA ClaimedIs ==
  ASSUME SlotInv, Claims
  PROVE  /\ ~Active /\ pc = "update" /\ state \in {"idle", "done"}
         /\ Sound(mem, Item) /\ IsTokens(cache_tokens) /\ hashes \in Pic
         /\ mem.kind \in Kinds /\ paths \in Use /\ documents \in Seq(Documents)
         /\ paths.load => cache_tokens = <<>>
         /\ Backed(mem, cache_tokens, hashes) /\ FileTyped /\ FileTrue
  <1>1. ~Active /\ pc = "update" /\ state \in {"idle", "done"}
    BY DEF Claims, Active
  <1>2. /\ Sound(mem, Item) /\ IsTokens(cache_tokens) /\ hashes \in Pic /\ FileTyped
        /\ paths \in Use /\ documents \in Seq(Documents) /\ FileTrue
    BY DEF SlotInv, TypeInv, CacheTyped, RequestTyped, FileInv
  <1>3. Backed(mem, cache_tokens, hashes) /\ (paths.load => cache_tokens = <<>>)
    BY <1>1 DEF SlotInv, StageInv, CacheInv
  <1>4. QED BY <1>1, <1>2, <1>3, ContentsAre

LEMMA ClaimCompletionStep ==
  ASSUME SlotInv, NEW p \in Completions, NEW use \in UsesOfFile, ClaimCompletion(p, use)
  PROVE  SlotInv'
  <1> DEFINE s == IF use.load THEN load_state(file, use.load_size)
                  ELSE [mem |-> mem, tokens |-> cache_tokens, hashes |-> hashes]
  <1>1. /\ use.load => file.state = "whole"
        /\ task_type' = "completion" /\ documents' = <<>> /\ paths' = use
        /\ load_prompt(p, use, s)
        /\ pc' = pc /\ file' = file /\ writing' = writing
    BY DEF ClaimCompletion
  <1>2. Claims
    BY DEF ClaimCompletion
  <1>3. use \in Use /\ use.load_size \in Nat /\ p \in Prompts
    BY SlotStateAssumption DEF Use, Prompts
  <1>4. /\ Sound(s.mem, Item) /\ IsTokens(s.tokens) /\ s.hashes \in Pic
        /\ Backed(s.mem, s.tokens, s.hashes)
        /\ use.load => Frontier(s.mem) <= Len(s.tokens) \/ s.tokens = <<>>
        /\ s = [mem |-> s.mem, tokens |-> s.tokens, hashes |-> s.hashes]
    <2>1. CASE use.load
      <3> DEFINE l == load_state(file, use.load_size)
      <3>1. /\ Sound(l.mem, Item) /\ IsTokens(l.tokens) /\ l.hashes \in Pic
            /\ Backed(l.mem, l.tokens, l.hashes) /\ Frontier(l.mem) <= Len(l.tokens)
        BY <1>1, <1>2, <1>3, <2>1, ClaimedIs, LoadedStateIs
      <3>2. l = [mem |-> l.mem, tokens |-> l.tokens, hashes |-> l.hashes]
        BY DEF load_state
      <3>3. s = l
        BY <2>1
      <3> HIDE DEF l, s
      <3>4. QED BY <3>1, <3>2, <3>3
    <2>2. CASE ~use.load
      BY <1>2, <2>2, ClaimedIs
    <2>3. QED BY <2>1, <2>2
  <1> HIDE DEF s
  <1>5. FileTyped' /\ FileTrue'
    BY <1>1, <1>2, ClaimedIs DEF FileTyped, FileTrue
  <1>6. pc' = "update"
    BY <1>1, <1>2, ClaimedIs
  <1>7. documents' \in Seq(Documents)
    BY <1>1
  <1>8. QED BY <1>1, <1>3, <1>4, <1>5, <1>6, <1>7, LoadPrompt

LEMMA ClaimEmbeddingStep ==
  ASSUME SlotInv, NEW p \in Documents, ClaimEmbedding(p)
  PROVE  SlotInv'
  <1>1. /\ Claims /\ task_type' = "embedding" /\ documents' = <<>> /\ paths' = paths
        /\ load_prompt(p, paths, [mem |-> mem, tokens |-> cache_tokens, hashes |-> hashes])
        /\ pc' = pc /\ file' = file /\ writing' = writing
    BY DEF ClaimEmbedding
  <1>2. FileTyped' /\ FileTrue' /\ pc' = "update" /\ documents' \in Seq(Documents)
    BY <1>1, ClaimedIs DEF FileTyped, FileTrue
  <1>3. p \in Prompts
    BY DEF Prompts
  <1>4. QED BY <1>1, <1>2, <1>3, ClaimedIs, LoadPrompt

\* The memory is emptied before a document is loaded.
LEMMA LoadDocument ==
  ASSUME NEW p \in Documents, mem.kind \in Kinds, IsTokens(cache_tokens), hashes \in Pic,
         load_prompt(p, paths, [mem |-> Cleared(mem.kind), tokens |-> cache_tokens,
                                hashes |-> hashes]),
         pc' = "update", task_type' = "rerank",
         documents' \in Seq(Documents), paths' \in Use, FileTyped', FileTrue'
  PROVE  SlotInv'
  <1> DEFINE m == Cleared(mem.kind)
  <1>1. /\ Sound(m, Item) /\ Contents(m) = <<>> /\ Backed(m, cache_tokens, hashes)
    BY ClearedSound, ClearedBacked
  <1>2. p \in Prompts
    BY DEF Prompts
  <1>3. Len(cache_tokens) \in Nat
    BY TokenItems, ItemIs DEF IsTokens
  <1>4. Frontier(m) <= Len(cache_tokens)
    BY <1>1, <1>3, ContentsAre
  <1> HIDE DEF m
  <1>5. load_prompt(p, paths, [mem |-> m, tokens |-> cache_tokens, hashes |-> hashes])
    BY DEF m
  <1>6. QED BY <1>1, <1>2, <1>4, <1>5, LoadPrompt

LEMMA ClaimRerankStep ==
  ASSUME SlotInv, NEW docs \in {<<>>} \cup (Documents \X Documents), ClaimRerank(docs)
  PROVE  SlotInv'
  <1>1. Claims /\ task_type' = "rerank" /\ UNCHANGED <<paths, pc, logits, file, writing>>
    BY DEF ClaimRerank
  <1>2. FileTyped' /\ FileTrue' /\ pc' = "update" /\ paths' \in Use
    BY <1>1, ClaimedIs DEF FileTyped, FileTrue
  <1>3. CASE docs = <<>>
    <2>1. /\ mem' = Cleared(mem.kind)
          /\ UNCHANGED <<cache_tokens, hashes, state, prompt, documents, progress>>
      BY <1>3 DEF ClaimRerank
    <2>2. Sound(mem', Item) /\ Backed(mem', cache_tokens', hashes')
      BY <1>1, <2>1, ClaimedIs, ClearedSound, ClearedBacked
    <2>3. CacheTyped'
      BY <1>1, <2>1, <2>2, ClaimedIs DEF CacheTyped
    <2>4. RequestTyped'
      BY <1>1, <2>1 DEF SlotInv, TypeInv, RequestTyped, Active
    <2>5. ProgressTyped'
      BY <1>1, <2>1 DEF SlotInv, TypeInv, ProgressTyped, progress
    <2>6. TypeInv'
      BY <1>2, <2>3, <2>4, <2>5 DEF TypeInv
    <2>7. state' \in {"idle", "done"} /\ (paths'.load => cache_tokens' = <<>>)
      BY <1>1, <2>1, ClaimedIs
    <2>8. QED BY <1>2, <2>2, <2>6, <2>7, AtRest
  <1>4. CASE docs # <<>>
    <2>1. docs \in Documents \X Documents
      BY <1>4
    <2>2. Head(docs) \in Documents /\ Tail(docs) \in Seq(Documents)
      <3>1. PICK a, b \in Documents : docs = <<a, b>>
        BY <2>1
      <3>2. Head(<<a, b>>) = a /\ Tail(<<a, b>>) \in Seq(Documents)
        OBVIOUS
      <3>3. QED BY <3>1, <3>2
    <2>3. /\ documents' = Tail(docs)
          /\ load_prompt(Head(docs), paths,
               [mem |-> Cleared(mem.kind), tokens |-> cache_tokens, hashes |-> hashes])
      BY <1>4 DEF ClaimRerank
    <2>4. QED BY <1>1, <1>2, <2>2, <2>3, ClaimedIs, LoadDocument
  <1>5. QED BY <1>3, <1>4

LEMMA FailLoadStep ==
  ASSUME SlotInv, NEW use \in UsesOfFile, FailLoad(use)
  PROVE  SlotInv'
  <1>1. /\ Claims /\ task_type' = "completion" /\ paths' = use
        /\ state' = "done" /\ cache_tokens' = <<>>
        /\ mem' = IF file.state = "cut" THEN Cleared(mem.kind) ELSE mem
        /\ UNCHANGED <<hashes, prompt, documents, progress, pc, logits, file, writing>>
    BY DEF FailLoad
  <1>2. use \in Use
    BY SlotStateAssumption DEF Use
  <1>3. FileTyped' /\ FileTrue' /\ pc' = "update"
    BY <1>1, ClaimedIs DEF FileTyped, FileTrue
  <1>4. Sound(mem', Item)
    BY <1>1, ClaimedIs, ClearedSound
  <1>5. Backed(mem', cache_tokens', hashes')
    BY <1>1, <1>4, ClaimedIs, EmptyBacked
  <1>6. TypeInv'
    <2>1. CacheTyped'
      BY <1>1, <1>4, ClaimedIs, EmptyTokens DEF CacheTyped
    <2>2. RequestTyped'
      BY <1>1, <1>2, ClaimedIs DEF RequestTyped, Active
    <2>3. ProgressTyped'
      BY <1>1 DEF SlotInv, TypeInv, ProgressTyped, progress
    <2>4. QED BY <1>3, <2>1, <2>2, <2>3 DEF TypeInv
  <1>7. QED BY <1>1, <1>3, <1>5, <1>6, AtRest

LEMMA ScoreDocumentStep ==
  ASSUME SlotInv, ScoreDocument
  PROVE  SlotInv'
  <1>1. /\ pc = "sample" /\ task_type = "rerank" /\ file' = file /\ writing' = writing
    BY DEF ScoreDocument
  <1>2. /\ mem.kind \in Kinds /\ IsTokens(cache_tokens) /\ hashes \in Pic
        /\ documents \in Seq(Documents) /\ paths \in Use /\ FileTyped /\ FileTrue
    BY ContentsAre DEF SlotInv, TypeInv, CacheTyped, RequestTyped, FileInv
  <1>3. FileTyped' /\ FileTrue'
    BY <1>1, <1>2 DEF FileTyped, FileTrue
  <1>4. CASE documents = <<>>
    <2>1. /\ reset /\ pc' = "update" /\ mem' = Cleared(mem.kind)
          /\ cache_tokens' = cache_tokens /\ hashes' = hashes
      BY <1>4 DEF ScoreDocument, Complete
    <2>2. QED BY <1>2, <1>3, <2>1, EmptiedStep
  <1>5. CASE documents # <<>>
    <2>1. /\ load_prompt(Head(documents), paths,
               [mem |-> Cleared(mem.kind), tokens |-> cache_tokens, hashes |-> hashes])
          /\ documents' = Tail(documents) /\ pc' = "update"
          /\ task_type' = task_type /\ paths' = paths
      BY <1>5 DEF ScoreDocument
    <2>2. Head(documents) \in Documents /\ Tail(documents) \in Seq(Documents)
      BY <1>2, <1>5
    <2>3. QED BY <1>1, <1>2, <1>3, <2>1, <2>2, LoadDocument
  <1>6. QED BY <1>4, <1>5

-----------------------------------------------------------------------------
(* A slot at work                                                          *)

LEMMA SkipSamplingStep ==
  ASSUME SlotInv, SkipSampling
  PROVE  SlotInv'
  <1>1. /\ pc = "sample" /\ state = "prompt" /\ pc' = "update" /\ Working
        /\ UNCHANGED <<cache, state, request, progress, logits, file, writing>>
    BY DEF SkipSampling, SlotInv, StageInv
  <1>2. Active' /\ ~MediaPending' /\ Working' /\ state' = "prompt"
    BY <1>1 DEF Working, Active, MediaPending, request, progress
  <1>3. TypeInv'
    BY <1>1 DEF SlotInv, TypeInv, CacheTyped, RequestTyped, ProgressTyped,
                FileTyped, Active, cache, request, progress
  <1>4. StageInv'
    BY <1>1, <1>2 DEF StageInv
  <1>5. OwnInv'
    BY <1>1, <1>2 DEF SlotInv, OwnInv, OwnMemory, Remainder, PassedOver, Own, cache, request,
                      progress
  <1>6. SaveInv'
    BY <1>1, <1>2 DEF SlotInv, SaveInv, request, progress
  <1>7. ChunksInv' /\ CacheInv'
    BY <1>1, <1>2 DEF ChunksInv, CacheInv
  <1>8. FileInv'
    BY <1>1 DEF SlotInv, FileInv, FileTrue
  <1>9. QED BY <1>3, <1>4, <1>5, <1>6, <1>7, <1>8 DEF SlotInv

\* What names the memory may be written with it, as far as the memory goes.
LEMMA RetainedTruthful ==
  ASSUME SlotInv, Working, NEW tokens, IsTokens(tokens),
         FirstItems(Items(tokens, hashes), Frontier(mem)) = FirstItems(Own, Frontier(mem)),
         NEW n \in Nat, n <= Frontier(mem), HasRecurrent(mem) => n = Frontier(mem)
  PROVE  Truthful(FirstItems(tokens, n), mem, MediaRetained(tokens, n))
  <1> DEFINE picture == MediaRetained(tokens, n)
  <1>1. /\ Sound(mem, Item) /\ hashes \in Pic
        /\ Contents(mem) = FirstItems(Own, Frontier(mem))
        /\ Len(Contents(mem)) = Frontier(mem) /\ Frontier(mem) \in Nat
    BY WorkingMemory
  <1>2. picture # NoPicture => hashes = picture /\ Null \in ToSet(FirstItems(tokens, n))
    BY DEF MediaRetained
  <1> HIDE DEF picture
  <1>3. /\ Contents(mem) = FirstItems(Items(tokens, hashes), Len(Contents(mem)))
        /\ n <= Len(Contents(mem)) /\ (HasRecurrent(mem) => n = Len(Contents(mem)))
    BY <1>1
  <1>4. Truthful(FirstItems(tokens, n), mem, picture)
    BY <1>1, <1>2, <1>3, SavedTruthful
  <1>5. QED BY <1>4 DEF picture

\* A prompt may be written with a memory that lacks the end of its picture.
LEMMA PassedOverTruthful ==
  ASSUME SlotInv, Working, PassedOver
  PROVE  Truthful(FirstItems(cache_tokens, n_past), mem, MediaRetained(cache_tokens, n_past))
  <1> DEFINE picture == MediaRetained(cache_tokens, n_past)
             t == FirstItems(cache_tokens, n_past)
  <1>1. /\ hashes \in Pic /\ hashes = Picture(prompt) /\ IsTokens(cache_tokens)
        /\ n_past \in Nat /\ n_past <= Len(cache_tokens) /\ Own \in Seq(Item)
        /\ Contents(mem) = FirstItems(Own, Frontier(mem))
        /\ Frontier(mem) \in Nat /\ Frontier(mem) <= n_past
    BY WorkingMemory
  <1>2. picture # NoPicture => hashes = picture /\ Null \in ToSet(t)
    BY DEF MediaRetained
  <1> HIDE DEF picture
  <1>3. Items(t, hashes) = FirstItems(Own, n_past)
    <2>1. cache_tokens \in Seq(Item) /\ hashes \in Item
      BY <1>1, ItemIs DEF IsTokens
    <2>2. QED BY <1>1, <2>1, FirstOfItems DEF Own
  <1>4. IsPrefix(Contents(mem), Items(t, hashes))
    <2> DEFINE u == FirstItems(Own, n_past)
    <2>1. u \in Seq(Item) /\ FirstItems(u, Frontier(mem)) = FirstItems(Own, Frontier(mem))
      BY <1>1, FirstItemsAre, FirstOfFirst
    <2> HIDE DEF u
    <2>2. IsPrefix(FirstItems(u, Frontier(mem)), u)
      BY <1>1, <2>1, FirstIsPrefix
    <2>3. QED BY <1>1, <1>3, <2>1, <2>2 DEF u
  <1>5. OnlyPlaceholdersMissing(mem, t)
    BY DEF PassedOver
  <1> HIDE DEF t
  <1>6. Truthful(t, mem, picture)
    BY <1>1, <1>2, <1>4, <1>5 DEF Truthful
  <1>7. QED BY <1>6 DEF t, picture

\* What is about to be written tells the truth about the memory.
LEMMA StartWritingIs ==
  ASSUME SlotInv, Working, NEW tokens, IsTokens(tokens), NEW n \in Nat,
         Truthful(FirstItems(tokens, n), mem, MediaRetained(tokens, n)),
         NEW then \in {"sample", "complete"}, StartWriting(tokens, n, then)
  PROVE  /\ FileTyped' /\ FileTrue' /\ pc' = "state file" /\ file'.sidecar = NoPicture
         /\ Truthful(writing'.tokens, mem, writing'.picture) /\ writing'.then = then
  <1> DEFINE written == FirstItems(tokens, n)
             picture == MediaRetained(tokens, n)
  <1>1. /\ file' = WithoutSidecar(file) /\ pc' = "state file"
        /\ writing' = [tokens |-> written, picture |-> picture, then |-> then]
    BY DEF StartWriting
  <1>2. picture \in Pic
    BY WorkingMemory DEF MediaRetained, Pic
  <1>3. IsTokens(written) /\ written \in Seq(Item)
    BY FirstTokens DEF IsTokens
  <1>4. Truthful(written, mem, picture)
    OBVIOUS
  <1> HIDE DEF written, picture
  <1>5. /\ file \in File /\ Sound(file.mem, Item) /\ IsTokens(file.tokens) /\ FileTrue
    BY DEF SlotInv, TypeInv, FileTyped, FileInv
  <1>6. /\ file' \in File /\ file'.mem = file.mem /\ file'.tokens = file.tokens
        /\ file'.state = file.state /\ file'.sidecar = NoPicture
    BY <1>1, <1>5 DEF WithoutSidecar, File, Pic
  <1>7. writing' \in Writing
    BY <1>1, <1>2, <1>3 DEF Writing
  <1>8. FileTyped'
    BY <1>1, <1>3, <1>5, <1>6, <1>7 DEF FileTyped
  <1>9. FileTrue'
    BY <1>5, <1>6, TruthfulWithout DEF FileTrue
  <1>10. QED BY <1>1, <1>4, <1>6, <1>8, <1>9

LEMMA CheckpointStep ==
  ASSUME SlotInv, Checkpoint
  PROVE  SlotInv'
  <1>1. /\ pc = "checkpoint" /\ Working
        /\ UNCHANGED <<cache, state, request, n_past, media_processed, captured, logits>>
    BY DEF Checkpoint, SlotInv, StageInv
  <1>2. Active' /\ ~MediaPending' /\ Working'
    BY <1>1 DEF Working, Active, MediaPending, request
  <1>3. CacheTyped' /\ RequestTyped'
    BY <1>1 DEF SlotInv, TypeInv, CacheTyped, RequestTyped, Active, cache, request
  <1>4. /\ hashes' = Picture(prompt)' /\ n_past' <= Len(cache_tokens')
        /\ IsPrefix(Tokens(prompt), cache_tokens)'
        /\ OwnMemory'
        /\ state' = "prompt" =>
             cache_tokens' = Tokens(prompt)' /\ n_past' < Len(prompt)' /\ Remainder
        /\ state' = "generating" =>
             Len(cache_tokens') = n_past' /\ (PassedOver' \/ logits' = Own')
    BY <1>1 DEF SlotInv, OwnInv, OwnMemory, Remainder, PassedOver, Own, SampleNext, cache,
                request
  <1>5. /\ save_prompt_state_tokens # -1 =>
             /\ n_past <= save_prompt_state_tokens /\ save_prompt_state_tokens <= Len(prompt)
             /\ state = "generating" => n_past = save_prompt_state_tokens
        /\ n_past \in Nat /\ save_prompt_state_tokens \in Nat \cup {-1}
    BY <1>1 DEF SlotInv, SaveInv, TypeInv, ProgressTyped
  <1>6. /\ pc' \in {"state file", "sample"} /\ FileTyped' /\ FileInv'
        /\ save_prompt_state_tokens' \in Nat \cup {-1}
        /\ save_prompt_state_tokens' # -1 =>
             save_prompt_state_tokens' = save_prompt_state_tokens /\ state # "generating"
        /\ pc' = "state file" => writing'.then = "sample"
    <2>1. CASE save_prompt_state_tokens # -1 /\ n_past >= save_prompt_state_tokens
      <3>1. /\ StartWriting(cache_tokens, save_prompt_state_tokens, "sample")
            /\ save_prompt_state_tokens' = -1
        BY <2>1 DEF Checkpoint
      <3>2. save_prompt_state_tokens = n_past /\ IsTokens(cache_tokens)
        BY <1>1, <1>5, <2>1, WorkingMemory
      <3>3. Truthful(FirstItems(cache_tokens, n_past), mem, MediaRetained(cache_tokens, n_past))
        <4>1. CASE PassedOver
          BY <1>1, <4>1, PassedOverTruthful
        <4>2. CASE ~PassedOver
          <5>1. Frontier(mem) = n_past /\ hashes = Picture(prompt)
            BY <1>1, <4>2, WorkingMemory
          <5>2. FirstItems(Items(cache_tokens, hashes), n_past) = FirstItems(Own, n_past)
            BY <5>1 DEF Own
          <5>3. QED BY <1>1, <1>5, <3>2, <5>1, <5>2, RetainedTruthful
        <4>3. QED BY <4>1, <4>2
      <3>4. /\ FileTyped' /\ FileTrue' /\ pc' = "state file" /\ file'.sidecar = NoPicture
            /\ Truthful(writing'.tokens, mem, writing'.picture) /\ writing'.then = "sample"
        <4>1. /\ StartWriting(cache_tokens, n_past, "sample") /\ IsTokens(cache_tokens)
              /\ n_past \in Nat /\ "sample" \in {"sample", "complete"}
          BY <1>5, <3>1, <3>2
        <4>2. QED BY <1>1, <3>3, <4>1, StartWritingIs
      <3>5. FileInv'
        BY <1>1, <3>4 DEF FileInv, cache
      <3>6. QED BY <3>1, <3>4, <3>5
    <2>2. CASE ~(save_prompt_state_tokens # -1 /\ n_past >= save_prompt_state_tokens)
      <3>1. /\ pc' = "sample" /\ file' = file /\ writing' = writing
            /\ save_prompt_state_tokens' = save_prompt_state_tokens
        BY <2>2 DEF Checkpoint
      <3>2. FileTyped' /\ FileInv'
        BY <3>1 DEF SlotInv, TypeInv, FileTyped, FileInv, FileTrue
      <3>3. save_prompt_state_tokens # -1 => state # "generating"
        BY <1>5, <2>2
      <3>4. QED BY <1>5, <3>1, <3>2, <3>3
    <2>3. QED BY <2>1, <2>2
  <1>7. ProgressTyped'
    BY <1>1, <1>6 DEF SlotInv, TypeInv, ProgressTyped
  <1>8. StageInv'
    BY <1>2, <1>6 DEF StageInv, Working
  <1>9. OwnInv'
    <2>1. Remainder => Remainder'
      BY <1>1, <1>6 DEF Remainder, cache, request
    <2>2. QED BY <1>4, <1>6, <2>1 DEF OwnInv
  <1>10. SaveInv'
    BY <1>1, <1>5, <1>6 DEF SaveInv, request
  <1>11. ChunksInv' /\ CacheInv'
    BY <1>2, <1>6 DEF ChunksInv, CacheInv
  <1>12. QED BY <1>3, <1>6, <1>7, <1>8, <1>9, <1>10, <1>11 DEF SlotInv, TypeInv

LEMMA WriteStateStep ==
  ASSUME SlotInv, WriteState
  PROVE  SlotInv'
  <1>1. /\ pc = "state file" /\ Working
        /\ UNCHANGED <<cache, state, request, progress, logits>>
    BY DEF WriteState, SlotInv, StageInv
  <1>2. /\ writing.then \in {"sample", "complete"}
        /\ writing.then = "complete" => state = "generating"
        /\ file.sidecar = NoPicture /\ Truthful(writing.tokens, mem, writing.picture)
    BY <1>1 DEF SlotInv, StageInv, FileInv
  <1>3. /\ file \in File /\ Sound(file.mem, Item) /\ IsTokens(file.tokens)
        /\ writing \in Writing /\ IsTokens(writing.tokens) /\ Sound(mem, Item) /\ FileTrue
    BY DEF SlotInv, TypeInv, CacheTyped, FileTyped, FileInv
  <1>4. Active' /\ ~MediaPending' /\ Working'
    BY <1>1 DEF Working, Active, MediaPending, request, progress
  <1>5. CacheTyped' /\ RequestTyped'
    BY <1>1 DEF SlotInv, TypeInv, CacheTyped, RequestTyped, Active, cache, request
  <1>6. /\ hashes' = Picture(prompt)' /\ n_past' <= Len(cache_tokens')
        /\ IsPrefix(Tokens(prompt), cache_tokens)'
        /\ OwnMemory'
        /\ state' = "prompt" =>
             cache_tokens' = Tokens(prompt)' /\ n_past' < Len(prompt)' /\ Remainder'
        /\ state' = "generating" =>
             (writing.then = "sample" =>
                Len(cache_tokens') = n_past' /\ (PassedOver' \/ logits' = Own'))
    BY <1>1 DEF SlotInv, OwnInv, OwnMemory, Remainder, PassedOver, Own, SampleNext, cache,
                request, progress
  <1>7. SaveInv' /\ (Working' /\ save_prompt_state_tokens' # -1 => state' # "generating")
    BY <1>1 DEF SlotInv, SaveInv, request, progress
  <1>8. CASE file' = StateFile(file, writing.tokens, mem) /\ pc' = "sidecar"
    <2>1. writing' = writing
      BY <1>8 DEF WriteState
    <2>2. /\ file' \in File /\ file'.mem = mem /\ file'.tokens = writing.tokens
          /\ file'.state = "whole" /\ file'.sidecar = NoPicture
      BY <1>2, <1>3, <1>8 DEF StateFile, File, Writing, Sound, Memory
    <2>3. FileTyped' /\ ProgressTyped'
      BY <1>1, <1>3, <1>8, <2>1, <2>2 DEF FileTyped, SlotInv, TypeInv, ProgressTyped, progress
    <2>4. FileTrue'
      BY <1>2, <2>2, TruthfulWithout DEF FileTrue
    <2>5. FileInv'
      BY <1>2, <1>8, <2>1, <2>2, <2>4 DEF FileInv
    <2>6. StageInv'
      BY <1>1, <1>2, <1>4, <1>8, <2>1 DEF StageInv, Working
    <2>7. OwnInv'
      BY <1>6, <1>8, <2>1 DEF OwnInv, SampleNext
    <2>8. ChunksInv' /\ CacheInv'
      BY <1>4, <1>8 DEF ChunksInv, CacheInv
    <2>9. QED BY <1>5, <1>7, <2>3, <2>5, <2>6, <2>7, <2>8 DEF SlotInv, TypeInv
  <1>9. CASE file' = Broken(file) /\ pc' = writing.then
    <2>1. writing' = NotWriting
      BY <1>2, <1>9 DEF WriteState
    <2>2. /\ file' \in File /\ file'.mem = file.mem /\ file'.tokens = file.tokens
          /\ file'.state = "cut"
      BY <1>3, <1>9 DEF Broken, File
    <2>3. writing' \in Writing /\ IsTokens(writing'.tokens)
      BY <2>1, EmptyTokens DEF Writing, NotWriting, Pic
    <2>4. FileTyped'
      BY <1>3, <2>2, <2>3 DEF FileTyped
    <2>5. ProgressTyped'
      BY <1>1, <1>2, <1>9 DEF SlotInv, TypeInv, ProgressTyped, progress
    <2>6. FileInv'
      BY <1>2, <1>9, <2>2 DEF FileInv, FileTrue
    <2>7. StageInv'
      BY <1>1, <1>2, <1>4, <1>9 DEF StageInv, Working
    <2>8. OwnInv'
      BY <1>2, <1>6, <1>9 DEF OwnInv, SampleNext
    <2>9. ChunksInv' /\ CacheInv'
      BY <1>2, <1>4, <1>9 DEF ChunksInv, CacheInv
    <2>10. QED BY <1>5, <1>7, <2>4, <2>5, <2>6, <2>7, <2>8, <2>9 DEF SlotInv, TypeInv
  <1>10. QED BY <1>8, <1>9 DEF WriteState

LEMMA WriteSidecarStep ==
  ASSUME SlotInv, WriteSidecar
  PROVE  SlotInv'
  <1>1. /\ pc = "sidecar" /\ Working /\ pc' = writing.then /\ writing' = NotWriting
        /\ file' = [file EXCEPT !.sidecar = writing.picture]
        /\ UNCHANGED <<cache, state, request, progress, logits>>
    BY DEF WriteSidecar, SlotInv, StageInv
  <1>2. /\ writing.then \in {"sample", "complete"}
        /\ writing.then = "complete" => state = "generating"
        /\ file.state = "whole" /\ Truthful(file.tokens, file.mem, writing.picture)
    BY <1>1 DEF SlotInv, StageInv, FileInv
  <1>3. /\ file \in File /\ Sound(file.mem, Item) /\ IsTokens(file.tokens)
        /\ writing \in Writing
    BY DEF SlotInv, TypeInv, FileTyped
  <1>4. Active' /\ ~MediaPending' /\ Working'
    BY <1>1 DEF Working, Active, MediaPending, request, progress
  <1>5. CacheTyped' /\ RequestTyped'
    BY <1>1 DEF SlotInv, TypeInv, CacheTyped, RequestTyped, Active, cache, request
  <1>6. /\ file' \in File /\ file'.mem = file.mem /\ file'.tokens = file.tokens
        /\ file'.state = "whole" /\ file'.sidecar = writing.picture
    BY <1>1, <1>2, <1>3 DEF File, Writing
  <1>7. writing' \in Writing /\ IsTokens(writing'.tokens)
    BY <1>1, EmptyTokens DEF Writing, NotWriting, Pic
  <1>8. FileTyped'
    BY <1>3, <1>6, <1>7 DEF FileTyped
  <1>9. ProgressTyped'
    BY <1>1, <1>2 DEF SlotInv, TypeInv, ProgressTyped, progress
  <1>10. FileInv'
    BY <1>1, <1>2, <1>6 DEF FileInv, FileTrue
  <1>11. StageInv'
    BY <1>1, <1>2, <1>4 DEF StageInv, Working
  <1>12. OwnInv'
    BY <1>1, <1>2 DEF SlotInv, OwnInv, OwnMemory, Remainder, PassedOver, Own, SampleNext,
                      Working, Active, MediaPending, cache, request, progress
  <1>13. SaveInv'
    BY <1>1, <1>4 DEF SlotInv, SaveInv, request, progress
  <1>14. ChunksInv' /\ CacheInv'
    BY <1>1, <1>2, <1>4 DEF ChunksInv, CacheInv
  <1>15. QED
    BY <1>5, <1>8, <1>9, <1>10, <1>11, <1>12, <1>13, <1>14 DEF SlotInv, TypeInv

\* What the tokens name, with perhaps one more that was sampled.
LEMMA SampledTokens ==
  ASSUME SlotInv, Working, NEW tokens, tokens \in {cache_tokens, Append(cache_tokens, Sampled)}
  PROVE  /\ IsTokens(tokens) /\ Len(tokens) \in Nat /\ Len(cache_tokens) <= Len(tokens)
         /\ FirstItems(Items(tokens, hashes), Frontier(mem)) = FirstItems(Own, Frontier(mem))
         /\ FirstItems(tokens, n_past) = FirstItems(cache_tokens, n_past)
         /\ IsPrefix(Tokens(prompt), tokens)
  <1>1. /\ prompt \in Prompts /\ hashes = Picture(prompt) /\ hashes \in Pic
        /\ IsTokens(cache_tokens) /\ n_past \in Nat /\ n_past <= Len(cache_tokens)
        /\ Len(cache_tokens) \in Nat /\ cache_tokens \in Seq(Item)
        /\ Frontier(mem) \in Nat /\ Frontier(mem) <= n_past
    BY WorkingMemory DEF IsTokens
  <1>2. IsPrefix(Tokens(prompt), cache_tokens) /\ Own = Items(cache_tokens, hashes)
    BY <1>1 DEF SlotInv, OwnInv, Own
  <1>3. CASE tokens = cache_tokens
    BY <1>1, <1>2, <1>3
  <1>4. CASE tokens = Append(cache_tokens, Sampled)
    <2>1. IsTokens(tokens) /\ Len(tokens) = Len(cache_tokens) + 1
      BY <1>1, <1>4, AppendedTokens
    <2>2. FirstItems(Items(tokens, hashes), Frontier(mem)) = FirstItems(Own, Frontier(mem))
      <3>1. Frontier(mem) <= Len(cache_tokens)
        BY <1>1
      <3>2. QED BY <1>1, <1>2, <1>4, <3>1, AppendedItems
    <2> DEFINE t == Tokens(prompt)
    <2>3. t \in Seq(Item) /\ Len(t) \in Nat
      BY <1>1, PromptTyped DEF IsTokens
    <2>4. Len(t) <= Len(cache_tokens) /\ t = FirstItems(cache_tokens, Len(t))
      BY <1>1, <1>2, <2>3, PrefixIs
    <2> HIDE DEF t
    <2>5. tokens \in Seq(Item) /\ \A i \in 1 .. Len(cache_tokens) : tokens[i] = cache_tokens[i]
      BY <1>1, <1>4, ItemIs
    <2>6. /\ Len(FirstItems(cache_tokens, Len(t))) = Len(t)
          /\ \A i \in 1 .. Len(t) : FirstItems(cache_tokens, Len(t))[i] = cache_tokens[i]
      BY <1>1, <2>3, <2>4, FirstItemsAre
    <2>7. /\ FirstItems(tokens, Len(t)) \in Seq(Item) /\ Len(FirstItems(tokens, Len(t))) = Len(t)
          /\ \A i \in 1 .. Len(t) : FirstItems(tokens, Len(t))[i] = tokens[i]
      BY <1>1, <2>1, <2>3, <2>4, <2>5, FirstItemsAre
    <2>8. \A i \in 1 .. Len(t) : t[i] = FirstItems(tokens, Len(t))[i]
      BY <1>1, <2>3, <2>4, <2>5, <2>6, <2>7
    <2>9. t = FirstItems(tokens, Len(t))
      BY <2>3, <2>7, <2>8, SeqEqual
    <2>10. IsPrefix(t, tokens)
      BY <1>1, <2>1, <2>3, <2>4, <2>5, <2>9, PrefixIs
    <2>11. FirstItems(tokens, n_past) = FirstItems(cache_tokens, n_past)
      <3>1. /\ FirstItems(tokens, n_past) \in Seq(Item) /\ Len(FirstItems(tokens, n_past)) = n_past
            /\ \A i \in 1 .. n_past : FirstItems(tokens, n_past)[i] = tokens[i]
        BY <1>1, <2>1, <2>5, FirstItemsAre
      <3>2. /\ FirstItems(cache_tokens, n_past) \in Seq(Item)
            /\ Len(FirstItems(cache_tokens, n_past)) = n_past
            /\ \A i \in 1 .. n_past : FirstItems(cache_tokens, n_past)[i] = cache_tokens[i]
        BY <1>1, FirstItemsAre
      <3>3. \A i \in 1 .. n_past : tokens[i] = cache_tokens[i]
        BY <1>1, <2>5
      <3>4. QED BY <3>1, <3>2, <3>3, SeqEqual
    <2>12. QED BY <1>1, <2>1, <2>2, <2>10, <2>11 DEF t
  <1>5. QED BY <1>3, <1>4

\* At the sampling all tokens are decoded.
LEMMA SamplingIs ==
  ASSUME SlotInv, pc = "sample", state = "generating"
  PROVE  /\ Working /\ Active /\ ~MediaPending
         /\ Len(cache_tokens) = n_past /\ save_prompt_state_tokens = -1
  BY DEF SlotInv, StageInv, OwnInv, SaveInv, SampleNext, Working

\* How many tokens save_state() saves of those that are decoded.
LEMMA SaveSizeIs ==
  ASSUME NEW n \in Nat, paths \in Use
  PROVE  SaveSize(n) \in Nat /\ SaveSize(n) <= n /\ (HasRecurrent(mem) => SaveSize(n) = n)
  BY DEF SaveSize, Use

LEMMA FinishStep ==
  ASSUME SlotInv, pc = "sample", state = "generating",
         NEW tokens, tokens \in {cache_tokens, Append(cache_tokens, Sampled)},
         Finish(tokens), UNCHANGED <<mem, hashes>>
  PROVE  SlotInv'
  <1>1. /\ Working /\ Active /\ ~MediaPending
        /\ Len(cache_tokens) = n_past /\ save_prompt_state_tokens = -1
    BY SamplingIs
  <1>2. /\ IsTokens(tokens) /\ Len(tokens) \in Nat /\ n_past <= Len(tokens)
        /\ FirstItems(Items(tokens, hashes), Frontier(mem)) = FirstItems(Own, Frontier(mem))
        /\ FirstItems(tokens, n_past) = FirstItems(cache_tokens, n_past)
        /\ IsPrefix(Tokens(prompt), tokens)
    BY <1>1, SampledTokens
  <1>3. /\ Sound(mem, Item) /\ hashes \in Pic /\ hashes = Picture(prompt) /\ n_past \in Nat
        /\ Contents(mem) = FirstItems(Own, Frontier(mem)) /\ Len(Contents(mem)) = Frontier(mem)
        /\ Frontier(mem) \in Nat /\ Frontier(mem) <= n_past
        /\ Frontier(mem) = n_past \/ PassedOver
    BY <1>1, WorkingMemory
  <1>4. cache_tokens' = tokens /\ mem' = mem /\ hashes' = hashes
    BY DEF Finish
  <1>5. CacheTyped'
    BY <1>2, <1>3, <1>4 DEF CacheTyped
  <1>6. CASE paths.save /\ Decoded(tokens) # <<>>
    <2> DEFINE d == Decoded(tokens)
               size == SaveSize(Len(d))
    <2>1. /\ StartWriting(d, size, "complete")
          /\ UNCHANGED <<state, request, progress, logits>>
      BY <1>6 DEF Finish
    <2>2. d = FirstItems(tokens, Frontier(mem))
      BY DEF Decoded
    <2>3. tokens \in Seq(Item) /\ IsTokens(d) /\ Len(d) = Frontier(mem)
      <3>1. tokens \in Seq(Item)
        BY <1>2 DEF IsTokens
      <3>2. IsTokens(d)
        BY <1>2, <1>3, <2>2, FirstTokens
      <3>3. Frontier(mem) <= Len(tokens)
        BY <1>2, <1>3
      <3>4. Len(d) = Frontier(mem)
        BY <1>3, <2>2, <3>1, <3>3, FirstItemsAre
      <3>5. QED BY <3>1, <3>2, <3>4
    <2>4. FirstItems(Items(d, hashes), Frontier(mem)) = FirstItems(Own, Frontier(mem))
      <3> DEFINE f == Frontier(mem)
      <3>1. Items(tokens, hashes) \in Seq(Item) /\ hashes \in Item /\ f \in Nat
        BY <1>2, <1>3, TokenItems, ItemIs
      <3>2. d = FirstItems(tokens, f)
        BY <2>2
      <3> HIDE DEF f, d
      <3>3. Items(d, hashes) = FirstItems(Items(tokens, hashes), f)
        BY <2>3, <3>1, <3>2, FirstOfItems
      <3>4. FirstItems(FirstItems(Items(tokens, hashes), f), f) = FirstItems(Items(tokens, hashes), f)
        BY <3>1, FirstOfFirst
      <3>5. QED BY <1>2, <3>3, <3>4 DEF f
    <2>5. size \in Nat /\ size <= Frontier(mem) /\ (HasRecurrent(mem) => size = Frontier(mem))
      <3>1. paths \in Use
        BY DEF SlotInv, TypeInv, RequestTyped
      <3>2. QED BY <1>3, <2>3, <3>1, SaveSizeIs
    <2> HIDE DEF d, size
    <2>6. /\ FileTyped' /\ FileTrue' /\ pc' = "state file" /\ file'.sidecar = NoPicture
          /\ Truthful(writing'.tokens, mem, writing'.picture) /\ writing'.then = "complete"
      <3>1. Truthful(FirstItems(d, size), mem, MediaRetained(d, size))
        BY <1>1, <2>3, <2>4, <2>5, RetainedTruthful
      <3>2. QED BY <1>1, <2>1, <2>3, <2>5, <3>1, StartWritingIs
    <2>7. Working' /\ Active' /\ ~MediaPending' /\ state' = "generating"
      BY <1>1, <2>1 DEF Working, Active, MediaPending, request, progress
    <2>8. RequestTyped' /\ ProgressTyped'
      BY <2>1, <2>6 DEF SlotInv, TypeInv, RequestTyped, ProgressTyped, Active, request, progress
    <2>9. StageInv'
      BY <2>6, <2>7 DEF StageInv
    <2>10. OwnInv'
      <3>1. n_past' = n_past /\ prompt' = prompt
        BY <2>1 DEF request, progress
      <3>2. Own' = Items(tokens, hashes)
        BY <1>3, <1>4, <3>1 DEF Own
      <3>3. ~SampleNext'
        BY <2>6 DEF SampleNext
      <3>4. OwnMemory'
        BY <1>2, <1>3, <1>4, <3>1, <3>2 DEF OwnMemory, PassedOver
      <3>5. QED BY <1>2, <1>3, <1>4, <2>6, <2>7, <3>1, <3>3, <3>4 DEF OwnInv
    <2>11. SaveInv'
      BY <1>1, <2>1 DEF SaveInv, progress
    <2>12. ChunksInv' /\ CacheInv'
      BY <2>6, <2>7 DEF ChunksInv, CacheInv
    <2>13. FileInv'
      BY <1>4, <2>6 DEF FileInv
    <2>14. QED BY <1>5, <2>6, <2>8, <2>9, <2>10, <2>11, <2>12, <2>13 DEF SlotInv, TypeInv
  <1>7. CASE ~(paths.save /\ Decoded(tokens) # <<>>)
    <2>1. reset /\ pc' = "update" /\ file' = file /\ writing' = writing
      BY <1>7 DEF Finish, Complete
    <2>2. FileTyped' /\ FileTrue'
      BY <2>1 DEF SlotInv, TypeInv, FileTyped, FileInv, FileTrue
    <2>3. Backed(mem', cache_tokens', hashes')
      BY <1>2, <1>3, <1>4 DEF Backed
    <2>4. QED BY <1>5, <2>1, <2>2, <2>3, ResetStep
  <1>8. QED BY <1>6, <1>7

LEMMA SampleTokenStep ==
  ASSUME SlotInv, SampleToken
  PROVE  SlotInv'
  <1> DEFINE tokens == Append(cache_tokens, Sampled)
  <1>1. /\ pc = "sample" /\ state = "generating" /\ mem' = mem /\ hashes' = hashes
        /\ \/ Finish(tokens)
           \/ /\ cache_tokens' = tokens /\ pc' = "update"
              /\ UNCHANGED <<state, request, progress, logits, file, writing>>
    BY DEF SampleToken
  <1>2. CASE Finish(tokens)
    BY <1>1, <1>2, FinishStep
  <1>3. CASE /\ cache_tokens' = tokens /\ pc' = "update"
             /\ UNCHANGED <<state, request, progress, logits, file, writing>>
    <2>1. /\ Working /\ Active /\ ~MediaPending
          /\ Len(cache_tokens) = n_past /\ save_prompt_state_tokens = -1
      BY <1>1, SamplingIs
    <2>2. /\ IsTokens(tokens) /\ n_past <= Len(tokens)
          /\ FirstItems(Items(tokens, hashes), Frontier(mem)) = FirstItems(Own, Frontier(mem))
          /\ FirstItems(tokens, n_past) = FirstItems(cache_tokens, n_past)
          /\ IsPrefix(Tokens(prompt), tokens)
      BY <2>1, SampledTokens
    <2>3. /\ Sound(mem, Item) /\ hashes \in Pic /\ hashes = Picture(prompt) /\ n_past \in Nat
          /\ Contents(mem) = FirstItems(Own, Frontier(mem)) /\ IsTokens(cache_tokens)
          /\ Frontier(mem) = n_past \/ PassedOver
      BY <2>1, WorkingMemory
    <2>4. Len(tokens) = n_past + 1
      BY <2>1, <2>3, AppendedTokens
    <2> HIDE DEF tokens
    <2>5. Working' /\ Active' /\ ~MediaPending' /\ state' = "generating"
      BY <1>1, <1>3, <2>1 DEF Working, Active, MediaPending, request, progress
    <2>6. TypeInv'
      <3>1. CacheTyped'
        BY <1>1, <1>3, <2>2, <2>3 DEF CacheTyped
      <3>2. RequestTyped' /\ ProgressTyped' /\ FileTyped'
        BY <1>3 DEF SlotInv, TypeInv, RequestTyped, ProgressTyped, FileTyped, Active,
                    request, progress
      <3>3. QED BY <3>1, <3>2 DEF TypeInv
    <2>7. StageInv'
      BY <1>3, <2>5 DEF StageInv
    <2>8. OwnInv'
      <3>1. n_past' = n_past /\ prompt' = prompt
        BY <1>3 DEF request, progress
      <3>2. Own' = Items(tokens, hashes)
        BY <1>3, <2>3, <3>1 DEF Own
      <3>3. ~SampleNext'
        BY <1>3 DEF SampleNext
      <3>4. OwnMemory'
        BY <1>1, <1>3, <2>2, <2>3, <3>1, <3>2 DEF OwnMemory, PassedOver
      <3>5. QED BY <1>1, <1>3, <2>2, <2>3, <2>4, <2>5, <3>1, <3>3, <3>4 DEF OwnInv
    <2>9. SaveInv'
      BY <1>3, <2>1 DEF SaveInv, progress
    <2>10. ChunksInv' /\ CacheInv'
      BY <1>3, <2>5 DEF ChunksInv, CacheInv
    <2>11. FileInv'
      BY <1>3 DEF SlotInv, FileInv, FileTrue
    <2>12. QED BY <2>6, <2>7, <2>8, <2>9, <2>10, <2>11 DEF SlotInv
  <1>4. QED BY <1>1, <1>2, <1>3

LEMMA SampleEndStep ==
  ASSUME SlotInv, SampleEnd
  PROVE  SlotInv'
  BY FinishStep DEF SampleEnd

\* A batch takes the memory from n_past to n.
LEMMA DecodeToIs ==
  ASSUME SlotInv, Working, pc \in {"update", "batch"}, NEW n \in Nat, n_past <= n,
         n <= Len(cache_tokens), DecodeTo(n), n > n_past \/ Frontier(mem) = n_past
  PROVE  /\ CacheTyped' /\ FileTyped' /\ FileInv' /\ ProgressTyped' /\ pc' = "checkpoint"
         /\ n_past' = n /\ Own' = Own /\ Contents(mem') = FirstItems(Own, n)
         /\ Frontier(mem') = n
         /\ logits' = IF n > n_past THEN Contents(mem') ELSE logits
         /\ hashes' = Picture(prompt)' /\ prompt' = prompt /\ cache_tokens' = cache_tokens
         /\ save_prompt_state_tokens' = save_prompt_state_tokens
         /\ UNCHANGED <<request, media_processed>>
  <1>1. /\ prompt \in Prompts /\ Picture(prompt) \in Pic /\ hashes = Picture(prompt)
        /\ Sound(mem, Item) /\ IsTokens(cache_tokens) /\ n_past \in Nat
        /\ Len(cache_tokens) \in Nat /\ Own \in Seq(Item) /\ Len(Own) = Len(cache_tokens)
        /\ Contents(mem) = FirstItems(Own, Frontier(mem))
        /\ Frontier(mem) \in Nat /\ (Frontier(mem) = n_past \/ PassedOver)
    BY WorkingMemory
  <1>2. /\ mem' = Extended(mem, Items(SubSeq(cache_tokens, n_past + 1, n), Picture(prompt)))
        /\ logits' = IF n > n_past THEN Contents(mem') ELSE logits
        /\ n_past' = n /\ pc' = "checkpoint"
        /\ UNCHANGED <<cache_tokens, hashes, request, save_prompt_state_tokens,
                       media_processed, captured, file, writing>>
    BY DEF DecodeTo
  <1>3. Contents(mem) = FirstItems(Own, n_past)
    \* What follows an end that was passed over would not be decoded.
    <2>1. CASE Frontier(mem) = n_past
      BY <1>1, <2>1
    <2>2. CASE PassedOver /\ Frontier(mem) # n_past
      <3>1. Frontier(mem) \in {0, n_past}
        BY <2>2 DEF DecodeTo, Consecutive
      <3>2. Frontier(mem) > 0
        BY <2>2 DEF PassedOver, OnlyPlaceholdersMissing
      <3>3. QED BY <1>1, <2>2, <3>1, <3>2
    <2>3. QED BY <1>1, <2>1, <2>2
  <1>4. prompt' = prompt /\ Own' = Own /\ hashes' = Picture(prompt)'
    BY <1>1, <1>2 DEF request, Own
  <1>5. cache_tokens \in Seq(Item) /\ Picture(prompt) \in Item
    BY <1>1, ItemIs DEF IsTokens
  <1>6. Items(SubSeq(cache_tokens, n_past + 1, n), Picture(prompt)) = SubSeq(Own, n_past + 1, n)
    BY <1>1, <1>5, ItemsOfSub DEF Own
  <1>7. /\ SubSeq(Own, n_past + 1, n) \in Seq(Item)
        /\ FirstItems(Own, n_past) \o SubSeq(Own, n_past + 1, n) = FirstItems(Own, n)
    BY <1>1, FirstExtended
  <1> DEFINE new == SubSeq(Own, n_past + 1, n)
  <1> HIDE DEF new
  <1>8. mem' = Extended(mem, new) /\ new \in Seq(Item)
    BY <1>2, <1>6, <1>7 DEF new
  <1>9. /\ Sound(mem', Item) /\ Contents(mem') = Contents(mem) \o new
    BY <1>1, <1>8, ExtendedSound
  <1>10. Contents(mem') = FirstItems(Own, n)
    BY <1>7, <1>9, <1>3 DEF new
  <1>11. Frontier(mem') = n
    <2>1. Len(FirstItems(Own, n)) = n
      BY <1>1, FirstItemsAre
    <2>2. QED BY <1>9, <1>10, <2>1, ContentsAre
  <1>12. CacheTyped'
    BY <1>1, <1>2, <1>9 DEF CacheTyped
  <1>13. ProgressTyped' /\ FileTyped'
    BY <1>2 DEF SlotInv, TypeInv, ProgressTyped, FileTyped
  <1>14. FileInv'
    BY <1>2 DEF SlotInv, FileInv, FileTrue
  <1>15. QED BY <1>2, <1>4, <1>10, <1>12, <1>13, <1>14, <1>11

\* The batch ends within the prompt, and stops where the prompt is to be saved.
LEMMA BatchEndIs ==
  ASSUME n_past \in Nat, save_prompt_state_tokens \in Nat \cup {-1}, Len(prompt) \in Nat,
         n_past < Len(prompt)
  PROVE  /\ BatchEnd \in Nat /\ n_past <= BatchEnd /\ BatchEnd <= Len(prompt)
         /\ n_past <= save_prompt_state_tokens => BatchEnd <= save_prompt_state_tokens
  <1> DEFINE end == IF n_past <= save_prompt_state_tokens
                    THEN Min({Len(prompt), save_prompt_state_tokens}) ELSE Len(prompt)
  <1>1. NBatch \in Nat
    BY SlotStateAssumption
  <1>2. /\ end \in Nat /\ n_past <= end /\ end <= Len(prompt)
        /\ n_past <= save_prompt_state_tokens => end <= save_prompt_state_tokens
    <2>1. CASE n_past <= save_prompt_state_tokens
      <3>1. save_prompt_state_tokens \in Nat
        BY <2>1
      <3>2. end = IF Len(prompt) <= save_prompt_state_tokens THEN Len(prompt)
                  ELSE save_prompt_state_tokens
        BY <2>1, <3>1, MinOfTwo
      <3> HIDE DEF end
      <3>3. QED BY <2>1, <3>1, <3>2
    <2>2. CASE ~(n_past <= save_prompt_state_tokens)
      <3>1. end = Len(prompt)
        BY <2>2
      <3> HIDE DEF end
      <3>2. QED BY <2>2, <3>1
    <2>3. QED BY <2>1, <2>2
  <1>3. BatchEnd = Min({end, n_past + NBatch})
    BY DEF BatchEnd
  <1> HIDE DEF end
  <1>4. BatchEnd = IF end <= n_past + NBatch THEN end ELSE n_past + NBatch
    <2>1. n_past + NBatch \in Nat
      BY <1>1
    <2>2. QED BY <1>2, <1>3, <2>1, MinOfTwo
  <1>5. QED BY <1>1, <1>2, <1>4

LEMMA DecodePromptStep ==
  ASSUME SlotInv, DecodePrompt
  PROVE  SlotInv'
  <1>1. /\ pc \in {"update", "batch"} /\ state = "prompt" /\ Working
        /\ DecodeTo(BatchEnd) /\ ~AtPlaceholder
        /\ state' = IF BatchEnd = Len(prompt) THEN "generating" ELSE state
    BY DEF DecodePrompt, BuildsBatch, Working, Active
  <1>2. /\ hashes = Picture(prompt) /\ IsPrefix(Tokens(prompt), cache_tokens)
        /\ cache_tokens = Tokens(prompt) /\ n_past < Len(prompt) /\ Remainder
        /\ n_past \in Nat /\ save_prompt_state_tokens \in Nat \cup {-1}
        /\ save_prompt_state_tokens # -1 =>
             n_past <= save_prompt_state_tokens /\ save_prompt_state_tokens <= Len(prompt)
    BY <1>1 DEF SlotInv, OwnInv, SaveInv, TypeInv, ProgressTyped
  <1>3. prompt \in Prompts /\ Len(Own) = Len(cache_tokens) /\ Own \in Seq(Item)
    BY <1>1, WorkingMemory
  <1>4. Len(prompt) \in Nat /\ Len(cache_tokens) = Len(prompt)
    BY <1>2, <1>3, PromptTyped
  <1>5. /\ BatchEnd \in Nat /\ n_past <= BatchEnd /\ BatchEnd <= Len(prompt)
        /\ n_past <= save_prompt_state_tokens => BatchEnd <= save_prompt_state_tokens
    BY <1>2, <1>4, BatchEndIs
  <1> DEFINE n == BatchEnd
  <1> HIDE DEF n
  <1>6. /\ DecodeTo(n) /\ n \in Nat /\ n_past <= n /\ n <= Len(cache_tokens)
        /\ state' = IF n = Len(prompt) THEN "generating" ELSE "prompt"
        /\ save_prompt_state_tokens # -1 => n <= save_prompt_state_tokens
    BY <1>1, <1>2, <1>4, <1>5 DEF n
  <1>7. /\ CacheTyped' /\ FileTyped' /\ FileInv' /\ ProgressTyped' /\ pc' = "checkpoint"
        /\ n_past' = n /\ Own' = Own /\ Contents(mem') = FirstItems(Own, n)
        /\ Frontier(mem') = n
        /\ logits' = IF n > n_past THEN Contents(mem') ELSE logits
        /\ hashes' = Picture(prompt)' /\ prompt' = prompt /\ cache_tokens' = cache_tokens
        /\ save_prompt_state_tokens' = save_prompt_state_tokens
        /\ UNCHANGED <<request, media_processed>>
    BY <1>1, <1>2, <1>6, DecodeToIs DEF Remainder
  <1>8. state' \in {"prompt", "generating"} /\ Active' /\ ~MediaPending' /\ Working'
    BY <1>1, <1>6, <1>7 DEF Active, MediaPending, Working
  <1>9. RequestTyped'
    BY <1>3, <1>7, <1>8 DEF SlotInv, TypeInv, RequestTyped, request
  <1>10. StageInv'
    BY <1>7, <1>8 DEF StageInv
  <1>11. OwnInv'
    <2>1. state' = "generating" => logits' = Own'
      <3>1. ASSUME n = Len(prompt)
            PROVE  logits' = Own'
        <4>1. logits' = FirstItems(Own, n) /\ n >= Len(Own)
          BY <1>2, <1>3, <1>4, <1>7, <3>1
        <4>2. QED BY <1>3, <1>6, <1>7, <4>1, FirstItemsAll
      <3>2. QED BY <1>6, <3>1
    <2>2. state' = "generating" => Len(cache_tokens') = n_past'
      BY <1>4, <1>6, <1>7
    <2>3. state' = "prompt" => cache_tokens' = Tokens(prompt)' /\ n_past' < Len(prompt)'
      BY <1>2, <1>4, <1>6, <1>7
    <2>4. n_past' <= Len(cache_tokens') /\ IsPrefix(Tokens(prompt), cache_tokens)'
      BY <1>2, <1>6, <1>7
    <2>5. OwnMemory'
      BY <1>7 DEF OwnMemory
    <2>6. state' = "prompt" => Remainder'
      <3>1. \A i \in n_past + 1 .. Len(prompt) : cache_tokens[i] # Null
        BY <1>1, <1>2, <1>4 DEF Remainder, AtPlaceholder
      <3>2. \A i \in n + 1 .. Len(prompt) : cache_tokens[i] # Null
        BY <1>2, <1>4, <1>6, <3>1
      <3>3. QED BY <1>7, <3>2 DEF Remainder
    <2>7. QED BY <1>7, <2>1, <2>2, <2>3, <2>4, <2>5, <2>6 DEF OwnInv
  <1>12. SaveInv'
    BY <1>2, <1>4, <1>6, <1>7 DEF SaveInv
  <1>13. ChunksInv' /\ CacheInv'
    BY <1>7, <1>8 DEF ChunksInv, CacheInv
  <1>14. QED
    BY <1>7, <1>9, <1>10, <1>11, <1>12, <1>13 DEF SlotInv, TypeInv

\* The end of a picture is passed over, and counted as in memory.
LEMMA SkipPlaceholdersStep ==
  ASSUME SlotInv, SkipPlaceholders
  PROVE  SlotInv'
  <1>1. /\ state = "prompt" /\ Working /\ n_past < Len(prompt)
        /\ cache_tokens[n_past + 1] = Null
        /\ n_past' = Len(prompt) /\ state' = "generating" /\ pc' = "checkpoint"
        /\ UNCHANGED <<cache, request, save_prompt_state_tokens, media_processed, captured,
                       logits, file, writing>>
    BY DEF SkipPlaceholders, AtPlaceholder, BuildsBatch, Working, Active
  <1>2. /\ hashes = Picture(prompt) /\ IsPrefix(Tokens(prompt), cache_tokens)
        /\ cache_tokens = Tokens(prompt) /\ Remainder
    BY <1>1 DEF SlotInv, OwnInv
  <1>3. /\ prompt \in Prompts /\ IsTokens(cache_tokens) /\ n_past \in Nat
        /\ Contents(mem) = FirstItems(Own, Frontier(mem))
    BY <1>1, WorkingMemory
  <1>4. Len(prompt) \in Nat /\ Len(cache_tokens) = Len(prompt) /\ cache_tokens \in Seq(Item)
    BY <1>2, <1>3, PromptTyped DEF IsTokens
  <1>5. /\ Frontier(mem) = n_past /\ n_past > 0
        /\ \A i \in n_past + 1 .. Len(prompt) : cache_tokens[i] = Null
        /\ save_prompt_state_tokens \in {-1, Len(prompt)}
    BY <1>1, <1>2, <1>3, <1>4 DEF Remainder
  <1>6. FirstItems(cache_tokens, Len(prompt)) = cache_tokens
    BY <1>4, FirstItemsAll
  <1>7. mem' = mem /\ cache_tokens' = cache_tokens /\ hashes' = hashes /\ prompt' = prompt
    BY <1>1 DEF cache, request
  <1>8. PassedOver'
    BY <1>1, <1>3, <1>4, <1>5, <1>6, <1>7 DEF PassedOver, OnlyPlaceholdersMissing
  <1>9. Active' /\ ~MediaPending' /\ Working'
    BY <1>1, <1>7 DEF Active, MediaPending, Working
  <1>10. TypeInv'
    BY <1>1, <1>3, <1>4 DEF SlotInv, TypeInv, CacheTyped, RequestTyped, ProgressTyped, FileTyped,
                            cache, request
  <1>11. StageInv'
    BY <1>1, <1>9 DEF StageInv
  <1>12. OwnInv'
    <2>1. OwnMemory'
      BY <1>3, <1>7, <1>8 DEF OwnMemory, Own
    <2>2. n_past' = Len(cache_tokens')
      BY <1>1, <1>4, <1>7
    <2>3. QED BY <1>1, <1>2, <1>4, <1>7, <1>8, <2>1, <2>2 DEF OwnInv
  <1>13. SaveInv'
    BY <1>1, <1>4, <1>5, <1>7 DEF SaveInv
  <1>14. ChunksInv' /\ CacheInv'
    BY <1>1, <1>9 DEF ChunksInv, CacheInv
  <1>15. FileInv'
    BY <1>1 DEF SlotInv, FileInv, FileTrue
  <1>16. QED BY <1>10, <1>11, <1>12, <1>13, <1>14, <1>15 DEF SlotInv

LEMMA DecodeGeneratedStep ==
  ASSUME SlotInv, DecodeGenerated
  PROVE  SlotInv'
  <1>1. /\ pc = "update" /\ state = "generating" /\ state' = state /\ Working
        /\ DecodeTo(n_past + 1)
    BY DEF DecodeGenerated, BuildsBatch, Working, Active, SlotInv, StageInv
  <1>2. /\ hashes = Picture(prompt) /\ IsPrefix(Tokens(prompt), cache_tokens)
        /\ Len(cache_tokens) = n_past + 1 /\ save_prompt_state_tokens = -1
    BY <1>1 DEF SlotInv, OwnInv, SaveInv
  <1>3. /\ prompt \in Prompts /\ Len(Own) = Len(cache_tokens) /\ Own \in Seq(Item)
        /\ n_past \in Nat
    BY <1>1, WorkingMemory
  <1> DEFINE n == n_past + 1
  <1>4. n \in Nat /\ n_past <= n /\ n <= Len(cache_tokens) /\ n > n_past
    BY <1>2, <1>3
  <1>5. DecodeTo(n)
    BY <1>1
  <1>6. n = Len(cache_tokens)
    BY <1>2
  <1> HIDE DEF n
  <1>7. /\ CacheTyped' /\ FileTyped' /\ FileInv' /\ ProgressTyped' /\ pc' = "checkpoint"
        /\ n_past' = n /\ Own' = Own /\ Contents(mem') = FirstItems(Own, n)
        /\ Frontier(mem') = n
        /\ logits' = IF n > n_past THEN Contents(mem') ELSE logits
        /\ hashes' = Picture(prompt)' /\ prompt' = prompt /\ cache_tokens' = cache_tokens
        /\ save_prompt_state_tokens' = save_prompt_state_tokens
        /\ UNCHANGED <<request, media_processed>>
    BY <1>1, <1>4, <1>5, DecodeToIs
  <1>8. Active' /\ ~MediaPending' /\ Working' /\ state' = "generating"
    BY <1>1, <1>7 DEF Active, MediaPending, Working
  <1>9. RequestTyped'
    BY <1>3, <1>7, <1>8 DEF SlotInv, TypeInv, RequestTyped, request
  <1>10. StageInv'
    BY <1>7, <1>8 DEF StageInv
  <1>11. logits' = Own'
    BY <1>3, <1>4, <1>6, <1>7, FirstItemsAll
  <1>12. OwnInv'
    <2>1. OwnMemory'
      BY <1>7 DEF OwnMemory
    <2>2. QED BY <1>2, <1>4, <1>6, <1>7, <1>8, <1>11, <2>1 DEF OwnInv
  <1>13. SaveInv'
    BY <1>2, <1>7 DEF SaveInv
  <1>14. ChunksInv' /\ CacheInv'
    BY <1>7, <1>8 DEF ChunksInv, CacheInv
  <1>15. QED
    BY <1>7, <1>9, <1>10, <1>12, <1>13, <1>14 DEF SlotInv, TypeInv

-----------------------------------------------------------------------------
(* A picture                                                               *)

\* The beginning of a prompt, as it is saved.
LEMMA BeginningIs ==
  ASSUME NEW x \in Prompts, NEW k \in Nat
  PROVE  /\ FirstItems(x, k) \in Seq(Item) /\ IsTokens(Tokens(FirstItems(x, k)))
         /\ Items(Tokens(FirstItems(x, k)), Picture(x)) = FirstItems(x, k)
  <1>1. /\ x \in Seq(Item) /\ IsTokens(Tokens(x)) /\ Picture(x) \in Pic
        /\ Items(Tokens(x), Picture(x)) = x
    BY PromptTyped
  <1>2. FirstItems(x, k) \in Seq(Item)
    BY <1>1, FirstItemsAre
  <1>3. Tokens(FirstItems(x, k)) = FirstItems(Tokens(x), k)
    BY <1>1, ItemIs, FirstOfTokens
  <1>4. IsTokens(FirstItems(Tokens(x), k))
    BY <1>1, FirstTokens
  <1>5. Items(FirstItems(Tokens(x), k), Picture(x)) = FirstItems(Items(Tokens(x), Picture(x)), k)
    <2>1. Tokens(x) \in Seq(Item) /\ Picture(x) \in Item
      BY <1>1, ItemIs DEF IsTokens
    <2>2. QED BY <2>1, FirstOfItems
  <1>6. QED BY <1>1, <1>2, <1>3, <1>4, <1>5

\* A capture, or none: the file stays true, and one that succeeded holds the beginning of
\* the prompt that the memory m holds.
LEMMA CaptureIs ==
  ASSUME prompt \in Prompts, NEW m, Sound(m, Item), NEW n \in Nat,
         Contents(m) = FirstItems(prompt, n),
         NEW f \in File, Sound(f.mem, Item), IsTokens(f.tokens), f.sidecar = NoPicture,
         NEW c \in Capture(f, n, m)
  PROVE  /\ c.file \in File /\ Sound(c.file.mem, Item) /\ IsTokens(c.file.tokens)
         /\ c.file.sidecar = NoPicture /\ c.done \in BOOLEAN
         /\ c.file.state = "whole" =>
              /\ c.file.tokens = Tokens(FirstItems(prompt, n))
              /\ Contents(c.file.mem) = FirstItems(prompt, n)
              /\ Truthful(c.file.tokens, c.file.mem, c.file.sidecar)
  <1> DEFINE t == Tokens(FirstItems(prompt, n))
  <1>1. /\ FirstItems(prompt, n) \in Seq(Item) /\ IsTokens(t) /\ t \in Seq(Item)
        /\ Items(t, Picture(prompt)) = FirstItems(prompt, n) /\ Picture(prompt) \in Pic
    BY BeginningIs, PromptTyped DEF IsTokens
  <1>2. \/ c = [file |-> StateFile(f, t, m), done |-> TRUE]
        \/ c = [file |-> Broken(f), done |-> FALSE]
    BY DEF Capture
  <1> HIDE DEF t
  <1>3. CASE c = [file |-> StateFile(f, t, m), done |-> TRUE]
    <2>1. /\ c.file \in File /\ c.file.mem = m /\ c.file.tokens = t
          /\ c.file.sidecar = NoPicture /\ c.done = TRUE
      BY <1>1, <1>3 DEF StateFile, File, Sound, Memory
    <2>2. IsPrefix(FirstItems(prompt, n), FirstItems(prompt, n))
      <3> DEFINE s == FirstItems(prompt, n)
      <3>1. s \in Seq(Item)
        BY <1>1
      <3> HIDE DEF s
      <3>2. Len(s) \in Nat /\ FirstItems(s, Len(s)) = s
        BY <3>1, FirstItemsAll
      <3>3. IsPrefix(s, s)
        BY <3>1, <3>2, PrefixIs
      <3>4. QED BY <3>3 DEF s
    <2>3. Truthful(t, m, NoPicture)
      BY <1>1, <2>2 DEF Truthful
    <2>4. QED BY <1>1, <2>1, <2>3 DEF t
  <1>4. CASE c = [file |-> Broken(f), done |-> FALSE]
    <2>1. /\ c.file \in File /\ c.file.mem = f.mem /\ c.file.tokens = f.tokens
          /\ c.file.sidecar = NoPicture /\ c.done = FALSE /\ c.file.state = "cut"
      BY <1>4 DEF Broken, File
    <2>2. QED BY <2>1
  <1>5. QED BY <1>2, <1>3, <1>4

\* What a request for a picture relies on is what its memory holds.
LEMMA SeededIs ==
  ASSUME Sound(mem, Item), IsTokens(cache_tokens), hashes \in Pic,
         Backed(mem, cache_tokens, hashes)
  PROVE  /\ Sound(Seeded.mem, Item) /\ Seeded.mem.kind = mem.kind
         /\ IsTokens(Seeded.tokens) /\ Seeded.hashes \in Pic
         /\ Len(Seeded.tokens) = Len(Contents(Seeded.mem))
         /\ \E p \in Pic : /\ Contents(Seeded.mem) = Items(Seeded.tokens, p)
                           /\ Seeded.hashes # NoPicture => p = Seeded.hashes
  <1>1. /\ Contents(mem) \in Seq(Item) /\ Frontier(mem) = Len(Contents(mem))
        /\ Len(Contents(mem)) \in Nat /\ mem.kind \in Kinds
    BY ContentsAre
  <1>2. cache_tokens \in Seq(Item) /\ Len(cache_tokens) \in Nat
    BY DEF IsTokens
  <1>3. CASE Len(cache_tokens) >= Frontier(mem)
    <2> DEFINE n == Frontier(mem)
               t == FirstItems(cache_tokens, n)
    <2>1. Seeded = [mem |-> mem, tokens |-> t, hashes |-> hashes]
      BY <1>3 DEF Seeded
    <2>2. n \in Nat /\ n <= Len(cache_tokens) /\ n = Len(Contents(mem))
      BY <1>1, <1>2, <1>3
    <2> HIDE DEF n
    <2>3. IsTokens(t)
      BY <2>2, FirstTokens
    <2>4. Len(t) = n
      BY <1>2, <2>2, FirstItemsAre
    <2>5. PICK p \in Pic : /\ Contents(mem) = FirstItems(Items(cache_tokens, p), n)
                           /\ hashes # NoPicture => p = hashes
      BY <1>1, <2>2 DEF Backed
    <2>6. Items(t, p) = FirstItems(Items(cache_tokens, p), n)
      BY <1>2, <2>2, <2>5, ItemIs, FirstOfItems
    <2>7. Contents(mem) = Items(t, p)
      BY <2>5, <2>6
    <2> HIDE DEF t
    <2>8. QED BY <2>1, <2>2, <2>3, <2>4, <2>5, <2>7
  <1>4. CASE ~(Len(cache_tokens) >= Frontier(mem))
    <2>1. Seeded = [mem |-> Cleared(mem.kind), tokens |-> <<>>, hashes |-> NoPicture]
      BY <1>4 DEF Seeded
    <2>2. /\ Sound(Cleared(mem.kind), Item) /\ Contents(Cleared(mem.kind)) = <<>>
          /\ Cleared(mem.kind).kind = mem.kind
      BY <1>1, ClearedSound
    <2>3. Items(<<>>, NoPicture) = <<>> /\ NoPicture \in Pic
      BY DEF Items, Pic
    <2>4. QED BY <2>1, <2>2, <2>3, EmptyTokens
  <1>5. QED BY <1>3, <1>4

\* Between the chunks only what they leave in the memory and in the file matters.
LEMMA AmongChunks ==
  ASSUME TypeInv', pc' = "chunks", state' = "prompt", MediaPending', ChunksInv', FileTrue'
  PROVE  SlotInv'
  <1>1. Active' /\ ~Working'
    BY DEF Active, Working
  <1>2. StageInv'
    BY <1>1 DEF StageInv
  <1>3. OwnInv' /\ SaveInv' /\ CacheInv' /\ FileInv'
    BY <1>1 DEF OwnInv, SaveInv, CacheInv, FileInv
  <1>4. QED BY <1>2, <1>3 DEF SlotInv

LEMMA LoadMediaStep ==
  ASSUME SlotInv, LoadMedia
  PROVE  SlotInv'
  <1> DEFINE s == Seeded
             n == KeptPrefix(s.tokens, prompt, s.hashes = Picture(prompt))
             r == IF CanTruncate(s.mem, n) /\ Frontier(Truncated(s.mem, n)) = n
                  THEN [mem |-> Truncated(s.mem, n), n |-> n]
                  ELSE [mem |-> Cleared(s.mem.kind), n |-> 0]
             f == IF Captures THEN WithoutSidecar(file) ELSE file
  <1>1. /\ pc = "update" /\ state = "prompt" /\ MediaPending /\ Picture(prompt) # NoPicture
        /\ mem' = r.mem /\ n_past' = r.n /\ hashes' = s.hashes /\ pc' = "chunks"
        /\ UNCHANGED <<cache_tokens, state, request, save_prompt_state_tokens,
                       media_processed, logits, writing, requests>>
    BY DEF LoadMedia, MediaPending
  <1>2. \E c \in IF Captures /\ r.n > 0 THEN Capture(f, r.n, r.mem)
                 ELSE {[file |-> f, done |-> FALSE]} :
          file' = c.file /\ captured' = c.done
    BY DEF LoadMedia
  <1>3. /\ prompt \in Prompts /\ Sound(mem, Item) /\ IsTokens(cache_tokens) /\ hashes \in Pic
        /\ Backed(mem, cache_tokens, hashes) /\ FileTrue
        /\ file \in File /\ Sound(file.mem, Item) /\ IsTokens(file.tokens)
        /\ writing \in Writing /\ IsTokens(writing.tokens)
        /\ save_prompt_state_tokens \in Nat \cup {-1} /\ media_processed \in BOOLEAN
    BY <1>1 DEF SlotInv, TypeInv, CacheTyped, RequestTyped, ProgressTyped, FileTyped,
                CacheInv, FileInv, Active
  <1>4. /\ prompt \in Seq(Item) /\ IsPrompt(prompt) /\ prompt # <<>> /\ Len(prompt) \in Nat
    BY <1>3, PromptTyped
  <1>5. /\ Sound(s.mem, Item) /\ s.mem.kind = mem.kind /\ IsTokens(s.tokens)
        /\ s.hashes \in Pic /\ Len(s.tokens) = Len(Contents(s.mem))
    BY <1>3, SeededIs
  <1>6. PICK p \in Pic : /\ Contents(s.mem) = Items(s.tokens, p)
                         /\ s.hashes # NoPicture => p = s.hashes
    BY <1>3, SeededIs
  <1> HIDE DEF s
  <1>7. s.tokens \in Seq(Item) /\ (s.hashes = Picture(prompt)) \in BOOLEAN
    BY <1>5 DEF IsTokens
  <1>8. /\ n \in Nat /\ n < Len(prompt) /\ n <= Len(s.tokens)
        /\ FirstItems(s.tokens, n) = FirstItems(Tokens(prompt), n)
        /\ s.hashes # Picture(prompt) => n <= FirstPicture(prompt)
    BY <1>1, <1>4, <1>7, ItemIs, KeptPrefixIs, ZenonT(60)
  <1> HIDE DEF n
  <1>9. FirstItems(Contents(s.mem), n) = FirstItems(prompt, n)
    <2>1. p = Picture(prompt) \/ \A i \in 1 .. n : prompt[i] \notin Pictures
      <3>1. CASE s.hashes = Picture(prompt)
        BY <1>1, <1>6, <3>1
      <3>2. CASE s.hashes # Picture(prompt)
        <4>1. \A i \in 1 .. FirstPicture(prompt) : prompt[i] \notin Pictures
          BY <1>1, <1>4, FirstPictureIs
        <4>2. FirstPicture(prompt) \in Nat
          BY <1>1, <1>4, FirstPictureIs, StartsAre
        <4>3. QED BY <1>8, <3>2, <4>1, <4>2
      <3>3. QED BY <3>1, <3>2
    <2> DEFINE c == Contents(s.mem)
    <2>2. c \in Seq(Item) /\ c = Items(s.tokens, p) /\ Len(c) = Len(s.tokens)
      BY <1>5, <1>6, ContentsAre
    <2> HIDE DEF c
    <2>3. c = FirstItems(Items(s.tokens, p), Len(c)) /\ Len(c) \in Nat
      <3>1. Len(c) \in Nat /\ FirstItems(c, Len(c)) = c
        BY <2>2, FirstItemsAll
      <3>2. QED BY <2>2, <3>1
    <2>4. FirstItems(c, n) = FirstItems(prompt, n)
      BY <1>3, <1>5, <1>6, <1>8, <2>1, <2>2, <2>3, CommonContents
    <2>5. QED BY <2>4 DEF c
  <1>10. /\ Sound(r.mem, Item) /\ r.mem.kind = mem.kind /\ r.n \in Nat /\ r.n < Len(prompt)
         /\ Contents(r.mem) = FirstItems(prompt, r.n)
    <2>1. CASE CanTruncate(s.mem, n) /\ Frontier(Truncated(s.mem, n)) = n
      <3>1. r = [mem |-> Truncated(s.mem, n), n |-> n]
        BY <2>1
      <3>2. /\ Sound(Truncated(s.mem, n), Item) /\ Truncated(s.mem, n).kind = s.mem.kind
            /\ Contents(Truncated(s.mem, n)) = FirstItems(Contents(s.mem), n)
        BY <1>5, <1>8, <2>1, TruncatedSound
      <3> HIDE DEF r
      <3>3. QED BY <1>5, <1>8, <1>9, <3>1, <3>2
    <2>2. CASE ~(CanTruncate(s.mem, n) /\ Frontier(Truncated(s.mem, n)) = n)
      <3>1. r = [mem |-> Cleared(s.mem.kind), n |-> 0]
        BY <2>2
      <3>2. s.mem.kind \in Kinds
        BY <1>5, ContentsAre
      <3>3. /\ Sound(Cleared(s.mem.kind), Item) /\ Cleared(s.mem.kind).kind = s.mem.kind
            /\ Contents(Cleared(s.mem.kind)) = <<>>
        BY <3>2, ClearedSound
      <3>4. FirstItems(prompt, 0) = <<>>
        BY <1>4, FirstItemsNone
      <3> HIDE DEF r
      <3>5. QED BY <1>5, <1>8, <3>1, <3>3, <3>4
    <2>3. QED BY <2>1, <2>2
  <1> HIDE DEF r
  <1>11. /\ f \in File /\ f.mem = file.mem /\ f.tokens = file.tokens
         /\ Sound(f.mem, Item) /\ IsTokens(f.tokens) /\ f.state = file.state
         /\ Captures => f.sidecar = NoPicture
         /\ f.state = "whole" => Truthful(f.tokens, f.mem, f.sidecar)
    <2>1. CASE Captures
      <3>1. /\ f \in File /\ f.mem = file.mem /\ f.tokens = file.tokens
            /\ f.state = file.state /\ f.sidecar = NoPicture
        BY <1>3, <2>1 DEF WithoutSidecar, File, Pic
      <3>2. f.state = "whole" => Truthful(f.tokens, f.mem, NoPicture)
        BY <1>3, <3>1, TruthfulWithout DEF FileTrue
      <3> HIDE DEF f
      <3>3. QED BY <1>3, <3>1, <3>2
    <2>2. CASE ~Captures
      <3>1. f = file
        BY <2>2
      <3> HIDE DEF f
      <3>2. QED BY <1>3, <2>2, <3>1 DEF FileTrue
    <2>3. QED BY <2>1, <2>2
  <1> HIDE DEF f
  <1>12. PICK c \in IF Captures /\ r.n > 0 THEN Capture(f, r.n, r.mem)
                    ELSE {[file |-> f, done |-> FALSE]} :
           file' = c.file /\ captured' = c.done
    BY <1>2
  <1>13. /\ file' \in File /\ Sound(file'.mem, Item) /\ IsTokens(file'.tokens)
         /\ captured' \in BOOLEAN /\ FileTrue'
         /\ Captures => file'.sidecar = NoPicture
         /\ captured' => Captures
         /\ captured' /\ file'.state = "whole" =>
              /\ file'.tokens = Tokens(FirstItems(prompt, r.n))
              /\ Contents(file'.mem) = FirstItems(prompt, r.n)
    <2>1. CASE Captures /\ r.n > 0
      <3>1. c \in Capture(f, r.n, r.mem)
        BY <1>12, <2>1
      <3>2. /\ c.file \in File /\ Sound(c.file.mem, Item) /\ IsTokens(c.file.tokens)
            /\ c.file.sidecar = NoPicture /\ c.done \in BOOLEAN
            /\ c.file.state = "whole" =>
                 /\ c.file.tokens = Tokens(FirstItems(prompt, r.n))
                 /\ Contents(c.file.mem) = FirstItems(prompt, r.n)
                 /\ Truthful(c.file.tokens, c.file.mem, c.file.sidecar)
        BY <1>3, <1>10, <1>11, <2>1, <3>1, CaptureIs
      <3>3. QED BY <1>12, <2>1, <3>2 DEF FileTrue
    <2>2. CASE ~(Captures /\ r.n > 0)
      <3>1. file' = f /\ captured' = FALSE
        BY <1>12, <2>2
      <3>2. QED BY <1>11, <3>1 DEF FileTrue
    <2>3. QED BY <2>1, <2>2
  <1>14. prompt' = prompt /\ media_processed' = media_processed /\ MediaPending'
    BY <1>1 DEF MediaPending, request
  <1>15. TypeInv'
    <2>1. CacheTyped'
      BY <1>1, <1>3, <1>5, <1>10 DEF CacheTyped
    <2>2. RequestTyped'
      BY <1>1, <1>3 DEF SlotInv, TypeInv, RequestTyped, Active, request
    <2>3. ProgressTyped'
      BY <1>1, <1>3, <1>10, <1>13 DEF ProgressTyped
    <2>4. FileTyped'
      BY <1>1, <1>3, <1>13 DEF FileTyped
    <2>5. QED BY <2>1, <2>2, <2>3, <2>4 DEF TypeInv
  <1>16. Captures' <=> Captures
    BY <1>1, <1>10 DEF Captures, HasRecurrent
  <1>17. CaptureInv'
    BY <1>1, <1>10, <1>13, <1>14 DEF CaptureInv
  <1>18. ChunksInv'
    BY <1>1, <1>4, <1>10, <1>13, <1>14, <1>16, <1>17 DEF ChunksInv
  <1>19. QED BY <1>1, <1>13, <1>14, <1>15, <1>18, AmongChunks

\* What holds between the chunks.
LEMMA ChunksIs ==
  ASSUME SlotInv, pc = "chunks"
  PROVE  /\ state = "prompt" /\ MediaPending /\ Picture(prompt) # NoPicture
         /\ prompt \in Prompts /\ prompt \in Seq(Item) /\ prompt # <<>>
         /\ Len(prompt) \in Nat /\ n_past \in Nat /\ n_past <= Len(prompt)
         /\ Sound(mem, Item) /\ Contents(mem) = FirstItems(prompt, n_past)
         /\ n_past = Len(prompt) => logits = prompt
         /\ FirstPicture(prompt) \in ChunkStarts(prompt) /\ FirstPicture(prompt) \in Nat
         /\ ChunkStarts(prompt) \in SUBSET Nat
  <1>1. state = "prompt" /\ MediaPending /\ Picture(prompt) # NoPicture
    BY DEF SlotInv, StageInv, MediaPending
  <1>2. prompt \in Prompts /\ n_past \in Nat /\ Sound(mem, Item)
    BY <1>1 DEF SlotInv, TypeInv, CacheTyped, RequestTyped, ProgressTyped, Active
  <1>3. prompt \in Seq(Item) /\ prompt # <<>> /\ Len(prompt) \in Nat
    BY <1>2, PromptTyped
  <1>4. /\ n_past <= Len(prompt) /\ Contents(mem) = FirstItems(prompt, n_past)
        /\ n_past = Len(prompt) => logits = prompt
    BY DEF SlotInv, ChunksInv
  <1>5. FirstPicture(prompt) \in ChunkStarts(prompt)
    BY <1>1, <1>3, FirstPictureIs
  <1>6. ChunkStarts(prompt) \in SUBSET Nat
    BY <1>3, StartsAre
  <1>7. QED BY <1>1, <1>2, <1>3, <1>4, <1>5, <1>6

LEMMA EvaluateChunkStep ==
  ASSUME SlotInv, EvaluateChunk
  PROVE  SlotInv'
  <1> DEFINE c == Min(NextChunks)
             e == ChunkEnd(prompt, c)
             new == SubSeq(prompt, n_past + 1, e)
  <1>1. /\ pc = "chunks" /\ NextChunks # {} /\ mem' = Extended(mem, new) /\ n_past' = e
        /\ logits' = IF e = Len(prompt) THEN Contents(mem') ELSE logits
        /\ UNCHANGED <<cache_tokens, hashes, state, request, save_prompt_state_tokens,
                       media_processed, pc, writing, requests>>
    BY DEF EvaluateChunk
  <1>2. \E d \in IF Captures /\ e = MediaBoundary(prompt) THEN Capture(file, e, mem')
                 ELSE {[file |-> file, done |-> FALSE]} :
          file' = d.file /\ captured' = (captured \/ d.done)
    BY DEF EvaluateChunk
  <1>3. /\ state = "prompt" /\ MediaPending /\ Picture(prompt) # NoPicture
        /\ prompt \in Prompts /\ prompt \in Seq(Item) /\ prompt # <<>>
        /\ Len(prompt) \in Nat /\ n_past \in Nat /\ n_past <= Len(prompt)
        /\ Sound(mem, Item) /\ Contents(mem) = FirstItems(prompt, n_past)
        /\ FirstPicture(prompt) \in ChunkStarts(prompt) /\ FirstPicture(prompt) \in Nat
        /\ ChunkStarts(prompt) \in SUBSET Nat
    BY <1>1, ChunksIs
  <1>4. /\ IsTokens(cache_tokens) /\ hashes \in Pic /\ FileTrue
        /\ file \in File /\ Sound(file.mem, Item) /\ IsTokens(file.tokens)
        /\ writing \in Writing /\ IsTokens(writing.tokens)
        /\ save_prompt_state_tokens \in Nat \cup {-1} /\ media_processed \in BOOLEAN
        /\ captured \in BOOLEAN
    BY DEF SlotInv, TypeInv, CacheTyped, ProgressTyped, FileTyped, FileInv
  <1>5. /\ Captures => file.sidecar = NoPicture
        /\ captured => Captures
        /\ CaptureInv
    BY <1>1 DEF SlotInv, ChunksInv
  <1>6. /\ c \in ChunkStarts(prompt) /\ c \in Nat /\ n_past <= c
        /\ \A b \in ChunkStarts(prompt) : b >= n_past => c <= b
    <2>1. NextChunks \in SUBSET Nat
      BY <1>3 DEF NextChunks
    <2>2. c \in NextChunks /\ \A b \in NextChunks : c <= b
      BY <1>1, <2>1, MinIs
    <2> HIDE DEF c
    <2>3. QED BY <1>3, <2>2 DEF NextChunks
  <1> HIDE DEF c
  <1>7. /\ e \in Nat /\ c < e /\ e <= Len(prompt)
        /\ \A b \in ChunkStarts(prompt) : b <= c \/ e <= b
    BY <1>3, <1>6, ChunkEndIs
  <1>8. c = FirstPicture(prompt) => e = MediaBoundary(prompt)
    <2>1. MediaBoundary(prompt) = ChunkEnd(prompt, FirstPicture(prompt))
      BY <1>3, FirstPictureIs
    <2>2. QED BY <2>1
  <1> HIDE DEF e
  <1>9. new \in Seq(Item) /\ FirstItems(prompt, n_past) \o new = FirstItems(prompt, e)
    <2>1. n_past <= e
      BY <1>3, <1>6, <1>7
    <2>2. QED BY <1>3, <1>7, <2>1, FirstExtended
  <1> HIDE DEF new
  <1>10. /\ Sound(mem', Item) /\ mem'.kind = mem.kind
         /\ Contents(mem') = FirstItems(prompt, e)
    <2>1. Sound(Extended(mem, new), Item) /\ Extended(mem, new).kind = mem.kind
      BY <1>3, <1>9, ExtendedSound
    <2>2. Contents(Extended(mem, new)) = Contents(mem) \o new
      BY <1>3, <1>9, ExtendedSound
    <2>3. QED BY <1>1, <1>3, <1>9, <2>1, <2>2
  <1>11. PICK d \in IF Captures /\ e = MediaBoundary(prompt) THEN Capture(file, e, mem')
                    ELSE {[file |-> file, done |-> FALSE]} :
           file' = d.file /\ captured' = (captured \/ d.done)
    BY <1>2
  <1>12. prompt' = prompt
    BY <1>1 DEF request
  <1>13. /\ file' \in File /\ Sound(file'.mem, Item) /\ IsTokens(file'.tokens)
         /\ captured' \in BOOLEAN /\ FileTrue' /\ CaptureInv'
         /\ Captures => file'.sidecar = NoPicture
         /\ captured' => Captures
    <2>1. CASE Captures /\ e = MediaBoundary(prompt)
      <3>1. d \in Capture(file, e, mem')
        BY <1>11, <2>1
      <3>2. /\ d.file \in File /\ Sound(d.file.mem, Item) /\ IsTokens(d.file.tokens)
            /\ d.file.sidecar = NoPicture /\ d.done \in BOOLEAN
            /\ d.file.state = "whole" =>
                 /\ d.file.tokens = Tokens(FirstItems(prompt, e))
                 /\ Contents(d.file.mem) = FirstItems(prompt, e)
                 /\ Truthful(d.file.tokens, d.file.mem, d.file.sidecar)
        BY <1>3, <1>4, <1>5, <1>7, <1>10, <2>1, <3>1, CaptureIs
      <3>3. CaptureInv'
        BY <1>1, <1>7, <1>11, <1>12, <3>2 DEF CaptureInv
      <3>4. FileTrue'
        BY <1>11, <3>2 DEF FileTrue
      <3>5. QED BY <1>4, <1>11, <2>1, <3>2, <3>3, <3>4
    <2>2. CASE ~(Captures /\ e = MediaBoundary(prompt))
      <3>1. d = [file |-> file, done |-> FALSE]
        BY <1>11, <2>2
      <3>2. file' = file /\ captured' = captured
        BY <1>4, <1>11, <3>1
      <3>3. FileTrue'
        BY <1>4, <3>2 DEF FileTrue
      <3>4. ASSUME captured, file.state = "whole"
            PROVE  \E k \in 0 .. Len(prompt) :
                     /\ file.tokens = Tokens(FirstItems(prompt, k))
                     /\ Contents(file.mem) = FirstItems(prompt, k)
                     /\ e > FirstPicture(prompt) => k > FirstPicture(prompt)
        \* The picture is not evaluated by this chunk: that would have been captured.
        <4>1. e > FirstPicture(prompt) => n_past > FirstPicture(prompt)
          BY <1>3, <1>5, <1>6, <1>7, <1>8, <2>2, <3>4
        <4>2. QED BY <1>5, <3>4, <4>1 DEF CaptureInv
      <3>5. CaptureInv'
        BY <1>1, <1>12, <3>2, <3>4 DEF CaptureInv
      <3>6. QED BY <1>4, <1>5, <3>2, <3>3, <3>5
    <2>3. QED BY <2>1, <2>2
  <1>14. MediaPending'
    BY <1>1, <1>3, <1>12 DEF MediaPending
  <1>15. TypeInv'
    <2>1. CacheTyped'
      BY <1>1, <1>4, <1>10 DEF CacheTyped
    <2>2. RequestTyped'
      BY <1>1, <1>3 DEF SlotInv, TypeInv, RequestTyped, Active, request
    <2>3. ProgressTyped'
      BY <1>1, <1>4, <1>7, <1>13 DEF ProgressTyped
    <2>4. FileTyped'
      BY <1>1, <1>4, <1>13 DEF FileTyped
    <2>5. QED BY <2>1, <2>2, <2>3, <2>4 DEF TypeInv
  <1>16. Captures' <=> Captures
    BY <1>1, <1>10 DEF Captures, HasRecurrent
  <1>17. n_past' = Len(prompt)' => logits' = prompt'
    <2>1. FirstItems(prompt, Len(prompt)) = prompt
      BY <1>3, FirstItemsAll
    <2>2. QED BY <1>1, <1>10, <1>12, <2>1
  <1>18. ChunksInv'
    BY <1>1, <1>7, <1>10, <1>12, <1>13, <1>16, <1>17 DEF ChunksInv
  <1>19. QED BY <1>1, <1>3, <1>13, <1>14, <1>15, <1>18, AmongChunks

\* What is left after the last chunk start is all picture, or all text.
LEMMA LastChunkIs ==
  ASSUME NEW x \in Seq(Item), NEW n \in Nat, n < Len(x), \A c \in ChunkStarts(x) : c < n
  PROVE  \/ \A i \in n + 1 .. Len(x) : x[i] \in Pictures
         \/ \A i \in n + 1 .. Len(x) : x[i] \notin Pictures
  <1> DEFINE Others == {i \in n + 1 .. Len(x) : ~(x[i] \in Pictures <=> x[n + 1] \in Pictures)}
  <1>1. Others = {}
    <2>1. SUFFICES ASSUME Others # {}
                   PROVE  FALSE
      OBVIOUS
    <2>2. Others \in SUBSET Nat
      OBVIOUS
    <2> HIDE DEF Others
    <2>3. PICK i \in Others : \A j \in Others : i <= j
      BY <2>1, <2>2, LeastExists
    <2>4. /\ i \in n + 2 .. Len(x) /\ i - 1 \in n + 1 .. Len(x)
          /\ ~(x[i] \in Pictures <=> x[n + 1] \in Pictures)
      BY <2>3 DEF Others
    <2>5. x[i - 1] \in Pictures <=> x[n + 1] \in Pictures
      <3>1. i - 1 \notin Others
        BY <2>3, <2>4
      <3>2. QED BY <2>4, <3>1 DEF Others
    <2>6. x[i - 1] # x[i] /\ {x[i - 1], x[i]} \cap Pictures # {}
      BY <2>4, <2>5
    <2>7. i - 1 \in 0 .. Len(x) - 1 /\ (i - 1) + 1 = i
      BY <2>4
    <2>8. i - 1 \in ChunkStarts(x)
      BY <2>6, <2>7 DEF ChunkStarts
    <2>9. QED BY <2>4, <2>8
  <1>2. \A i \in n + 1 .. Len(x) : x[i] \in Pictures <=> x[n + 1] \in Pictures
    BY <1>1
  <1>3. QED BY <1>2

LEMMA FinishMediaStep ==
  ASSUME SlotInv, FinishMedia
  PROVE  SlotInv'
  <1>1. /\ pc = "chunks" /\ NextChunks = {}
        /\ cache_tokens' = Tokens(prompt) /\ hashes' = Picture(prompt)
        /\ media_processed' = TRUE
        /\ file' = IF captured THEN [file EXCEPT !.sidecar = Picture(prompt)] ELSE file
        /\ save_prompt_state_tokens' = IF captured \/ save_prompt_state_tokens = -1 THEN -1
                                       ELSE Len(prompt)
        /\ IF n_past < Len(prompt) THEN pc' = "batch" /\ state' = state
           ELSE pc' = "checkpoint" /\ state' = "generating"
        /\ UNCHANGED <<mem, request, n_past, captured, logits, writing, requests>>
    BY DEF FinishMedia
  <1>2. /\ state = "prompt" /\ MediaPending /\ Picture(prompt) # NoPicture
        /\ prompt \in Prompts /\ prompt \in Seq(Item) /\ prompt # <<>>
        /\ Len(prompt) \in Nat /\ n_past \in Nat /\ n_past <= Len(prompt)
        /\ Sound(mem, Item) /\ Contents(mem) = FirstItems(prompt, n_past)
        /\ n_past = Len(prompt) => logits = prompt
        /\ FirstPicture(prompt) \in ChunkStarts(prompt) /\ FirstPicture(prompt) \in Nat
        /\ ChunkStarts(prompt) \in SUBSET Nat
    BY <1>1, ChunksIs
  <1>3. n_past > FirstPicture(prompt)
    <2>1. ~(FirstPicture(prompt) >= n_past)
      BY <1>1, <1>2 DEF NextChunks
    <2>2. QED BY <1>2, <2>1
  <1>4. /\ file \in File /\ Sound(file.mem, Item) /\ IsTokens(file.tokens) /\ FileTrue
        /\ writing \in Writing /\ IsTokens(writing.tokens) /\ captured \in BOOLEAN
        /\ save_prompt_state_tokens \in Nat \cup {-1} /\ CaptureInv
    BY <1>1 DEF SlotInv, TypeInv, FileTyped, ProgressTyped, FileInv, ChunksInv
  <1>5. /\ Picture(prompt) \in Pic /\ IsTokens(Tokens(prompt))
        /\ Len(Tokens(prompt)) = Len(prompt) /\ Items(Tokens(prompt), Picture(prompt)) = prompt
    BY <1>2, PromptTyped
  <1>6. prompt' = prompt /\ n_past' = n_past /\ Own' = prompt
    BY <1>1, <1>5 DEF request, Own
  <1>7. /\ file' \in File /\ file'.mem = file.mem /\ file'.tokens = file.tokens
        /\ file'.state = file.state
        /\ file'.sidecar = IF captured THEN Picture(prompt) ELSE file.sidecar
    BY <1>1, <1>4, <1>5 DEF File
  <1>8. FileTrue'
    <2>1. CASE captured /\ file.state = "whole"
      <3>1. PICK k \in 0 .. Len(prompt) :
              /\ file.tokens = Tokens(FirstItems(prompt, k))
              /\ Contents(file.mem) = FirstItems(prompt, k)
              /\ k > FirstPicture(prompt)
        BY <1>3, <1>4, <2>1 DEF CaptureInv
      <3>2. k \in Nat /\ k <= Len(prompt)
        BY <1>2, <3>1
      <3> DEFINE s == FirstItems(prompt, k)
      <3>3. s \in Seq(Item) /\ Items(Tokens(s), Picture(prompt)) = s
        BY <1>2, <3>2, BeginningIs
      <3>4. Len(s) = k /\ \A i \in 1 .. k : s[i] = prompt[i]
        BY <1>2, <3>2, FirstItemsAre
      <3> HIDE DEF s
      <3>5. IsPrefix(s, s)
        <4>1. Len(s) \in Nat /\ FirstItems(s, Len(s)) = s
          BY <3>3, FirstItemsAll
        <4>2. QED BY <3>3, <4>1, PrefixIs
      <3>6. Null \in ToSet(Tokens(s))
        <4> DEFINE i == FirstPicture(prompt) + 1
        <4>1. i \in 1 .. k
          BY <1>2, <3>1, <3>2
        <4>2. prompt[i] \in Pictures
          BY <1>2, FirstPictureIs
        <4> HIDE DEF i
        <4>3. /\ Tokens(s) \in Seq(Item) /\ Len(Tokens(s)) = Len(s)
              /\ Tokens(s)[i] = IF s[i] \in Pictures THEN Null ELSE s[i]
          BY <3>3, <3>4, <4>1, ItemIs, TokensAre
        <4>4. Tokens(s)[i] = Null /\ i \in DOMAIN Tokens(s)
          BY <3>4, <4>1, <4>2, <4>3
        <4>5. QED BY <4>4 DEF ToSet
      <3>7. file.tokens = Tokens(s) /\ Contents(file.mem) = s
        BY <3>1 DEF s
      <3>8. Truthful(file.tokens, file.mem, Picture(prompt))
        BY <1>5, <3>3, <3>5, <3>6, <3>7 DEF Truthful
      <3>9. QED BY <1>7, <2>1, <3>8 DEF FileTrue
    <2>2. CASE ~(captured /\ file.state = "whole")
      BY <1>4, <1>7, <2>2 DEF FileTrue
    <2>3. QED BY <2>1, <2>2
  <1>9. /\ state' \in {"prompt", "generating"} /\ pc' \in {"batch", "checkpoint"}
        /\ Active' /\ ~MediaPending' /\ Working'
        /\ pc' = "batch" => state' = "prompt"
    BY <1>1, <1>2 DEF Active, MediaPending, Working
  <1>10. save_prompt_state_tokens' \in {-1, Len(prompt)}
    BY <1>1
  <1>11. TypeInv'
    <2>1. CacheTyped'
      BY <1>1, <1>2, <1>5 DEF CacheTyped
    <2>2. RequestTyped'
      BY <1>1, <1>2, <1>9 DEF SlotInv, TypeInv, RequestTyped, request
    <2>3. ProgressTyped'
      BY <1>1, <1>2, <1>4, <1>9, <1>10 DEF ProgressTyped
    <2>4. FileTyped'
      BY <1>1, <1>4, <1>7 DEF FileTyped
    <2>5. QED BY <2>1, <2>2, <2>3, <2>4 DEF TypeInv
  <1>12. StageInv'
    BY <1>9 DEF StageInv
  <1>13. OwnInv'
    <2>1. IsPrefix(Tokens(prompt), Tokens(prompt))
      <3> DEFINE t == Tokens(prompt)
      <3>1. t \in Seq(Item)
        BY <1>5 DEF IsTokens
      <3> HIDE DEF t
      <3>2. Len(t) \in Nat /\ FirstItems(t, Len(t)) = t
        BY <3>1, FirstItemsAll
      <3>3. IsPrefix(t, t)
        BY <3>1, <3>2, PrefixIs
      <3>4. QED BY <3>3 DEF t
    <2>2. hashes' = Picture(prompt)' /\ n_past' <= Len(cache_tokens')
      BY <1>1, <1>2, <1>5, <1>6
    <2>3. Frontier(mem') = n_past' /\ OwnMemory'
      <3>1. Len(FirstItems(prompt, n_past)) = n_past
        BY <1>2, FirstItemsAre
      <3>2. Frontier(mem) = n_past
        BY <1>2, <3>1, ContentsAre
      <3>3. QED BY <1>1, <1>2, <1>6, <3>2 DEF OwnMemory
    <2>4. state' = "prompt" => cache_tokens' = Tokens(prompt)' /\ n_past' < Len(prompt)'
      BY <1>1, <1>2, <1>6
    <2>5. state' = "generating" =>
            /\ pc' = "checkpoint" /\ Len(cache_tokens') = n_past' /\ logits' = Own'
      BY <1>1, <1>2, <1>5, <1>6
    <2>6. n_past < Len(prompt) => Remainder'
      <3>1. SUFFICES ASSUME n_past < Len(prompt)
                     PROVE  Remainder'
        OBVIOUS
      <3>2. \A c \in ChunkStarts(prompt) : c < n_past
        BY <1>1, <1>2 DEF NextChunks
      <3>3. n_past > 0
        BY <1>2, <1>3
      <3>4. \/ \A i \in n_past + 1 .. Len(prompt) : prompt[i] \in Pictures
            \/ \A i \in n_past + 1 .. Len(prompt) : prompt[i] \notin Pictures
        BY <1>2, <3>1, <3>2, LastChunkIs
      <3>5. \A i \in 1 .. Len(prompt) :
              /\ Tokens(prompt)[i] = IF prompt[i] \in Pictures THEN Null ELSE prompt[i]
              /\ prompt[i] # Null
        BY <1>2, PromptTyped, ItemIs, TokensAre, PromptIs
      <3>6. \A i \in n_past + 1 .. Len(prompt) : i \in 1 .. Len(prompt)
        BY <1>2
      <3>7. \/ \A i \in n_past + 1 .. Len(prompt) : Tokens(prompt)[i] = Null
            \/ \A i \in n_past + 1 .. Len(prompt) : Tokens(prompt)[i] # Null
        BY <3>4, <3>5, <3>6
      <3>8. QED BY <1>1, <1>6, <1>10, <2>3, <3>3, <3>7 DEF Remainder
    <2>7. QED BY <1>1, <1>6, <2>1, <2>2, <2>3, <2>4, <2>5, <2>6 DEF OwnInv
  <1>14. SaveInv'
    BY <1>1, <1>2, <1>6, <1>10 DEF SaveInv
  <1>15. ChunksInv' /\ CacheInv' /\ FileInv'
    BY <1>8, <1>9 DEF ChunksInv, CacheInv, FileInv, Working
  <1>16. QED BY <1>11, <1>12, <1>13, <1>14, <1>15 DEF SlotInv

-----------------------------------------------------------------------------
(* The theorems                                                            *)

LEMMA InitSlot ==
  ASSUME Init
  PROVE  SlotInv
  <1>1. PICK k \in Models : mem = Cleared(k)
    BY DEF Init
  <1>2. k \in Kinds
    BY SlotStateAssumption
  <1>3. /\ Sound(mem, Item) /\ mem.kind = k /\ NoPicture \in Pic
        /\ Backed(mem, <<>>, NoPicture)
    BY <1>1, <1>2, ClearedSound, ClearedBacked, EmptyTokens DEF Pic
  <1>4. /\ cache_tokens = <<>> /\ hashes = NoPicture /\ state = "idle"
        /\ task_type = "completion" /\ documents = <<>> /\ paths = NoUse
        /\ media_processed = FALSE /\ n_past = 0 /\ save_prompt_state_tokens = -1
        /\ captured = FALSE /\ pc = "update"
        /\ file = NoFile(mem.kind) /\ writing = NotWriting
    BY DEF Init
  <1>5. ~Active /\ ~Working /\ paths \in Use /\ ~paths.load
    BY <1>4 DEF Active, Working, NoUse, Use
  <1>6. CacheTyped
    BY <1>3, <1>4, EmptyTokens DEF CacheTyped
  <1>7. RequestTyped /\ ProgressTyped
    <2>1. documents \in Seq(Documents)
      BY <1>4
    <2>2. RequestTyped
      BY <1>4, <1>5, <2>1 DEF RequestTyped
    <2>3. ProgressTyped
      BY <1>4 DEF ProgressTyped
    <2>4. QED BY <2>2, <2>3
  <1>8. FileTyped
    <2>1. /\ file.mem = Cleared(k) /\ file.tokens = <<>> /\ file.state = "none"
          /\ file.sidecar = NoPicture
      BY <1>3, <1>4 DEF NoFile
    <2>2. file = [state |-> "none", tokens |-> <<>>, mem |-> Cleared(k),
                  sidecar |-> NoPicture]
      BY <1>3, <1>4 DEF NoFile
    <2>3. Cleared(k) \in Memory
      BY <1>2, ClearedSound DEF Sound, Memory
    <2>4. file \in File
      BY <1>3, <2>2, <2>3 DEF File
    <2>5. writing \in Writing /\ IsTokens(writing.tokens)
      BY <1>3, <1>4, EmptyTokens DEF Writing, NotWriting
    <2>6. QED BY <1>2, <2>1, <2>4, <2>5, ClearedSound, EmptyTokens DEF FileTyped
  <1>9. FileInv
    BY <1>4 DEF FileInv, FileTrue, NoFile
  <1>10. StageInv /\ OwnInv /\ SaveInv /\ ChunksInv /\ CacheInv
    BY <1>3, <1>4, <1>5 DEF StageInv, OwnInv, SaveInv, ChunksInv, CacheInv
  <1>11. QED BY <1>6, <1>7, <1>8, <1>9, <1>10 DEF SlotInv, TypeInv

LEMMA UnchangedSlot ==
  ASSUME SlotInv, UNCHANGED vars
  PROVE  SlotInv'
  <1> USE DEF vars, cache, request, progress, Active, MediaPending, Working
  <1>1. TypeInv'
    BY DEF SlotInv, TypeInv, CacheTyped, RequestTyped, ProgressTyped, FileTyped
  <1>2. StageInv' /\ SaveInv' /\ CacheInv' /\ FileInv'
    BY DEF SlotInv, StageInv, SaveInv, CacheInv, FileInv, FileTrue
  <1>3. OwnInv'
    BY DEF SlotInv, OwnInv, OwnMemory, Remainder, PassedOver, Own, SampleNext
  <1>4. ChunksInv'
    BY DEF SlotInv, ChunksInv, CaptureInv, Captures
  <1>5. QED BY <1>1, <1>2, <1>3, <1>4 DEF SlotInv

\* The inductive invariant: what is in the memory of a sequence is backed by cache_tokens
\* between requests and is the request's own while it is worked on; the prompt is saved
\* where a batch ended for it; what is in the state file was in a memory.
THEOREM SlotInvariant == Spec => []SlotInv
  <1>1. Init => SlotInv
    BY InitSlot
  <1>2. ASSUME SlotInv, [Next]_vars
        PROVE  SlotInv'
    <2>1. ASSUME Claim
          PROVE  SlotInv'
      BY <1>2, <2>1, FailLoadStep, ClaimCompletionStep, ClaimEmbeddingStep, ClaimRerankStep
         DEF Claim
    <2>2. ASSUME Batch
          PROVE  SlotInv'
      BY <1>2, <2>2, LoadMediaStep, EvaluateChunkStep, ChunkFailsStep, FinishMediaStep,
         DecodePromptStep, SkipPlaceholdersStep, DecodeGeneratedStep, DecodeFailsStep, CheckpointStep,
         WriteStateStep, WriteSidecarStep DEF Batch
    <2>3. ASSUME Sampling
          PROVE  SlotInv'
      BY <1>2, <2>3, SkipSamplingStep, SampleTokenStep, SampleEndStep, AnswerEmbeddingStep,
         ScoreDocumentStep, CompleteSavedStep, CancelStep, ReleaseStep DEF Sampling
    <2>4. QED
      BY <1>2, <2>1, <2>2, <2>3, ClearCacheStep, CrashStep, UnchangedSlot DEF Next
  <1>3. QED BY <1>1, <1>2, PTL DEF Spec

\* While a slot works for a request the memory of its sequence holds what the request
\* consists of, up to n_past, and what is sampled comes from all of it; whatever the
\* request before, a state file, a failure or clearCache() left there.  All that may be
\* missing is the end of a picture that was passed over.
THEOREM SlotMemoryIsOwn == Spec => []MemoryIsOwn
  <1>1. ASSUME SlotInv
        PROVE  MemoryIsOwn
    <2>1. ASSUME Working
          PROVE  /\ IsPrefix(prompt, Own)
                 /\ Holds(mem, FirstItems(Own, IF PassedOver THEN Frontier(mem) ELSE n_past))
      <3> DEFINE f == Frontier(mem)
      <3>1. /\ prompt \in Prompts /\ Picture(prompt) \in Pic /\ Sound(mem, Item)
            /\ IsTokens(cache_tokens) /\ n_past \in Nat /\ Len(cache_tokens) \in Nat
            /\ Own \in Seq(Item) /\ Len(Own) = Len(cache_tokens)
            /\ Contents(mem) = FirstItems(Own, f) /\ f \in Nat
            /\ f = n_past \/ PassedOver
        BY <1>1, <2>1, WorkingMemory
      <3>2. Holds(mem, FirstItems(Own, IF PassedOver THEN f ELSE n_past))
        <4> HIDE DEF f
        <4>1. FirstItems(Own, f) \in Seq(Item)
          BY <3>1, FirstItemsAre
        <4>2. Holds(mem, FirstItems(Own, f))
          BY <3>1, <4>1, ContentsAre
        <4>3. QED BY <3>1, <4>2
      <3> DEFINE t == Tokens(prompt)
      <3>3. /\ prompt \in Seq(Item) /\ IsTokens(t) /\ Len(t) = Len(prompt)
            /\ Len(prompt) \in Nat /\ Items(t, Picture(prompt)) = prompt
        BY <3>1, PromptTyped
      <3>4. IsPrefix(t, cache_tokens)
        BY <1>1, <2>1 DEF SlotInv, OwnInv
      <3> HIDE DEF t
      <3>5. t \in Seq(Item) /\ cache_tokens \in Seq(Item) /\ Picture(prompt) \in Item
        BY <3>1, <3>3, ItemIs DEF IsTokens
      <3>6. Len(t) <= Len(cache_tokens) /\ t = FirstItems(cache_tokens, Len(t))
        BY <3>4, <3>5, PrefixIs
      <3>7. Items(FirstItems(cache_tokens, Len(t)), Picture(prompt)) = FirstItems(Own, Len(t))
        BY <3>3, <3>5, FirstOfItems DEF Own
      <3>8. prompt = FirstItems(Own, Len(prompt))
        BY <3>3, <3>6, <3>7
      <3>9. IsPrefix(prompt, Own)
        BY <3>1, <3>3, <3>6, <3>8, PrefixIs
      <3>10. QED BY <3>2, <3>9
    <2>2. pc = "sample" /\ state = "generating" => PassedOver \/ logits = Own
      BY <1>1, SamplingIs DEF SlotInv, OwnInv, SampleNext
    <2>3. QED BY <2>1, <2>2 DEF MemoryIsOwn, Working
  <1>2. QED BY <1>1, SlotInvariant, PTL

\* The tokens of a state file are the beginning of what the memory saved with it holds,
\* all of it for a recurrent state, unless the end of a picture had been passed over; and
\* a sidecar names the picture that is in it; after every write, a failed one and a crash
\* between two.
THEOREM SlotFilesTellTheTruth == Spec => []FilesTellTheTruth
  <1>1. ASSUME SlotInv
        PROVE  FilesTellTheTruth
    <2>1. ASSUME file.state = "whole"
          PROVE  \E p \in Pictures \cup {NoPicture} :
                   /\ \/ /\ IsPrefix(Items(file.tokens, p), Contents(file.mem))
                         /\ HasRecurrent(file.mem) => Holds(file.mem, Items(file.tokens, p))
                      \/ /\ OnlyPlaceholdersMissing(file.mem, file.tokens)
                         /\ IsPrefix(Contents(file.mem), Items(file.tokens, p))
                   /\ file.sidecar # NoPicture =>
                        file.sidecar = Picture(Items(file.tokens, p))
      <3>1. /\ Truthful(file.tokens, file.mem, file.sidecar) /\ IsTokens(file.tokens)
            /\ Sound(file.mem, Item) /\ file.sidecar \in Pic
        BY <1>1, <2>1 DEF SlotInv, FileInv, FileTrue, TypeInv, FileTyped, File
      <3>2. PICK p \in Pic :
              /\ \/ /\ IsPrefix(Items(file.tokens, p), Contents(file.mem))
                    /\ HasRecurrent(file.mem) => Contents(file.mem) = Items(file.tokens, p)
                 \/ /\ OnlyPlaceholdersMissing(file.mem, file.tokens)
                    /\ IsPrefix(Contents(file.mem), Items(file.tokens, p))
              /\ file.sidecar # NoPicture => p = file.sidecar /\ Null \in ToSet(file.tokens)
        BY <3>1 DEF Truthful
      <3>3. Items(file.tokens, p) \in Seq(Item)
        BY <3>1, <3>2, TokenItems
      <3>4. Contents(file.mem) = Items(file.tokens, p) => Holds(file.mem, Items(file.tokens, p))
        BY <3>1, <3>3, ContentsAre
      <3>5. file.sidecar # NoPicture => file.sidecar = Picture(Items(file.tokens, p))
        BY <3>1, <3>2, PictureOfItems DEF Pic
      <3>6. QED BY <3>2, <3>4, <3>5 DEF Pic
    <2>2. QED BY <2>1 DEF FilesTellTheTruth
  <1>2. QED BY <1>1, SlotInvariant, PTL
=============================================================================
