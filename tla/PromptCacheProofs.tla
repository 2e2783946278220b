------------------------- MODULE PromptCacheProofs -------------------------
(***************************************************************************)
(* Theorems about PromptCache for all prompts with at most one picture,    *)
(* all kinds of memory, every size of context, batch and snapshot cache,   *)
(* and any number of operations: embd describes the memory, what is        *)
(* sampled comes from the completion's own prompt, snapshots and session   *)
(* file are what they say.                                                 *)
(*                                                                         *)
(* All of it is about states that are not `stale'; of a stale one only the *)
(* types and the lengths are known, and the way back, clearCache() or a    *)
(* new process, forgets everything.                                        *)
(***************************************************************************)
EXTENDS PromptCache, MediaPromptsProofs

-----------------------------------------------------------------------------
(* The inductive invariant                                                 *)

\* All that a sequence may hold.
Anything == Item \cup {Null, NoPicture, Zero, Unaccounted}

\* The tokens of prompts and those that are sampled.
Word == {Token(i) : i \in Item}

Read == Item \cup {Unaccounted}
Memory == [kind : Kinds, attn : Seq(Item), rec : Seq(Read), pos : Nat]
Checkpoint == [tokens : Seq(TokenType), state : [rec : Seq(Read), pos : Nat]]
File == [state : {"none", "cut", "whole"}, tokens : Seq(TokenType), mem : Memory,
         sidecar : Hash, stale : BOOLEAN]

Running == pc \in {"queued", "chunks", "loop", "decode", "sample"}
Generating == pc \in {"loop", "decode", "sample"}

CacheTyped ==
  /\ mem \in Memory /\ embd \in Seq(TokenType) /\ n_past \in Nat
  /\ ckpts \in Seq(Checkpoint) /\ hash \in Hash

RequestTyped ==
  /\ op \in {"none", "completion", "embedding", "saveSession"}
  /\ pc \in {"idle", "queued", "chunks", "loop", "decode", "sample", "state", "sidecar"}
  /\ prompt \in Prompts \cup {<<>>} /\ n_predict \in NPredict \cup {0, -1}
  /\ num_prompt_tokens \in 0 .. NCtx

ControlTyped ==
  /\ boundary_ckpts \in SUBSET (1 .. NCtx) /\ checkpoint_pending \in BOOLEAN
  /\ n_remain \in Nat /\ has_next_token \in BOOLEAN /\ is_interrupted \in BOOLEAN
  /\ incomplete \in BOOLEAN

FileTyped == file \in File /\ saving \in [tokens : Seq(TokenType), picture : Hash]

HistoryTyped ==
  ctx_shift \in BOOLEAN /\ ops \in 0 .. MaxOps[ctx_shift] /\ stale \in BOOLEAN

TypeInv == CacheTyped /\ RequestTyped /\ ControlTyped /\ FileTyped /\ HistoryTyped

\* Which operation is at which step.
StageInv ==
  /\ pc = "idle" <=> op = "none"
  /\ pc \in {"state", "sidecar"} <=> op = "saveSession"
  /\ Running => op \in {"completion", "embedding"} /\ prompt \in Prompts
  /\ pc \in {"queued", "chunks"} => ~incomplete
  /\ pc = "chunks" => Picture(prompt) # NoPicture /\ Len(prompt) < NCtx

\* While generation goes on under a limit, a token is left.
CountInv ==
  /\ pc \in {"chunks", "decode", "sample"} \/ (pc = "loop" /\ has_next_token)
  /\ n_predict > 0
  => n_remain > 0

\* Tokens stand for what was read, with the picture h if that is known.
Names(tokens, read, h) ==
  \E p \in Hash :
    /\ read = Items(tokens, p)
    /\ Null \in ToSet(tokens) /\ h # NoPicture => p = h

SoundInv == ~stale => Sound(mem, Item)

\* Between operations, before one begins to change the memory, and while it is saved.
IdleInv ==
  ~stale /\ pc \in {"idle", "queued", "state", "sidecar"} => Names(embd, Contents(mem), hash)

\* The evaluation of the chunks is at the beginning of one, or in the text or picture that
\* ends the prompt.
AtChunk(n) == n \in ChunkStarts(prompt) \/ \A c \in ChunkStarts(prompt) : c < n

ChunksInv == pc = "chunks" =>
  /\ n_past <= Len(prompt) /\ AtChunk(n_past)
  /\ ~stale => /\ Contents(mem) = FirstItems(prompt, n_past)
               /\ n_past = Len(prompt) => logits = prompt

\* Lengths in the generation loop, whatever the memory holds.
LoopInv == Generating =>
  /\ embd \in Seq(Word) /\ n_past <= Len(embd) /\ Len(embd) <= NCtx
  /\ pc = "decode" => n_past < Len(embd) /\ Len(embd) < NCtx
  /\ pc = "sample" => n_past = Len(embd) /\ Len(embd) < NCtx
  /\ pc = "loop" => Len(embd) < NCtx \/ Len(embd) <= n_past + 1
  /\ IF Picture(prompt) = NoPicture THEN Null \notin ToSet(embd) ELSE hash = Picture(prompt)

\* What embd says of the memory in the generation loop.
Own == Items(FirstItems(embd, n_past), Picture(prompt))

OwnInv == Generating /\ ~stale =>
  /\ Contents(mem) = Own
  /\ \/ pc = "sample" \/ incomplete
     \/ pc = "loop" /\ has_next_token /\ n_past = Len(embd)
     => logits = Own

\* A snapshot is of the tokens it names.
Exact(c, h) == Names(c.tokens, c.state.rec, h) /\ c.state.pos = Size(c)

\* While chunks are evaluated the picture is known, but not yet put down.
SnapshotInv == ~stale =>
  \A i \in DOMAIN ckpts : Exact(ckpts[i], IF pc = "chunks" THEN Picture(prompt) ELSE hash)

\* What is in the session file was in the memory: more of it, perhaps, than its tokens name.
FileOfPicture(h) ==
  file.state = "whole" /\ ~file.stale =>
    /\ Sound(file.mem, Item)
    /\ \E p \in Hash :
         /\ IsPrefix(Items(file.tokens, p), Contents(file.mem))
         /\ Null \in ToSet(file.tokens) /\ h # NoPicture => p = h

FileTrue == FileOfPicture(file.sidecar)

\* While a session is saved, the file gets what is in the memory, with the picture that
\* the hashes name; the sidecar that is to follow names it only if a position of it is saved.
FileInv ==
  /\ SidecarDescribesFile /\ FileTrue
  /\ pc \in {"state", "sidecar"} =>
       /\ file.sidecar = NoPicture /\ saving.picture \in {NoPicture, hash}
       /\ saving.picture # NoPicture => Null \in ToSet(saving.tokens)
  /\ pc = "state" => IsPrefix(saving.tokens, embd)
  /\ pc = "sidecar" =>
       file.state = "whole" /\ file.tokens = saving.tokens /\ FileOfPicture(hash)

CacheInv ==
  /\ TypeInv /\ StageInv /\ CountInv /\ SoundInv /\ IdleInv /\ ChunksInv /\ LoopInv
  /\ OwnInv /\ SnapshotInv /\ FileInv

-----------------------------------------------------------------------------
(* Values                                                                  *)

\* What a text is made of: each item is its own token.
TextItem == Item \ Pictures

LEMMA ValueIs ==
  /\ Null \in Anything /\ NoPicture \in Anything /\ Zero \in Anything
  /\ Unaccounted \in Anything /\ Null \notin Item
  /\ Null \notin Pictures /\ NoPicture \notin Pictures /\ Zero \notin Pictures
  /\ Pictures \subseteq Item /\ Item \subseteq Anything /\ Read \subseteq Anything
  /\ Hash \subseteq Anything /\ NoPicture \in Hash
  /\ TextItem \subseteq Word /\ Word \subseteq TokenType /\ TokenType \subseteq Anything
  /\ Word \ {Null} \subseteq TextItem /\ TextItem \subseteq Item /\ Null \notin TextItem
  /\ Sampled \subseteq TextItem
  <1>1. /\ Null \notin Pictures /\ NoPicture \notin Pictures /\ Zero \notin Pictures
        /\ Null \notin Delimiters /\ Null \notin Sampled /\ Pictures \cap Sampled = {}
    BY PromptCacheAssumption
  <1>2. \A p \in Prompts : Null \notin ToSet(p)
    BY PromptCacheAssumption DEF IsPrompt
  <1>3. Null \notin Item
    BY <1>1, <1>2 DEF Item
  <1>4. Pictures \subseteq Item /\ Sampled \subseteq Item
    BY DEF Item
  <1>5. \A i \in Item : Token(i) = IF i \in Pictures THEN Null ELSE i
    BY DEF Token
  <1>6. TextItem \subseteq Word /\ Word \ {Null} \subseteq TextItem /\ Word \subseteq Item \cup {Null}
    BY <1>5 DEF Word, TextItem
  <1>7. Word \subseteq TokenType /\ TokenType \subseteq Word \cup {Zero}
    BY DEF Word, TokenType
  <1>8. Hash \subseteq Item \cup {NoPicture} /\ NoPicture \in Hash
    BY <1>4 DEF Hash
  <1>9. QED BY <1>1, <1>3, <1>4, <1>6, <1>7, <1>8 DEF Anything, Read, TextItem

LEMMA SeqWider ==
  ASSUME NEW A, NEW B, A \subseteq B, NEW s \in Seq(A)
  PROVE  s \in Seq(B)
  OBVIOUS

LEMMA SubIs ==
  ASSUME NEW S, NEW s \in Seq(S), NEW m \in Nat, NEW n \in Nat, m <= n, n <= Len(s)
  PROVE  /\ SubSeq(s, m + 1, n) \in Seq(S) /\ Len(SubSeq(s, m + 1, n)) = n - m
         /\ \A i \in 1 .. n - m : SubSeq(s, m + 1, n)[i] = s[m + i]
  OBVIOUS

LEMMA ToSetIs ==
  ASSUME NEW S, NEW s \in Seq(S), NEW x
  PROVE  x \in ToSet(s) <=> \E i \in 1 .. Len(s) : s[i] = x
  BY DEF ToSet

LEMMA PromptTyped ==
  ASSUME NEW x \in Prompts
  PROVE  /\ x \in Seq(Item) /\ IsPrompt(x) /\ x # <<>> /\ x \in Seq(Anything)
         /\ Len(x) \in Nat /\ Len(x) > 0
         /\ Picture(x) \in Hash
         /\ Tokens(x) \in Seq(Word) /\ Tokens(x) \in Seq(Anything) /\ Len(Tokens(x)) = Len(x)
         /\ Items(Tokens(x), Picture(x)) = x
         /\ Picture(x) = NoPicture => x \in Seq(TextItem)
  <1>1. IsPrompt(x) /\ ToSet(x) \subseteq Item
    BY PromptCacheAssumption DEF Item
  <1>2. x \in Seq(Item) /\ x # <<>>
    BY <1>1 DEF IsPrompt
  <1>3. x \in Seq(Anything)
    BY <1>2, ValueIs, SeqWider
  <1>4. Len(x) \in Nat /\ Len(x) > 0
    BY <1>2
  <1>5. Picture(x) \in Hash
    BY <1>1, <1>3, ValueIs, PromptIs, PictureIs DEF Hash
  <1>6. /\ Tokens(x) \in Seq(Anything) /\ Len(Tokens(x)) = Len(x)
    BY <1>3, ValueIs, TokensAre
  <1>7. Tokens(x) \in Seq(Word)
    <2>1. \A i \in 1 .. Len(x) : Tokens(x)[i] \in Word
      BY <1>2 DEF Tokens, Word
    <2>2. QED BY <2>1, <1>6
  <1>8. Items(Tokens(x), Picture(x)) = x
    <2>1. Pictures \subseteq Anything
      BY ValueIs
    <2>2. QED BY <1>1, <1>3, <2>1, ValueIs, PromptRecovered
  <1>9. ASSUME Picture(x) = NoPicture PROVE x \in Seq(TextItem)
    <2>1. \A i \in 1 .. Len(x) : x[i] \notin Pictures
      BY <1>1, <1>3, <1>9, ValueIs, PromptIs, PictureIs
    <2>2. QED BY <1>2, <2>1 DEF TextItem
  <1>10. QED BY <1>1, <1>2, <1>3, <1>4, <1>5, <1>6, <1>7, <1>8, <1>9

\* A text stands for itself.
LEMMA TextIs ==
  ASSUME NEW t \in Seq(TextItem), NEW p \in Anything
  PROVE  /\ t \in Seq(Item) /\ t \in Seq(Word) /\ t \in Seq(Anything)
         /\ Items(t, p) = t /\ Null \notin ToSet(t)
  <1>1. t \in Seq(Item) /\ t \in Seq(Word) /\ t \in Seq(Anything)
    <2>1. TextItem \subseteq Anything
      BY ValueIs
    <2>2. QED BY <2>1, ValueIs, SeqWider
  <1>2. \A i \in 1 .. Len(t) : t[i] # Null
    BY ValueIs
  <1>3. /\ Items(t, p) \in Seq(Anything) /\ Len(Items(t, p)) = Len(t)
        /\ \A i \in 1 .. Len(t) : Items(t, p)[i] = IF t[i] = Null THEN p ELSE t[i]
    BY <1>1, ItemsAre
  <1>4. Items(t, p) = t
    BY <1>1, <1>2, <1>3, SeqEqual
  <1>5. QED BY <1>1, <1>2, <1>4, ToSetIs

\* Tokens of a prompt, or of the end of one and what was generated, without the media.
LEMMA WordsAre ==
  ASSUME NEW t \in Seq(Word), Null \notin ToSet(t)
  PROVE  t \in Seq(TextItem)
  <1>1. \A i \in 1 .. Len(t) : t[i] \in Word \ {Null}
    BY ToSetIs
  <1>2. QED BY <1>1, ValueIs

LEMMA EmptyIs ==
  ASSUME NEW S, NEW p
  PROVE  <<>> \in Seq(S) /\ Items(<<>>, p) = <<>> /\ Len(<<>>) = 0 /\ Null \notin ToSet(<<>>)
  BY DEF Items, ToSet

-----------------------------------------------------------------------------
(* Tokens and what they name                                               *)

LEMMA NamedIs ==
  ASSUME NEW t \in Seq(TokenType), NEW read, NEW h, Names(t, read, h)
  PROVE  read \in Seq(Anything) /\ Len(read) = Len(t)
  <1>1. PICK p \in Hash : read = Items(t, p)
    BY DEF Names
  <1>2. t \in Seq(Anything) /\ p \in Anything
    BY ValueIs, SeqWider
  <1>3. QED BY <1>1, <1>2, ItemsAre

LEMMA NothingNamed ==
  ASSUME NEW h \in Hash
  PROVE  Names(<<>>, <<>>, h)
  BY EmptyIs DEF Names

LEMMA TextNamed ==
  ASSUME NEW t \in Seq(TextItem), NEW h
  PROVE  Names(t, t, h)
  <1>1. NoPicture \in Hash /\ NoPicture \in Anything
    BY ValueIs
  <1>2. Items(t, NoPicture) = t /\ Null \notin ToSet(t)
    BY <1>1, TextIs
  <1>3. QED BY <1>1, <1>2 DEF Names

\* Tokens without media name the same, whatever the picture.
LEMMA NamedWithoutMedia ==
  ASSUME NEW t, NEW read, NEW h, Names(t, read, h), NEW g, Null \in ToSet(t) => g = h
  PROVE  Names(t, read, g)
  BY DEF Names

LEMMA PromptNamed ==
  ASSUME NEW x \in Prompts, NEW n \in Nat
  PROVE  Names(FirstItems(Tokens(x), n), FirstItems(x, n), Picture(x))
  <1>1. /\ x \in Seq(Anything) /\ Tokens(x) \in Seq(Anything) /\ Picture(x) \in Hash
        /\ Items(Tokens(x), Picture(x)) = x
    BY PromptTyped
  <1>2. Picture(x) \in Anything
    BY <1>1, ValueIs
  <1>3. Items(FirstItems(Tokens(x), n), Picture(x)) = FirstItems(x, n)
    BY <1>1, <1>2, FirstOfItems
  <1>4. QED BY <1>1, <1>3 DEF Names

\* The beginning that tokens share with a prompt stands for the prompt's, if its picture
\* is the prompt's too or has not come yet.
LEMMA CommonItems ==
  ASSUME NEW t \in Seq(Anything), NEW p \in Hash, NEW x \in Prompts,
         NEW n \in Nat, n <= Len(t), n <= Len(x),
         FirstItems(t, n) = FirstItems(Tokens(x), n),
         p = Picture(x) \/ \A i \in 1 .. n : x[i] \notin Pictures
  PROVE  FirstItems(Items(t, p), n) = FirstItems(x, n)
  <1>1. /\ p \in Anything /\ x \in Seq(Anything) /\ Tokens(x) \in Seq(Anything)
        /\ Len(Tokens(x)) = Len(x) /\ IsPrompt(x)
    BY PromptTyped, ValueIs
  <1>2. FirstItems(Items(t, p), n) = Items(FirstItems(t, n), p)
    BY <1>1, FirstOfItems
  <1>3. Items(FirstItems(Tokens(x), n), p) = FirstItems(Items(Tokens(x), p), n)
    BY <1>1, FirstOfItems
  <1> DEFINE y == Items(Tokens(x), p)
  <1>4. /\ y \in Seq(Anything) /\ Len(y) = Len(x)
        /\ \A i \in 1 .. Len(x) : y[i] = IF Tokens(x)[i] = Null THEN p ELSE Tokens(x)[i]
    BY <1>1, ItemsAre
  <1>5. ASSUME NEW i \in 1 .. n
        PROVE  y[i] = x[i]
    <2>1. i \in 1 .. Len(x)
      BY <1>1
    <2>2. Tokens(x)[i] = IF x[i] \in Pictures THEN Null ELSE x[i]
      BY <1>1, <2>1, ValueIs, TokensAre
    <2>3. x[i] # Null
      BY <1>1, <2>1, ValueIs, PromptIs
    <2>4. x[i] \in Pictures => Picture(x) = x[i]
      BY <1>1, <2>1, ValueIs, PromptIs, PictureIs
    <2>5. QED BY <1>4, <2>1, <2>2, <2>3, <2>4
  <1>6. FirstItems(y, n) = FirstItems(x, n)
    <2> HIDE DEF y
    <2>1. /\ FirstItems(y, n) \in Seq(Anything) /\ Len(FirstItems(y, n)) = n
          /\ \A i \in 1 .. n : FirstItems(y, n)[i] = y[i]
      BY <1>4, FirstItemsAre
    <2>2. /\ FirstItems(x, n) \in Seq(Anything) /\ Len(FirstItems(x, n)) = n
          /\ \A i \in 1 .. n : FirstItems(x, n)[i] = x[i]
      BY <1>1, FirstItemsAre
    <2>3. QED BY <1>5, <2>1, <2>2, SeqEqual
  <1>7. QED BY <1>2, <1>3, <1>6

LEMMA CommonNamed ==
  ASSUME NEW t \in Seq(TokenType), NEW read, NEW h, Names(t, read, h), NEW x \in Prompts,
         NEW n \in Nat, n <= Len(t), n <= Len(x),
         FirstItems(t, n) = FirstItems(Tokens(x), n),
         h = Picture(x) \/ \A i \in 1 .. n : x[i] \notin Pictures
  PROVE  FirstItems(read, n) = FirstItems(x, n)
  <1>1. PICK p \in Hash : /\ read = Items(t, p)
                          /\ Null \in ToSet(t) /\ h # NoPicture => p = h
    BY DEF Names
  <1>2. /\ t \in Seq(Anything) /\ x \in Seq(Anything) /\ IsPrompt(x)
        /\ Tokens(x) \in Seq(Anything) /\ Len(Tokens(x)) = Len(x)
    BY PromptTyped, ValueIs, SeqWider
  <1>3. CASE \A i \in 1 .. n : x[i] \notin Pictures
    BY <1>1, <1>2, <1>3, CommonItems
  <1>4. CASE \E i \in 1 .. n : x[i] \in Pictures
    <2>1. PICK i \in 1 .. n : x[i] \in Pictures
      BY <1>4
    <2>2. i \in 1 .. Len(x) /\ i \in 1 .. Len(t)
      BY <1>2
    <2>3. Picture(x) # NoPicture
      <3>1. Picture(x) = x[i]
        BY <1>2, <2>1, <2>2, ValueIs, PromptIs, PictureIs
      <3>2. QED BY <2>1, <3>1, ValueIs
    <2>4. t[i] = Null
      <3>1. Tokens(x)[i] = Null
        BY <1>2, <2>1, <2>2, ValueIs, TokensAre
      <3>2. FirstItems(t, n)[i] = t[i] /\ FirstItems(Tokens(x), n)[i] = Tokens(x)[i]
        BY <1>2, FirstItemsAre
      <3>3. QED BY <3>1, <3>2
    <2>5. Null \in ToSet(t)
      BY <1>2, <2>2, <2>4, ToSetIs
    <2>6. p = Picture(x)
      BY <1>1, <1>4, <2>3, <2>5
    <2>7. QED BY <1>1, <1>2, <2>6, CommonItems
  <1>5. QED BY <1>3, <1>4

\* A snapshot whose tokens begin a prompt is of the beginning of the prompt.
LEMMA PrefixNamed ==
  ASSUME NEW t \in Seq(TokenType), NEW read, NEW h, Names(t, read, h), NEW x \in Prompts,
         IsPrefix(t, Tokens(x)),
         h = Picture(x) \/ \A i \in 1 .. Len(t) : x[i] \notin Pictures
  PROVE  read = FirstItems(x, Len(t)) /\ Len(t) <= Len(x)
  <1>1. /\ t \in Seq(Anything) /\ Tokens(x) \in Seq(Anything) /\ Len(Tokens(x)) = Len(x)
    BY PromptTyped, ValueIs, SeqWider
  <1>2. Len(t) <= Len(x) /\ t = FirstItems(Tokens(x), Len(t)) /\ Len(t) \in Nat
    BY <1>1, PrefixIs
  <1>3. FirstItems(t, Len(t)) = t
    BY <1>1, <1>2, FirstItemsAll
  <1>4. FirstItems(read, Len(t)) = FirstItems(x, Len(t))
    BY <1>2, <1>3, CommonNamed
  <1>5. read \in Seq(Anything) /\ Len(read) = Len(t)
    BY NamedIs
  <1>6. FirstItems(read, Len(t)) = read
    BY <1>2, <1>5, FirstItemsAll
  <1>7. QED BY <1>2, <1>4, <1>6

-----------------------------------------------------------------------------
(* The snapshots                                                           *)

\* What remains of the snapshots are those at the indices I.
LEMMA RemainingIs ==
  ASSUME NEW C, NEW cs \in Seq(C), NEW I
  PROVE  /\ Remaining(cs, I) \in Seq(C)
         /\ \A k \in 1 .. Len(Remaining(cs, I)) :
              \E i \in 1 .. Len(cs) : i \in I /\ Remaining(cs, I)[k] = cs[i]
         /\ \A i \in 1 .. Len(cs) : i \in I =>
              \E k \in 1 .. Len(Remaining(cs, I)) : Remaining(cs, I)[k] = cs[i]
  <1> DEFINE n == Len(cs)
             step == [i \in 1 .. n |-> [s \in Seq(C) |->
                        IF i \in I THEN Append(s, cs[i]) ELSE s]]
             Is(f) == f = [i \in 0 .. n |->
                             IF i = 0 THEN <<>>
                             ELSE IF i \in I THEN Append(f[i - 1], cs[i]) ELSE f[i - 1]]
             upto == CHOOSE f : Is(f)
  <1>1. n \in Nat /\ <<>> \in Seq(C) /\ \A i \in 1 .. n : cs[i] \in C
    OBVIOUS
  <1>2. \E f : Is(f)
    <2>1. step \in [1 .. n -> [Seq(C) -> Seq(C)]]
      <3>1. ASSUME NEW i \in 1 .. n, NEW s \in Seq(C)
            PROVE  Append(s, cs[i]) \in Seq(C)
        BY <1>1
      <3>2. QED BY <3>1
    <2> DEFINE Lists == Seq(C)
    <2>2. <<>> \in Lists /\ step \in [1 .. n -> [Lists -> Lists]]
      BY <1>1, <2>1
    <2> HIDE DEF n, step, Lists
    <2>3. PICK f \in [0 .. n -> Lists] :
            f[0] = <<>> /\ \A i \in 1 .. n : f[i] = step[i][f[i - 1]]
      <3>1. n \in Nat
        BY <1>1
      <3>2. \E f \in [0 .. n -> Lists] : ByRecursion(f, n, <<>>, step)
        BY <2>2, <3>1, Recursion
      <3>3. QED BY <3>2 DEF ByRecursion
    <2>4. ASSUME NEW i \in 1 .. n
          PROVE  f[i] = IF i \in I THEN Append(f[i - 1], cs[i]) ELSE f[i - 1]
      <3>1. f[i - 1] \in Seq(C)
        BY <1>1 DEF Lists
      <3>2. step[i][f[i - 1]] = IF i \in I THEN Append(f[i - 1], cs[i]) ELSE f[i - 1]
        BY <3>1 DEF step
      <3>3. QED BY <2>3, <3>2
    <2>5. Is(f)
      <3> DEFINE g == [i \in 0 .. n |->
                         IF i = 0 THEN <<>>
                         ELSE IF i \in I THEN Append(f[i - 1], cs[i]) ELSE f[i - 1]]
      <3>1. ASSUME NEW i \in 0 .. n
            PROVE  f[i] = g[i]
        <4>1. CASE i = 0
          BY <2>3, <4>1
        <4>2. CASE i # 0
          <5>1. i \in 1 .. n
            BY <1>1, <4>2
          <5>2. g[i] = IF i \in I THEN Append(f[i - 1], cs[i]) ELSE f[i - 1]
            BY <4>2
          <5> HIDE DEF g
          <5>3. QED BY <2>4, <5>1, <5>2
        <4>3. QED BY <4>1, <4>2
      <3>2. g = [i \in 0 .. n |-> g[i]]
        OBVIOUS
      <3> HIDE DEF g
      <3>3. f = g
        BY <3>1, <3>2
      <3>4. QED BY <3>3 DEF g
    <2>6. QED BY <2>5
  <1>3. Is(upto)
    <2> HIDE DEF Is
    <2>1. QED BY <1>2
  <1>4. Remaining(cs, I) = upto[n]
    BY DEF Remaining
  <1> HIDE DEF upto
  <1>5. /\ upto[0] = <<>>
        /\ \A i \in 1 .. n :
             upto[i] = IF i \in I THEN Append(upto[i - 1], cs[i]) ELSE upto[i - 1]
    <2> DEFINE g == [i \in 0 .. n |->
                       IF i = 0 THEN <<>>
                       ELSE IF i \in I THEN Append(upto[i - 1], cs[i]) ELSE upto[i - 1]]
    <2>1. upto = g
      BY <1>3
    <2>2. g[0] = <<>>
      BY <1>1
    <2>3. ASSUME NEW i \in 1 .. n
          PROVE  g[i] = IF i \in I THEN Append(upto[i - 1], cs[i]) ELSE upto[i - 1]
      <3>1. i \in 0 .. n /\ i # 0
        BY <1>1
      <3>2. QED BY <3>1
    <2> HIDE DEF g
    <2>4. upto[0] = <<>> /\ \A i \in 1 .. n : upto[i] = g[i]
      BY <2>1, <2>2
    <2>5. QED BY <2>3, <2>4
  <1> HIDE DEF n, Is
  <1> DEFINE Right(k, s) ==
               /\ s \in Seq(C)
               /\ \A j \in 1 .. Len(s) : \E i \in 1 .. k : i \in I /\ s[j] = cs[i]
               /\ \A i \in 1 .. k : i \in I => \E j \in 1 .. Len(s) : s[j] = cs[i]
             Wrong == {k \in 0 .. n : ~Right(k, upto[k])}
  <1>6. Wrong = {}
    <2>1. SUFFICES ASSUME Wrong # {} PROVE FALSE
      OBVIOUS
    <2>2. PICK k \in Wrong : \A j \in Wrong : k <= j
      <3>1. Wrong \in SUBSET Nat
        BY <1>1
      <3> HIDE DEF Wrong
      <3>2. QED BY <2>1, <3>1, LeastExists
    <2>3. k \in 0 .. n /\ ~Right(k, upto[k])
      BY <2>2
    <2>4. CASE k = 0
      <3>1. Right(0, <<>>)
        BY <1>1
      <3>2. upto[k] = <<>>
        BY <1>5, <2>4
      <3> HIDE DEF Right
      <3>3. QED BY <2>3, <2>4, <3>1, <3>2
    <2>5. CASE k > 0
      <3>1. k \in 1 .. n /\ k - 1 \in 0 .. n
        BY <1>1, <2>3, <2>5
      <3>2. Right(k - 1, upto[k - 1])
        BY <2>2, <3>1
      <3> DEFINE s == upto[k - 1]
      <3>3. /\ s \in Seq(C) /\ Len(s) \in Nat
            /\ \A j \in 1 .. Len(s) : \E i \in 1 .. k - 1 : i \in I /\ s[j] = cs[i]
            /\ \A i \in 1 .. k - 1 : i \in I => \E j \in 1 .. Len(s) : s[j] = cs[i]
        BY <3>2
      <3>4. upto[k] = IF k \in I THEN Append(s, cs[k]) ELSE s
        BY <1>5, <3>1
      <3> HIDE DEF s, Wrong
      <3>5. CASE k \in I
        <4> DEFINE t == Append(s, cs[k])
        <4>1. /\ t \in Seq(C) /\ Len(t) = Len(s) + 1 /\ t[Len(s) + 1] = cs[k]
              /\ \A j \in 1 .. Len(s) : t[j] = s[j]
          BY <1>1, <3>1, <3>3
        <4> HIDE DEF t
        <4>2. ASSUME NEW j \in 1 .. Len(t)
              PROVE  \E i \in 1 .. k : i \in I /\ t[j] = cs[i]
          <5>1. CASE j = Len(s) + 1
            BY <3>1, <3>5, <4>1, <5>1
          <5>2. CASE j # Len(s) + 1
            <6>1. j \in 1 .. Len(s)
              BY <3>3, <4>1, <5>2
            <6>2. PICK i \in 1 .. k - 1 : i \in I /\ s[j] = cs[i]
              BY <3>3, <6>1
            <6>3. i \in 1 .. k
              BY <3>1
            <6>4. QED BY <4>1, <6>1, <6>2, <6>3
          <5>3. QED BY <5>1, <5>2
        <4>3. ASSUME NEW i \in 1 .. k, i \in I
              PROVE  \E j \in 1 .. Len(t) : t[j] = cs[i]
          <5>1. CASE i = k
            <6>1. Len(s) + 1 \in 1 .. Len(t)
              BY <3>3, <4>1
            <6>2. QED BY <4>1, <5>1, <6>1
          <5>2. CASE i # k
            <6>1. i \in 1 .. k - 1
              BY <3>1, <5>2
            <6>2. PICK j \in 1 .. Len(s) : s[j] = cs[i]
              BY <3>3, <4>3, <6>1
            <6>3. j \in 1 .. Len(t)
              BY <3>3, <4>1
            <6>4. QED BY <4>1, <6>2, <6>3
          <5>3. QED BY <5>1, <5>2
        <4>4. upto[k] = t
          BY <3>4, <3>5 DEF t
        <4>5. QED BY <2>3, <4>1, <4>2, <4>3, <4>4
      <3>6. CASE k \notin I
        <4>1. \A i \in 1 .. k - 1 : i \in 1 .. k
          BY <3>1
        <4>2. \A i \in 1 .. k : i \in I => i \in 1 .. k - 1
          BY <3>1, <3>6
        <4>3. Right(k, s)
          BY <3>3, <4>1, <4>2
        <4>4. QED BY <2>3, <3>4, <3>6, <4>3
      <3>7. QED BY <3>5, <3>6
    <2>6. QED BY <2>3, <2>4, <2>5
  <1>7. Right(n, upto[n])
    <2>1. n \in 0 .. n
      BY <1>1
    <2> HIDE DEF Right
    <2>2. QED BY <1>6, <2>1
  <1>8. QED BY <1>4, <1>7 DEF n

\* The elements of one sequence are elements of another.
AreFrom(ds, cs) == \A k \in 1 .. Len(ds) : \E i \in 1 .. Len(cs) : ds[k] = cs[i]

LEMMA FromIs ==
  ASSUME NEW C, NEW cs \in Seq(C)
  PROVE  DOMAIN cs = 1 .. Len(cs) /\ Len(cs) \in Nat /\ AreFrom(cs, cs) /\ AreFrom(<<>>, cs)
  BY DEF AreFrom

LEMMA ErasedIs ==
  ASSUME NEW C, NEW cs \in Seq(C), NEW n
  PROVE  /\ eraseStateCheckpointAt(cs, n) \in Seq(C)
         /\ AreFrom(eraseStateCheckpointAt(cs, n), cs)
         /\ \A i \in 1 .. Len(cs) : Size(cs[i]) = n \/
              \E k \in 1 .. Len(eraseStateCheckpointAt(cs, n)) :
                eraseStateCheckpointAt(cs, n)[k] = cs[i]
         /\ eraseStateCheckpointsAfter(cs, n) \in Seq(C)
         /\ \A k \in 1 .. Len(eraseStateCheckpointsAfter(cs, n)) :
              /\ Size(eraseStateCheckpointsAfter(cs, n)[k]) <= n
              /\ \E i \in 1 .. Len(cs) : eraseStateCheckpointsAfter(cs, n)[k] = cs[i]
  <1> DEFINE At == {i \in DOMAIN cs : Size(cs[i]) # n}
             After == {i \in DOMAIN cs : Size(cs[i]) <= n}
  <1>1. DOMAIN cs = 1 .. Len(cs)
    OBVIOUS
  <1>2. /\ \A i : i \in At <=> i \in 1 .. Len(cs) /\ Size(cs[i]) # n
        /\ \A i : i \in After <=> i \in 1 .. Len(cs) /\ Size(cs[i]) <= n
    BY <1>1
  <1>3. /\ eraseStateCheckpointAt(cs, n) = Remaining(cs, At)
        /\ eraseStateCheckpointsAfter(cs, n) = Remaining(cs, After)
    BY DEF eraseStateCheckpointAt, eraseStateCheckpointsAfter
  <1> HIDE DEF At, After
  <1>4. /\ Remaining(cs, At) \in Seq(C)
        /\ \A k \in 1 .. Len(Remaining(cs, At)) :
             \E i \in 1 .. Len(cs) : i \in At /\ Remaining(cs, At)[k] = cs[i]
        /\ \A i \in 1 .. Len(cs) : i \in At =>
             \E k \in 1 .. Len(Remaining(cs, At)) : Remaining(cs, At)[k] = cs[i]
    BY RemainingIs
  <1>5. /\ Remaining(cs, After) \in Seq(C)
        /\ \A k \in 1 .. Len(Remaining(cs, After)) :
             \E i \in 1 .. Len(cs) : i \in After /\ Remaining(cs, After)[k] = cs[i]
    BY RemainingIs
  <1>6. \A k \in 1 .. Len(Remaining(cs, After)) :
          /\ Size(Remaining(cs, After)[k]) <= n
          /\ \E i \in 1 .. Len(cs) : Remaining(cs, After)[k] = cs[i]
    BY <1>2, <1>5
  <1>7. \A i \in 1 .. Len(cs) : Size(cs[i]) = n \/
          \E k \in 1 .. Len(Remaining(cs, At)) : Remaining(cs, At)[k] = cs[i]
    BY <1>2, <1>4
  <1>8. AreFrom(Remaining(cs, At), cs)
    BY <1>4 DEF AreFrom
  <1>9. QED BY <1>3, <1>4, <1>5, <1>6, <1>7, <1>8

\* At least one snapshot stays, and one with the smallest position.
LEMMA EvictedIs ==
  ASSUME NEW C, NEW cs \in Seq(C), \A i \in 1 .. Len(cs) : Size(cs[i]) \in Nat
  PROVE  LET ds == evictStateCheckpoints(cs)
         IN /\ ds \in Seq(C) /\ AreFrom(ds, cs)
            /\ \A i \in 1 .. Len(cs) : \E k \in 1 .. Len(ds) : Size(ds[k]) <= Size(cs[i])
  <1> DEFINE ds == evictStateCheckpoints(cs)
  <1>1. DOMAIN cs = 1 .. Len(cs) /\ Len(cs) \in Nat
    OBVIOUS
  <1>2. CASE Len(cs) <= MaxCheckpoints \/ Len(cs) = 1
    <2>1. ds = cs
      BY <1>2 DEF evictStateCheckpoints
    <2>2. \A i \in 1 .. Len(cs) : Size(cs[i]) <= Size(cs[i])
      OBVIOUS
    <2>3. QED BY <2>1, <2>2, FromIs
  <1>3. CASE ~(Len(cs) <= MaxCheckpoints \/ Len(cs) = 1)
    <2>1. Len(cs) >= 2
      BY <1>1, <1>3, PromptCacheAssumption
    <2>2. CASE \A i \in 1 .. Len(cs) : Size(cs[1]) <= Size(cs[i])
      <3>1. ds = RemoveAt(cs, 2)
        BY <1>1, <1>3, <2>2 DEF evictStateCheckpoints
      <3>2. /\ RemoveAt(cs, 2) \in Seq(C) /\ Len(RemoveAt(cs, 2)) = Len(cs) - 1
            /\ \A k \in 1 .. Len(cs) - 1 :
                 RemoveAt(cs, 2)[k] = IF k = 1 THEN cs[1] ELSE cs[k + 1]
        <4> DEFINE a == SubSeq(cs, 1, 1)
                   b == SubSeq(cs, 3, Len(cs))
        <4>1. a \in Seq(C) /\ Len(a) = 1 /\ a[1] = cs[1]
          <5>1. /\ SubSeq(cs, 0 + 1, 1) \in Seq(C) /\ Len(SubSeq(cs, 0 + 1, 1)) = 1 - 0
                /\ \A i \in 1 .. 1 - 0 : SubSeq(cs, 0 + 1, 1)[i] = cs[0 + i]
            BY <1>1, <2>1, SubIs
          <5>2. 1 \in 1 .. 1 - 0 /\ 0 + 1 = 1 /\ 1 - 0 = 1
            OBVIOUS
          <5>3. QED BY <5>1, <5>2
        <4>2. /\ b \in Seq(C) /\ Len(b) = Len(cs) - 2
              /\ \A k \in 1 .. Len(cs) - 2 : b[k] = cs[k + 2]
          <5>1. /\ SubSeq(cs, 2 + 1, Len(cs)) \in Seq(C)
                /\ Len(SubSeq(cs, 2 + 1, Len(cs))) = Len(cs) - 2
                /\ \A i \in 1 .. Len(cs) - 2 : SubSeq(cs, 2 + 1, Len(cs))[i] = cs[2 + i]
            BY <1>1, <2>1, SubIs
          <5>2. 2 + 1 = 3 /\ \A i \in 1 .. Len(cs) - 2 : 2 + i = i + 2
            BY <1>1
          <5>3. QED BY <5>1, <5>2
        <4>3. RemoveAt(cs, 2) = a \o b
          <5>1. 2 - 1 = 1 /\ 2 + 1 = 3
            OBVIOUS
          <5>2. QED BY <5>1 DEF RemoveAt
        <4> HIDE DEF a, b
        <4>4. /\ a \o b \in Seq(C) /\ Len(a \o b) = Len(cs) - 1
              /\ \A k \in 1 .. Len(cs) - 1 : (a \o b)[k] = IF k <= 1 THEN a[k] ELSE b[k - 1]
          <5>1. Len(a) + Len(b) = Len(cs) - 1
            BY <1>1, <4>1, <4>2
          <5>2. /\ a \o b \in Seq(C) /\ Len(a \o b) = Len(a) + Len(b)
                /\ \A k \in 1 .. Len(a) + Len(b) :
                     (a \o b)[k] = IF k <= Len(a) THEN a[k] ELSE b[k - Len(a)]
            BY <4>1, <4>2, ConcatIs
          <5>3. QED BY <4>1, <5>1, <5>2
        <4>5. \A k \in 1 .. Len(cs) - 1 : (a \o b)[k] = IF k = 1 THEN cs[1] ELSE cs[k + 1]
          BY <1>1, <4>1, <4>2, <4>4
        <4>6. QED BY <4>3, <4>4, <4>5
      <3> HIDE DEF ds
      <3>3. \A k \in 1 .. Len(ds) : \E i \in 1 .. Len(cs) : ds[k] = cs[i]
        <4> TAKE k \in 1 .. Len(ds)
        <4>1. k \in 1 .. Len(cs) - 1
          BY <3>1, <3>2
        <4>2. 1 \in 1 .. Len(cs) /\ k + 1 \in 1 .. Len(cs)
          BY <1>1, <2>1, <4>1
        <4>3. QED BY <3>1, <3>2, <4>1, <4>2
      <3>4. 1 \in 1 .. Len(ds) /\ ds[1] = cs[1]
        BY <1>1, <2>1, <3>1, <3>2
      <3>5. QED BY <2>2, <3>1, <3>2, <3>3, <3>4 DEF AreFrom, ds
    <2>3. CASE \E i \in 1 .. Len(cs) : ~(Size(cs[1]) <= Size(cs[i]))
      <3>1. ds = Tail(cs)
        BY <1>1, <1>3, <2>3 DEF evictStateCheckpoints
      <3> HIDE DEF ds
      <3>2. /\ ds \in Seq(C) /\ Len(ds) = Len(cs) - 1
            /\ \A k \in 1 .. Len(cs) - 1 : ds[k] = cs[k + 1]
        BY <2>1, <3>1
      <3>3. AreFrom(ds, cs)
        <4>1. \A k \in 1 .. Len(ds) : k + 1 \in 1 .. Len(cs)
          BY <1>1, <3>2
        <4>2. QED BY <3>2, <4>1 DEF AreFrom
      <3>4. PICK j \in 1 .. Len(cs) : ~(Size(cs[1]) <= Size(cs[j]))
        BY <2>3
      <3>5. 1 \in 1 .. Len(cs) /\ j # 1 /\ Size(cs[j]) <= Size(cs[1])
        BY <1>1, <2>1, <3>4
      <3>6. ASSUME NEW i \in 1 .. Len(cs), i # 1
            PROVE  i - 1 \in 1 .. Len(ds) /\ ds[i - 1] = cs[i]
        BY <1>1, <3>2, <3>6
      <3>7. ASSUME NEW i \in 1 .. Len(cs)
            PROVE  \E k \in 1 .. Len(ds) : Size(ds[k]) <= Size(cs[i])
        <4>1. CASE i = 1
          BY <3>5, <3>6, <4>1
        <4>2. CASE i # 1
          <5>1. i - 1 \in 1 .. Len(ds) /\ Size(ds[i - 1]) = Size(cs[i])
            BY <3>6, <4>2
          <5>2. QED BY <5>1
        <4>3. QED BY <4>1, <4>2
      <3>8. QED BY <3>2, <3>3, <3>7 DEF ds
    <2>4. QED BY <2>2, <2>3
  <1>4. QED BY <1>2, <1>3

LEMMA SizeIs ==
  ASSUME NEW c \in Checkpoint
  PROVE  Size(c) \in Nat /\ Size(c) = Len(c.tokens) /\ c.tokens \in Seq(TokenType)
  BY DEF Checkpoint, Size

LEMMA TypedSizes ==
  ASSUME NEW cs \in Seq(Checkpoint)
  PROVE  \A i \in 1 .. Len(cs) : cs[i] \in Checkpoint /\ Size(cs[i]) \in Nat
  <1>1. \A i \in 1 .. Len(cs) : cs[i] \in Checkpoint
    OBVIOUS
  <1>2. QED BY <1>1, SizeIs

LEMMA SnapshotTyped ==
  ASSUME NEW t \in Seq(TokenType), NEW m \in Memory
  PROVE  /\ Snapshot(t, m) \in Checkpoint /\ Size(Snapshot(t, m)) = Len(t)
         /\ Snapshot(t, m).tokens = t /\ Snapshot(t, m).state.rec = m.rec
         /\ Snapshot(t, m).state.pos = m.pos
  <1>1. m.rec \in Seq(Read) /\ m.pos \in Nat
    BY DEF Memory
  <1>2. QED BY <1>1 DEF Snapshot, PartialState, Checkpoint, Size

\* A capture adds at most the snapshot it takes, and one stays that ends no later than the
\* first of those there were.
LEMMA CapturedIs ==
  ASSUME NEW cs \in Seq(Checkpoint), NEW t \in Seq(TokenType), NEW n \in Nat, n <= Len(t),
         NEW m \in Memory
  PROVE  LET ds == captureStateCheckpoint(cs, t, n, m)
             new == Snapshot(FirstItems(t, n), m)
         IN /\ ds \in Seq(Checkpoint)
            /\ \A k \in 1 .. Len(ds) :
                 (\E i \in 1 .. Len(cs) : ds[k] = cs[i]) \/ (Captures /\ ds[k] = new)
            /\ \A i \in 1 .. Len(cs) : \E k \in 1 .. Len(ds) : Size(ds[k]) <= Size(cs[i])
  <1> DEFINE ds == captureStateCheckpoint(cs, t, n, m)
             new == Snapshot(FirstItems(t, n), m)
             left == eraseStateCheckpointAt(cs, n)
             all == Append(left, new)
  <1>1. \A i \in 1 .. Len(cs) : cs[i] \in Checkpoint /\ Size(cs[i]) \in Nat
    BY TypedSizes
  <1>2. new \in Checkpoint /\ Size(new) = n
    <2>1. FirstItems(t, n) \in Seq(TokenType) /\ Len(FirstItems(t, n)) = n
      BY FirstItemsAre
    <2>2. QED BY <2>1, SnapshotTyped
  <1> HIDE DEF new
  <1>3. /\ left \in Seq(Checkpoint) /\ AreFrom(left, cs)
        /\ \A i \in 1 .. Len(cs) : Size(cs[i]) = n \/
             \E k \in 1 .. Len(left) : left[k] = cs[i]
    BY ErasedIs
  <1> HIDE DEF left
  <1>4. /\ all \in Seq(Checkpoint) /\ Len(all) = Len(left) + 1 /\ all[Len(left) + 1] = new
        /\ \A k \in 1 .. Len(left) : all[k] = left[k]
    BY <1>2, <1>3
  <1> HIDE DEF all
  <1>5. \A k \in 1 .. Len(all) : Size(all[k]) \in Nat
    BY <1>4, TypedSizes
  <1>6. CASE ~Captures \/ \E i \in DOMAIN cs : cs[i].tokens = FirstItems(t, n)
    <2>1. ds = cs
      BY <1>6 DEF captureStateCheckpoint
    <2>2. \A i \in 1 .. Len(cs) : Size(cs[i]) <= Size(cs[i])
      BY <1>1
    <2> HIDE DEF ds
    <2>3. QED BY <2>1, <2>2 DEF ds
  <1>7. CASE Captures /\ ~ \E i \in DOMAIN cs : cs[i].tokens = FirstItems(t, n)
    <2>1. ds = evictStateCheckpoints(all)
      BY <1>7 DEF captureStateCheckpoint, all, left, new
    <2> HIDE DEF ds
    <2>2. /\ ds \in Seq(Checkpoint) /\ AreFrom(ds, all)
          /\ \A i \in 1 .. Len(all) : \E k \in 1 .. Len(ds) : Size(ds[k]) <= Size(all[i])
      BY <1>4, <1>5, <2>1, EvictedIs
    <2>3. Len(left) \in Nat
      BY <1>3
    <2>4. ASSUME NEW k \in 1 .. Len(ds)
          PROVE  (\E i \in 1 .. Len(cs) : ds[k] = cs[i]) \/ ds[k] = new
      <3>1. PICK j \in 1 .. Len(all) : ds[k] = all[j]
        BY <2>2 DEF AreFrom
      <3>2. j = Len(left) + 1 \/ j \in 1 .. Len(left)
        BY <1>4, <2>3
      <3>3. CASE j \in 1 .. Len(left)
        BY <1>3, <1>4, <3>1, <3>3 DEF AreFrom
      <3>4. QED BY <1>4, <3>1, <3>2, <3>3
    <2>5. ASSUME NEW i \in 1 .. Len(cs)
          PROVE  \E k \in 1 .. Len(ds) : Size(ds[k]) <= Size(cs[i])
      <3>1. \E j \in 1 .. Len(all) : Size(all[j]) = Size(cs[i])
        <4>1. CASE Size(cs[i]) = n
          <5>1. Len(left) + 1 \in 1 .. Len(all)
            BY <1>4, <2>3
          <5>2. QED BY <1>2, <1>4, <4>1, <5>1
        <4>2. CASE Size(cs[i]) # n
          <5>1. PICK k \in 1 .. Len(left) : left[k] = cs[i]
            BY <1>3, <4>2
          <5>2. k \in 1 .. Len(all)
            BY <1>4, <2>3
          <5>3. QED BY <1>4, <5>1, <5>2
        <4>3. QED BY <4>1, <4>2
      <3>2. QED BY <2>2, <3>1
    <2>6. QED BY <1>7, <2>2, <2>4, <2>5 DEF ds, new
  <1>8. QED BY <1>6, <1>7

\* A snapshot of a sound memory is exact, if the tokens name what the memory holds.
LEMMA SnapshotExact ==
  ASSUME NEW m, Sound(m, Item), HasRecurrent(m), NEW t \in Seq(TokenType), NEW h,
         Names(t, Contents(m), h)
  PROVE  Exact(Snapshot(t, m), h)
  <1>1. /\ m.pos = Len(m.rec) /\ m.kind \in {"recurrent", "hybrid"}
        /\ m.kind = "hybrid" => m.rec = m.attn
    BY DEF Sound, Kinds, HasRecurrent
  <1>2. Contents(m) = m.rec
    BY <1>1 DEF Contents, HasAttention, HasRecurrent
  <1>3. Len(m.rec) = Len(t)
    BY <1>2, NamedIs
  <1>4. /\ Snapshot(t, m).tokens = t /\ Snapshot(t, m).state.rec = m.rec
        /\ Snapshot(t, m).state.pos = m.pos
    BY DEF Snapshot, PartialState
  <1>5. QED BY <1>1, <1>2, <1>3, <1>4 DEF Exact, Size

LEMMA CapturedExact ==
  ASSUME NEW cs \in Seq(Checkpoint), NEW t \in Seq(TokenType), NEW n \in Nat, n <= Len(t),
         NEW m, Sound(m, Item), m \in Memory, Captures => HasRecurrent(m),
         NEW h, Names(FirstItems(t, n), Contents(m), h),
         \A i \in 1 .. Len(cs) : Exact(cs[i], h)
  PROVE  \A k \in 1 .. Len(captureStateCheckpoint(cs, t, n, m)) :
           Exact(captureStateCheckpoint(cs, t, n, m)[k], h)
  <1>1. FirstItems(t, n) \in Seq(TokenType)
    BY FirstItemsAre
  <1>2. Captures => Exact(Snapshot(FirstItems(t, n), m), h)
    BY <1>1, SnapshotExact
  <1> DEFINE ds == captureStateCheckpoint(cs, t, n, m)
  <1>3. \A k \in 1 .. Len(ds) :
          \/ \E i \in 1 .. Len(cs) : ds[k] = cs[i]
          \/ Captures /\ ds[k] = Snapshot(FirstItems(t, n), m)
    BY CapturedIs
  <1> HIDE DEF ds
  <1>4. \A k \in 1 .. Len(ds) : Exact(ds[k], h)
    BY <1>2, <1>3
  <1>5. QED BY <1>4 DEF ds

LEMMA LongestIs ==
  ASSUME NEW cs \in Seq(Checkpoint), NEW I \in SUBSET (1 .. Len(cs)), I # {},
         NEW max \in Nat, \A i \in I : Size(cs[i]) <= max
  PROVE  Longest(cs, I) \in I
  <1> DEFINE Sizes == {Size(cs[i]) : i \in I}
  <1>1. \A i \in I : Size(cs[i]) \in 0 .. max
    BY TypedSizes
  <1>2. Sizes \in SUBSET (0 .. max) /\ Sizes # {}
    BY <1>1
  <1>3. \E x \in Sizes : \A y \in Sizes : x >= y
    <2> HIDE DEF Sizes
    <2>1. QED BY <1>2, GreatestExists
  <1>4. \E i \in I : \A j \in I : Size(cs[j]) <= Size(cs[i])
    BY <1>1, <1>3
  <1>5. QED BY <1>4 DEF Longest

\* A recovery brings back a snapshot that begins the target and leaves some of it.
LEMMA RecoveredIs ==
  ASSUME NEW cs \in Seq(Checkpoint), NEW m, NEW t \in Seq(Anything), Len(t) > 0,
         NEW limit \in Nat, NEW Fitting, NEW r \in Recoveries(cs, m, t, limit, Fitting)
  PROVE  \/ ~r.ok
         \/ /\ r.ok /\ r.n \in Nat /\ r.n <= limit /\ r.n < Len(t) /\ r.n \in Fitting
            /\ \E i \in 1 .. Len(cs) : /\ r.mem = Restored(m, cs[i]) /\ r.n = Size(cs[i])
                                       /\ IsPrefix(cs[i].tokens, t)
  <1> DEFINE max_len == Min({limit, Len(t) - 1})
             I == {i \in Usable(cs, t, max_len) : Size(cs[i]) \in Fitting}
             k == Longest(cs, I)
             lost == [ok |-> FALSE, mem |-> m, n |-> 0]
             found == [ok |-> TRUE, mem |-> Restored(m, cs[k]), n |-> Size(cs[k])]
  <1>1. Len(t) - 1 \in Nat /\ DOMAIN cs = 1 .. Len(cs)
    OBVIOUS
  <1>2. max_len \in Nat /\ max_len <= limit /\ max_len <= Len(t) - 1
    BY <1>1, MinOfTwo
  <1>3. \A i \in I : /\ i \in 1 .. Len(cs) /\ Size(cs[i]) <= max_len
                     /\ IsPrefix(cs[i].tokens, t) /\ Size(cs[i]) \in Fitting
    BY <1>1 DEF Usable
  <1>4. I = {} => r = lost
    BY DEF Recoveries
  <1>5. I # {} => r = lost \/ r = found
    BY DEF Recoveries
  <1> HIDE DEF max_len, I
  <1>6. I # {} => k \in I
    <2>1. I \in SUBSET (1 .. Len(cs)) /\ \A i \in I : Size(cs[i]) <= max_len
      BY <1>3
    <2>2. QED BY <1>2, <2>1, LongestIs
  <1> HIDE DEF k
  <1>7. CASE r = lost
    BY <1>7
  <1>8. CASE I # {} /\ r = found
    <2>1. r.ok /\ r.mem = Restored(m, cs[k]) /\ r.n = Size(cs[k])
      BY <1>8
    <2>2. /\ k \in 1 .. Len(cs) /\ Size(cs[k]) <= max_len
          /\ IsPrefix(cs[k].tokens, t) /\ Size(cs[k]) \in Fitting
      BY <1>3, <1>6, <1>8
    <2>3. Size(cs[k]) \in Nat
      BY <2>2, TypedSizes
    <2> HIDE DEF found, lost
    <2>4. Size(cs[k]) <= limit /\ Size(cs[k]) < Len(t)
      BY <1>1, <1>2, <2>2, <2>3
    <2>5. QED BY <2>1, <2>2, <2>3, <2>4
  <1>9. QED BY <1>4, <1>5, <1>7, <1>8

-----------------------------------------------------------------------------
(* The memory                                                              *)

LEMMA SoundTyped ==
  ASSUME NEW m, Sound(m, Item)
  PROVE  m \in Memory
  <1>1. m \in [kind : Kinds, attn : Seq(Item), rec : Seq(Item), pos : Nat]
    BY DEF Sound
  <1>2. m.rec \in Seq(Read)
    <2>1. m.rec \in Seq(Item) /\ Item \subseteq Read
      BY <1>1 DEF Read
    <2>2. QED BY <2>1, SeqWider
  <1>3. QED BY <1>1, <1>2 DEF Memory

LEMMA MemoryTyped ==
  ASSUME NEW m \in Memory
  PROVE  /\ m.kind \in Kinds /\ Cleared(m.kind) \in Memory
         /\ \A n \in Nat : Truncated(m, n) \in Memory /\ Truncated(m, n).kind = m.kind
         /\ \A s \in Seq(Item) : Extended(m, s) \in Memory /\ Extended(m, s).kind = m.kind
         /\ \A c \in Checkpoint : Restored(m, c) \in Memory /\ Restored(m, c).kind = m.kind
  <1>1. /\ m.kind \in Kinds /\ m.attn \in Seq(Item) /\ m.rec \in Seq(Read) /\ m.pos \in Nat
    BY DEF Memory
  <1>2. ASSUME NEW kind \in Kinds
        PROVE  Cleared(kind) \in Memory /\ Cleared(kind).kind = kind
    BY <1>2, EmptyIs DEF Cleared, Memory
  <1>3. ASSUME NEW u \in Memory, NEW n \in Nat
        PROVE  Truncated(u, n) \in Memory /\ Truncated(u, n).kind = u.kind
    <2>1. u.kind \in Kinds /\ u.attn \in Seq(Item)
      BY DEF Memory
    <2>2. FirstItems(u.attn, n) \in Seq(Item)
      BY <2>1, FirstItemsAre
    <2>3. [u EXCEPT !.attn = FirstItems(@, n)] \in Memory
          /\ [u EXCEPT !.attn = FirstItems(@, n)].kind = u.kind
      BY <2>2 DEF Memory
    <2>4. QED BY <1>2, <2>1, <2>3 DEF Truncated
  <1>4. ASSUME NEW s \in Seq(Item)
        PROVE  Extended(m, s) \in Memory /\ Extended(m, s).kind = m.kind
    <2>1. m.attn \o s \in Seq(Item)
      BY <1>1
    <2>2. m.rec \o s \in Seq(Read)
      <3>1. s \in Seq(Read)
        BY SeqWider DEF Read
      <3>2. QED BY <1>1, <3>1
    <2>3. m.pos + Len(s) \in Nat
      BY <1>1
    <2>4. QED BY <1>1, <2>1, <2>2, <2>3 DEF Extended, Memory
  <1>5. ASSUME NEW c \in Checkpoint
        PROVE  Restored(m, c) \in Memory /\ Restored(m, c).kind = m.kind
    <2>1. c.state.rec \in Seq(Read) /\ c.state.pos \in Nat /\ Size(c) \in Nat
      BY SizeIs DEF Checkpoint
    <2>2. /\ WithPartialState(m, c.state) \in Memory
          /\ WithPartialState(m, c.state).kind = m.kind
      BY <2>1 DEF WithPartialState, Memory
    <2>3. QED BY <1>3, <2>1, <2>2 DEF Restored
  <1>6. QED BY <1>1, <1>2, <1>3, <1>4, <1>5

LEMMA RestoredTyped ==
  ASSUME NEW m \in Memory, NEW c \in Checkpoint
  PROVE  Restored(m, c) \in Memory /\ Restored(m, c).kind = m.kind
  BY MemoryTyped

\* A memory brought back to a snapshot of a beginning of x holds that, if what it held
\* began with it too.
LEMMA RestoredSound ==
  ASSUME NEW m, Sound(m, Item), HasRecurrent(m), NEW c \in Checkpoint,
         NEW x \in Seq(Item), Size(c) <= Len(x),
         c.state.rec = FirstItems(x, Size(c)), c.state.pos = Size(c),
         FirstItems(Contents(m), Size(c)) = FirstItems(x, Size(c))
  PROVE  /\ Sound(Restored(m, c), Item) /\ Restored(m, c).kind = m.kind
         /\ Contents(Restored(m, c)) = FirstItems(x, Size(c))
  <1> DEFINE n == Size(c)
             rest == FirstItems(x, n)
             u == WithPartialState(m, c.state)
             v == [u EXCEPT !.attn = FirstItems(@, n)]
  <1>1. /\ m \in [kind : Kinds, attn : Seq(Item), rec : Seq(Item), pos : Nat]
        /\ m.kind \in {"recurrent", "hybrid"}
        /\ m.kind = "hybrid" => m.rec = m.attn
        /\ m.kind = "recurrent" => m.attn = <<>>
    BY DEF Sound, Kinds, HasRecurrent
  <1>2. n \in Nat /\ rest \in Seq(Item) /\ Len(rest) = n
    BY SizeIs, FirstItemsAre
  <1>3. u = [m EXCEPT !.rec = rest, !.pos = n]
    BY DEF WithPartialState
  <1> HIDE DEF n, rest, u
  <1>4. /\ u \in [kind : Kinds, attn : Seq(Item), rec : Seq(Item), pos : Nat]
        /\ u.kind = m.kind /\ u.attn = m.attn /\ u.rec = rest /\ u.pos = n
    BY <1>1, <1>2, <1>3
  <1>5. CanTruncate(u, n) /\ Restored(m, c) = Truncated(u, n)
    <2>1. CanTruncate(u, n)
      BY <1>2, <1>4 DEF CanTruncate
    <2>2. QED BY <2>1 DEF Restored, u, n
  <1>6. CASE n = 0
    <2>1. Restored(m, c) = Cleared(m.kind)
      BY <1>4, <1>5, <1>6 DEF Truncated
    <2>2. rest = <<>>
      BY <1>2, <1>6
    <2>3. QED BY <1>1, <1>6, <2>1, <2>2, ClearedSound DEF rest, n
  <1>7. CASE n # 0
    <2>1. Restored(m, c) = v
      BY <1>4, <1>5, <1>7 DEF Truncated
    <2>2. FirstItems(m.attn, n) = IF m.kind = "hybrid" THEN rest ELSE <<>>
      <3>1. CASE m.kind = "hybrid"
        <4>1. Contents(m) = m.attn
          BY <1>1, <3>1 DEF Contents, HasAttention, HasRecurrent
        <4>2. QED BY <3>1, <4>1 DEF rest, n
      <3>2. CASE m.kind = "recurrent"
        <4>1. m.attn = <<>> /\ Len(m.attn) = 0
          BY <1>1, <3>2
        <4>2. QED BY <1>1, <1>2, <3>2, <4>1, FirstItemsAll
      <3>3. QED BY <1>1, <3>1, <3>2
    <2>3. FirstItems(m.attn, n) \in Seq(Item)
      BY <1>1, <1>2, FirstItemsAre
    <2>4. /\ v \in [kind : Kinds, attn : Seq(Item), rec : Seq(Item), pos : Nat]
          /\ v.kind = m.kind /\ v.attn = FirstItems(m.attn, n) /\ v.rec = rest /\ v.pos = n
      BY <1>4, <2>3
    <2> HIDE DEF v
    <2>5. Sound(v, Item)
      BY <1>1, <1>2, <2>2, <2>4 DEF Sound
    <2>6. Contents(v) = rest
      BY <1>1, <2>2, <2>4 DEF Contents, HasAttention, HasRecurrent
    <2>7. QED BY <2>1, <2>4, <2>5, <2>6 DEF rest, n
  <1>8. QED BY <1>6, <1>7

-----------------------------------------------------------------------------
(* Texts and counts                                                        *)

LEMMA DivIs ==
  ASSUME NEW a \in Nat, NEW b \in Nat, b > 0
  PROVE  a \div b \in Nat /\ (a \div b) * b <= a /\ a < (a \div b) * b + b
  OBVIOUS

LEMMA HalfIs ==
  ASSUME NEW a \in Nat
  PROVE  a \div 2 \in Nat /\ 2 * (a \div 2) <= a /\ a <= 2 * (a \div 2) + 1
  OBVIOUS

\* A prompt that is too long is cut to less than the context.
LEMMA TruncatedPromptIs ==
  ASSUME NEW t \in Seq(TextItem), Len(t) >= NCtx
  PROVE  /\ truncatePrompt(t) \in Seq(TextItem)
         /\ Len(truncatePrompt(t)) > 0 /\ Len(truncatePrompt(t)) < NCtx
  <1> DEFINE block == (NCtx - NKeep) \div 2
             erased == (Len(t) - NKeep - block) \div block
             from == NKeep + erased * block
             a == FirstItems(t, NKeep)
             b == SubSeq(t, from + 1, Len(t))
  <1>1. NCtx \in Nat /\ NKeep \in Nat /\ NKeep + 4 <= NCtx /\ Len(t) \in Nat
    BY PromptCacheAssumption
  <1>2. block \in Nat /\ block >= 2 /\ NKeep + 2 * block <= NCtx
    <2>1. NCtx - NKeep \in Nat
      BY <1>1
    <2>2. QED BY <1>1, <2>1, HalfIs
  <1> HIDE DEF block
  <1>3. /\ erased * block \in Nat /\ erased * block <= Len(t) - NKeep - block
        /\ Len(t) - NKeep - block < erased * block + block
    <2>1. Len(t) - NKeep - block \in Nat
      BY <1>1, <1>2
    <2>2. /\ erased \in Nat /\ erased * block <= Len(t) - NKeep - block
          /\ Len(t) - NKeep - block < erased * block + block
      BY <1>2, <2>1, DivIs
    <2> HIDE DEF erased
    <2>3. erased * block \in Nat
      BY <1>2, <2>2
    <2>4. QED BY <2>2, <2>3
  <1>4. /\ from \in Nat /\ from <= Len(t) - block /\ Len(t) < from + 2 * block
    <2> DEFINE e == erased * block
    <2>1. /\ e \in Nat /\ e <= Len(t) - NKeep - block /\ Len(t) - NKeep - block < e + block
          /\ from = NKeep + e
      BY <1>3
    <2> HIDE DEF e, from
    <2>2. QED BY <1>1, <1>2, <2>1
  <1>5. a \in Seq(TextItem) /\ Len(a) = NKeep
    BY <1>1, FirstItemsAre
  <1>6. truncatePrompt(t) = a \o b
    BY DEF truncatePrompt, block
  <1> HIDE DEF from, a
  <1>7. b \in Seq(TextItem) /\ Len(b) = Len(t) - from
    BY <1>1, <1>2, <1>4, SubIs
  <1> HIDE DEF b
  <1>8. a \o b \in Seq(TextItem) /\ Len(a \o b) = NKeep + (Len(t) - from)
    <2>1. a \o b \in Seq(TextItem) /\ Len(a \o b) = Len(a) + Len(b)
      BY <1>5, <1>7, ConcatIs
    <2>2. QED BY <1>5, <1>7, <2>1
  <1>9. QED BY <1>1, <1>2, <1>4, <1>6, <1>8

LEMMA BoundariesAre ==
  ASSUME NEW S, NEW t \in Seq(S)
  PROVE  /\ ColdBoundaries(t) \subseteq 1 .. Len(t)
         /\ \A bs \in SUBSET (1 .. Len(t)) : FewBoundaries(bs) \subseteq 1 .. Len(t)
  <1>1. Len(t) \in Nat
    OBVIOUS
  <1>2. \A gap : computeMessageBoundaries(t, gap) \subseteq 1 .. Len(t) - 1
    BY DEF computeMessageBoundaries
  <1>3. ASSUME NEW B \in SUBSET (1 .. Len(t) - 1), B # {}
        PROVE  Max(B) \in B
    <2>1. B \in SUBSET (0 .. Len(t))
      BY <1>1
    <2>2. QED BY <1>1, <1>3, <2>1, MaxIs
  <1>4. ColdBoundaries(t) \subseteq 1 .. Len(t) - 1
    BY <1>2, <1>3 DEF ColdBoundaries
  <1>5. 1 .. Len(t) - 1 \subseteq 1 .. Len(t)
    BY <1>1
  <1>6. \A bs : FewBoundaries(bs) \subseteq bs
    BY DEF FewBoundaries
  <1>7. QED BY <1>4, <1>5, <1>6

LEMMA LimitIs ==
  ASSUME NEW n \in Nat \cup {-1}
  PROVE  Max({n, 0}) \in Nat /\ (n > 0 => Max({n, 0}) = n)
  <1>1. CASE n \in Nat
    <2>1. {n, 0} \in SUBSET (0 .. n) /\ {n, 0} # {}
      BY <1>1
    <2>2. Max({n, 0}) \in {n, 0} /\ \A y \in {n, 0} : Max({n, 0}) >= y
      BY <1>1, <2>1, MaxIs
    <2>3. QED BY <1>1, <2>2
  <1>2. CASE n = -1
    <2>1. 0 \in {n, 0} /\ \A y \in {n, 0} : 0 >= y
      BY <1>2
    <2>2. \A x \in {n, 0} : (\A y \in {n, 0} : x >= y) => x = 0
      BY <1>2
    <2>3. Max({n, 0}) = 0
      BY <2>1, <2>2 DEF Max
    <2>4. QED BY <1>2, <2>3
  <1>3. QED BY <1>1, <1>2

\* After a token the generation goes on under a limit only if a token is left.
LEMMA AfterTokenIs ==
  ASSUME NEW has_next \in BOOLEAN, NEW pending \in BOOLEAN, NEW remain \in Nat,
         n_predict \in Nat \cup {-1},
         AfterToken(has_next, pending, remain),
         has_next /\ n_predict > 0 => remain > 0
  PROVE  /\ incomplete' = pending /\ has_next_token' = (has_next \/ pending)
         /\ has_next_token' \in BOOLEAN /\ n_remain' \in Nat
         /\ has_next_token' /\ n_predict > 0 => n_remain' > 0
  <1>1. /\ incomplete' = pending /\ has_next_token' = (has_next \/ pending)
        /\ n_remain' = IF pending /\ ~has_next /\ n_predict # -1
                       THEN Min({remain + 1, MaxRemain}) ELSE remain
    BY DEF AfterToken
  <1>2. MaxRemain \in Nat /\ MaxRemain > 0
    BY PromptCacheAssumption
  <1>3. Min({remain + 1, MaxRemain}) \in Nat /\ Min({remain + 1, MaxRemain}) > 0
    <2>1. remain + 1 \in Nat /\ remain + 1 > 0
      OBVIOUS
    <2>2. QED BY <1>2, <2>1, MinOfTwo
  <1>4. QED BY <1>1, <1>3

LEMMA PredictIs ==
  ASSUME TypeInv
  PROVE  n_predict \in Nat \cup {-1}
  BY PromptCacheAssumption DEF TypeInv, RequestTyped

-----------------------------------------------------------------------------
(* Steps that leave something alone                                        *)

LEMMA FileKept ==
  ASSUME FileInv, file' = file, pc' \notin {"state", "sidecar"}
  PROVE  FileInv'
  <1>1. SidecarDescribesFile' /\ FileTrue'
    BY DEF FileInv, SidecarDescribesFile, FileTrue, FileOfPicture
  <1>2. QED BY <1>1 DEF FileInv

\* Nothing runs: only the cache, the snapshots and the file matter.
LEMMA AtRest ==
  ASSUME pc' = "idle", op' = "none", TypeInv', SoundInv',
         ~stale' => Names(embd', Contents(mem'), hash'),
         ~stale' => \A i \in DOMAIN ckpts' : Exact(ckpts'[i], hash'),
         SidecarDescribesFile', FileTrue'
  PROVE  CacheInv'
  <1>1. StageInv'
    BY DEF StageInv, Running
  <1>2. CountInv'
    BY DEF CountInv
  <1>3. IdleInv' /\ ChunksInv'
    BY DEF IdleInv, ChunksInv
  <1>4. LoopInv' /\ OwnInv'
    BY DEF LoopInv, OwnInv, Generating
  <1>5. SnapshotInv'
    BY DEF SnapshotInv
  <1>6. FileInv'
    BY DEF FileInv
  <1>7. QED BY <1>1, <1>2, <1>3, <1>4, <1>5, <1>6 DEF CacheInv

\* An operation ends.
LEMMA EndTyped ==
  ASSUME TypeInv, EndOperation
  PROVE  RequestTyped' /\ ControlTyped' /\ pc' = "idle" /\ op' = "none"
  <1>1. NCtx \in Nat
    BY PromptCacheAssumption
  <1>2. /\ pc' = "idle" /\ op' = "none"
        /\ prompt' = <<>> /\ n_predict' = 0 /\ num_prompt_tokens' = 0 /\ n_remain' = 0
        /\ has_next_token' = FALSE /\ is_interrupted' = FALSE /\ incomplete' = FALSE
        /\ boundary_ckpts' = {} /\ checkpoint_pending' = FALSE
    BY DEF EndOperation
  <1>3. RequestTyped'
    BY <1>1, <1>2 DEF RequestTyped
  <1>4. ControlTyped'
    BY <1>1, <1>2 DEF ControlTyped
  <1>5. QED BY <1>2, <1>3, <1>4

LEMMA HistoryKept ==
  ASSUME TypeInv, ctx_shift' = ctx_shift, ops' = ops, stale' \in BOOLEAN
  PROVE  HistoryTyped'
  BY DEF TypeInv, HistoryTyped

LEMMA FileTypedKept ==
  ASSUME TypeInv, file' = file, saving' = saving
  PROVE  FileTyped'
  BY DEF TypeInv, FileTyped

LEMMA Begun ==
  ASSUME TypeInv, NEW name, Begin(name), ctx_shift' = ctx_shift, stale' \in BOOLEAN
  PROVE  HistoryTyped' /\ pc = "idle"
  <1>1. /\ pc = "idle" /\ ops < MaxOps[ctx_shift] /\ ops' = ops + 1
        /\ ctx_shift \in BOOLEAN /\ ops \in 0 .. MaxOps[ctx_shift]
    BY DEF Begin, TypeInv, HistoryTyped
  <1>2. MaxOps[ctx_shift] \in Nat
    BY <1>1, PromptCacheAssumption
  <1>3. QED BY <1>1, <1>2 DEF HistoryTyped

\* Between two operations the request and its control stay what they were.
LEMMA RestKept ==
  ASSUME CacheInv, pc = "idle", UNCHANGED <<op, pc, request, control, ingest, is_interrupted>>
  PROVE  RequestTyped' /\ ControlTyped' /\ pc' = "idle" /\ op' = "none"
  <1>1. TypeInv /\ op = "none"
    BY DEF CacheInv, StageInv
  <1>2. QED BY <1>1 DEF TypeInv, RequestTyped, ControlTyped, request, control, ingest

LEMMA UnchangedStep ==
  ASSUME CacheInv, UNCHANGED vars
  PROVE  CacheInv'
  <1>1. /\ UNCHANGED <<ctx_shift, cache, ingest, op, pc, request, control, is_interrupted, logits,
                       file, saving, ops, stale>>
    BY DEF vars
  <1>2. UNCHANGED <<mem, embd, n_past, ckpts, hash, boundary_ckpts, checkpoint_pending, prompt,
                    n_predict, num_prompt_tokens, n_remain, has_next_token, incomplete>>
    BY <1>1 DEF cache, ingest, request, control
  <1>3. TypeInv'
    BY <1>1, <1>2 DEF CacheInv, TypeInv, CacheTyped, RequestTyped, ControlTyped, FileTyped,
      HistoryTyped
  <1>4. StageInv' /\ CountInv' /\ SoundInv' /\ IdleInv'
    BY <1>1, <1>2 DEF CacheInv, StageInv, CountInv, SoundInv, IdleInv, Running
  <1>5. ChunksInv' /\ LoopInv' /\ OwnInv'
    BY <1>1, <1>2 DEF CacheInv, ChunksInv, AtChunk, LoopInv, OwnInv, Own, Generating
  <1>6. SnapshotInv' /\ FileInv'
    BY <1>1, <1>2 DEF CacheInv, SnapshotInv, FileInv, SidecarDescribesFile, FileTrue,
      FileOfPicture
  <1>7. QED BY <1>3, <1>4, <1>5, <1>6 DEF CacheInv

LEMMA StopStep ==
  ASSUME CacheInv, StopCompletion
  PROVE  CacheInv'
  <1>1. is_interrupted' = TRUE
        /\ UNCHANGED <<ctx_shift, cache, ingest, op, pc, request, control, logits, file, saving,
                       ops, stale>>
    BY DEF StopCompletion
  <1>2. UNCHANGED <<mem, embd, n_past, ckpts, hash, boundary_ckpts, checkpoint_pending, prompt,
                    n_predict, num_prompt_tokens, n_remain, has_next_token, incomplete>>
    BY <1>1 DEF cache, ingest, request, control
  <1>3. TypeInv'
    BY <1>1, <1>2 DEF CacheInv, TypeInv, CacheTyped, RequestTyped, ControlTyped, FileTyped,
      HistoryTyped
  <1>4. StageInv' /\ CountInv' /\ SoundInv' /\ IdleInv'
    BY <1>1, <1>2 DEF CacheInv, StageInv, CountInv, SoundInv, IdleInv, Running
  <1>5. ChunksInv' /\ LoopInv' /\ OwnInv'
    BY <1>1, <1>2 DEF CacheInv, ChunksInv, AtChunk, LoopInv, OwnInv, Own, Generating
  <1>6. SnapshotInv' /\ FileInv'
    BY <1>1, <1>2 DEF CacheInv, SnapshotInv, FileInv, SidecarDescribesFile, FileTrue,
      FileOfPicture
  <1>7. QED BY <1>3, <1>4, <1>5, <1>6 DEF CacheInv

-----------------------------------------------------------------------------
(* The operations between completions                                      *)

LEMMA EndCompletionIs ==
  ASSUME NEW S, NEW t \in Seq(S), NEW n \in Nat
  PROVE  /\ endCompletion(t, n) \in Seq(S)
         /\ endCompletion(t, n) # <<>> => t # <<>>
         /\ n <= Len(t) /\ (n = 0 => t = <<>>) => endCompletion(t, n) = FirstItems(t, n)
  <1>1. Len(t) \in Nat /\ FirstItems(t, n) \in Seq(S) /\ (Len(t) = 0 <=> t = <<>>)
    BY FirstItemsAre
  <1>2. n >= Len(t) => FirstItems(t, n) = t
    BY FirstItemsAll
  <1>3. CASE n > 0 /\ n < Len(t)
    BY <1>1, <1>3 DEF endCompletion
  <1>4. CASE ~(n > 0 /\ n < Len(t))
    BY <1>1, <1>2, <1>4 DEF endCompletion
  <1>5. QED BY <1>3, <1>4

LEMMA CacheIs ==
  ASSUME CacheInv
  PROVE  /\ mem \in Memory /\ mem.kind \in Kinds /\ embd \in Seq(TokenType) /\ n_past \in Nat
         /\ ckpts \in Seq(Checkpoint) /\ hash \in Hash
         /\ DOMAIN ckpts = 1 .. Len(ckpts)
         /\ SidecarDescribesFile /\ FileTrue /\ file \in File
  <1>1. /\ mem \in Memory /\ embd \in Seq(TokenType) /\ n_past \in Nat
        /\ ckpts \in Seq(Checkpoint) /\ hash \in Hash /\ file \in File
    BY DEF CacheInv, TypeInv, CacheTyped, FileTyped
  <1>2. mem.kind \in Kinds
    BY <1>1, MemoryTyped
  <1>3. SidecarDescribesFile /\ FileTrue
    BY DEF CacheInv, FileInv
  <1>4. DOMAIN ckpts = 1 .. Len(ckpts)
    BY <1>1
  <1>5. QED BY <1>1, <1>2, <1>3, <1>4

LEMMA FileSame ==
  ASSUME CacheInv, file' = file
  PROVE  SidecarDescribesFile' /\ FileTrue'
  BY DEF CacheInv, FileInv, SidecarDescribesFile, FileTrue, FileOfPicture

LEMMA ClearedIs ==
  ASSUME CacheInv
  PROVE  /\ Cleared(mem.kind) \in Memory /\ Sound(Cleared(mem.kind), Item)
         /\ Contents(Cleared(mem.kind)) = <<>>
  BY CacheIs, MemoryTyped, ClearedSound

LEMMA RejectPromptStep ==
  ASSUME CacheInv, RejectPrompt
  PROVE  CacheInv'
  <1>1. /\ pc = "queued" /\ EndOperation
        /\ UNCHANGED <<ctx_shift, mem, embd, n_past, ckpts, hash, file, saving, ops, stale>>
    BY DEF RejectPrompt, cache
  <1>2. TypeInv'
    <2>1. TypeInv /\ stale' \in BOOLEAN
      BY <1>1 DEF CacheInv, TypeInv, HistoryTyped
    <2>2. CacheTyped'
      BY <1>1, <2>1 DEF TypeInv, CacheTyped
    <2>3. QED BY <1>1, <2>1, <2>2, EndTyped, HistoryKept, FileTypedKept DEF TypeInv
  <1>3. pc' = "idle" /\ op' = "none"
    BY <1>1 DEF EndOperation
  <1>4. SoundInv'
    BY <1>1 DEF CacheInv, SoundInv
  <1>5. ~stale' => Names(embd', Contents(mem'), hash')
    BY <1>1 DEF CacheInv, IdleInv
  <1>6. ~stale' => \A i \in DOMAIN ckpts' : Exact(ckpts'[i], hash')
    BY <1>1 DEF CacheInv, SnapshotInv
  <1>7. QED BY <1>1, <1>2, <1>3, <1>4, <1>5, <1>6, FileSame, AtRest

LEMMA ChunkFailsStep ==
  ASSUME CacheInv, ChunkFails
  PROVE  CacheInv'
  <1>1. /\ embd' = endCompletion(embd, n_past) /\ stale' = TRUE /\ EndOperation
        /\ UNCHANGED <<ctx_shift, mem, n_past, ckpts, hash, file, saving, ops>>
    BY DEF ChunkFails
  <1>2. TypeInv'
    <2>1. TypeInv /\ stale' \in BOOLEAN
      BY <1>1 DEF CacheInv
    <2>2. endCompletion(embd, n_past) \in Seq(TokenType)
      BY CacheIs, EndCompletionIs
    <2>3. CacheTyped'
      BY <1>1, <2>1, <2>2 DEF TypeInv, CacheTyped
    <2>4. QED BY <1>1, <2>1, <2>3, EndTyped, HistoryKept, FileTypedKept DEF TypeInv
  <1>3. pc' = "idle" /\ op' = "none"
    BY <1>1 DEF EndOperation
  <1>4. SoundInv'
    BY <1>1 DEF SoundInv
  <1>5. QED BY <1>1, <1>2, <1>3, <1>4, FileSame, AtRest

LEMMA FinishStep ==
  ASSUME CacheInv, Finish
  PROVE  CacheInv'
  <1>1. /\ pc = "loop" /\ embd' = endCompletion(embd, n_past)
        /\ stale' = (stale \/ (n_past = 0 /\ embd # <<>>)) /\ EndOperation
        /\ UNCHANGED <<ctx_shift, mem, n_past, ckpts, hash, file, saving, ops>>
    BY DEF Finish
  <1>2. TypeInv'
    <2>1. TypeInv /\ stale' \in BOOLEAN
      BY <1>1 DEF CacheInv, TypeInv, HistoryTyped
    <2>2. endCompletion(embd, n_past) \in Seq(TokenType)
      BY CacheIs, EndCompletionIs
    <2>3. CacheTyped'
      BY <1>1, <2>1, <2>2 DEF TypeInv, CacheTyped
    <2>4. QED BY <1>1, <2>1, <2>3, EndTyped, HistoryKept, FileTypedKept DEF TypeInv
  <1>3. pc' = "idle" /\ op' = "none"
    BY <1>1 DEF EndOperation
  <1>4. SoundInv'
    BY <1>1 DEF CacheInv, SoundInv
  <1>5. ASSUME ~stale'
        PROVE  Names(embd', Contents(mem'), hash')
    <2>1. ~stale /\ (n_past = 0 => embd = <<>>)
      BY <1>1, <1>5
    <2>2. /\ n_past <= Len(embd) /\ embd \in Seq(Word)
          /\ IF Picture(prompt) = NoPicture THEN Null \notin ToSet(embd)
             ELSE hash = Picture(prompt)
          /\ Contents(mem) = Items(FirstItems(embd, n_past), Picture(prompt))
      BY <1>1, <2>1 DEF CacheInv, LoopInv, OwnInv, Own, Generating
    <2>3. embd' = FirstItems(embd, n_past) /\ mem' = mem /\ hash' = hash
      BY <1>1, <2>1, <2>2, CacheIs, EndCompletionIs
    <2>4. prompt \in Prompts
      BY <1>1 DEF CacheInv, StageInv, Running
    <2>5. Picture(prompt) \in Hash
      BY <2>4, PromptTyped
    <2>6. Null \in ToSet(FirstItems(embd, n_past)) => Null \in ToSet(embd)
      <3>1. /\ FirstItems(embd, n_past) \in Seq(Word) /\ Len(FirstItems(embd, n_past)) <= Len(embd)
            /\ Len(embd) \in Nat /\ Len(FirstItems(embd, n_past)) \in Nat
            /\ \A i \in 1 .. Len(FirstItems(embd, n_past)) : FirstItems(embd, n_past)[i] = embd[i]
        BY <2>2, CacheIs, FirstItemsAre
      <3>2. \A i \in 1 .. Len(FirstItems(embd, n_past)) : i \in 1 .. Len(embd)
        BY <3>1
      <3>3. QED BY <2>2, <3>1, <3>2, ToSetIs
    <2>7. QED BY <2>2, <2>3, <2>5, <2>6 DEF Names
  <1>6. ~stale' => \A i \in DOMAIN ckpts' : Exact(ckpts'[i], hash')
    BY <1>1 DEF CacheInv, SnapshotInv
  <1>7. QED BY <1>1, <1>2, <1>3, <1>4, <1>5, <1>6, FileSame, AtRest

LEMMA RerankStep ==
  ASSUME CacheInv, Rerank
  PROVE  CacheInv'
  <1>1. /\ Begin("rerank") /\ mem' = Cleared(mem.kind) /\ stale' = TRUE
        /\ UNCHANGED <<ctx_shift, ckpts, hash, ingest, op, pc, request, control,
                       is_interrupted, file, saving>>
        /\ \E p \in Prompts : Picture(p) = NoPicture /\ embd' = p /\ n_past' = Len(p)
    BY DEF Rerank
  <1>2. pc = "idle" /\ HistoryTyped'
    BY <1>1, Begun DEF CacheInv
  <1>3. embd' \in Seq(TokenType) /\ n_past' \in Nat
    <2>1. PICK p \in Prompts : Picture(p) = NoPicture /\ embd' = p /\ n_past' = Len(p)
      BY <1>1
    <2>2. p \in Seq(TextItem) /\ Len(p) \in Nat
      BY <2>1, PromptTyped
    <2>3. TextItem \subseteq TokenType
      BY ValueIs
    <2>4. QED BY <2>1, <2>2, <2>3, SeqWider
  <1>4. CacheTyped'
    BY <1>1, <1>3, CacheIs, ClearedIs DEF CacheTyped
  <1>5. TypeInv' /\ pc' = "idle" /\ op' = "none"
    <2>1. FileTyped'
      BY <1>1, FileTypedKept DEF CacheInv
    <2>2. QED BY <1>1, <1>2, <1>4, <2>1, RestKept DEF TypeInv
  <1>6. SoundInv'
    BY <1>1 DEF SoundInv
  <1>7. QED BY <1>1, <1>5, <1>6, FileSame, AtRest

LEMMA BenchStep ==
  ASSUME CacheInv, Bench
  PROVE  CacheInv'
  <1>1. /\ Begin("bench") /\ embd' = endCompletion(embd, n_past)
        /\ UNCHANGED <<ctx_shift, n_past, ckpts, hash, ingest, op, pc, request, control,
                       is_interrupted, file, saving>>
        /\ \/ mem' = mem /\ stale' = (stale \/ embd' # embd)
           \/ stale' = TRUE /\ \E t \in Sampled : mem' = Extended(mem, <<t>>)
           \/ mem' = Cleared(mem.kind) /\ stale' = (stale \/ embd' # <<>>)
    BY DEF Bench, BenchRefused, BenchFails, BenchRuns
  <1>2. stale' \in BOOLEAN
    BY <1>1 DEF CacheInv, TypeInv, HistoryTyped
  <1>3. pc = "idle" /\ HistoryTyped'
    BY <1>1, <1>2, Begun DEF CacheInv
  <1>4. CacheTyped'
    <2>1. mem' \in Memory
      <3>1. \A t \in Sampled : <<t>> \in Seq(Item)
        BY DEF Item
      <3>2. QED BY <1>1, <3>1, CacheIs, ClearedIs, MemoryTyped
    <2>2. QED BY <1>1, <2>1, CacheIs, EndCompletionIs DEF CacheTyped
  <1>5. TypeInv' /\ pc' = "idle" /\ op' = "none"
    <2>1. FileTyped'
      BY <1>1, FileTypedKept DEF CacheInv
    <2>2. QED BY <1>1, <1>3, <1>4, <2>1, RestKept DEF TypeInv
  <1>6. SoundInv' /\ (~stale' => Names(embd', Contents(mem'), hash'))
    <2>1. CASE mem' = mem /\ stale' = (stale \/ embd' # embd)
      BY <1>1, <1>3, <2>1 DEF CacheInv, SoundInv, IdleInv
    <2>2. CASE stale' = TRUE
      BY <2>2 DEF SoundInv
    <2>3. CASE mem' = Cleared(mem.kind) /\ stale' = (stale \/ embd' # <<>>)
      BY <1>1, <2>3, CacheIs, ClearedIs, NothingNamed DEF SoundInv
    <2>4. QED BY <1>1, <2>1, <2>2, <2>3
  <1>7. ~stale' => \A i \in DOMAIN ckpts' : Exact(ckpts'[i], hash')
    BY <1>1, <1>3 DEF CacheInv, SnapshotInv
  <1>8. QED BY <1>1, <1>5, <1>6, <1>7, FileSame, AtRest

LEMMA ClearCacheStep ==
  ASSUME CacheInv, ClearCache
  PROVE  CacheInv'
  <1>1. /\ Begin("clearCache") /\ mem' = Cleared(mem.kind) /\ embd' = <<>> /\ n_past' = 0
        /\ ckpts' = <<>> /\ boundary_ckpts' = {} /\ checkpoint_pending' = FALSE /\ stale' = FALSE
        /\ UNCHANGED <<ctx_shift, hash, op, pc, request, control, is_interrupted, file, saving>>
    BY DEF ClearCache
  <1>2. pc = "idle" /\ HistoryTyped'
    BY <1>1, Begun DEF CacheInv
  <1>3. CacheTyped'
    <2>1. <<>> \in Seq(TokenType) /\ <<>> \in Seq(Checkpoint)
      BY EmptyIs
    <2>2. QED BY <1>1, <2>1, CacheIs, ClearedIs DEF CacheTyped
  <1>4. op = "none" /\ pc' = "idle" /\ op' = "none"
    BY <1>1, <1>2 DEF CacheInv, StageInv
  <1>5. TypeInv'
    <2>1. FileTyped'
      BY <1>1, FileTypedKept DEF CacheInv
    <2>2. RequestTyped'
      BY <1>1 DEF CacheInv, TypeInv, RequestTyped, request
    <2>3. ControlTyped'
      BY <1>1 DEF CacheInv, TypeInv, ControlTyped, control
    <2>4. QED BY <1>2, <1>3, <2>1, <2>2, <2>3 DEF TypeInv
  <1>6. SoundInv'
    BY <1>1, ClearedIs DEF SoundInv
  <1>7. ~stale' => Names(embd', Contents(mem'), hash')
    BY <1>1, CacheIs, ClearedIs, NothingNamed
  <1>8. \A i \in DOMAIN ckpts' : Exact(ckpts'[i], hash')
    BY <1>1
  <1>9. QED BY <1>1, <1>4, <1>5, <1>6, <1>7, <1>8, FileSame, AtRest

LEMMA StartCompletionStep ==
  ASSUME CacheInv, StartCompletion
  PROVE  CacheInv'
  <1>1. /\ Begin("completion") /\ prompt' \in Prompts /\ n_predict' \in NPredict
        /\ op' = "completion" /\ pc' = "queued"
        /\ n_past' = 0 /\ num_prompt_tokens' = 0 /\ n_remain' = 0
        /\ is_interrupted' = FALSE /\ incomplete' = FALSE
        /\ UNCHANGED <<ctx_shift, mem, embd, ckpts, hash, ingest, has_next_token, file, saving,
                       stale>>
    BY DEF StartCompletion
  <1>2. UNCHANGED <<boundary_ckpts, checkpoint_pending>>
    BY <1>1 DEF ingest
  <1>3. stale' \in BOOLEAN
    BY <1>1 DEF CacheInv, TypeInv, HistoryTyped
  <1>4. pc = "idle" /\ HistoryTyped'
    BY <1>1, <1>3, Begun DEF CacheInv
  <1>5. TypeInv'
    <2>1. CacheTyped'
      BY <1>1, CacheIs DEF CacheTyped
    <2>2. NCtx \in Nat
      BY PromptCacheAssumption
    <2>3. RequestTyped'
      BY <1>1, <2>2 DEF RequestTyped
    <2>4. ControlTyped'
      BY <1>1, <1>2 DEF CacheInv, TypeInv, ControlTyped
    <2>5. FileTyped'
      BY <1>1, FileTypedKept DEF CacheInv
    <2>6. QED BY <1>4, <2>1, <2>3, <2>4, <2>5 DEF TypeInv
  <1>6. StageInv' /\ CountInv'
    BY <1>1 DEF StageInv, Running, CountInv
  <1>7. SoundInv'
    BY <1>1 DEF CacheInv, SoundInv
  <1>8. IdleInv'
    BY <1>1, <1>4 DEF CacheInv, IdleInv
  <1>9. ChunksInv' /\ LoopInv' /\ OwnInv'
    BY <1>1 DEF ChunksInv, LoopInv, OwnInv, Generating
  <1>10. SnapshotInv'
    BY <1>1, <1>4 DEF CacheInv, SnapshotInv
  <1>11. FileInv'
    BY <1>1, FileKept DEF CacheInv
  <1>12. QED BY <1>5, <1>6, <1>7, <1>8, <1>9, <1>10, <1>11 DEF CacheInv

LEMMA StartEmbeddingStep ==
  ASSUME CacheInv, StartEmbedding
  PROVE  CacheInv'
  <1>1. /\ Begin("embedding") /\ prompt' \in Prompts
        /\ mem' = Cleared(mem.kind) /\ embd' = <<>>
        /\ op' = "embedding" /\ pc' = "queued"
        /\ n_predict' = 0 /\ n_past' = 0 /\ num_prompt_tokens' = 0 /\ n_remain' = 0
        /\ is_interrupted' = FALSE /\ incomplete' = FALSE
        /\ UNCHANGED <<ctx_shift, ckpts, hash, ingest, has_next_token, file, saving, stale>>
    BY DEF StartEmbedding
  <1>2. UNCHANGED <<boundary_ckpts, checkpoint_pending>>
    BY <1>1 DEF ingest
  <1>3. stale' \in BOOLEAN
    BY <1>1 DEF CacheInv, TypeInv, HistoryTyped
  <1>4. pc = "idle" /\ HistoryTyped'
    BY <1>1, <1>3, Begun DEF CacheInv
  <1>5. TypeInv'
    <2>1. CacheTyped'
      BY <1>1, CacheIs, ClearedIs, EmptyIs DEF CacheTyped
    <2>2. NCtx \in Nat
      BY PromptCacheAssumption
    <2>3. RequestTyped'
      BY <1>1, <2>2 DEF RequestTyped
    <2>4. ControlTyped'
      BY <1>1, <1>2 DEF CacheInv, TypeInv, ControlTyped
    <2>5. FileTyped'
      BY <1>1, FileTypedKept DEF CacheInv
    <2>6. QED BY <1>4, <2>1, <2>3, <2>4, <2>5 DEF TypeInv
  <1>6. StageInv' /\ CountInv'
    BY <1>1 DEF StageInv, Running, CountInv
  <1>7. SoundInv'
    BY <1>1, ClearedIs DEF SoundInv
  <1>8. IdleInv'
    BY <1>1, CacheIs, ClearedIs, NothingNamed DEF IdleInv
  <1>9. ChunksInv' /\ LoopInv' /\ OwnInv'
    BY <1>1 DEF ChunksInv, LoopInv, OwnInv, Generating
  <1>10. SnapshotInv'
    BY <1>1, <1>4 DEF CacheInv, SnapshotInv
  <1>11. FileInv'
    BY <1>1, FileKept DEF CacheInv
  <1>12. QED BY <1>5, <1>6, <1>7, <1>8, <1>9, <1>10, <1>11 DEF CacheInv

LEMMA StartSaveStep ==
  ASSUME CacheInv, StartSave
  PROVE  CacheInv'
  <1> DEFINE Sizes == {n \in {Len(embd) - 1, Len(embd)} : n > 0 \/ embd = <<>>} \ {-1}
  <1>1. /\ Begin("saveSession") /\ file' = WithoutSidecar(file)
        /\ op' = "saveSession" /\ pc' = "state"
        /\ UNCHANGED <<ctx_shift, mem, embd, n_past, ckpts, hash, ingest, request, control,
                       is_interrupted, stale>>
    BY DEF StartSave, cache
  <1>2. \E size \in Sizes :
          /\ saving'.tokens = FirstItems(embd, size)
          /\ saving'.picture \in {NoPicture, hash}
          /\ saving'.picture # NoPicture => \E i \in 1 .. size : embd[i] = Null
          /\ saving' = [tokens |-> saving'.tokens, picture |-> saving'.picture]
    BY DEF StartSave
  <1>3. \A size \in Sizes : size \in Nat /\ size <= Len(embd)
    <2>1. Len(embd) \in Nat
      BY CacheIs
    <2>2. QED BY <2>1
  <1> HIDE DEF Sizes
  <1>4. /\ saving' \in [tokens : Seq(TokenType), picture : Hash]
        /\ saving'.picture \in {NoPicture, hash} /\ IsPrefix(saving'.tokens, embd)
        /\ saving'.picture # NoPicture => Null \in ToSet(saving'.tokens)
    <2>1. PICK size \in Sizes :
            /\ saving'.tokens = FirstItems(embd, size)
            /\ saving'.picture \in {NoPicture, hash}
            /\ saving'.picture # NoPicture => \E i \in 1 .. size : embd[i] = Null
            /\ saving' = [tokens |-> saving'.tokens, picture |-> saving'.picture]
      BY <1>2
    <2>2. saving'.tokens \in Seq(TokenType) /\ IsPrefix(saving'.tokens, embd)
      BY <1>3, <2>1, CacheIs, FirstItemsAre, FirstIsPrefix
    <2>3. saving'.picture \in Hash
      BY <2>1, CacheIs, ValueIs
    <2>4. ASSUME NEW i \in 1 .. size, embd[i] = Null
          PROVE  Null \in ToSet(saving'.tokens)
      <3>1. Len(saving'.tokens) = size /\ saving'.tokens[i] = embd[i]
        BY <1>3, <2>1, CacheIs, FirstItemsAre
      <3>2. QED BY <2>2, <2>4, <3>1, ToSetIs
    <2>5. QED BY <2>1, <2>2, <2>3, <2>4
  <1>5. file' = [file EXCEPT !.sidecar = NoPicture] /\ file \in File
    BY <1>1, CacheIs DEF WithoutSidecar
  <1>6. /\ file' \in File /\ file'.sidecar = NoPicture /\ file'.state = file.state
        /\ file'.tokens = file.tokens /\ file'.mem = file.mem /\ file'.stale = file.stale
    BY <1>5, ValueIs DEF File
  <1>7. stale' \in BOOLEAN
    BY <1>1 DEF CacheInv, TypeInv, HistoryTyped
  <1>8. pc = "idle" /\ HistoryTyped'
    BY <1>1, <1>7, Begun DEF CacheInv
  <1>9. TypeInv'
    <2>1. CacheTyped'
      BY <1>1, CacheIs DEF CacheTyped
    <2>2. RequestTyped'
      BY <1>1 DEF CacheInv, TypeInv, RequestTyped, request
    <2>3. ControlTyped'
      BY <1>1 DEF CacheInv, TypeInv, ControlTyped, control, ingest
    <2>4. QED BY <1>4, <1>6, <1>8, <2>1, <2>2, <2>3 DEF TypeInv, FileTyped
  <1>10. StageInv' /\ CountInv'
    BY <1>1 DEF StageInv, Running, CountInv
  <1>11. SoundInv' /\ IdleInv'
    BY <1>1, <1>8 DEF CacheInv, SoundInv, IdleInv
  <1>12. ChunksInv' /\ LoopInv' /\ OwnInv'
    BY <1>1 DEF ChunksInv, LoopInv, OwnInv, Generating
  <1>13. SnapshotInv'
    BY <1>1, <1>8 DEF CacheInv, SnapshotInv
  <1>14. FileInv'
    <2>1. FileTrue'
      BY <1>6, CacheIs DEF FileTrue, FileOfPicture
    <2>2. SidecarDescribesFile'
      BY <1>6 DEF SidecarDescribesFile
    <2>3. QED BY <1>1, <1>4, <1>6, <2>1, <2>2 DEF FileInv
  <1>15. QED BY <1>9, <1>10, <1>11, <1>12, <1>13, <1>14 DEF CacheInv

\* Tokens that begin what names the memory name the beginning of it.
LEMMA PrefixOfNamed ==
  ASSUME NEW t \in Seq(TokenType), NEW u \in Seq(TokenType), IsPrefix(t, u),
         NEW read, NEW h, Names(u, read, h)
  PROVE  \E p \in Hash : /\ IsPrefix(Items(t, p), read)
                         /\ Null \in ToSet(t) /\ h # NoPicture => p = h
  <1>1. PICK p \in Hash : read = Items(u, p) /\ (Null \in ToSet(u) /\ h # NoPicture => p = h)
    BY DEF Names
  <1>2. t = FirstItems(u, Len(t)) /\ Len(t) <= Len(u) /\ Len(t) \in Nat /\ Len(u) \in Nat
    BY PrefixIs
  <1>3. u \in Seq(Anything) /\ p \in Anything
    BY <1>1, ValueIs, SeqWider
  <1>4. Items(t, p) = FirstItems(read, Len(t)) /\ read \in Seq(Anything)
    BY <1>1, <1>2, <1>3, FirstOfItems, ItemsAre
  <1>5. IsPrefix(Items(t, p), read)
    BY <1>2, <1>4, FirstIsPrefix
  <1>6. Null \in ToSet(t) => Null \in ToSet(u)
    <2>1. \A i \in 1 .. Len(t) : i \in 1 .. Len(u) /\ t[i] = u[i]
      <3>1. \A i \in 1 .. Len(FirstItems(u, Len(t))) : FirstItems(u, Len(t))[i] = u[i]
        BY <1>2, FirstItemsAre
      <3>2. QED BY <1>2, <3>1
    <2>2. QED BY <2>1, ToSetIs
  <1>7. QED BY <1>1, <1>5, <1>6

LEMMA WriteStateStep ==
  ASSUME CacheInv, WriteState
  PROVE  CacheInv'
  <1>1. /\ pc = "state" /\ pc' = "sidecar"
        /\ file' = [file EXCEPT !.state = "whole", !.tokens = saving.tokens,
                                !.mem = mem, !.stale = stale]
        /\ UNCHANGED <<ctx_shift, mem, embd, n_past, ckpts, hash, ingest, op, request, control,
                       is_interrupted, saving, ops, stale>>
    BY DEF WriteState, cache
  <1>2. /\ TypeInv /\ stale \in BOOLEAN /\ saving \in [tokens : Seq(TokenType), picture : Hash]
    BY DEF CacheInv, TypeInv, HistoryTyped, FileTyped
  <1>3. /\ file.sidecar = NoPicture /\ saving.picture \in {NoPicture, hash}
        /\ saving.picture # NoPicture => Null \in ToSet(saving.tokens)
        /\ IsPrefix(saving.tokens, embd) /\ op = "saveSession"
    BY <1>1 DEF CacheInv, FileInv, StageInv
  <1>4. /\ file' \in File /\ file'.sidecar = NoPicture /\ file'.state = "whole"
        /\ file'.tokens = saving.tokens /\ file'.mem = mem /\ file'.stale = stale
    BY <1>1, <1>2, <1>3, CacheIs DEF File
  <1>5. TypeInv'
    <2>1. CacheTyped'
      BY <1>1, CacheIs DEF CacheTyped
    <2>2. RequestTyped'
      BY <1>1, <1>2 DEF TypeInv, RequestTyped, request
    <2>3. ControlTyped'
      BY <1>1, <1>2 DEF TypeInv, ControlTyped, control, ingest
    <2>4. HistoryTyped'
      BY <1>1, <1>2, HistoryKept
    <2>5. QED BY <1>1, <1>2, <1>4, <2>1, <2>2, <2>3, <2>4 DEF TypeInv, FileTyped
  <1>6. StageInv' /\ CountInv'
    BY <1>1, <1>3 DEF StageInv, Running, CountInv
  <1>7. SoundInv' /\ IdleInv'
    BY <1>1 DEF CacheInv, SoundInv, IdleInv
  <1>8. ChunksInv' /\ LoopInv' /\ OwnInv'
    BY <1>1 DEF ChunksInv, LoopInv, OwnInv, Generating
  <1>9. SnapshotInv'
    BY <1>1 DEF CacheInv, SnapshotInv
  <1>10. FileInv'
    <2>1. ASSUME ~stale
          PROVE  /\ Sound(mem, Item)
                 /\ \E p \in Hash :
                      /\ IsPrefix(Items(saving.tokens, p), Contents(mem))
                      /\ Null \in ToSet(saving.tokens) /\ hash # NoPicture => p = hash
      <3>1. Sound(mem, Item) /\ Names(embd, Contents(mem), hash)
        BY <1>1, <2>1 DEF CacheInv, SoundInv, IdleInv
      <3>2. saving.tokens \in Seq(TokenType)
        BY <1>2
      <3>3. QED BY <1>3, <3>1, <3>2, CacheIs, PrefixOfNamed
    <2>2. FileTrue' /\ FileOfPicture(hash)'
      BY <1>1, <1>4, <2>1 DEF FileTrue, FileOfPicture
    <2>3. SidecarDescribesFile'
      BY <1>4 DEF SidecarDescribesFile
    <2>4. QED BY <1>1, <1>3, <1>4, <2>2, <2>3 DEF FileInv
  <1>11. QED BY <1>5, <1>6, <1>7, <1>8, <1>9, <1>10 DEF CacheInv

LEMMA WriteSidecarStep ==
  ASSUME CacheInv, WriteSidecar
  PROVE  CacheInv'
  <1>1. /\ pc = "sidecar" /\ file' = [file EXCEPT !.sidecar = saving.picture]
        /\ saving' = NotSaving /\ EndOperation
        /\ UNCHANGED <<ctx_shift, mem, embd, n_past, ckpts, hash, ops, stale>>
    BY DEF WriteSidecar, cache
  <1>2. TypeInv /\ stale \in BOOLEAN /\ saving \in [tokens : Seq(TokenType), picture : Hash]
    BY DEF CacheInv, TypeInv, HistoryTyped, FileTyped
  <1>3. /\ saving.picture \in {NoPicture, hash} /\ file.state = "whole"
        /\ saving.picture # NoPicture => Null \in ToSet(saving.tokens)
        /\ file.tokens = saving.tokens /\ FileOfPicture(hash)
    BY <1>1 DEF CacheInv, FileInv
  <1>4. /\ file' \in File /\ file'.sidecar = saving.picture /\ file'.state = file.state
        /\ file'.tokens = file.tokens /\ file'.mem = file.mem /\ file'.stale = file.stale
    BY <1>1, <1>2, CacheIs DEF File
  <1>5. TypeInv'
    <2>1. CacheTyped'
      BY <1>1, CacheIs DEF CacheTyped
    <2>2. saving' \in [tokens : Seq(TokenType), picture : Hash]
      BY <1>1, ValueIs, EmptyIs DEF NotSaving
    <2>3. QED BY <1>1, <1>2, <1>4, <2>1, <2>2, EndTyped, HistoryKept DEF TypeInv, FileTyped
  <1>6. pc' = "idle" /\ op' = "none"
    BY <1>1 DEF EndOperation
  <1>7. SoundInv' /\ (~stale' => Names(embd', Contents(mem'), hash'))
    BY <1>1 DEF CacheInv, SoundInv, IdleInv
  <1>8. ~stale' => \A i \in DOMAIN ckpts' : Exact(ckpts'[i], hash')
    BY <1>1 DEF CacheInv, SnapshotInv
  <1>9. FileTrue'
    BY <1>3, <1>4 DEF FileTrue, FileOfPicture
  <1>10. SidecarDescribesFile'
    BY <1>3, <1>4 DEF SidecarDescribesFile, FileOfPicture
  <1>11. QED BY <1>5, <1>6, <1>7, <1>8, <1>9, <1>10, AtRest

LEMMA LoadSessionStep ==
  ASSUME CacheInv, LoadSession
  PROVE  CacheInv'
  <1> DEFINE n == Len(file.tokens)
             cut == Truncated(file.mem, n)
             resumable == Frontier(cut) = n
  <1>1. /\ Begin("loadSession") /\ file.state = "whole"
        /\ mem' = IF resumable THEN cut ELSE Cleared(mem.kind)
        /\ embd' = IF resumable THEN file.tokens ELSE <<>>
        /\ hash' = IF embd' = <<>> THEN NoPicture ELSE file.sidecar
        /\ stale' = (stale \/ file.stale \/ \E i \in DOMAIN ckpts :
                       Null \in ToSet(ckpts[i].tokens) /\ hash # hash')
        /\ UNCHANGED <<ctx_shift, n_past, ckpts, ingest, op, pc, request, control,
                       is_interrupted, file, saving>>
    BY DEF LoadSession
  <1>2. /\ file.tokens \in Seq(TokenType) /\ file.mem \in Memory /\ file.sidecar \in Hash
        /\ file.stale \in BOOLEAN /\ n \in Nat
    BY CacheIs DEF File
  <1>3. stale' \in BOOLEAN /\ stale \in BOOLEAN
    BY <1>1, <1>2 DEF CacheInv, TypeInv, HistoryTyped
  <1>4. pc = "idle" /\ HistoryTyped'
    BY <1>1, <1>3, Begun DEF CacheInv
  <1>5. cut \in Memory
    BY <1>2, MemoryTyped
  <1>6. CacheTyped'
    <2> HIDE DEF cut, resumable
    <2>1. mem' \in Memory
      BY <1>1, <1>5, ClearedIs
    <2>2. embd' \in Seq(TokenType)
      BY <1>1, <1>2, EmptyIs
    <2>3. hash' \in Hash
      BY <1>1, <1>2, ValueIs
    <2>4. QED BY <1>1, <2>1, <2>2, <2>3, CacheIs DEF CacheTyped
  <1>7. TypeInv' /\ pc' = "idle" /\ op' = "none"
    <2>1. FileTyped'
      BY <1>1, FileTypedKept DEF CacheInv
    <2>2. QED BY <1>1, <1>4, <1>6, <2>1, RestKept DEF TypeInv
  <1>8. ASSUME ~stale', resumable
        PROVE  Sound(cut, Item) /\ Names(embd', Contents(cut), hash')
    <2>1. ~file.stale
      BY <1>1, <1>8
    <2>2. Sound(file.mem, Item)
      BY <1>1, <2>1, CacheIs DEF FileTrue, FileOfPicture
    <2>3. PICK p \in Hash :
            /\ IsPrefix(Items(file.tokens, p), Contents(file.mem))
            /\ Null \in ToSet(file.tokens) /\ file.sidecar # NoPicture => p = file.sidecar
      BY <1>1, <2>1, CacheIs DEF FileTrue, FileOfPicture
    <2>4. Sound(cut, Item) /\ (CanTruncate(file.mem, n) =>
                                 Contents(cut) = FirstItems(Contents(file.mem), n))
      BY <1>2, <2>2, TruncatedSound
    <2>5. Contents(file.mem) \in Seq(Anything)
      <3>1. Contents(file.mem) \in Seq(Item)
        BY <2>2, ContentsAre
      <3>2. QED BY <3>1, ValueIs, SeqWider
    <2>6. Items(file.tokens, p) \in Seq(Anything) /\ Len(Items(file.tokens, p)) = n
      <3>1. file.tokens \in Seq(Anything) /\ p \in Anything
        BY <1>2, <2>3, ValueIs, SeqWider
      <3>2. QED BY <3>1, ItemsAre
    <2>7. Items(file.tokens, p) = FirstItems(Contents(file.mem), n)
      BY <2>3, <2>5, <2>6, PrefixIs
    <2>8. Contents(cut) = Items(file.tokens, p)
      <3>1. CASE CanTruncate(file.mem, n)
        BY <2>4, <2>7, <3>1
      <3>2. CASE ~CanTruncate(file.mem, n)
        <4>1. cut = file.mem
          BY <3>2 DEF Truncated
        <4>2. Len(Contents(file.mem)) = n
          BY <1>8, <2>2, <4>1, ContentsAre
        <4>3. FirstItems(Contents(file.mem), n) = Contents(file.mem)
          BY <1>2, <2>5, <4>2, FirstItemsAll
        <4>4. QED BY <2>7, <4>1, <4>3
      <3>3. QED BY <3>1, <3>2
    <2>9. embd' = file.tokens
      BY <1>1, <1>8
    <2>10. hash' # NoPicture => hash' = file.sidecar
      BY <1>1
    <2>11. QED BY <2>3, <2>4, <2>8, <2>9, <2>10 DEF Names
  <1>9. ASSUME ~stale', ~resumable
        PROVE  Sound(mem', Item) /\ Names(embd', Contents(mem'), hash')
    <2>1. mem' = Cleared(mem.kind) /\ embd' = <<>> /\ hash' = NoPicture
      BY <1>1, <1>9
    <2>2. QED BY <2>1, ClearedIs, NothingNamed, ValueIs
  <1>10. SoundInv' /\ (~stale' => Names(embd', Contents(mem'), hash'))
    <2>1. resumable => mem' = cut
      BY <1>1
    <2> HIDE DEF cut, resumable
    <2>2. QED BY <1>8, <1>9, <2>1 DEF SoundInv
  <1>11. ASSUME ~stale', NEW i \in DOMAIN ckpts'
         PROVE  Exact(ckpts'[i], hash')
    <2>1. ~stale /\ ckpts' = ckpts /\ (Null \in ToSet(ckpts[i].tokens) => hash' = hash)
      BY <1>1, <1>11
    <2>2. Exact(ckpts[i], hash)
      BY <1>4, <1>11, <2>1 DEF CacheInv, SnapshotInv
    <2>3. QED BY <2>1, <2>2, NamedWithoutMedia DEF Exact
  <1>12. QED BY <1>1, <1>7, <1>10, <1>11, FileSame, AtRest

LEMMA LoadSessionFailsStep ==
  ASSUME CacheInv, LoadSessionFails
  PROVE  CacheInv'
  <1> DEFINE filled == [i \in 1 .. NCtx |-> IF i <= Len(embd) THEN embd[i] ELSE Zero]
             read == [i \in 1 .. NCtx |-> IF i <= Len(file.tokens) THEN file.tokens[i]
                                          ELSE filled[i]]
  <1>1. /\ Begin("loadSession") /\ stale' = TRUE
        /\ \/ embd' = read /\ mem' = Cleared(mem.kind)
           \/ embd' = filled /\ mem' = mem
        /\ UNCHANGED <<ctx_shift, n_past, ckpts, hash, ingest, op, pc, request, control,
                       is_interrupted, file, saving>>
    BY DEF LoadSessionFails
  <1>2. pc = "idle" /\ HistoryTyped'
    BY <1>1, Begun DEF CacheInv
  <1>3. CacheTyped'
    <2>1. NCtx \in Nat /\ Zero \in TokenType
      BY PromptCacheAssumption DEF TokenType
    <2>2. /\ \A i \in 1 .. NCtx : i <= Len(embd) => embd[i] \in TokenType
          /\ \A i \in 1 .. NCtx : i <= Len(file.tokens) => file.tokens[i] \in TokenType
      <3>1. embd \in Seq(TokenType) /\ file.tokens \in Seq(TokenType)
        BY CacheIs DEF File
      <3>2. QED BY <3>1
    <2>3. filled \in [1 .. NCtx -> TokenType]
      BY <2>1, <2>2
    <2> HIDE DEF filled
    <2>4. read \in [1 .. NCtx -> TokenType]
      BY <2>2, <2>3
    <2> HIDE DEF read
    <2>5. \A s \in [1 .. NCtx -> TokenType] : s \in Seq(TokenType)
      BY <2>1
    <2>6. QED BY <1>1, <2>3, <2>4, <2>5, CacheIs, ClearedIs DEF CacheTyped
  <1>4. TypeInv' /\ pc' = "idle" /\ op' = "none"
    <2>1. FileTyped'
      BY <1>1, FileTypedKept DEF CacheInv
    <2>2. QED BY <1>1, <1>2, <1>3, <2>1, RestKept DEF TypeInv
  <1>5. SoundInv'
    BY <1>1 DEF SoundInv
  <1>6. QED BY <1>1, <1>4, <1>5, FileSame, AtRest

LEMMA CrashStep ==
  ASSUME CacheInv, Crash
  PROVE  CacheInv'
  <1>1. /\ file' = IF pc = "state" THEN [file EXCEPT !.state = "cut", !.tokens = saving.tokens,
                                            !.mem = Cleared(mem.kind)]
                   ELSE file
        /\ mem' = Cleared(mem.kind) /\ embd' = <<>> /\ n_past' = 0 /\ ckpts' = <<>>
        /\ hash' = NoPicture /\ saving' = NotSaving /\ stale' = FALSE /\ EndOperation
        /\ UNCHANGED <<ctx_shift, ops>>
    BY DEF Crash
  <1>2. TypeInv /\ saving \in [tokens : Seq(TokenType), picture : Hash]
    BY DEF CacheInv, TypeInv, FileTyped
  <1>3. /\ file' \in File
        /\ \/ file' = file
           \/ file'.state = "cut" /\ file'.sidecar = NoPicture
    <2>1. CASE pc = "state"
      <3>1. file.sidecar = NoPicture
        BY <2>1 DEF CacheInv, FileInv
      <3>2. QED BY <1>1, <1>2, <2>1, <3>1, CacheIs, ClearedIs DEF File
    <2>2. CASE pc # "state"
      BY <1>1, <2>2, CacheIs
    <2>3. QED BY <2>1, <2>2
  <1>4. SidecarDescribesFile' /\ FileTrue'
    <2>1. CASE file' = file
      BY <2>1, FileSame
    <2>2. CASE file'.state = "cut" /\ file'.sidecar = NoPicture
      BY <2>2 DEF SidecarDescribesFile, FileTrue, FileOfPicture
    <2>3. QED BY <1>3, <2>1, <2>2
  <1>5. CacheTyped'
    <2>1. <<>> \in Seq(TokenType) /\ <<>> \in Seq(Checkpoint)
      BY EmptyIs
    <2>2. QED BY <1>1, <2>1, ClearedIs, ValueIs DEF CacheTyped
  <1>6. TypeInv'
    <2>1. saving' \in [tokens : Seq(TokenType), picture : Hash]
      BY <1>1, ValueIs, EmptyIs DEF NotSaving
    <2>2. QED BY <1>1, <1>2, <1>3, <1>5, <2>1, EndTyped, HistoryKept DEF TypeInv, FileTyped
  <1>7. pc' = "idle" /\ op' = "none"
    BY <1>1 DEF EndOperation
  <1>8. SoundInv'
    BY <1>1, ClearedIs DEF SoundInv
  <1>9. Names(embd', Contents(mem'), hash')
    BY <1>1, ClearedIs, ValueIs, NothingNamed
  <1>10. \A i \in DOMAIN ckpts' : Exact(ckpts'[i], hash')
    BY <1>1
  <1>11. QED BY <1>4, <1>6, <1>7, <1>8, <1>9, <1>10, AtRest

-----------------------------------------------------------------------------
(* The generation loop                                                     *)

LEMMA GenerationTyped ==
  ASSUME TypeInv, pc' \in {"loop", "decode", "sample"},
         UNCHANGED <<ctx_shift, hash, op, request, is_interrupted, file, saving, ops>>,
         mem' \in Memory, embd' \in Seq(TokenType), n_past' \in Nat,
         ckpts' \in Seq(Checkpoint), boundary_ckpts' \in SUBSET (1 .. NCtx),
         checkpoint_pending' \in BOOLEAN, n_remain' \in Nat, has_next_token' \in BOOLEAN,
         incomplete' \in BOOLEAN, stale' \in BOOLEAN
  PROVE  TypeInv'
  <1>1. UNCHANGED <<prompt, n_predict, num_prompt_tokens>>
    BY DEF request
  <1>2. CacheTyped'
    BY DEF TypeInv, CacheTyped
  <1>3. RequestTyped' /\ ControlTyped'
    BY <1>1 DEF TypeInv, RequestTyped, ControlTyped
  <1>4. QED BY <1>2, <1>3, HistoryKept, FileTypedKept DEF TypeInv

LEMMA GenerationStep ==
  ASSUME CacheInv, Generating, pc' \in {"loop", "decode", "sample"}, TypeInv',
         UNCHANGED <<hash, op, request, file, saving>>,
         CountInv', SoundInv', LoopInv', OwnInv', SnapshotInv'
  PROVE  CacheInv'
  <1>1. UNCHANGED <<prompt, n_predict, num_prompt_tokens>>
    BY DEF request
  <1>2. StageInv'
    BY <1>1 DEF CacheInv, StageInv, Generating, Running
  <1>3. IdleInv' /\ ChunksInv'
    BY DEF IdleInv, ChunksInv
  <1>4. FileInv'
    <2>1. FileInv
      BY DEF CacheInv
    <2>2. QED BY <2>1, FileKept
  <1>5. QED BY <1>2, <1>3, <1>4 DEF CacheInv

LEMMA GeneratingIs ==
  ASSUME CacheInv, Generating
  PROVE  /\ embd \in Seq(Word) /\ embd \in Seq(Anything) /\ Len(embd) \in Nat
         /\ n_past <= Len(embd) /\ Len(embd) <= NCtx /\ NCtx \in Nat
         /\ prompt \in Prompts /\ Picture(prompt) \in Hash /\ Picture(prompt) \in Anything
         /\ IF Picture(prompt) = NoPicture THEN Null \notin ToSet(embd)
            ELSE hash = Picture(prompt)
  <1>1. prompt \in Prompts
    BY DEF CacheInv, StageInv, Generating, Running
  <1>2. embd \in Seq(Word)
    BY DEF CacheInv, LoopInv
  <1>3. embd \in Seq(Anything) /\ Len(embd) \in Nat
    BY <1>2, ValueIs, SeqWider
  <1>4. Picture(prompt) \in Hash /\ Picture(prompt) \in Anything
    BY <1>1, PromptTyped, ValueIs
  <1>5. NCtx \in Nat
    BY PromptCacheAssumption
  <1>6. QED BY <1>1, <1>2, <1>3, <1>4, <1>5 DEF CacheInv, LoopInv

LEMMA EnterNextTokenStep ==
  ASSUME CacheInv, EnterNextToken
  PROVE  CacheInv'
  <1>1. /\ pc = "loop" /\ has_next_token /\ Len(embd) < NCtx
        /\ pc' = IF n_past < Len(embd) THEN "decode" ELSE "sample"
        /\ UNCHANGED <<ctx_shift, cache, ingest, op, request, control, is_interrupted, logits,
                       file, saving, ops, stale>>
    <2>1. Len(embd) \in Nat /\ NCtx \in Nat
      BY CacheIs, PromptCacheAssumption
    <2>2. QED BY <2>1 DEF EnterNextToken, Continues, ContextIsFull
  <1>2. UNCHANGED <<mem, embd, n_past, ckpts, hash, boundary_ckpts, checkpoint_pending, prompt,
                    n_predict, num_prompt_tokens, n_remain, has_next_token, incomplete>>
    BY <1>1 DEF cache, ingest, request, control
  <1>3. Generating /\ pc' \in {"loop", "decode", "sample"} /\ n_past \in Nat
    BY <1>1, CacheIs DEF Generating
  <1>4. n_past <= Len(embd) /\ Len(embd) \in Nat
    BY <1>3, GeneratingIs
  <1>5. \/ pc' = "decode" /\ n_past < Len(embd)
        \/ pc' = "sample" /\ n_past = Len(embd)
    <2>1. n_past \in Nat /\ n_past <= Len(embd) /\ Len(embd) \in Nat
      BY <1>3, <1>4
    <2>2. n_past < Len(embd) \/ n_past = Len(embd)
      BY <2>1
    <2>3. QED BY <1>1, <2>1, <2>2
  <1>6. TypeInv'
    <2>1. TypeInv
      BY DEF CacheInv
    <2>2. QED BY <1>1, <1>2, <1>3, <2>1, GenerationTyped
              DEF TypeInv, CacheTyped, ControlTyped, HistoryTyped
  <1>7. CountInv' /\ SoundInv' /\ LoopInv'
    BY <1>1, <1>2, <1>5 DEF CacheInv, CountInv, SoundInv, LoopInv, Generating
  <1>8. OwnInv'
    BY <1>1, <1>2, <1>3, <1>5 DEF CacheInv, OwnInv, Own, Generating
  <1>9. SnapshotInv'
    BY <1>1, <1>2, <1>5 DEF CacheInv, SnapshotInv
  <1>10. QED BY <1>1, <1>2, <1>3, <1>6, <1>7, <1>8, <1>9, GenerationStep

\* What follows a token that was not sampled: the loop ends, unless a character is pending.
LEMMA AfterNoToken ==
  ASSUME TypeInv, AfterToken(FALSE, incomplete, n_remain)
  PROVE  /\ incomplete' = incomplete /\ has_next_token' = incomplete
         /\ incomplete' \in BOOLEAN /\ has_next_token' \in BOOLEAN /\ n_remain' \in Nat
         /\ has_next_token' /\ n_predict > 0 => n_remain' > 0
  <1>1. incomplete \in BOOLEAN /\ n_remain \in Nat
    BY DEF TypeInv, ControlTyped
  <1>2. QED BY <1>1, PredictIs, AfterTokenIs

LEMMA ContextFullStep ==
  ASSUME CacheInv, ContextFull
  PROVE  CacheInv'
  <1>1. /\ pc = "loop" /\ has_next_token /\ AfterToken(FALSE, incomplete, n_remain)
        /\ UNCHANGED <<ctx_shift, cache, ingest, op, pc, request, is_interrupted, logits, file,
                       saving, ops, stale>>
    BY DEF ContextFull, Continues
  <1>2. UNCHANGED <<mem, embd, n_past, ckpts, hash, boundary_ckpts, checkpoint_pending, prompt,
                    n_predict, num_prompt_tokens>>
    BY <1>1 DEF cache, ingest, request
  <1>3. Generating /\ pc' \in {"loop", "decode", "sample"} /\ TypeInv
    BY <1>1 DEF Generating, CacheInv
  <1>4. /\ incomplete' = incomplete /\ has_next_token' = incomplete
        /\ incomplete' \in BOOLEAN /\ has_next_token' \in BOOLEAN /\ n_remain' \in Nat
        /\ has_next_token' /\ n_predict > 0 => n_remain' > 0
    BY <1>1, <1>3, AfterNoToken
  <1>5. TypeInv'
    BY <1>1, <1>2, <1>3, <1>4, GenerationTyped
      DEF TypeInv, CacheTyped, ControlTyped, HistoryTyped
  <1>6. CountInv' /\ SoundInv' /\ LoopInv'
    BY <1>1, <1>2, <1>4 DEF CacheInv, CountInv, SoundInv, LoopInv, Generating
  <1>7. OwnInv'
    BY <1>1, <1>2, <1>3, <1>4 DEF CacheInv, OwnInv, Own, Generating
  <1>8. SnapshotInv'
    BY <1>1, <1>2 DEF CacheInv, SnapshotInv
  <1>9. QED BY <1>1, <1>2, <1>3, <1>5, <1>6, <1>7, <1>8, GenerationStep

LEMMA SampleEndStep ==
  ASSUME CacheInv, SampleEnd
  PROVE  CacheInv'
  <1>1. /\ pc = "sample" /\ AfterToken(FALSE, incomplete, n_remain) /\ pc' = "loop"
        /\ UNCHANGED <<ctx_shift, cache, ingest, op, request, is_interrupted, logits, file,
                       saving, ops, stale>>
    BY DEF SampleEnd
  <1>2. UNCHANGED <<mem, embd, n_past, ckpts, hash, boundary_ckpts, checkpoint_pending, prompt,
                    n_predict, num_prompt_tokens>>
    BY <1>1 DEF cache, ingest, request
  <1>3. Generating /\ pc' \in {"loop", "decode", "sample"} /\ TypeInv
    BY <1>1 DEF Generating, CacheInv
  <1>4. /\ incomplete' = incomplete /\ has_next_token' = incomplete
        /\ incomplete' \in BOOLEAN /\ has_next_token' \in BOOLEAN /\ n_remain' \in Nat
        /\ has_next_token' /\ n_predict > 0 => n_remain' > 0
    BY <1>1, <1>3, AfterNoToken
  <1>5. TypeInv'
    BY <1>1, <1>2, <1>3, <1>4, GenerationTyped
      DEF TypeInv, CacheTyped, ControlTyped, HistoryTyped
  <1>6. CountInv' /\ SoundInv' /\ LoopInv'
    BY <1>1, <1>2, <1>4 DEF CacheInv, CountInv, SoundInv, LoopInv, Generating
  <1>7. OwnInv'
    BY <1>1, <1>2, <1>3, <1>4 DEF CacheInv, OwnInv, Own, Generating
  <1>8. SnapshotInv'
    BY <1>1, <1>2 DEF CacheInv, SnapshotInv
  <1>9. QED BY <1>1, <1>2, <1>3, <1>5, <1>6, <1>7, <1>8, GenerationStep

\* A part of embd that begins it.
LEMMA TrimmedEmbd ==
  ASSUME NEW t \in Seq(Word), NEW n \in Nat, n <= Len(t)
  PROVE  /\ FirstItems(t, n) \in Seq(Word) /\ Len(FirstItems(t, n)) = n
         /\ Null \in ToSet(FirstItems(t, n)) => Null \in ToSet(t)
         /\ \A k \in Nat : k <= n => FirstItems(FirstItems(t, n), k) = FirstItems(t, k)
         /\ FirstItems(t, n) \in Seq(TokenType)
  <1>1. /\ FirstItems(t, n) \in Seq(Word) /\ Len(FirstItems(t, n)) = n
        /\ \A i \in 1 .. n : FirstItems(t, n)[i] = t[i]
    BY FirstItemsAre
  <1>2. \A i \in 1 .. n : i \in 1 .. Len(t)
    OBVIOUS
  <1>3. Null \in ToSet(FirstItems(t, n)) => Null \in ToSet(t)
    BY <1>1, <1>2, ToSetIs
  <1>4. \A k \in Nat : k <= n => FirstItems(FirstItems(t, n), k) = FirstItems(t, k)
    BY FirstOfFirst
  <1>5. FirstItems(t, n) \in Seq(TokenType)
    BY <1>1, ValueIs, SeqWider
  <1>6. QED BY <1>1, <1>3, <1>4, <1>5

LEMMA DecodeFailsStep ==
  ASSUME CacheInv, DecodeFails
  PROVE  CacheInv'
  <1>1. /\ pc = "decode" /\ embd' = FirstItems(embd, n_past) /\ pc' = "loop"
        /\ AfterToken(FALSE, incomplete, n_remain)
        /\ UNCHANGED <<ctx_shift, mem, n_past, ckpts, hash, ingest, op, request,
                       is_interrupted, logits, file, saving, ops, stale>>
    BY DEF DecodeFails
  <1>2. UNCHANGED <<boundary_ckpts, checkpoint_pending, prompt, n_predict, num_prompt_tokens>>
    BY <1>1 DEF ingest, request
  <1>3. Generating /\ pc' \in {"loop", "decode", "sample"} /\ TypeInv
    BY <1>1 DEF Generating, CacheInv
  <1>4. /\ incomplete' = incomplete /\ has_next_token' = incomplete
        /\ incomplete' \in BOOLEAN /\ has_next_token' \in BOOLEAN /\ n_remain' \in Nat
        /\ has_next_token' /\ n_predict > 0 => n_remain' > 0
    BY <1>1, <1>3, AfterNoToken
  <1>5. /\ embd' \in Seq(Word) /\ embd' \in Seq(TokenType) /\ Len(embd') = n_past
        /\ Null \in ToSet(embd') => Null \in ToSet(embd)
        /\ FirstItems(embd', n_past) = FirstItems(embd, n_past)
    <2>1. embd \in Seq(Word) /\ n_past \in Nat /\ n_past <= Len(embd)
      BY <1>3, GeneratingIs, CacheIs
    <2>2. n_past <= n_past
      BY <2>1
    <2>3. QED BY <1>1, <2>1, <2>2, TrimmedEmbd
  <1>6. TypeInv'
    BY <1>1, <1>2, <1>3, <1>4, <1>5, GenerationTyped
      DEF TypeInv, CacheTyped, ControlTyped, HistoryTyped
  <1>7. CountInv' /\ SoundInv'
    BY <1>1, <1>2, <1>4 DEF CacheInv, CountInv, SoundInv
  <1>8. LoopInv'
    <2>1. n_past < Len(embd) /\ Len(embd) <= NCtx /\ Len(embd) \in Nat /\ NCtx \in Nat /\ n_past \in Nat
      BY <1>1, <1>3, GeneratingIs, CacheIs DEF CacheInv, LoopInv
    <2>2. n_past < NCtx /\ n_past <= NCtx /\ n_past <= n_past
      BY <2>1
    <2>3. IF Picture(prompt) = NoPicture THEN Null \notin ToSet(embd)
          ELSE hash = Picture(prompt)
      BY <1>3, GeneratingIs
    <2>4. QED BY <1>1, <1>2, <1>5, <2>2, <2>3 DEF LoopInv
  <1>9. OwnInv'
    BY <1>1, <1>2, <1>3, <1>4, <1>5 DEF CacheInv, OwnInv, Own, Generating
  <1>10. SnapshotInv'
    BY <1>1, <1>2 DEF CacheInv, SnapshotInv
  <1>11. QED BY <1>1, <1>2, <1>3, <1>6, <1>7, <1>8, <1>9, <1>10, GenerationStep

LEMMA SampleTokenStep ==
  ASSUME CacheInv, SampleToken
  PROVE  CacheInv'
  <1>1. PICK t \in Sampled :
          LET pending == t = Fragment /\ ~incomplete
              remain == IF n_predict = -1 THEN n_remain ELSE n_remain - 1
          IN /\ embd' = Append(embd, t)
             /\ \/ AfterToken(n_predict = -1 \/ remain # 0, pending, remain)
                \/ ~pending /\ AfterToken(FALSE, FALSE, remain)
    BY DEF SampleToken
  <1> DEFINE pending == t = Fragment /\ ~incomplete
             remain == IF n_predict = -1 THEN n_remain ELSE n_remain - 1
             has_next == n_predict = -1 \/ remain # 0
  <1>2. /\ pc = "sample" /\ n_predict # 0 /\ pc' = "loop"
        /\ UNCHANGED <<ctx_shift, mem, n_past, ckpts, hash, ingest, op, request,
                       is_interrupted, logits, file, saving, ops, stale>>
    BY DEF SampleToken
  <1>3. UNCHANGED <<boundary_ckpts, checkpoint_pending, prompt, n_predict, num_prompt_tokens>>
    BY <1>2 DEF ingest, request
  <1>4. Generating /\ pc' \in {"loop", "decode", "sample"} /\ TypeInv
    BY <1>2 DEF Generating, CacheInv
  <1>5. /\ remain \in Nat /\ has_next \in BOOLEAN /\ pending \in BOOLEAN
        /\ has_next /\ n_predict > 0 => remain > 0
    <2>1. n_predict \in Nat \cup {-1} /\ n_remain \in Nat
      BY <1>4, PredictIs DEF TypeInv, ControlTyped
    <2>2. n_predict > 0 => n_remain > 0
      BY <1>2 DEF CacheInv, CountInv
    <2>3. QED BY <1>2, <2>1, <2>2
  <1>6. /\ incomplete' \in BOOLEAN /\ has_next_token' \in BOOLEAN /\ n_remain' \in Nat
        /\ has_next_token' /\ n_predict > 0 => n_remain' > 0
    <2>1. n_predict \in Nat \cup {-1}
      BY <1>4, PredictIs
    <2>2. AfterToken(has_next, pending, remain) \/ AfterToken(FALSE, FALSE, remain)
      BY <1>1
    <2> HIDE DEF has_next, pending, remain
    <2>3. CASE AfterToken(has_next, pending, remain)
      BY <1>5, <2>1, <2>3, AfterTokenIs
    <2>4. CASE AfterToken(FALSE, FALSE, remain)
      BY <1>5, <2>1, <2>4, AfterTokenIs
    <2>5. QED BY <2>2, <2>3, <2>4
  <1>7. /\ embd' \in Seq(Word) /\ embd' \in Seq(TokenType) /\ Len(embd') = n_past + 1
        /\ Null \in ToSet(embd') => Null \in ToSet(embd)
        /\ FirstItems(embd', n_past) = FirstItems(embd, n_past)
    <2>1. /\ embd \in Seq(Word) /\ n_past \in Nat /\ n_past = Len(embd)
          /\ t \in Word /\ t # Null /\ embd' = Append(embd, t)
      BY <1>1, <1>2, <1>4, GeneratingIs, CacheIs, ValueIs DEF CacheInv, LoopInv
    <2>2. /\ embd' \in Seq(Word) /\ Len(embd') = n_past + 1
          /\ \A i \in 1 .. n_past : embd'[i] = embd[i]
          /\ embd'[n_past + 1] = t
      BY <2>1
    <2>3. embd' \in Seq(TokenType)
      BY <2>2, ValueIs, SeqWider
    <2>4. Null \in ToSet(embd') => Null \in ToSet(embd)
      <3>1. \A i \in 1 .. n_past + 1 : i \in 1 .. n_past \/ i = n_past + 1
        BY <2>1
      <3>2. Null \in ToSet(embd') => \E i \in 1 .. n_past + 1 : embd'[i] = Null
        BY <2>2, ToSetIs
      <3>3. Null \in ToSet(embd) <=> \E i \in 1 .. n_past : embd[i] = Null
        BY <2>1, ToSetIs
      <3>4. QED BY <2>1, <2>2, <3>1, <3>2, <3>3
    <2>5. FirstItems(embd', n_past) = FirstItems(embd, n_past)
      <3>1. n_past <= Len(embd') /\ n_past <= Len(embd)
        BY <2>1, <2>2
      <3>2. /\ FirstItems(embd', n_past) \in Seq(Word) /\ Len(FirstItems(embd', n_past)) = n_past
            /\ \A i \in 1 .. n_past : FirstItems(embd', n_past)[i] = embd'[i]
        BY <2>1, <2>2, <3>1, FirstItemsAre
      <3>3. /\ FirstItems(embd, n_past) \in Seq(Word) /\ Len(FirstItems(embd, n_past)) = n_past
            /\ \A i \in 1 .. n_past : FirstItems(embd, n_past)[i] = embd[i]
        BY <2>1, <3>1, FirstItemsAre
      <3>4. QED BY <2>2, <3>2, <3>3, SeqEqual
    <2>6. QED BY <2>2, <2>3, <2>4, <2>5
  <1> HIDE DEF has_next, pending, remain
  <1>8. TypeInv'
    BY <1>2, <1>3, <1>4, <1>6, <1>7, GenerationTyped
      DEF TypeInv, CacheTyped, ControlTyped, HistoryTyped
  <1>9. CountInv' /\ SoundInv'
    BY <1>2, <1>3, <1>6 DEF CacheInv, CountInv, SoundInv
  <1>10. LoopInv'
    <2>1. /\ n_past = Len(embd) /\ Len(embd) < NCtx /\ NCtx \in Nat /\ n_past \in Nat
          /\ IF Picture(prompt) = NoPicture THEN Null \notin ToSet(embd)
             ELSE hash = Picture(prompt)
      BY <1>2, <1>4, GeneratingIs, CacheIs DEF CacheInv, LoopInv
    <2>2. n_past <= n_past + 1 /\ n_past + 1 <= NCtx /\ n_past + 1 <= n_past + 1
      BY <2>1
    <2>3. QED BY <1>2, <1>3, <1>7, <2>1, <2>2 DEF LoopInv
  <1>11. OwnInv'
    BY <1>2, <1>3, <1>4, <1>7 DEF CacheInv, OwnInv, Own, Generating
  <1>12. SnapshotInv'
    BY <1>2, <1>3 DEF CacheInv, SnapshotInv
  <1>13. QED BY <1>2, <1>3, <1>4, <1>8, <1>9, <1>10, <1>11, <1>12, GenerationStep

LEMMA EnterLoopStep ==
  ASSUME CacheInv, pc \in {"queued", "chunks"}, pc' = "loop", TypeInv', ~incomplete',
         UNCHANGED <<op, prompt, file>>,
         CountInv', SoundInv', LoopInv', OwnInv', SnapshotInv'
  PROVE  CacheInv'
  <1>1. StageInv'
    BY DEF CacheInv, StageInv, Running
  <1>2. IdleInv' /\ ChunksInv'
    BY DEF IdleInv, ChunksInv
  <1>3. FileInv'
    <2>1. FileInv
      BY DEF CacheInv
    <2>2. QED BY <2>1, FileKept
  <1>4. QED BY <1>1, <1>2, <1>3 DEF CacheInv

LEMMA FinishMediaStep ==
  ASSUME CacheInv, FinishMedia
  PROVE  CacheInv'
  <1>1. /\ pc = "chunks" /\ embd' = Tokens(prompt) /\ hash' = Picture(prompt)
        /\ num_prompt_tokens' = Len(prompt)
        /\ boundary_ckpts' = {} /\ checkpoint_pending' = FALSE
        /\ has_next_token' = TRUE /\ pc' = "loop"
        /\ UNCHANGED <<ctx_shift, mem, n_past, ckpts, op, prompt, n_predict, n_remain,
                       incomplete, is_interrupted, logits, file, saving, ops, stale>>
    BY DEF FinishMedia
  <1>2. /\ prompt \in Prompts /\ ~incomplete /\ Picture(prompt) # NoPicture
        /\ Len(prompt) < NCtx /\ TypeInv
    BY <1>1 DEF CacheInv, StageInv, Running
  <1>3. /\ n_past \in Nat /\ n_past <= Len(prompt) /\ Len(prompt) \in Nat /\ NCtx \in Nat
        /\ prompt \in Seq(Anything) /\ Picture(prompt) \in Hash /\ Picture(prompt) \in Anything
        /\ Tokens(prompt) \in Seq(Word) /\ Tokens(prompt) \in Seq(Anything)
        /\ Tokens(prompt) \in Seq(TokenType)
        /\ Len(Tokens(prompt)) = Len(prompt)
        /\ Items(Tokens(prompt), Picture(prompt)) = prompt
    <2>1. n_past \in Nat /\ n_past <= Len(prompt) /\ NCtx \in Nat
      BY <1>1, CacheIs, PromptCacheAssumption DEF CacheInv, ChunksInv
    <2>2. Tokens(prompt) \in Seq(TokenType)
      BY <1>2, PromptTyped, ValueIs, SeqWider
    <2>3. QED BY <1>2, <2>1, <2>2, PromptTyped, ValueIs
  <1>4. TypeInv'
    <2>1. CacheTyped'
      BY <1>1, <1>2, <1>3 DEF TypeInv, CacheTyped
    <2>2. RequestTyped'
      <3>1. Len(prompt) \in 0 .. NCtx
        BY <1>2, <1>3
      <3>2. QED BY <1>1, <1>2, <3>1 DEF TypeInv, RequestTyped
    <2>3. ControlTyped'
      BY <1>1, <1>2 DEF TypeInv, ControlTyped
    <2>4. stale' \in BOOLEAN
      BY <1>1, <1>2 DEF TypeInv, HistoryTyped
    <2>5. QED BY <1>1, <1>2, <2>1, <2>2, <2>3, <2>4, HistoryKept, FileTypedKept DEF TypeInv
  <1>5. CountInv' /\ SoundInv'
    BY <1>1 DEF CacheInv, CountInv, SoundInv
  <1>6. LoopInv'
    BY <1>1, <1>2, <1>3 DEF LoopInv
  <1>7. OwnInv'
    <2>1. Items(FirstItems(Tokens(prompt), n_past), Picture(prompt)) = FirstItems(prompt, n_past)
      BY <1>3, FirstOfItems
    <2>2. ~stale => /\ Contents(mem) = FirstItems(prompt, n_past)
                    /\ n_past = Len(prompt) => logits = prompt
      BY <1>1 DEF CacheInv, ChunksInv
    <2>3. n_past = Len(prompt) => FirstItems(prompt, n_past) = prompt
      BY <1>3, FirstItemsAll
    <2>4. Own' = FirstItems(prompt, n_past)
      BY <1>1, <2>1 DEF Own
    <2>5. QED BY <1>1, <1>2, <1>3, <2>2, <2>3, <2>4 DEF OwnInv
  <1>8. SnapshotInv'
    BY <1>1 DEF CacheInv, SnapshotInv
  <1>9. QED BY <1>1, <1>2, <1>4, <1>5, <1>6, <1>7, <1>8, EnterLoopStep

-----------------------------------------------------------------------------
(* Prompts with a picture                                                  *)

LEMMA ChunkStep ==
  ASSUME CacheInv, pc \in {"queued", "chunks"}, pc' = "chunks", TypeInv',
         Picture(prompt) # NoPicture, Len(prompt) < NCtx,
         UNCHANGED <<op, prompt, incomplete, file>>,
         CountInv', SoundInv', ChunksInv', SnapshotInv'
  PROVE  CacheInv'
  <1>1. StageInv'
    BY DEF CacheInv, StageInv, Running
  <1>2. IdleInv' /\ LoopInv' /\ OwnInv'
    BY DEF IdleInv, LoopInv, OwnInv, Generating
  <1>3. FileInv'
    <2>1. FileInv
      BY DEF CacheInv
    <2>2. QED BY <2>1, FileKept
  <1>4. QED BY <1>1, <1>2, <1>3 DEF CacheInv

LEMMA CapturesIs ==
  ASSUME NEW m, m.kind = mem.kind
  PROVE  Captures => HasRecurrent(m)
  BY DEF Captures, state_cache_enabled, HasRecurrent

LEMMA EvaluateChunkStep ==
  ASSUME CacheInv, EvaluateChunk
  PROVE  CacheInv'
  <1> DEFINE c == Min(NextChunks)
             e == ChunkEnd(prompt, c)
  <1>1. /\ pc = "chunks" /\ NextChunks # {}
        /\ mem' = Extended(mem, SubSeq(prompt, c + 1, e))
        /\ n_past' = n_past + (e - c)
        /\ logits' = IF e = Len(prompt) THEN Contents(mem') ELSE logits
        /\ \E fails \in CaptureFails :
             ckpts' = IF n_past' = MediaBoundary(prompt) /\ ~fails
                      THEN captureStateCheckpoint(ckpts, Tokens(prompt), n_past', mem')
                      ELSE ckpts
        /\ UNCHANGED <<ctx_shift, embd, hash, ingest, op, pc, request, control,
                       is_interrupted, file, saving, ops, stale>>
    BY DEF EvaluateChunk
  <1>2. UNCHANGED <<boundary_ckpts, checkpoint_pending, prompt, n_predict, num_prompt_tokens,
                    n_remain, has_next_token, incomplete>>
    BY <1>1 DEF ingest, request, control
  <1>3. /\ prompt \in Prompts /\ Picture(prompt) # NoPicture /\ Len(prompt) < NCtx /\ TypeInv
        /\ n_past <= Len(prompt) /\ AtChunk(n_past) /\ n_past \in Nat
        /\ ~stale => Contents(mem) = FirstItems(prompt, n_past)
    BY <1>1, CacheIs DEF CacheInv, StageInv, Running, ChunksInv
  <1>4. /\ prompt \in Seq(Item) /\ prompt # <<>> /\ Len(prompt) \in Nat
        /\ Tokens(prompt) \in Seq(TokenType) /\ Len(Tokens(prompt)) = Len(prompt)
    BY <1>3, PromptTyped, ValueIs, SeqWider
  <1>5. ChunkStarts(prompt) \in SUBSET (0 .. Len(prompt) - 1)
    BY <1>4, StartsAre
  <1>6. c = n_past /\ n_past \in ChunkStarts(prompt)
    <2>1. NextChunks \in SUBSET Nat /\ \A i \in NextChunks : i \in ChunkStarts(prompt) /\ i >= n_past
      BY <1>4, <1>5 DEF NextChunks
    <2>2. c \in NextChunks /\ \A y \in NextChunks : c <= y
      BY <1>1, <2>1, MinIs
    <2> HIDE DEF c
    <2>3. c \in Nat /\ c >= n_past
      BY <2>1, <2>2
    <2>4. n_past \in ChunkStarts(prompt)
      <3>1. ~(c < n_past)
        BY <1>3, <2>3
      <3>2. QED BY <1>3, <2>1, <2>2, <3>1 DEF AtChunk
    <2>5. n_past >= n_past
      BY <1>3
    <2>6. n_past \in NextChunks
      BY <2>4, <2>5 DEF NextChunks
    <2>7. c <= n_past
      BY <2>2, <2>6
    <2>8. QED BY <1>3, <2>3, <2>4, <2>7
  <1>7. /\ e \in Nat /\ n_past < e /\ e <= Len(prompt)
        /\ e \in ChunkStarts(prompt) \/ e = Len(prompt)
    <2> HIDE DEF c
    <2>1. e \in Nat /\ n_past < e /\ e <= Len(prompt)
      BY <1>4, <1>6, ChunkEndIs
    <2>2. e \in ChunkStarts(prompt) \/ e = Len(prompt)
      <3> DEFINE later == {i \in ChunkStarts(prompt) : i > c} \cup {Len(prompt)}
      <3>1. later \in SUBSET Nat /\ later # {}
        BY <1>4, <1>5
      <3>2. e = Min(later)
        BY DEF ChunkEnd
      <3> HIDE DEF later, e
      <3>3. e \in later
        BY <3>1, <3>2, MinIs
      <3>4. QED BY <3>3 DEF later
    <2>3. QED BY <2>1, <2>2
  <1> HIDE DEF e, c
  <1>8. n_past' = e
    BY <1>1, <1>3, <1>6, <1>7
  <1> DEFINE part == SubSeq(prompt, n_past + 1, e)
  <1>9. part \in Seq(Item) /\ FirstItems(prompt, n_past) \o part = FirstItems(prompt, e)
    <2>1. n_past \in Nat /\ n_past <= e
      BY <1>3, <1>7
    <2>2. QED BY <1>4, <1>7, <2>1, FirstExtended
  <1>10. mem' = Extended(mem, part)
    BY <1>1, <1>6
  <1> HIDE DEF part
  <1>11. mem' \in Memory /\ mem'.kind = mem.kind
    BY <1>9, <1>10, CacheIs, MemoryTyped
  <1>12. ckpts' = ckpts \/ ckpts' = captureStateCheckpoint(ckpts, Tokens(prompt), e, mem')
    BY <1>1, <1>8
  <1>13. ckpts' \in Seq(Checkpoint)
    <2>1. CASE ckpts' = ckpts
      BY <2>1, CacheIs
    <2>2. CASE ckpts' = captureStateCheckpoint(ckpts, Tokens(prompt), e, mem')
      BY <1>4, <1>7, <1>11, <2>2, CacheIs, CapturedIs
    <2>3. QED BY <1>12, <2>1, <2>2
  <1>14. TypeInv'
    <2>1. CacheTyped'
      BY <1>1, <1>3, <1>7, <1>8, <1>11, <1>13 DEF TypeInv, CacheTyped
    <2>2. RequestTyped' /\ ControlTyped'
      BY <1>1, <1>2, <1>3 DEF TypeInv, RequestTyped, ControlTyped
    <2>3. stale' \in BOOLEAN
      BY <1>1, <1>3 DEF TypeInv, HistoryTyped
    <2>4. QED BY <1>1, <1>3, <2>1, <2>2, <2>3, HistoryKept, FileTypedKept DEF TypeInv
  <1>15. CountInv'
    BY <1>1, <1>2 DEF CacheInv, CountInv
  <1>16. ASSUME ~stale
         PROVE  Sound(mem', Item) /\ Contents(mem') = FirstItems(prompt, e)
    <2>1. Sound(mem, Item)
      BY <1>16 DEF CacheInv, SoundInv
    <2>2. Sound(mem', Item) /\ Contents(mem') = Contents(mem) \o part
      BY <1>9, <1>10, <2>1, ExtendedSound
    <2>3. QED BY <1>3, <1>9, <1>16, <2>2
  <1>17. SoundInv'
    BY <1>1, <1>16 DEF SoundInv
  <1>18. ChunksInv'
    <2>1. AtChunk(e)
      <3>1. e = Len(prompt) => \A i \in ChunkStarts(prompt) : i < e
        BY <1>4, <1>5
      <3>2. QED BY <1>7, <3>1 DEF AtChunk
    <2>2. e = Len(prompt) => FirstItems(prompt, e) = prompt
      BY <1>4, <1>7, FirstItemsAll
    <2>3. AtChunk(n_past)'
      BY <1>2, <1>8, <2>1 DEF AtChunk
    <2>4. QED BY <1>1, <1>2, <1>7, <1>8, <1>16, <2>2, <2>3 DEF ChunksInv
  <1>19. SnapshotInv'
    <2>1. ASSUME ~stale'
          PROVE  \A i \in 1 .. Len(ckpts') : Exact(ckpts'[i], Picture(prompt))
      <3>1. ~stale /\ \A i \in 1 .. Len(ckpts) : Exact(ckpts[i], Picture(prompt))
        BY <1>1, <2>1, CacheIs DEF CacheInv, SnapshotInv
      <3>2. CASE ckpts' = ckpts
        BY <3>1, <3>2
      <3>3. CASE ckpts' = captureStateCheckpoint(ckpts, Tokens(prompt), e, mem')
        <4>1. Names(FirstItems(Tokens(prompt), e), Contents(mem'), Picture(prompt))
          BY <1>3, <1>7, <1>16, <3>1, PromptNamed
        <4>2. Captures => HasRecurrent(mem')
          BY <1>11, CapturesIs
        <4>3. QED BY <1>4, <1>7, <1>11, <1>16, <3>1, <3>3, <4>1, <4>2, CacheIs, CapturedExact
      <3>4. QED BY <1>12, <3>2, <3>3
    <2>2. DOMAIN ckpts' = 1 .. Len(ckpts')
      BY <1>13
    <2>3. QED BY <1>1, <1>2, <2>1, <2>2 DEF SnapshotInv
  <1>20. QED BY <1>1, <1>2, <1>3, <1>14, <1>15, <1>17, <1>18, <1>19, ChunkStep

\* Evaluation may go on where the kept prefix ends: at a chunk, or in the text after all
\* of them begin.
LEMMA KeptAtChunk ==
  ASSUME NEW S, Null \in S, NEW x \in Seq(S), IsPrompt(x), Picture(x) # NoPicture,
         NEW t \in Seq(S), NEW stable \in BOOLEAN
  PROVE  \/ KeptPrefix(t, x, stable) \in ChunkStarts(x)
         \/ \A c \in ChunkStarts(x) : c < KeptPrefix(t, x, stable)
  <1> DEFINE common == CommonPrefix(t, Tokens(x))
             last == Max(ChunkStarts(x))
             aligned == AlignedDown(x, common)
             n == IF stable THEN aligned ELSE Min({aligned, FirstPicture(x)})
             Fits(k) == k \in ChunkStarts(x) \/ \A c \in ChunkStarts(x) : c < k
  <1>1. x # <<>> /\ Len(x) \in Nat /\ Len(x) > 0
    BY PromptIs DEF IsPrompt
  <1>2. Tokens(x) \in Seq(S) /\ Len(Tokens(x)) = Len(x)
    BY TokensAre
  <1>3. common \in Nat /\ common <= Len(x)
    BY <1>2, CommonPrefixIs
  <1>4. /\ ChunkStarts(x) \in SUBSET (0 .. Len(x) - 1)
        /\ last \in ChunkStarts(x) /\ \A c \in ChunkStarts(x) : c <= last
    BY <1>1, StartsAre, LastStartIs
  <1>5. last \in Nat /\ last <= Len(x) - 1
    BY <1>1, <1>4
  <1>6. aligned = IF common < last THEN ChunkOf(x, common) ELSE common
    BY DEF AlignedDown
  <1>7. KeptPrefix(t, x, stable) = LeavingSomething(x, n)
    BY DEF KeptPrefix
  <1> HIDE DEF common, last, aligned
  <1>8. \A k \in Nat : k >= last => Fits(k)
    <2>1. ASSUME NEW k \in Nat, k >= last PROVE Fits(k)
      <3>1. CASE k = last
        BY <1>4, <3>1
      <3>2. CASE k > last
        BY <1>4, <1>5, <3>2
      <3>3. QED BY <1>5, <2>1, <3>1, <3>2
    <2>2. QED BY <2>1
  <1>9. Fits(aligned) /\ aligned \in Nat /\ aligned <= Len(x)
    <2>1. CASE common < last
      <3>1. ChunkOf(x, common) \in ChunkStarts(x) /\ ChunkOf(x, common) <= common
        BY <1>1, <1>3, ChunkOfIs
      <3>2. QED BY <1>1, <1>3, <1>4, <1>6, <2>1, <3>1
    <2>2. CASE ~(common < last)
      <3>1. aligned = common /\ common >= last
        BY <1>3, <1>5, <1>6, <2>2
      <3>2. QED BY <1>3, <1>8, <3>1
    <2>3. QED BY <2>1, <2>2
  <1>10. Fits(n) /\ n \in Nat /\ n <= Len(x)
    <2>1. FirstPicture(x) \in ChunkStarts(x)
      BY <1>1, FirstPictureIs
    <2>2. FirstPicture(x) \in Nat /\ FirstPicture(x) <= Len(x)
      BY <1>1, <1>4, <2>1
    <2>3. Min({aligned, FirstPicture(x)}) \in {aligned, FirstPicture(x)}
      BY <1>9, <2>2, MinOfTwo
    <2>4. QED BY <1>9, <2>1, <2>2, <2>3
  <1> HIDE DEF n
  <1>11. Fits(LeavingSomething(x, n))
    <2>1. CASE n = 0 \/ n < Len(x)
      BY <1>10, <2>1 DEF LeavingSomething
    <2>2. CASE ~(n = 0 \/ n < Len(x))
      <3>1. n = Len(x) /\ Len(x) - 1 \in Nat
        BY <1>1, <1>10, <2>2
      <3>2. LeavingSomething(x, n) = last \/ LeavingSomething(x, n) = Len(x) - 1
        BY <2>2, <3>1 DEF LeavingSomething, last
      <3>3. last >= last
        BY <1>5
      <3>4. QED BY <1>5, <1>8, <3>1, <3>2, <3>3
    <2>3. QED BY <2>1, <2>2
  <1>12. QED BY <1>7, <1>11

LEMMA ResumesIs ==
  ASSUME NEW S, NEW x \in Seq(S), x # <<>>, NEW n \in Nat, ResumesAt(x, n)
  PROVE  n \in ChunkStarts(x) \/ \A c \in ChunkStarts(x) : c < n
  <1>1. Len(x) \in Nat /\ ChunkStarts(x) \in SUBSET (0 .. Len(x) - 1)
    BY StartsAre
  <1>2. /\ Max(ChunkStarts(x)) \in ChunkStarts(x)
        /\ \A c \in ChunkStarts(x) : c <= Max(ChunkStarts(x))
    BY LastStartIs
  <1>3. \A c \in ChunkStarts(x) : c \in Nat
    BY <1>1
  <1>4. CASE n > Max(ChunkStarts(x))
    BY <1>2, <1>3, <1>4
  <1>5. QED BY <1>4 DEF ResumesAt

\* The snapshots that processMedia keeps are of this prompt's picture, or of none.
KeptFor(x) ==
  IF hash = Picture(x) THEN ckpts ELSE eraseStateCheckpointsAfter(ckpts, FirstPicture(x))

LEMMA KeptForIs ==
  ASSUME CacheInv, pc # "chunks", NEW x \in Prompts, Picture(x) # NoPicture
  PROVE  /\ KeptFor(x) \in Seq(Checkpoint)
         /\ ~stale /\ ~KeepsOtherPicture(x) =>
              \A i \in 1 .. Len(KeptFor(x)) : Exact(KeptFor(x)[i], Picture(x))
  <1> DEFINE ks == eraseStateCheckpointsAfter(ckpts, FirstPicture(x))
  <1>1. /\ ks \in Seq(Checkpoint)
        /\ \A k \in 1 .. Len(ks) : /\ Size(ks[k]) <= FirstPicture(x)
                                   /\ \E i \in 1 .. Len(ckpts) : ks[k] = ckpts[i]
    BY CacheIs, ErasedIs
  <1> HIDE DEF ks
  <1>2. KeptFor(x) = IF hash = Picture(x) THEN ckpts ELSE ks
    BY DEF KeptFor, ks
  <1>3. KeptFor(x) \in Seq(Checkpoint)
    BY <1>1, <1>2, CacheIs
  <1>4. ASSUME ~stale, ~KeepsOtherPicture(x)
        PROVE  \A i \in 1 .. Len(KeptFor(x)) : Exact(KeptFor(x)[i], Picture(x))
    <2>1. \A i \in 1 .. Len(ckpts) : Exact(ckpts[i], hash)
      BY <1>4, CacheIs DEF CacheInv, SnapshotInv
    <2>2. CASE hash = Picture(x)
      BY <1>2, <2>1, <2>2
    <2>3. CASE hash # Picture(x)
      <3>1. ASSUME NEW k \in 1 .. Len(ks)
            PROVE  Exact(ks[k], Picture(x))
        <4>1. PICK i \in 1 .. Len(ckpts) : ks[k] = ckpts[i]
          BY <1>1
        <4>2. Size(ckpts[i]) <= FirstPicture(x)
          BY <1>1, <4>1
        <4>3. Null \notin ToSet(ckpts[i].tokens)
          BY <1>4, <2>3, <4>2, CacheIs DEF KeepsOtherPicture
        <4>4. /\ Names(ckpts[i].tokens, ckpts[i].state.rec, hash)
              /\ ckpts[i].state.pos = Size(ckpts[i])
          BY <2>1 DEF Exact
        <4>5. Names(ckpts[i].tokens, ckpts[i].state.rec, Picture(x))
          BY <4>3, <4>4, NamedWithoutMedia
        <4>6. QED BY <4>1, <4>4, <4>5 DEF Exact
      <3>2. QED BY <1>2, <2>3, <3>1
    <2>4. QED BY <2>2, <2>3
  <1>5. QED BY <1>3, <1>4

\* Where processMedia brings the memory, and how far it then holds the prompt.
MediaOutcomes(x) ==
  LET n == KeptPrefix(embd, x, hash = Picture(x))
      removed == Truncated(mem, n)
  IN IF CanTruncate(mem, n) /\ (n = 0 \/ Frontier(removed) = n)
     THEN {[mem |-> removed, n |-> n]}
     ELSE {IF r.ok THEN [mem |-> r.mem, n |-> r.n] ELSE [mem |-> Cleared(mem.kind), n |-> 0] :
             r \in Recoveries(KeptFor(x), removed, Tokens(x), n,
                              {i \in 0 .. Len(x) : ResumesAt(x, i)})}

LEMMA MediaOutcomeIs ==
  ASSUME CacheInv, pc = "queued", NEW x \in Prompts, Picture(x) # NoPicture,
         NEW r \in MediaOutcomes(x)
  PROVE  /\ r.mem \in Memory /\ r.mem.kind = mem.kind /\ r.n \in Nat /\ r.n < Len(x)
         /\ r.n \in ChunkStarts(x) \/ \A c \in ChunkStarts(x) : c < r.n
         /\ ~stale /\ ~KeepsOtherPicture(x) =>
              Sound(r.mem, Item) /\ Contents(r.mem) = FirstItems(x, r.n)
  <1> DEFINE stable == hash = Picture(x)
             n == KeptPrefix(embd, x, stable)
             removed == Truncated(mem, n)
             Fitting == {i \in 0 .. Len(x) : ResumesAt(x, i)}
             cs == KeptFor(x)
             resumable == CanTruncate(mem, n) /\ (n = 0 \/ Frontier(removed) = n)
             recoveries == Recoveries(cs, removed, Tokens(x), n, Fitting)
             Fits(k) == k \in ChunkStarts(x) \/ \A c \in ChunkStarts(x) : c < k
  <1>1. /\ IF resumable THEN r = [mem |-> removed, n |-> n]
           ELSE \E q \in recoveries :
                  r = IF q.ok THEN [mem |-> q.mem, n |-> q.n]
                      ELSE [mem |-> Cleared(mem.kind), n |-> 0]
    BY DEF MediaOutcomes
  <1>2. /\ x \in Seq(Item) /\ x \in Seq(Anything) /\ IsPrompt(x) /\ x # <<>>
        /\ Len(x) \in Nat /\ Len(x) > 0
        /\ Tokens(x) \in Seq(Anything) /\ Len(Tokens(x)) = Len(x)
    BY PromptTyped
  <1>3. embd \in Seq(TokenType) /\ embd \in Seq(Anything) /\ Null \in Anything
    BY CacheIs, ValueIs, SeqWider
  <1>4. /\ n \in Nat /\ n < Len(x) /\ n <= Len(embd)
        /\ FirstItems(embd, n) = FirstItems(Tokens(x), n)
        /\ ~stable => n <= FirstPicture(x)
    <2>1. stable \in BOOLEAN
      OBVIOUS
    <2> HIDE DEF stable
    <2>2. QED BY <1>2, <1>3, <2>1, KeptPrefixIs
  <1>5. Fits(n)
    <2>1. stable \in BOOLEAN
      OBVIOUS
    <2> HIDE DEF stable
    <2>2. QED BY <1>2, <1>3, <2>1, KeptAtChunk
  <1>6. cs \in Seq(Checkpoint)
    BY KeptForIs
  <1>7. mem \in Memory /\ removed \in Memory /\ removed.kind = mem.kind
    BY <1>4, CacheIs, MemoryTyped
  <1> HIDE DEF n, removed, cs
  <1>8. \/ resumable /\ r.mem = removed /\ r.n = n
        \/ ~resumable /\ r.mem = Cleared(mem.kind) /\ r.n = 0
        \/ /\ ~resumable /\ r.n \in Nat /\ r.n <= n /\ r.n \in Fitting
           /\ \E i \in 1 .. Len(cs) : /\ r.mem = Restored(removed, cs[i]) /\ r.n = Size(cs[i])
                                      /\ IsPrefix(cs[i].tokens, Tokens(x))
    <2>1. CASE resumable
      BY <1>1, <2>1
    <2>2. CASE ~resumable
      <3>1. PICK q \in recoveries :
              r = IF q.ok THEN [mem |-> q.mem, n |-> q.n]
                  ELSE [mem |-> Cleared(mem.kind), n |-> 0]
        BY <1>1, <2>2
      <3> HIDE DEF Fitting, resumable
      <3>2. \/ ~q.ok
            \/ /\ q.ok /\ q.n \in Nat /\ q.n <= n /\ q.n \in Fitting
               /\ \E i \in 1 .. Len(cs) : /\ q.mem = Restored(removed, cs[i])
                                          /\ q.n = Size(cs[i])
                                          /\ IsPrefix(cs[i].tokens, Tokens(x))
        BY <1>2, <1>4, <1>6, RecoveredIs
      <3> HIDE DEF recoveries
      <3>3. CASE ~q.ok
        <4>1. r = [mem |-> Cleared(mem.kind), n |-> 0]
          BY <3>1, <3>3
        <4>2. QED BY <2>2, <4>1
      <3>4. CASE q.ok
        <4>1. r = [mem |-> q.mem, n |-> q.n]
          BY <3>1, <3>4
        <4>2. r.mem = q.mem /\ r.n = q.n
          BY <4>1
        <4>3. QED BY <2>2, <3>2, <3>4, <4>2
      <3>5. QED BY <3>3, <3>4
    <2>3. QED BY <2>1, <2>2
  <1>9. /\ r.mem \in Memory /\ r.mem.kind = mem.kind /\ r.n \in Nat /\ r.n < Len(x)
        /\ Fits(r.n)
    <2>1. CASE r.mem = removed /\ r.n = n
      BY <1>4, <1>5, <1>7, <2>1
    <2>2. CASE r.mem = Cleared(mem.kind) /\ r.n = 0
      <3>1. 0 \in ChunkStarts(x)
        BY <1>2, StartsAre
      <3>2. Cleared(mem.kind).kind = mem.kind
        BY DEF Cleared
      <3>3. QED BY <1>2, <1>7, <2>2, <3>1, <3>2, MemoryTyped
    <2>3. CASE /\ r.n \in Nat /\ r.n <= n /\ r.n \in Fitting
               /\ \E i \in 1 .. Len(cs) : r.mem = Restored(removed, cs[i])
      <3>1. PICK i \in 1 .. Len(cs) : r.mem = Restored(removed, cs[i])
        BY <2>3
      <3>2. cs[i] \in Checkpoint
        BY <1>6
      <3>3. r.mem \in Memory /\ r.mem.kind = mem.kind
        <4>1. removed \in Memory /\ removed.kind = mem.kind
          BY <1>7
        <4>2. QED BY ONLY <4>1, <3>1, <3>2, RestoredTyped
      <3>4. Fits(r.n)
        BY <1>2, <2>3, ResumesIs
      <3>5. QED BY <1>2, <1>4, <2>3, <3>3, <3>4
    <2>4. QED BY <1>8, <2>1, <2>2, <2>3
  <1>10. ASSUME ~stale, ~KeepsOtherPicture(x)
         PROVE  Sound(r.mem, Item) /\ Contents(r.mem) = FirstItems(x, r.n)
    <2>1. Sound(mem, Item) /\ Names(embd, Contents(mem), hash)
      BY <1>10 DEF CacheInv, SoundInv, IdleInv
    <2>2. \A i \in 1 .. Len(cs) : Exact(cs[i], Picture(x))
      BY <1>10, KeptForIs DEF cs
    <2>3. FirstItems(Contents(mem), n) = FirstItems(x, n)
      <3>1. hash = Picture(x) \/ \A i \in 1 .. n : x[i] \notin Pictures
        <4>1. CASE ~stable
          <5>1. FirstPicture(x) \in Nat /\ \A i \in 1 .. FirstPicture(x) : x[i] \notin Pictures
            <6>1. ChunkStarts(x) \in SUBSET (0 .. Len(x) - 1)
              BY <1>2, StartsAre
            <6>2. QED BY <1>2, <6>1, FirstPictureIs
          <5>2. \A i \in 1 .. n : i \in 1 .. FirstPicture(x)
            BY <1>4, <4>1, <5>1
          <5>3. QED BY <5>1, <5>2
        <4>2. QED BY <4>1
      <3>2. n <= Len(x)
        BY <1>2, <1>4
      <3>3. QED BY <1>3, <1>4, <2>1, <3>1, <3>2, CommonNamed
    <2>4. /\ Sound(removed, Item)
          /\ CanTruncate(mem, n) => Contents(removed) = FirstItems(x, n)
      BY <1>4, <2>1, <2>3, TruncatedSound DEF removed
    <2>5. CanTruncate(mem, n) => resumable
      <3>1. ASSUME CanTruncate(mem, n) PROVE Frontier(removed) = n
        <4>1. Frontier(removed) = Len(FirstItems(x, n))
          BY <2>4, <3>1, ContentsAre
        <4>2. QED BY <1>2, <1>4, <4>1, FirstItemsAre
      <3>2. QED BY <3>1
    <2>6. CASE resumable /\ r.mem = removed /\ r.n = n
      BY <2>4, <2>6
    <2>7. CASE r.mem = Cleared(mem.kind) /\ r.n = 0
      BY <1>2, <2>7, ClearedIs, FirstItemsNone
    <2>8. CASE /\ ~resumable /\ r.n \in Nat /\ r.n <= n
               /\ \E i \in 1 .. Len(cs) : /\ r.mem = Restored(removed, cs[i]) /\ r.n = Size(cs[i])
                                          /\ IsPrefix(cs[i].tokens, Tokens(x))
      <3>1. PICK i \in 1 .. Len(cs) : /\ r.mem = Restored(removed, cs[i]) /\ r.n = Size(cs[i])
                                      /\ IsPrefix(cs[i].tokens, Tokens(x))
        BY <2>8
      <3> DEFINE c == cs[i]
      <3>2. c \in Checkpoint /\ Size(c) = Len(c.tokens) /\ c.tokens \in Seq(TokenType)
        BY <1>6, SizeIs
      <3>3. Names(c.tokens, c.state.rec, Picture(x)) /\ c.state.pos = Size(c)
        BY <2>2 DEF Exact
      <3> HIDE DEF c
      <3>4. c.state.rec = FirstItems(x, Size(c)) /\ Size(c) <= Len(x)
        BY <3>1, <3>2, <3>3, PrefixNamed DEF c
      <3>5. ~CanTruncate(mem, n)
        BY <2>5, <2>8
      <3>6. removed = mem /\ HasRecurrent(mem)
        BY <3>5 DEF removed, Truncated, CanTruncate
      <3>7. Size(c) \in Nat /\ Size(c) <= n
        BY <2>8, <3>1 DEF c
      <3>8. FirstItems(Contents(mem), Size(c)) = FirstItems(x, Size(c))
        <4>1. Contents(mem) \in Seq(Item)
          BY <2>1, ContentsAre
        <4>2. FirstItems(FirstItems(Contents(mem), n), Size(c)) = FirstItems(Contents(mem), Size(c))
          BY <1>4, <3>7, <4>1, FirstOfFirst
        <4>3. FirstItems(FirstItems(x, n), Size(c)) = FirstItems(x, Size(c))
          BY <1>2, <1>4, <3>7, FirstOfFirst
        <4>4. QED BY <2>3, <4>2, <4>3
      <3>9. /\ Sound(Restored(mem, c), Item)
            /\ Contents(Restored(mem, c)) = FirstItems(x, Size(c))
        BY <1>2, <2>1, <3>2, <3>3, <3>4, <3>6, <3>8, RestoredSound
      <3>10. QED BY <3>1, <3>6, <3>9 DEF c
    <2>9. QED BY <1>8, <2>6, <2>7, <2>8
  <1>11. QED BY <1>9, <1>10

LEMMA LoadMediaStep ==
  ASSUME CacheInv, LoadMedia
  PROVE  CacheInv'
  <1>1. /\ pc = "queued" /\ Picture(prompt) # NoPicture /\ Len(prompt) < NCtx
        /\ stale' = (stale \/ KeepsOtherPicture(prompt))
        /\ n_remain' = Max({n_predict, 0}) /\ pc' = "chunks"
        /\ UNCHANGED <<ctx_shift, embd, hash, ingest, op, request, has_next_token,
                       incomplete, is_interrupted, logits, file, saving, ops>>
    BY DEF LoadMedia
  <1>2. PICK r \in MediaOutcomes(prompt), fails \in CaptureFails :
          /\ mem' = r.mem /\ n_past' = r.n
          /\ ckpts' = IF r.n = 0 \/ fails THEN KeptFor(prompt)
                      ELSE captureStateCheckpoint(KeptFor(prompt), Tokens(prompt), r.n, r.mem)
    BY DEF LoadMedia, MediaOutcomes, KeptFor
  <1>3. UNCHANGED <<boundary_ckpts, checkpoint_pending, prompt, n_predict, num_prompt_tokens>>
    BY <1>1 DEF ingest, request
  <1>4. prompt \in Prompts /\ ~incomplete /\ TypeInv
    BY <1>1 DEF CacheInv, StageInv, Running
  <1>5. /\ r.mem \in Memory /\ r.mem.kind = mem.kind /\ r.n \in Nat /\ r.n < Len(prompt)
        /\ r.n \in ChunkStarts(prompt) \/ \A c \in ChunkStarts(prompt) : c < r.n
        /\ ~stale /\ ~KeepsOtherPicture(prompt) =>
             Sound(r.mem, Item) /\ Contents(r.mem) = FirstItems(prompt, r.n)
    BY <1>1, <1>4, MediaOutcomeIs
  <1>6. /\ KeptFor(prompt) \in Seq(Checkpoint)
        /\ ~stale /\ ~KeepsOtherPicture(prompt) =>
             \A i \in 1 .. Len(KeptFor(prompt)) : Exact(KeptFor(prompt)[i], Picture(prompt))
    BY <1>1, <1>4, KeptForIs
  <1>7. /\ Len(prompt) \in Nat
        /\ Tokens(prompt) \in Seq(TokenType) /\ Len(Tokens(prompt)) = Len(prompt)
    BY <1>4, PromptTyped, ValueIs, SeqWider
  <1>8. r.n <= Len(Tokens(prompt)) /\ r.n <= Len(prompt)
    BY <1>5, <1>7
  <1> DEFINE captured == captureStateCheckpoint(KeptFor(prompt), Tokens(prompt), r.n, r.mem)
  <1>9. ckpts' = KeptFor(prompt) \/ ckpts' = captured
    BY <1>2
  <1>10. captured \in Seq(Checkpoint)
    BY <1>5, <1>6, <1>7, <1>8, CapturedIs
  <1>11. ~stale' => \A i \in 1 .. Len(captured) : Exact(captured[i], Picture(prompt))
    <2>1. ASSUME ~stale'
          PROVE  \A i \in 1 .. Len(captured) : Exact(captured[i], Picture(prompt))
      <3>1. ~stale /\ ~KeepsOtherPicture(prompt)
        BY <1>1, <2>1
      <3>2. Names(FirstItems(Tokens(prompt), r.n), Contents(r.mem), Picture(prompt))
        BY <1>4, <1>5, <3>1, PromptNamed
      <3>3. Captures => HasRecurrent(r.mem)
        BY <1>5, CapturesIs
      <3>4. QED BY <1>5, <1>6, <1>7, <1>8, <3>1, <3>2, <3>3, CapturedExact
    <2>2. QED BY <2>1
  <1> HIDE DEF captured
  <1>12. ckpts' \in Seq(Checkpoint)
    BY <1>6, <1>9, <1>10
  <1>13. n_remain' \in Nat /\ (n_predict > 0 => n_remain' > 0)
    <2>1. n_predict \in Nat \cup {-1}
      BY <1>4, PredictIs
    <2>2. Max({n_predict, 0}) \in Nat /\ (n_predict > 0 => Max({n_predict, 0}) = n_predict)
      BY <2>1, LimitIs
    <2>3. QED BY <1>1, <2>2
  <1>14. TypeInv'
    <2>1. CacheTyped'
      BY <1>1, <1>2, <1>4, <1>5, <1>12 DEF TypeInv, CacheTyped
    <2>2. RequestTyped' /\ ControlTyped'
      BY <1>1, <1>3, <1>4, <1>13 DEF TypeInv, RequestTyped, ControlTyped
    <2>3. stale' \in BOOLEAN
      BY <1>1, <1>4 DEF TypeInv, HistoryTyped, KeepsOtherPicture
    <2>4. QED BY <1>1, <1>4, <2>1, <2>2, <2>3, HistoryKept, FileTypedKept DEF TypeInv
  <1>15. CountInv'
    BY <1>1, <1>3, <1>13 DEF CountInv
  <1>16. SoundInv'
    BY <1>1, <1>2, <1>5 DEF SoundInv
  <1>17. ChunksInv'
    <2>1. r.n # Len(prompt)
      BY <1>5, <1>7
    <2>2. AtChunk(n_past)'
      BY <1>2, <1>3, <1>5 DEF AtChunk
    <2>3. QED BY <1>1, <1>2, <1>3, <1>5, <1>8, <2>1, <2>2 DEF ChunksInv
  <1>18. SnapshotInv'
    <2>1. DOMAIN ckpts' = 1 .. Len(ckpts')
      BY <1>12
    <2>2. ~stale' => \A i \in 1 .. Len(ckpts') : Exact(ckpts'[i], Picture(prompt))
      BY <1>1, <1>6, <1>9, <1>11
    <2>3. QED BY <1>1, <1>3, <2>1, <2>2 DEF SnapshotInv
  <1>19. QED BY <1>1, <1>3, <1>4, <1>14, <1>15, <1>16, <1>17, <1>18, ChunkStep

-----------------------------------------------------------------------------
(* Text prompts                                                            *)

LEMMA TextLoaded ==
  ASSUME CacheInv, pc = "queued", Picture(prompt) = NoPicture
  PROVE  LET text == IF Len(prompt) < NCtx THEN prompt ELSE truncatePrompt(prompt)
         IN /\ text \in Seq(TextItem) /\ Len(text) \in Nat /\ Len(text) > 0 /\ Len(text) < NCtx
            /\ text \in Seq(Item) /\ text \in Seq(TokenType) /\ text \in Seq(Word)
            /\ text \in Seq(Anything)
  <1> DEFINE text == IF Len(prompt) < NCtx THEN prompt ELSE truncatePrompt(prompt)
  <1>1. prompt \in Prompts
    BY DEF CacheInv, StageInv, Running
  <1>2. prompt \in Seq(TextItem) /\ Len(prompt) \in Nat /\ Len(prompt) > 0 /\ NCtx \in Nat
    BY <1>1, PromptTyped, PromptCacheAssumption
  <1>3. text \in Seq(TextItem) /\ Len(text) > 0 /\ Len(text) < NCtx
    <2>1. CASE Len(prompt) < NCtx
      BY <1>2, <2>1
    <2>2. CASE ~(Len(prompt) < NCtx)
      <3>1. Len(prompt) >= NCtx
        BY <1>2, <2>2
      <3>2. QED BY <1>2, <2>2, <3>1, TruncatedPromptIs
    <2>3. QED BY <2>1, <2>2
  <1> HIDE DEF text
  <1>4. Len(text) \in Nat
    BY <1>3
  <1>5. text \in Seq(Item) /\ text \in Seq(Word) /\ text \in Seq(Anything)
    BY <1>3, ValueIs, TextIs
  <1>6. text \in Seq(TokenType)
    BY <1>5, ValueIs, SeqWider
  <1>7. QED BY <1>3, <1>4, <1>5, <1>6 DEF text

\* A snapshot whose tokens begin a text is of the beginning of the text.
LEMMA TextPrefixNamed ==
  ASSUME NEW t \in Seq(TokenType), NEW read, NEW h, Names(t, read, h), NEW x \in Seq(TextItem),
         NEW n \in Nat, n <= Len(t), n <= Len(x), FirstItems(t, n) = FirstItems(x, n)
  PROVE  FirstItems(read, n) = FirstItems(x, n)
  <1>1. PICK p \in Hash : read = Items(t, p)
    BY DEF Names
  <1>2. t \in Seq(Anything) /\ p \in Anything
    BY ValueIs, SeqWider
  <1>3. FirstItems(read, n) = Items(FirstItems(x, n), p)
    BY <1>1, <1>2, FirstOfItems
  <1>4. FirstItems(x, n) \in Seq(TextItem)
    BY FirstItemsAre
  <1>5. QED BY <1>2, <1>3, <1>4, TextIs

\* Where loadPrompt brings the memory for a text, and what snapshots it leaves.
LEMMA TextOutcomeIs ==
  ASSUME CacheInv, pc = "queued", NEW x \in Seq(TextItem), Len(x) > 0,
         NEW r \in Reuses(x, CommonPrefix(embd, x))
  PROVE  /\ r.mem \in Memory /\ r.mem.kind = mem.kind /\ r.n \in Nat /\ r.n < Len(x)
         /\ r.ckpts \in Seq(Checkpoint)
         /\ ~stale => /\ Sound(r.mem, Item) /\ Contents(r.mem) = FirstItems(x, r.n)
                      /\ \A i \in 1 .. Len(r.ckpts) : Exact(r.ckpts[i], hash)
  <1> DEFINE common == CommonPrefix(embd, x)
             n == IF common = Len(x) THEN common - 1 ELSE common
             recoveries == Recoveries(ckpts, mem, x, common, Nat)
             Recovered(q) == IF q.ok
               THEN [removed |-> FALSE, mem |-> q.mem, n |-> q.n, ckpts |-> ckpts]
               ELSE [removed |-> FALSE, mem |-> Cleared(mem.kind), n |-> 0, ckpts |-> <<>>]
  <1>1. IF CanTruncate(mem, n)
        THEN r = [removed |-> TRUE, mem |-> Truncated(mem, n), n |-> n, ckpts |-> ckpts]
        ELSE \E q \in recoveries : r = Recovered(q)
    BY DEF Reuses
  <1>2. /\ x \in Seq(Item) /\ x \in Seq(Anything) /\ Len(x) \in Nat
        /\ embd \in Seq(TokenType) /\ embd \in Seq(Anything) /\ Len(embd) \in Nat
    <2>1. embd \in Seq(TokenType)
      BY CacheIs
    <2>2. embd \in Seq(Anything)
      BY <2>1, ValueIs, SeqWider
    <2>3. x \in Seq(Item) /\ x \in Seq(Anything)
      BY ValueIs, TextIs
    <2>4. QED BY <2>1, <2>2, <2>3
  <1>3. /\ common \in Nat /\ common <= Len(embd) /\ common <= Len(x)
        /\ FirstItems(embd, common) = FirstItems(x, common)
    BY <1>2, CommonPrefixIs
  <1> HIDE DEF common
  <1>4. n \in Nat /\ n <= common /\ n < Len(x)
    BY <1>2, <1>3
  <1> HIDE DEF n
  <1>5. mem \in Memory /\ mem.kind \in Kinds /\ ckpts \in Seq(Checkpoint)
    BY CacheIs
  <1>6. \/ /\ CanTruncate(mem, n) /\ r.mem = Truncated(mem, n) /\ r.n = n /\ r.ckpts = ckpts
        \/ /\ r.mem = Cleared(mem.kind) /\ r.n = 0 /\ r.ckpts = <<>>
        \/ /\ ~CanTruncate(mem, n) /\ r.n \in Nat /\ r.n <= common /\ r.n < Len(x)
           /\ r.ckpts = ckpts
           /\ \E i \in 1 .. Len(ckpts) : /\ r.mem = Restored(mem, ckpts[i])
                                         /\ r.n = Size(ckpts[i])
                                         /\ IsPrefix(ckpts[i].tokens, x)
    <2>1. CASE CanTruncate(mem, n)
      <3>1. r = [removed |-> TRUE, mem |-> Truncated(mem, n), n |-> n, ckpts |-> ckpts]
        BY <1>1, <2>1
      <3>2. QED BY <2>1, <3>1
    <2>2. CASE ~CanTruncate(mem, n)
      <3>1. PICK q \in recoveries : r = Recovered(q)
        BY <1>1, <2>2
      <3>2. \/ ~q.ok
            \/ /\ q.ok /\ q.n \in Nat /\ q.n <= common /\ q.n < Len(x)
               /\ \E i \in 1 .. Len(ckpts) : /\ q.mem = Restored(mem, ckpts[i])
                                             /\ q.n = Size(ckpts[i])
                                             /\ IsPrefix(ckpts[i].tokens, x)
        BY <1>2, <1>3, <1>5, RecoveredIs
      <3> HIDE DEF recoveries
      <3>3. CASE ~q.ok
        <4>1. r = [removed |-> FALSE, mem |-> Cleared(mem.kind), n |-> 0, ckpts |-> <<>>]
          BY <3>1, <3>3
        <4>2. QED BY <4>1
      <3>4. CASE q.ok
        <4>1. r = [removed |-> FALSE, mem |-> q.mem, n |-> q.n, ckpts |-> ckpts]
          BY <3>1, <3>4
        <4>2. r.mem = q.mem /\ r.n = q.n /\ r.ckpts = ckpts
          BY <4>1
        <4>3. QED BY <2>2, <3>2, <3>4, <4>2
      <3>5. QED BY <3>3, <3>4
    <2>3. QED BY <2>1, <2>2
  <1>7. /\ r.mem \in Memory /\ r.mem.kind = mem.kind /\ r.n \in Nat /\ r.n < Len(x)
        /\ r.ckpts \in Seq(Checkpoint)
    <2>1. CASE r.mem = Truncated(mem, n) /\ r.n = n /\ r.ckpts = ckpts
      BY <1>4, <1>5, <2>1, MemoryTyped
    <2>2. CASE r.mem = Cleared(mem.kind) /\ r.n = 0 /\ r.ckpts = <<>>
      <3>1. Cleared(mem.kind).kind = mem.kind /\ <<>> \in Seq(Checkpoint)
        BY DEF Cleared
      <3>2. QED BY <1>5, <2>2, <3>1, MemoryTyped
    <2>3. CASE /\ r.n \in Nat /\ r.n < Len(x) /\ r.ckpts = ckpts
               /\ \E i \in 1 .. Len(ckpts) : r.mem = Restored(mem, ckpts[i])
      <3>1. PICK i \in 1 .. Len(ckpts) : r.mem = Restored(mem, ckpts[i])
        BY <2>3
      <3>2. ckpts[i] \in Checkpoint
        BY <1>5
      <3>3. r.mem \in Memory /\ r.mem.kind = mem.kind
        <4>1. mem \in Memory
          BY <1>5
        <4>2. QED BY ONLY <4>1, <3>1, <3>2, RestoredTyped
      <3>4. QED BY <1>5, <2>3, <3>3
    <2>4. QED BY <1>6, <2>1, <2>2, <2>3
  <1>8. ASSUME ~stale
        PROVE  /\ Sound(r.mem, Item) /\ Contents(r.mem) = FirstItems(x, r.n)
               /\ \A i \in 1 .. Len(r.ckpts) : Exact(r.ckpts[i], hash)
    <2>1. Sound(mem, Item) /\ Names(embd, Contents(mem), hash)
      BY <1>8 DEF CacheInv, SoundInv, IdleInv
    <2>2. \A i \in 1 .. Len(ckpts) : Exact(ckpts[i], hash)
      BY <1>8, CacheIs DEF CacheInv, SnapshotInv
    <2>3. Contents(mem) \in Seq(Item)
      BY <2>1, ContentsAre
    <2>4. FirstItems(Contents(mem), common) = FirstItems(x, common)
      BY <1>2, <1>3, <2>1, TextPrefixNamed
    <2>5. \A k \in Nat : k <= common => FirstItems(Contents(mem), k) = FirstItems(x, k)
      <3>1. ASSUME NEW k \in Nat, k <= common
            PROVE  FirstItems(Contents(mem), k) = FirstItems(x, k)
        <4>1. FirstItems(FirstItems(Contents(mem), common), k) = FirstItems(Contents(mem), k)
          BY <1>3, <2>3, <3>1, FirstOfFirst
        <4>2. FirstItems(FirstItems(x, common), k) = FirstItems(x, k)
          BY <1>3, <3>1, FirstOfFirst
        <4>3. QED BY <2>4, <4>1, <4>2
      <3>2. QED BY <3>1
    <2>6. \A i \in 1 .. Len(r.ckpts) : Exact(r.ckpts[i], hash)
      <3>1. Len(<<>>) = 0
        OBVIOUS
      <3>2. r.ckpts = ckpts \/ r.ckpts = <<>>
        BY <1>6
      <3>3. QED BY <2>2, <3>1, <3>2
    <2>7. CASE CanTruncate(mem, n) /\ r.mem = Truncated(mem, n) /\ r.n = n
      BY <1>4, <2>1, <2>5, <2>6, <2>7, TruncatedSound
    <2>8. CASE r.mem = Cleared(mem.kind) /\ r.n = 0
      BY <2>6, <2>8, ClearedIs, FirstItemsNone
    <2>9. CASE /\ ~CanTruncate(mem, n) /\ r.n \in Nat /\ r.n <= common /\ r.n < Len(x)
               /\ \E i \in 1 .. Len(ckpts) : /\ r.mem = Restored(mem, ckpts[i])
                                             /\ r.n = Size(ckpts[i])
                                             /\ IsPrefix(ckpts[i].tokens, x)
      <3>1. PICK i \in 1 .. Len(ckpts) : /\ r.mem = Restored(mem, ckpts[i])
                                         /\ r.n = Size(ckpts[i])
                                         /\ IsPrefix(ckpts[i].tokens, x)
        BY <2>9
      <3> DEFINE c == ckpts[i]
      <3>2. c \in Checkpoint /\ Size(c) = Len(c.tokens) /\ c.tokens \in Seq(TokenType)
        BY <1>5, SizeIs
      <3>3. Names(c.tokens, c.state.rec, hash) /\ c.state.pos = Size(c)
        BY <2>2 DEF Exact
      <3>4. r.mem = Restored(mem, c) /\ r.n = Size(c) /\ IsPrefix(c.tokens, x)
        BY <3>1
      <3> HIDE DEF c
      <3>5. Size(c) \in Nat /\ Size(c) <= common /\ Size(c) <= Len(x)
        BY <1>2, <2>9, <3>4
      <3>6. c.tokens \in Seq(Anything)
        BY <3>2, ValueIs, SeqWider
      <3>7. FirstItems(c.tokens, Size(c)) = FirstItems(x, Size(c))
        <4>1. c.tokens = FirstItems(x, Size(c))
          BY <1>2, <3>2, <3>4, <3>6, PrefixIs
        <4>2. FirstItems(c.tokens, Size(c)) = c.tokens
          <5>1. Size(c) >= Len(c.tokens)
            BY <3>2, <3>5
          <5>2. QED BY <3>5, <3>6, <5>1, FirstItemsAll
        <4>3. QED BY <4>1, <4>2
      <3>8. c.state.rec = FirstItems(x, Size(c))
        <4>1. Size(c) <= Len(c.tokens)
          BY <3>2, <3>5
        <4>2. FirstItems(c.state.rec, Size(c)) = FirstItems(x, Size(c))
          BY <3>2, <3>3, <3>5, <3>7, <4>1, TextPrefixNamed
        <4>3. c.state.rec \in Seq(Anything) /\ Len(c.state.rec) = Size(c)
          BY <3>2, <3>3, NamedIs
        <4>4. Size(c) >= Len(c.state.rec)
          BY <3>5, <4>3
        <4>5. FirstItems(c.state.rec, Size(c)) = c.state.rec
          BY <3>5, <4>3, <4>4, FirstItemsAll
        <4>6. QED BY <4>2, <4>5
      <3>9. HasRecurrent(mem)
        BY <2>9 DEF CanTruncate
      <3>10. /\ Sound(Restored(mem, c), Item)
             /\ Contents(Restored(mem, c)) = FirstItems(x, Size(c))
        BY <1>2, <2>1, <2>5, <3>2, <3>3, <3>5, <3>8, <3>9, RestoredSound
      <3>11. QED BY <2>6, <3>4, <3>10
    <2>10. QED BY <1>6, <2>7, <2>8, <2>9
  <1>9. QED BY <1>7, <1>8

LEMMA LoadTextStep ==
  ASSUME CacheInv, LoadText
  PROVE  CacheInv'
  <1> DEFINE text == IF Len(prompt) < NCtx THEN prompt ELSE truncatePrompt(prompt)
             common == CommonPrefix(embd, text)
  <1>1. /\ pc = "queued" /\ Picture(prompt) = NoPicture
        /\ n_remain' = Max({n_predict, 0}) /\ has_next_token' = TRUE /\ pc' = "loop"
        /\ UNCHANGED <<ctx_shift, hash, op, prompt, n_predict, is_interrupted,
                       incomplete, logits, file, saving, ops, stale>>
    BY DEF LoadText
  <1>2. PICK r \in Reuses(text, common), fails \in CaptureFails :
          /\ mem' = r.mem /\ n_past' = r.n /\ embd' = text
          /\ num_prompt_tokens' = Len(text)
          /\ ckpts' = IF r.n = 0 \/ fails THEN r.ckpts
                      ELSE captureStateCheckpoint(r.ckpts, text, r.n, r.mem)
          /\ boundary_ckpts' =
               IF ~Captures THEN {}
               ELSE FewBoundaries(
                 IF r.n = 0 THEN ColdBoundaries(text)
                 ELSE IF ~r.removed /\ r.n < common /\ common < Len(text) THEN {common}
                 ELSE {})
          /\ checkpoint_pending' = (Captures /\ (r.n = 0 \/ boundary_ckpts' # {}))
    BY DEF LoadText
  <1>3. prompt \in Prompts /\ ~incomplete /\ TypeInv /\ NCtx \in Nat
    BY <1>1, PromptCacheAssumption DEF CacheInv, StageInv, Running
  <1>4. /\ text \in Seq(TextItem) /\ Len(text) \in Nat /\ Len(text) > 0 /\ Len(text) < NCtx
        /\ text \in Seq(Item) /\ text \in Seq(TokenType) /\ text \in Seq(Word)
        /\ text \in Seq(Anything)
    BY <1>1, TextLoaded
  <1> HIDE DEF text
  <1>5. /\ r.mem \in Memory /\ r.mem.kind = mem.kind /\ r.n \in Nat /\ r.n < Len(text)
        /\ r.ckpts \in Seq(Checkpoint)
        /\ ~stale => /\ Sound(r.mem, Item) /\ Contents(r.mem) = FirstItems(text, r.n)
                     /\ \A i \in 1 .. Len(r.ckpts) : Exact(r.ckpts[i], hash)
    BY <1>1, <1>2, <1>4, TextOutcomeIs
  <1>6. r.n <= Len(text)
    BY <1>4, <1>5
  <1>7. common \in Nat /\ common <= Len(text)
    <2>1. embd \in Seq(Anything)
      BY CacheIs, ValueIs, SeqWider
    <2>2. QED BY <1>4, <2>1, CommonPrefixIs
  <1> DEFINE captured == captureStateCheckpoint(r.ckpts, text, r.n, r.mem)
  <1>8. ckpts' = r.ckpts \/ ckpts' = captured
    BY <1>2
  <1>9. captured \in Seq(Checkpoint)
    BY <1>4, <1>5, <1>6, CapturedIs
  <1>10. ASSUME ~stale
         PROVE  \A i \in 1 .. Len(captured) : Exact(captured[i], hash)
    <2>1. FirstItems(text, r.n) \in Seq(TextItem)
      BY <1>4, <1>5, FirstItemsAre
    <2>2. Names(FirstItems(text, r.n), Contents(r.mem), hash)
      BY <1>5, <1>10, <2>1, TextNamed
    <2>3. Captures => HasRecurrent(r.mem)
      BY <1>5, CapturesIs
    <2>4. QED BY <1>4, <1>5, <1>6, <1>10, <2>2, <2>3, CapturedExact
  <1> HIDE DEF captured
  <1>11. boundary_ckpts' \in SUBSET (1 .. NCtx)
    <2>1. \/ boundary_ckpts' = {} \/ boundary_ckpts' = FewBoundaries(ColdBoundaries(text))
          \/ boundary_ckpts' = FewBoundaries({common}) /\ r.n < common
          \/ boundary_ckpts' = FewBoundaries({})
      BY <1>2
    <2>2. /\ ColdBoundaries(text) \subseteq 1 .. Len(text)
          /\ \A bs \in SUBSET (1 .. Len(text)) : FewBoundaries(bs) \subseteq 1 .. Len(text)
      BY <1>4, BoundariesAre
    <2>3. r.n < common => {common} \subseteq 1 .. Len(text)
      BY <1>4, <1>5, <1>7
    <2>4. boundary_ckpts' \subseteq 1 .. Len(text)
      BY <2>1, <2>2, <2>3
    <2>5. 1 .. Len(text) \subseteq 1 .. NCtx
      BY <1>3, <1>4
    <2>6. QED BY <2>4, <2>5
  <1>12. n_remain' \in Nat /\ (n_predict > 0 => n_remain' > 0)
    <2>1. n_predict \in Nat \cup {-1}
      BY <1>3, PredictIs
    <2>2. Max({n_predict, 0}) \in Nat /\ (n_predict > 0 => Max({n_predict, 0}) = n_predict)
      BY <2>1, LimitIs
    <2>3. QED BY <1>1, <2>2
  <1>13. TypeInv'
    <2>1. CacheTyped'
      BY <1>1, <1>2, <1>3, <1>4, <1>5, <1>8, <1>9 DEF TypeInv, CacheTyped
    <2>2. RequestTyped'
      <3>1. Len(text) \in 0 .. NCtx
        BY <1>3, <1>4
      <3>2. QED BY <1>1, <1>2, <1>3, <3>1 DEF TypeInv, RequestTyped
    <2>3. ControlTyped'
      <3>1. checkpoint_pending' \in BOOLEAN
        <4>1. (Captures /\ (r.n = 0 \/ boundary_ckpts' # {})) \in BOOLEAN
          BY DEF Captures
        <4>2. QED BY <1>2, <4>1
      <3>2. QED BY <1>1, <1>3, <1>11, <1>12, <3>1 DEF TypeInv, ControlTyped
    <2>4. stale' \in BOOLEAN
      BY <1>1, <1>3 DEF TypeInv, HistoryTyped
    <2>5. QED BY <1>1, <1>3, <2>1, <2>2, <2>3, <2>4, HistoryKept, FileTypedKept DEF TypeInv
  <1>14. CountInv' /\ SoundInv'
    BY <1>1, <1>2, <1>5, <1>12 DEF CountInv, SoundInv
  <1>15. LoopInv'
    <2>1. Null \notin ToSet(text) /\ Len(text) <= NCtx
      BY <1>3, <1>4, TextIs, ValueIs
    <2>2. QED BY <1>1, <1>2, <1>4, <1>6, <2>1 DEF LoopInv
  <1>16. OwnInv'
    <2>1. FirstItems(text, r.n) \in Seq(TextItem)
      BY <1>4, <1>5, FirstItemsAre
    <2>2. Items(FirstItems(text, r.n), NoPicture) = FirstItems(text, r.n)
      BY <2>1, TextIs, ValueIs
    <2>3. Own' = FirstItems(text, r.n)
      BY <1>1, <1>2, <2>2 DEF Own
    <2>4. r.n # Len(text)
      BY <1>4, <1>5
    <2>5. QED BY <1>1, <1>2, <1>3, <1>5, <2>3, <2>4 DEF OwnInv
  <1>17. SnapshotInv'
    <2>1. DOMAIN ckpts' = 1 .. Len(ckpts')
      BY <1>5, <1>8, <1>9
    <2>2. ~stale => \A i \in 1 .. Len(ckpts') : Exact(ckpts'[i], hash)
      BY <1>5, <1>8, <1>10
    <2>3. QED BY <1>1, <2>1, <2>2 DEF SnapshotInv
  <1>18. QED BY <1>1, <1>3, <1>13, <1>14, <1>15, <1>16, <1>17, EnterLoopStep

-----------------------------------------------------------------------------
(* Batches and context shifts                                              *)

LEMMA DecodeToIs ==
  ASSUME CacheInv, pc = "decode"
  PROVE  DecodeTo \in Nat /\ n_past < DecodeTo /\ DecodeTo <= Len(embd)
  <1> DEFINE boundaries == IF checkpoint_pending THEN {b \in boundary_ckpts : b > n_past} ELSE {}
             intervals == {b \in n_past + 1 .. Len(embd) : OnInterval(b)}
             ends == {Len(embd), n_past + NBatch} \cup boundaries \cup intervals
  <1>1. /\ n_past \in Nat /\ Len(embd) \in Nat /\ n_past < Len(embd)
        /\ NBatch \in Nat /\ NBatch > 0 /\ NCtx \in Nat
    <2>1. n_past < Len(embd) /\ Generating
      BY DEF CacheInv, LoopInv, Generating
    <2>2. QED BY <2>1, GeneratingIs, CacheIs, PromptCacheAssumption
  <1>2. boundaries \in SUBSET Nat /\ \A b \in boundaries : n_past < b
    <2>1. boundary_ckpts \in SUBSET (1 .. NCtx)
      BY DEF CacheInv, TypeInv, ControlTyped
    <2>2. \A b \in boundary_ckpts : b \in Nat
      BY <1>1, <2>1
    <2>3. boundaries \subseteq {b \in boundary_ckpts : b > n_past}
      OBVIOUS
    <2> HIDE DEF boundaries
    <2>4. \A b \in boundaries : b \in Nat /\ b > n_past
      BY <2>2, <2>3
    <2>5. QED BY <1>1, <2>4
  <1>3. intervals \in SUBSET Nat /\ \A b \in intervals : n_past < b
    BY <1>1
  <1>4. DecodeTo = Min(ends)
    BY DEF DecodeTo
  <1> HIDE DEF boundaries, intervals
  <1>5. ends \in SUBSET Nat /\ Len(embd) \in ends /\ \A b \in ends : n_past < b
    <2>1. /\ Len(embd) \in Nat /\ n_past < Len(embd)
          /\ n_past + NBatch \in Nat /\ n_past < n_past + NBatch
      BY <1>1
    <2>2. \A b \in ends : \/ b = Len(embd) \/ b = n_past + NBatch
                          \/ b \in boundaries \/ b \in intervals
      OBVIOUS
    <2>3. Len(embd) \in ends
      OBVIOUS
    <2> HIDE DEF ends
    <2>4. \A b \in ends : b \in Nat /\ n_past < b
      BY <1>2, <1>3, <2>1, <2>2
    <2>5. QED BY <2>3, <2>4
  <1> HIDE DEF ends
  <1>6. Min(ends) \in ends /\ Min(ends) <= Len(embd)
    BY <1>5, MinIs
  <1>7. QED BY <1>4, <1>5, <1>6

LEMMA NextBatchIs ==
  ASSUME CacheInv, pc = "decode", Decodable
  PROVE  /\ NextBatch \in Seq(TextItem) /\ NextBatch \in Seq(Item)
         /\ Items(FirstItems(embd, n_past), Picture(prompt)) \o NextBatch
              = Items(FirstItems(embd, DecodeTo), Picture(prompt))
  <1> DEFINE p == Picture(prompt)
             y == Items(embd, p)
  <1>1. /\ DecodeTo \in Nat /\ n_past <= DecodeTo /\ DecodeTo <= Len(embd) /\ n_past \in Nat
        /\ embd \in Seq(Word) /\ embd \in Seq(Anything) /\ p \in Anything /\ Len(embd) \in Nat
    <2>1. Generating
      BY DEF Generating
    <2>2. DecodeTo \in Nat /\ n_past < DecodeTo /\ DecodeTo <= Len(embd) /\ n_past \in Nat
      BY DecodeToIs, CacheIs
    <2>3. n_past <= DecodeTo
      BY <2>2
    <2>4. QED BY <2>1, <2>2, <2>3, GeneratingIs
  <1> HIDE DEF p
  <1>2. NextBatch \in Seq(Word)
    BY <1>1, FirstExtended DEF NextBatch
  <1>3. NextBatch \in Seq(TextItem)
    BY <1>2, WordsAre DEF Decodable
  <1>4. NextBatch \in Seq(Item) /\ Items(NextBatch, p) = NextBatch
    BY <1>1, <1>3, TextIs
  <1>5. y \in Seq(Anything) /\ Len(y) = Len(embd)
    BY <1>1, ItemsAre
  <1>6. Items(NextBatch, p) = SubSeq(y, n_past + 1, DecodeTo)
    BY <1>1, ItemsOfSub DEF NextBatch
  <1>7. /\ Items(FirstItems(embd, n_past), p) = FirstItems(y, n_past)
        /\ Items(FirstItems(embd, DecodeTo), p) = FirstItems(y, DecodeTo)
    BY <1>1, FirstOfItems
  <1> HIDE DEF y
  <1>8. FirstItems(y, n_past) \o SubSeq(y, n_past + 1, DecodeTo) = FirstItems(y, DecodeTo)
    BY <1>1, <1>5, FirstExtended
  <1>9. QED BY <1>3, <1>4, <1>6, <1>7, <1>8 DEF p

LEMMA DecodeStep ==
  ASSUME CacheInv, Decode
  PROVE  CacheInv'
  <1> DEFINE n == DecodeTo
             p == Picture(prompt)
  <1>1. /\ pc = "decode" /\ Decodable /\ mem' = Extended(mem, NextBatch) /\ n_past' = n
        /\ logits' = Contents(mem')
        /\ UNCHANGED <<ctx_shift, hash, op, request, is_interrupted, file, saving, ops, stale>>
    BY DEF Decode
  <1>2. \/ /\ embd' = FirstItems(embd, n) /\ pc' = "loop"
           /\ AfterToken(FALSE, incomplete, n_remain) /\ UNCHANGED <<ckpts, ingest>>
        \/ /\ ckpts' = ckpts \/ ckpts' = captureStateCheckpoint(ckpts, embd, n, mem')
           /\ pc' = IF n < Len(embd) THEN "decode" ELSE "sample"
           /\ checkpoint_pending' =
                (checkpoint_pending /\ ~(n = Len(embd) /\ n >= num_prompt_tokens))
           /\ UNCHANGED <<embd, control, boundary_ckpts>>
    BY DEF Decode
  <1>3. /\ Generating /\ TypeInv /\ UNCHANGED <<prompt, n_predict, num_prompt_tokens>>
    BY <1>1 DEF Generating, CacheInv, request
  <1>4. /\ embd \in Seq(Word) /\ embd \in Seq(TokenType) /\ Len(embd) \in Nat /\ NCtx \in Nat
        /\ n_past \in Nat /\ Len(embd) < NCtx /\ p \in Hash
        /\ IF p = NoPicture THEN Null \notin ToSet(embd) ELSE hash = p
    BY <1>1, <1>3, GeneratingIs, CacheIs DEF CacheInv, LoopInv
  <1>5. n \in Nat /\ n_past < n /\ n <= Len(embd)
    BY <1>1, DecodeToIs
  <1>6. /\ NextBatch \in Seq(Item)
        /\ Items(FirstItems(embd, n_past), p) \o NextBatch = Items(FirstItems(embd, n), p)
    BY <1>1, NextBatchIs
  <1> HIDE DEF n, p
  <1>7. mem' \in Memory /\ mem'.kind = mem.kind
    BY <1>1, <1>6, CacheIs, MemoryTyped
  <1>8. ASSUME ~stale
        PROVE  Sound(mem', Item) /\ Contents(mem') = Items(FirstItems(embd, n), p)
    <2>1. Sound(mem, Item) /\ Contents(mem) = Items(FirstItems(embd, n_past), p)
      BY <1>3, <1>8 DEF CacheInv, SoundInv, OwnInv, Own, p
    <2>2. QED BY <1>1, <1>6, <2>1, ExtendedSound
  <1>9. SoundInv'
    BY <1>1, <1>8 DEF SoundInv
  <1>10. /\ FirstItems(embd, n) \in Seq(Word) /\ Len(FirstItems(embd, n)) = n
         /\ FirstItems(embd, n) \in Seq(TokenType)
         /\ Null \in ToSet(FirstItems(embd, n)) => Null \in ToSet(embd)
         /\ FirstItems(FirstItems(embd, n), n) = FirstItems(embd, n)
    <2>1. n <= n
      BY <1>5
    <2>2. QED BY <1>4, <1>5, <2>1, TrimmedEmbd
  <1>11. CASE /\ embd' = FirstItems(embd, n) /\ pc' = "loop"
              /\ AfterToken(FALSE, incomplete, n_remain) /\ UNCHANGED <<ckpts, ingest>>
    <2>1. UNCHANGED <<boundary_ckpts, checkpoint_pending>>
      BY <1>11 DEF ingest
    <2>2. /\ incomplete' \in BOOLEAN /\ has_next_token' \in BOOLEAN /\ n_remain' \in Nat
          /\ has_next_token' /\ n_predict > 0 => n_remain' > 0
      BY <1>3, <1>11, AfterNoToken
    <2>3. TypeInv'
      BY <1>1, <1>3, <1>5, <1>7, <1>10, <1>11, <2>1, <2>2, GenerationTyped
        DEF TypeInv, CacheTyped, ControlTyped, HistoryTyped
    <2>4. CountInv'
      BY <1>3, <1>11, <2>2 DEF CountInv
    <2>5. LoopInv'
      <3>1. n <= n /\ n < NCtx /\ n <= NCtx
        BY <1>4, <1>5
      <3>2. QED BY <1>1, <1>3, <1>4, <1>10, <1>11, <3>1 DEF LoopInv, p
    <2>6. OwnInv'
      <3>1. Own' = Items(FirstItems(embd, n), p)
        BY <1>1, <1>3, <1>10, <1>11 DEF Own, p
      <3>2. QED BY <1>1, <1>8, <3>1 DEF OwnInv
    <2>7. SnapshotInv'
      BY <1>1, <1>11 DEF CacheInv, SnapshotInv
    <2>8. QED BY <1>1, <1>3, <1>9, <1>11, <2>3, <2>4, <2>5, <2>6, <2>7, GenerationStep
  <1>12. CASE /\ ckpts' = ckpts \/ ckpts' = captureStateCheckpoint(ckpts, embd, n, mem')
              /\ pc' = IF n < Len(embd) THEN "decode" ELSE "sample"
              /\ checkpoint_pending' =
                   (checkpoint_pending /\ ~(n = Len(embd) /\ n >= num_prompt_tokens))
              /\ UNCHANGED <<embd, control, boundary_ckpts>>
    <2>1. UNCHANGED <<n_remain, has_next_token, incomplete, embd, boundary_ckpts>>
      BY <1>12 DEF control
    <2>2. \/ pc' = "decode" /\ n < Len(embd)
          \/ pc' = "sample" /\ n = Len(embd)
      <3>1. n < Len(embd) \/ n = Len(embd)
        BY <1>4, <1>5
      <3>2. ~(n < Len(embd)) \/ pc' = "decode"
        BY <1>12
      <3>3. n < Len(embd) \/ pc' = "sample"
        BY <1>12
      <3>4. QED BY <3>1, <3>2, <3>3
    <2>3. captureStateCheckpoint(ckpts, embd, n, mem') \in Seq(Checkpoint)
      BY <1>4, <1>5, <1>7, CacheIs, CapturedIs
    <2>4. ckpts' \in Seq(Checkpoint)
      BY <1>12, <2>3, CacheIs
    <2>5. TypeInv'
      <3>1. checkpoint_pending' \in BOOLEAN
        <4>1. checkpoint_pending \in BOOLEAN
          BY <1>3 DEF TypeInv, ControlTyped
        <4>2. QED BY <1>12, <4>1
      <3>2. pc' \in {"loop", "decode", "sample"}
        BY <2>2
      <3>3. /\ n_remain' \in Nat /\ has_next_token' \in BOOLEAN /\ incomplete' \in BOOLEAN
            /\ boundary_ckpts' \in SUBSET (1 .. NCtx) /\ stale' \in BOOLEAN
        BY <1>1, <1>3, <2>1 DEF TypeInv, ControlTyped, HistoryTyped
      <3>4. embd' \in Seq(TokenType) /\ n_past' \in Nat
        BY <1>1, <1>4, <1>5, <2>1
      <3>5. QED BY <1>1, <1>3, <1>7, <2>4, <3>1, <3>2, <3>3, <3>4, GenerationTyped
    <2>6. CountInv'
      BY <1>1, <1>3, <2>1 DEF CacheInv, CountInv
    <2>7. LoopInv'
      BY <1>1, <1>3, <1>4, <1>5, <2>1, <2>2 DEF LoopInv, p
    <2>8. OwnInv'
      <3>1. Own' = Items(FirstItems(embd, n), p)
        BY <1>1, <1>3, <2>1 DEF Own, p
      <3>2. QED BY <1>1, <1>8, <3>1 DEF OwnInv
    <2>9. SnapshotInv'
      <3>1. ASSUME ~stale
            PROVE  \A i \in 1 .. Len(ckpts') : Exact(ckpts'[i], hash)
        <4>1. \A i \in 1 .. Len(ckpts) : Exact(ckpts[i], hash)
          BY <1>1, <3>1, CacheIs DEF CacheInv, SnapshotInv
        <4>2. Names(FirstItems(embd, n), Contents(mem'), hash)
          BY <1>4, <1>8, <1>10, <3>1 DEF Names
        <4>3. Captures => HasRecurrent(mem')
          BY <1>7, CapturesIs
        <4>4. \A i \in 1 .. Len(captureStateCheckpoint(ckpts, embd, n, mem')) :
                Exact(captureStateCheckpoint(ckpts, embd, n, mem')[i], hash)
          BY <1>4, <1>5, <1>7, <1>8, <3>1, <4>1, <4>2, <4>3, CacheIs, CapturedExact
        <4>5. QED BY <1>12, <4>1, <4>4
      <3>2. DOMAIN ckpts' = 1 .. Len(ckpts')
        BY <2>4
      <3>3. QED BY <1>1, <2>2, <3>1, <3>2 DEF SnapshotInv
    <2>10. pc' \in {"loop", "decode", "sample"}
      BY <2>2
    <2>11. QED BY <1>1, <1>3, <1>9, <2>5, <2>6, <2>7, <2>8, <2>9, <2>10, GenerationStep
  <1>13. QED BY <1>2, <1>11, <1>12

\* s without the n items after the first a.
Without(s, a, n) == FirstItems(s, a) \o SubSeq(s, a + n + 1, Len(s))

LEMMA WithoutTyped ==
  ASSUME NEW S, NEW s \in Seq(S), NEW a \in Nat, NEW n \in Nat
  PROVE  Without(s, a, n) \in Seq(S)
  <1>1. FirstItems(s, a) \in Seq(S)
    BY FirstItemsAre
  <1>2. SubSeq(s, a + n + 1, Len(s)) \in Seq(S)
    OBVIOUS
  <1>3. QED BY <1>1, <1>2, ConcatIs DEF Without

LEMMA WithoutIs ==
  ASSUME NEW S, NEW s \in Seq(S), NEW a \in Nat, NEW n \in Nat, a + n <= Len(s)
  PROVE  /\ Without(s, a, n) \in Seq(S) /\ Len(Without(s, a, n)) = Len(s) - n
         /\ \A i \in 1 .. Len(s) - n :
              Without(s, a, n)[i] = IF i <= a THEN s[i] ELSE s[i + n]
  <1> DEFINE u == FirstItems(s, a)
             v == SubSeq(s, (a + n) + 1, Len(s))
  <1>1. a <= Len(s) /\ a + n \in Nat /\ Len(s) \in Nat
    OBVIOUS
  <1>2. u \in Seq(S) /\ Len(u) = a /\ \A i \in 1 .. a : u[i] = s[i]
    BY <1>1, FirstItemsAre
  <1>3. /\ v \in Seq(S) /\ Len(v) = Len(s) - (a + n)
        /\ \A i \in 1 .. Len(s) - (a + n) : v[i] = s[(a + n) + i]
    <2>1. Len(s) <= Len(s)
      BY <1>1
    <2>2. QED BY <1>1, <2>1, SubIs
  <1>4. Without(s, a, n) = u \o v
    BY DEF Without
  <1> HIDE DEF u, v
  <1>5. /\ u \o v \in Seq(S) /\ Len(u \o v) = Len(u) + Len(v)
        /\ \A i \in 1 .. Len(u) + Len(v) : (u \o v)[i] = IF i <= Len(u) THEN u[i] ELSE v[i - Len(u)]
    BY <1>2, <1>3, ConcatIs
  <1>6. Len(u) + Len(v) = Len(s) - n
    BY <1>1, <1>2, <1>3
  <1>7. ASSUME NEW i \in 1 .. Len(s) - n
        PROVE  (u \o v)[i] = IF i <= a THEN s[i] ELSE s[i + n]
    <2>1. (u \o v)[i] = IF i <= a THEN u[i] ELSE v[i - a]
      BY <1>2, <1>5, <1>6
    <2>2. CASE i <= a
      <3>1. i \in 1 .. a
        BY <1>1, <2>2
      <3>2. QED BY <1>2, <2>1, <2>2, <3>1
    <2>3. CASE ~(i <= a)
      <3>1. i - a \in 1 .. Len(s) - (a + n) /\ (a + n) + (i - a) = i + n
        BY <1>1, <2>3
      <3>2. v[i - a] = s[i + n]
        BY <1>3, <3>1
      <3>3. QED BY <2>1, <2>3, <3>2
    <2>4. QED BY <2>2, <2>3
  <1>8. QED BY <1>4, <1>5, <1>6, <1>7

\* Dropping items before the k-th and taking what is then before it; dropping tokens and
\* looking at the items.
LEMMA WithoutOf ==
  ASSUME NEW S, NEW s \in Seq(S), NEW a \in Nat, NEW n \in Nat, NEW k \in Nat,
         a + n <= k, k <= Len(s), NEW p \in S
  PROVE  Items(FirstItems(Without(s, a, n), k - n), p) = Without(Items(FirstItems(s, k), p), a, n)
  <1> DEFINE r == k - n
             w == Without(s, a, n)
             f == FirstItems(s, k)
             h == FirstItems(w, r)
             x == Items(h, p)
             g == Items(f, p)
             y == Without(g, a, n)
  <1>1. /\ Len(s) \in Nat /\ a + n <= Len(s) /\ r \in Nat /\ r <= Len(s) - n
        /\ a + n <= k
    OBVIOUS
  <1> HIDE DEF r
  <1>2. /\ w \in Seq(S) /\ Len(w) = Len(s) - n
        /\ \A i \in 1 .. Len(s) - n : w[i] = IF i <= a THEN s[i] ELSE s[i + n]
    BY <1>1, WithoutIs
  <1> HIDE DEF w
  <1>3. /\ h \in Seq(S) /\ Len(h) = r
        /\ \A i \in 1 .. r : h[i] = w[i]
    <2>1. r <= Len(w)
      BY <1>1, <1>2
    <2>2. QED BY <1>1, <1>2, <2>1, FirstItemsAre
  <1> HIDE DEF h
  <1>4. /\ x \in Seq(S) /\ Len(x) = r
        /\ \A i \in 1 .. r : x[i] = IF w[i] = Null THEN p ELSE w[i]
    <2>1. h \in Seq(S)
      BY <1>3
    <2>2. /\ Items(h, p) \in Seq(S) /\ Len(Items(h, p)) = Len(h)
          /\ \A i \in 1 .. Len(h) : Items(h, p)[i] = IF h[i] = Null THEN p ELSE h[i]
      BY <2>1, ItemsAre
    <2>3. QED BY <1>3, <2>2
  <1>5. f \in Seq(S) /\ Len(f) = k /\ \A i \in 1 .. k : f[i] = s[i]
    BY FirstItemsAre
  <1> HIDE DEF f
  <1>6. g \in Seq(S) /\ Len(g) = k /\ \A i \in 1 .. k : g[i] = IF f[i] = Null THEN p ELSE f[i]
    BY <1>5, ItemsAre
  <1> HIDE DEF g, x
  <1>7. /\ y \in Seq(S) /\ Len(y) = r
        /\ \A i \in 1 .. r : y[i] = IF i <= a THEN g[i] ELSE g[i + n]
    <2>1. a + n <= Len(g) /\ g \in Seq(S) /\ Len(g) - n = r
      BY <1>1, <1>6 DEF r
    <2>2. /\ Without(g, a, n) \in Seq(S) /\ Len(Without(g, a, n)) = Len(g) - n
          /\ \A i \in 1 .. Len(g) - n :
               Without(g, a, n)[i] = IF i <= a THEN g[i] ELSE g[i + n]
      BY <2>1, WithoutIs
    <2>3. QED BY <2>1, <2>2
  <1> HIDE DEF y
  <1>8. ASSUME NEW i \in 1 .. r
        PROVE  x[i] = y[i]
    <2>1. i \in 1 .. k /\ i + n \in 1 .. k /\ i \in 1 .. Len(s) - n
      BY <1>1 DEF r
    <2>2. w[i] = IF i <= a THEN s[i] ELSE s[i + n]
      BY <1>2, <2>1
    <2>3. y[i] = IF i <= a THEN g[i] ELSE g[i + n]
      BY <1>7
    <2>4. /\ g[i] = IF s[i] = Null THEN p ELSE s[i]
          /\ g[i + n] = IF s[i + n] = Null THEN p ELSE s[i + n]
      BY <1>5, <1>6, <2>1
    <2>5. x[i] = IF w[i] = Null THEN p ELSE w[i]
      BY <1>4
    <2>6. QED BY <2>2, <2>3, <2>4, <2>5
  <1>9. x = y
    BY <1>4, <1>7, <1>8, SeqEqual
  <1>10. QED BY <1>9 DEF x, y, w, g, f, h, r

LEMMA ShiftedIs ==
  ASSUME NEW m \in Memory, NEW a \in Nat, NEW n \in Nat
  PROVE  /\ ShiftedAt(m, a, n) \in Memory
         /\ Sound(m, Item) /\ ~HasRecurrent(m) =>
              /\ Sound(ShiftedAt(m, a, n), Item)
              /\ Contents(ShiftedAt(m, a, n)) = Without(Contents(m), a, n)
  <1>1. /\ m.kind \in Kinds /\ m.attn \in Seq(Item) /\ m.rec \in Seq(Read) /\ m.pos \in Nat
    BY DEF Memory
  <1> DEFINE attn == Without(m.attn, a, n)
             rec == IF HasRecurrent(m) THEN <<Unaccounted>> ELSE m.rec
             pos == IF HasRecurrent(m) /\ m.pos > a + n THEN m.pos - n ELSE m.pos
             shifted == [kind |-> m.kind, attn |-> attn, rec |-> rec, pos |-> pos]
  <1>2. ShiftedAt(m, a, n) = shifted
    <2>1. ShiftedAt(m, a, n) = [m EXCEPT !.attn = attn, !.rec = rec, !.pos = pos]
      BY DEF ShiftedAt, Without
    <2> HIDE DEF attn, rec, pos
    <2>2. QED BY <2>1 DEF Memory
  <1>3. attn \in Seq(Item)
    BY <1>1, WithoutTyped
  <1>4. rec \in Seq(Read)
    <2>1. <<Unaccounted>> \in Seq(Read)
      BY DEF Read
    <2>2. QED BY <1>1, <2>1
  <1>5. pos \in Nat
    BY <1>1
  <1> HIDE DEF attn, rec, pos
  <1>6. shifted \in Memory
    BY <1>1, <1>3, <1>4, <1>5 DEF Memory
  <1>7. ASSUME Sound(m, Item), ~HasRecurrent(m)
        PROVE  Sound(shifted, Item) /\ Contents(shifted) = Without(Contents(m), a, n)
    <2>1. m.kind = "attention"
      BY <1>7 DEF HasRecurrent
    <2>2. rec = <<>> /\ pos = 0
      BY <1>7, <2>1 DEF rec, pos, Sound
    <2>3. /\ shifted.kind = "attention" /\ shifted.attn = attn /\ shifted.rec = <<>>
          /\ shifted.pos = 0 /\ shifted \in [kind : Kinds, attn : Seq(Item), rec : Seq(Item), pos : Nat]
      BY <1>3, <2>1, <2>2 DEF Kinds
    <2>4. Sound(shifted, Item)
      BY <2>3 DEF Sound
    <2>5. Contents(shifted) = attn /\ Contents(m) = m.attn
      BY <2>1, <2>3 DEF Contents, HasAttention, HasRecurrent
    <2>6. QED BY <2>4, <2>5 DEF attn
  <1>8. QED BY <1>2, <1>6, <1>7

LEMMA ShiftContextStep ==
  ASSUME CacheInv, ShiftContext
  PROVE  CacheInv'
  <1> DEFINE d == (n_past - NKeep - 1) \div 2
             kept == NKeep + 1
             p == Picture(prompt)
  <1>1. /\ pc = "loop" /\ has_next_token /\ Len(embd) >= NCtx
        /\ mem' = ShiftedAt(mem, kept, d)
        /\ embd' = Without(embd, kept, d) /\ logits' = Without(logits, kept, d)
        /\ n_past' = n_past - d
        /\ ckpts' = <<>> /\ boundary_ckpts' = {} /\ checkpoint_pending' = FALSE
        /\ stale' = (stale \/ HasRecurrent(mem))
        /\ pc' = IF n_past' < Len(embd') THEN "decode" ELSE "sample"
        /\ UNCHANGED <<ctx_shift, hash, op, request, control, is_interrupted, file, saving, ops>>
    BY DEF ShiftContext, Continues, ContextIsFull, Without
  <1>2. UNCHANGED <<n_remain, has_next_token, incomplete, prompt, n_predict>>
    BY <1>1 DEF control, request
  <1>3. Generating /\ TypeInv
    BY <1>1 DEF Generating, CacheInv
  <1>4. /\ embd \in Seq(Word) /\ embd \in Seq(Anything) /\ Len(embd) \in Nat /\ NCtx \in Nat
        /\ n_past \in Nat /\ n_past <= Len(embd) /\ Len(embd) = NCtx /\ NCtx <= n_past + 1
        /\ NKeep \in Nat /\ NKeep + 4 <= NCtx /\ p \in Anything
        /\ IF p = NoPicture THEN Null \notin ToSet(embd) ELSE hash = p
    <2>1. Len(embd) < NCtx \/ Len(embd) <= n_past + 1
      BY <1>1, <1>3 DEF CacheInv, LoopInv
    <2>2. QED BY <1>1, <1>3, <2>1, GeneratingIs, CacheIs, PromptCacheAssumption
  <1>5. /\ kept \in Nat /\ d \in Nat /\ d > 0 /\ kept + d <= n_past /\ kept + d <= Len(embd)
    <2>1. n_past - NKeep - 1 \in Nat /\ n_past - NKeep - 1 >= 2
      BY <1>4
    <2>2. /\ d \in Nat /\ 2 * d <= n_past - NKeep - 1 /\ n_past - NKeep - 1 <= 2 * d + 1
      BY <2>1, HalfIs
    <2> HIDE DEF d
    <2>3. QED BY <1>4, <2>1, <2>2
  <1> HIDE DEF d, kept, p
  <1>6. /\ embd' \in Seq(Word) /\ Len(embd') = NCtx - d /\ embd' \in Seq(TokenType)
        /\ \A i \in 1 .. NCtx - d : embd'[i] = IF i <= kept THEN embd[i] ELSE embd[i + d]
    <2>1. /\ Without(embd, kept, d) \in Seq(Word) /\ Len(Without(embd, kept, d)) = Len(embd) - d
          /\ \A i \in 1 .. Len(embd) - d :
               Without(embd, kept, d)[i] = IF i <= kept THEN embd[i] ELSE embd[i + d]
      <3>1. embd \in Seq(Word) /\ kept \in Nat /\ d \in Nat /\ kept + d <= Len(embd)
        BY <1>4, <1>5
      <3>2. QED BY <3>1, WithoutIs
    <2>2. Without(embd, kept, d) \in Seq(TokenType)
      BY <2>1, ValueIs, SeqWider
    <2>3. QED BY <1>1, <1>4, <2>1, <2>2
  <1>7. Null \in ToSet(embd') => Null \in ToSet(embd)
    <2>1. ASSUME NEW i \in 1 .. NCtx - d, embd'[i] = Null
          PROVE  \E j \in 1 .. Len(embd) : embd[j] = Null
      <3>1. i \in 1 .. Len(embd) /\ i + d \in 1 .. Len(embd)
        BY <1>4, <1>5
      <3>2. QED BY <1>6, <2>1, <3>1
    <2>2. Null \in ToSet(embd') => \E i \in 1 .. NCtx - d : embd'[i] = Null
      BY <1>6, ToSetIs
    <2>3. Null \in ToSet(embd) <=> \E j \in 1 .. Len(embd) : embd[j] = Null
      BY <1>4, ToSetIs
    <2>4. QED BY <2>1, <2>2, <2>3
  <1>8. /\ n_past' \in Nat /\ n_past' <= Len(embd') /\ Len(embd') < NCtx /\ Len(embd') <= NCtx
        /\ n_past' = Len(embd') => n_past = Len(embd)
    BY <1>1, <1>4, <1>5, <1>6
  <1>9. \/ pc' = "decode" /\ n_past' < Len(embd')
        \/ pc' = "sample" /\ n_past' = Len(embd')
    <2>1. Len(embd') \in Nat
      BY <1>6
    <2>2. n_past' < Len(embd') \/ n_past' = Len(embd')
      BY <1>8, <2>1
    <2>3. ~(n_past' < Len(embd')) \/ pc' = "decode"
      BY <1>1
    <2>4. n_past' < Len(embd') \/ pc' = "sample"
      BY <1>1
    <2>5. QED BY <2>2, <2>3, <2>4
  <1>10. /\ mem' \in Memory
         /\ ~stale' => Sound(mem', Item) /\ Contents(mem') = Without(Contents(mem), kept, d)
    <2>1. mem \in Memory
      BY CacheIs
    <2>2. ~stale' => Sound(mem, Item) /\ ~HasRecurrent(mem)
      BY <1>1 DEF CacheInv, SoundInv
    <2>3. QED BY <1>1, <1>5, <2>1, <2>2, ShiftedIs
  <1>11. Own' = Without(Own, kept, d)
    <2>1. Items(FirstItems(Without(embd, kept, d), n_past - d), p)
            = Without(Items(FirstItems(embd, n_past), p), kept, d)
      BY <1>4, <1>5, WithoutOf
    <2>2. QED BY <1>1, <1>2, <2>1 DEF Own, p
  <1>12. TypeInv'
    <2>1. <<>> \in Seq(Checkpoint) /\ {} \in SUBSET (1 .. NCtx)
      OBVIOUS
    <2>2. pc' \in {"loop", "decode", "sample"}
      BY <1>9
    <2>3. /\ n_remain' \in Nat /\ has_next_token' \in BOOLEAN /\ incomplete' \in BOOLEAN
          /\ stale' \in BOOLEAN
      BY <1>1, <1>2, <1>3 DEF TypeInv, ControlTyped, HistoryTyped, HasRecurrent
    <2>4. /\ ckpts' \in Seq(Checkpoint) /\ boundary_ckpts' \in SUBSET (1 .. NCtx)
          /\ checkpoint_pending' \in BOOLEAN
      BY <1>1, <2>1
    <2>5. QED BY <1>1, <1>3, <1>6, <1>8, <1>10, <2>2, <2>3, <2>4, GenerationTyped
  <1>13. CountInv' /\ SoundInv'
    <2>1. CountInv'
      BY <1>1, <1>2 DEF CacheInv, CountInv
    <2>2. SoundInv'
      BY <1>10 DEF SoundInv
    <2>3. QED BY <2>1, <2>2
  <1>14. LoopInv'
    BY <1>1, <1>2, <1>4, <1>6, <1>7, <1>8, <1>9 DEF LoopInv, p
  <1>15. OwnInv'
    <2>1. ASSUME ~stale'
          PROVE  /\ Contents(mem') = Own'
                 /\ pc' = "sample" \/ incomplete' => logits' = Own'
      <3>1. ~stale /\ Contents(mem) = Own
        BY <1>1, <1>3, <2>1 DEF CacheInv, OwnInv
      <3>2. pc' = "sample" => n_past = Len(embd)
        BY <1>8, <1>9
      <3>3. pc' = "sample" \/ incomplete' => logits = Own
        BY <1>1, <1>2, <1>3, <3>1, <3>2 DEF CacheInv, OwnInv
      <3>4. QED BY <1>1, <1>10, <1>11, <2>1, <3>1, <3>3
    <2>2. QED BY <1>9, <2>1 DEF OwnInv
  <1>16. SnapshotInv'
    <2>1. DOMAIN ckpts' = {}
      BY <1>1
    <2>2. QED BY <2>1 DEF SnapshotInv
  <1>17. pc' \in {"loop", "decode", "sample"}
    BY <1>9
  <1>18. QED BY <1>1, <1>3, <1>12, <1>13, <1>14, <1>15, <1>16, <1>17, GenerationStep

-----------------------------------------------------------------------------
(* All steps                                                               *)

LEMMA FileOfIs ==
  ASSUME NEW x \in Prompts, NEW kind \in Kinds
  PROVE  /\ FileOf(x, kind) \in File /\ FileOf(x, kind).state = "whole"
         /\ FileOf(x, kind).sidecar = Picture(x) /\ FileOf(x, kind).tokens = Tokens(x)
         /\ Sound(FileOf(x, kind).mem, Item) /\ Contents(FileOf(x, kind).mem) = x
  <1> DEFINE m == Extended(Cleared(kind), x)
  <1>1. x \in Seq(Item) /\ Tokens(x) \in Seq(TokenType) /\ Picture(x) \in Hash
    BY PromptTyped, ValueIs, SeqWider
  <1>2. Sound(Cleared(kind), Item) /\ Contents(Cleared(kind)) = <<>>
    BY ClearedSound
  <1>3. Sound(m, Item) /\ Contents(m) = <<>> \o x
    BY <1>1, <1>2, ExtendedSound
  <1>4. Contents(m) = x
    BY <1>1, <1>3
  <1>5. m \in Memory
    BY <1>3, SoundTyped
  <1> HIDE DEF m
  <1>6. FileOf(x, kind) = [state |-> "whole", tokens |-> Tokens(x), mem |-> m,
                           sidecar |-> Picture(x), stale |-> FALSE]
    <2> DEFINE f == NoFile(kind)
    <2>1. f \in File /\ f.stale = FALSE
      <3>1. Cleared(kind) \in Memory /\ NoPicture \in Hash
        BY <1>2, SoundTyped, ValueIs
      <3>2. QED BY <3>1 DEF NoFile, File
    <2>2. FileOf(x, kind) = [f EXCEPT !.state = "whole", !.tokens = Tokens(x), !.mem = m,
                                      !.sidecar = Picture(x)]
      BY DEF FileOf, m
    <2> HIDE DEF f
    <2>3. QED BY <2>1, <2>2 DEF File
  <1>7. QED BY <1>1, <1>3, <1>4, <1>5, <1>6 DEF File

\* A prompt with a picture has a placeholder among its tokens.
LEMMA MediaPromptHasNull ==
  ASSUME NEW x \in Prompts, Picture(x) # NoPicture
  PROVE  Null \in ToSet(Tokens(x))
  <1>1. /\ x \in Seq(Anything) /\ Tokens(x) \in Seq(Anything) /\ Len(Tokens(x)) = Len(x)
    BY PromptTyped
  <1>2. PICK i \in 1 .. Len(x) : x[i] \in Pictures
    <2>1. ToSet(x) \cap Pictures # {}
      BY DEF Picture
    <2>2. QED BY <1>1, <2>1, ToSetIs
  <1>3. Tokens(x)[i] = Null
    BY <1>1, <1>2, ValueIs, TokensAre
  <1>4. QED BY <1>1, <1>2, <1>3, ToSetIs

LEMMA InitStep ==
  ASSUME Init
  PROVE  CacheInv
  <1>1. PICK k \in Models : mem = Cleared(k)
    BY DEF Init
  <1>2. k \in Kinds /\ NCtx \in Nat /\ ctx_shift \in BOOLEAN /\ MaxOps[ctx_shift] \in Nat
    <2>1. Models \subseteq Kinds /\ MayShift \subseteq BOOLEAN /\ MaxOps \in [BOOLEAN -> Nat]
      BY PromptCacheAssumption
    <2>2. QED BY <2>1, PromptCacheAssumption DEF Init
  <1>3. /\ mem \in Memory /\ Sound(mem, Item) /\ Contents(mem) = <<>> /\ mem.kind = k
    BY <1>1, <1>2, ClearedSound, SoundTyped
  <1>4. /\ embd = <<>> /\ n_past = 0 /\ ckpts = <<>> /\ hash = NoPicture
        /\ boundary_ckpts = {} /\ checkpoint_pending = FALSE /\ op = "none" /\ pc = "idle"
        /\ prompt = <<>> /\ n_predict = 0 /\ num_prompt_tokens = 0 /\ n_remain = 0
        /\ has_next_token = FALSE /\ is_interrupted = FALSE /\ incomplete = FALSE
        /\ saving = NotSaving /\ ops = 0 /\ stale = FALSE
    BY DEF Init
  <1>5. NoPicture \in Hash
    BY ValueIs
  <1>6. /\ file \in File
        /\ file = NoFile(k) \/ \E x \in Prompts : file = FileOf(x, k)
    <2>1. file = NoFile(k) \/ \E x \in Saved : file = FileOf(x, k)
      BY <1>3 DEF Init
    <2>2. Saved \subseteq Prompts
      BY PromptCacheAssumption
    <2>3. NoFile(k) \in File
      BY <1>1, <1>3, <1>5 DEF NoFile, File
    <2>4. QED BY <1>2, <2>1, <2>2, <2>3, FileOfIs
  <1>7. TypeInv
    <2>1. CacheTyped
      BY <1>3, <1>4, <1>5 DEF CacheTyped
    <2>2. RequestTyped
      BY <1>2, <1>4 DEF RequestTyped
    <2>3. ControlTyped
      BY <1>4 DEF ControlTyped
    <2>4. FileTyped
      BY <1>4, <1>5, <1>6 DEF FileTyped, NotSaving
    <2>5. HistoryTyped
      <3>1. 0 \in 0 .. MaxOps[ctx_shift]
        BY <1>2
      <3>2. QED BY <1>2, <1>4, <3>1 DEF HistoryTyped
    <2>6. QED BY <2>1, <2>2, <2>3, <2>4, <2>5 DEF TypeInv
  <1>8. StageInv /\ CountInv /\ SoundInv
    BY <1>3, <1>4 DEF StageInv, CountInv, SoundInv, Running
  <1>9. IdleInv
    BY <1>3, <1>4, <1>5, NothingNamed DEF IdleInv
  <1>10. ChunksInv /\ LoopInv /\ OwnInv
    BY <1>4 DEF ChunksInv, LoopInv, OwnInv, Generating
  <1>11. SnapshotInv
    <2>1. DOMAIN ckpts = {}
      BY <1>4
    <2>2. QED BY <2>1 DEF SnapshotInv
  <1>12. FileInv
    <2>1. CASE file = NoFile(k)
      <3>1. file.state = "none" /\ file.sidecar = NoPicture
        BY <2>1 DEF NoFile
      <3>2. QED BY <1>4, <3>1 DEF FileInv, FileTrue, FileOfPicture, SidecarDescribesFile
    <2>2. CASE \E x \in Prompts : file = FileOf(x, k)
      <3>1. PICK x \in Prompts : file = FileOf(x, k)
        BY <2>2
      <3>2. /\ file.state = "whole"
            /\ file.sidecar = Picture(x) /\ file.tokens = Tokens(x)
            /\ Sound(file.mem, Item) /\ Contents(file.mem) = x
        BY <1>2, <3>1, FileOfIs
      <3>3. /\ x \in Seq(Anything) /\ Picture(x) \in Hash /\ Len(x) \in Nat
            /\ Items(Tokens(x), Picture(x)) = x
        BY PromptTyped
      <3>4. IsPrefix(x, x)
        <4>1. FirstItems(x, Len(x)) = x /\ Len(x) <= Len(x)
          BY <3>3, FirstItemsAll
        <4>2. QED BY <3>3, <4>1, PrefixIs
      <3>5. Picture(x) # NoPicture => Null \in ToSet(Tokens(x))
        BY MediaPromptHasNull
      <3>6. FileTrue
        BY <3>2, <3>3, <3>4 DEF FileTrue, FileOfPicture
      <3>7. SidecarDescribesFile
        BY <3>2, <3>3, <3>4, <3>5 DEF SidecarDescribesFile
      <3>8. QED BY <1>4, <3>6, <3>7 DEF FileInv
    <2>3. QED BY <1>6, <2>1, <2>2
  <1>13. QED BY <1>7, <1>8, <1>9, <1>10, <1>11, <1>12 DEF CacheInv

\* The inductive invariant: which picture and which text the tokens in embd, those of the
\* snapshots and those of the session file stand for, at every step of every operation.
THEOREM CacheInvariant == Spec => []CacheInv
  <1>1. Init => CacheInv
    BY InitStep
  <1>2. ASSUME CacheInv, [Next]_vars
        PROVE  CacheInv'
    <2>1. ASSUME LoadPrompt
          PROVE  CacheInv'
      BY <1>2, <2>1, RejectPromptStep, LoadTextStep, LoadMediaStep, EvaluateChunkStep,
         ChunkFailsStep, FinishMediaStep DEF LoadPrompt
    <2>2. ASSUME Generation
          PROVE  CacheInv'
      BY <1>2, <2>2, EnterNextTokenStep, ContextFullStep, ShiftContextStep, DecodeStep,
         DecodeFailsStep, SampleTokenStep, SampleEndStep, FinishStep DEF Generation
    <2>3. ASSUME Application
          PROVE  CacheInv'
      BY <1>2, <2>3, StartCompletionStep, StartEmbeddingStep, StopStep, RerankStep, BenchStep,
         ClearCacheStep, StartSaveStep, WriteStateStep, WriteSidecarStep, LoadSessionStep,
         LoadSessionFailsStep DEF Application, SaveSession
    <2>4. QED
      BY <1>2, <2>1, <2>2, <2>3, CrashStep, UnchangedStep DEF Next, Worker
  <1>3. QED BY <1>1, <1>2, PTL DEF Spec

\* Every variable keeps its range; positions of captures stay within the context, and
\* n_remain does not fall below zero.
THEOREM TypeCorrect == Spec => []TypeOK
  <1>1. ASSUME CacheInv
        PROVE  TypeOK
    <2>1. /\ CacheTyped /\ RequestTyped /\ ControlTyped /\ FileTyped /\ HistoryTyped
      BY <1>1 DEF CacheInv, TypeInv
    <2>2. /\ mem.kind \in Kinds /\ mem.pos \in Nat
          /\ mem.attn \in Seq(Item) /\ mem.rec \in Seq(Item \cup {Unaccounted})
      BY <2>1 DEF CacheTyped, Memory, Read
    <2>3. \A i \in DOMAIN ckpts : ckpts[i].tokens \in Seq(TokenType)
      <3>1. ckpts \in Seq(Checkpoint) /\ DOMAIN ckpts = 1 .. Len(ckpts)
        BY <1>1, CacheIs
      <3>2. \A i \in 1 .. Len(ckpts) : ckpts[i] \in Checkpoint
        BY <3>1
      <3>3. QED BY <3>1, <3>2 DEF Checkpoint
    <2>4. file.state \in {"none", "cut", "whole"} /\ file.sidecar \in Hash
      BY <2>1 DEF FileTyped, File
    <2>5. {has_next_token, is_interrupted, incomplete, stale} \subseteq BOOLEAN
      BY <2>1 DEF ControlTyped, HistoryTyped
    <2>6. QED BY <2>1, <2>2, <2>3, <2>4, <2>5
              DEF TypeOK, CacheTyped, RequestTyped, ControlTyped, HistoryTyped
  <1>2. QED BY <1>1, CacheInvariant, PTL

\* "The memory holds exactly embd[0, n_past)" with the picture of this prompt, from the
\* moment the prompt is loaded; between operations it holds all of embd: through reuse,
\* recovery from snapshots, context shifts, failed batches, interrupts, rejected prompts
\* and loaded sessions.
THEOREM EmbdIsInMemory == Spec => []EmbdDescribesMemory
  <1>1. ASSUME CacheInv, ~stale
        PROVE  /\ pc \in {"loop", "decode", "sample"} =>
                    Holds(mem, Items(FirstItems(embd, n_past), Picture(prompt)))
               /\ pc = "idle" => \E p \in Hash :
                    /\ Holds(mem, Items(embd, p))
                    /\ Null \in ToSet(embd) /\ hash # NoPicture => p = hash
    <2>1. Sound(mem, Item)
      BY <1>1 DEF CacheInv, SoundInv
    <2>2. Contents(mem) \in Seq(Item) /\ \A x \in Seq(Item) : Holds(mem, x) <=> Contents(mem) = x
      BY <2>1, ContentsAre
    <2>3. CASE pc \in {"loop", "decode", "sample"}
      <3>1. Contents(mem) = Items(FirstItems(embd, n_past), Picture(prompt))
        BY <1>1, <2>3 DEF CacheInv, OwnInv, Own, Generating
      <3>2. QED BY <2>2, <2>3, <3>1
    <2>4. CASE pc = "idle"
      <3>1. PICK p \in Hash : /\ Contents(mem) = Items(embd, p)
                              /\ Null \in ToSet(embd) /\ hash # NoPicture => p = hash
        BY <1>1, <2>4 DEF CacheInv, IdleInv, Names
      <3>2. QED BY <2>2, <2>4, <3>1
    <2>5. QED BY <2>3, <2>4
  <1>2. CacheInv => EmbdDescribesMemory
    BY <1>1 DEF EmbdDescribesMemory
  <1>3. QED BY <1>2, CacheInvariant, PTL

\* A token is sampled from logits of all that this prompt and its generation consist of,
\* also if every token of the prompt was still in the memory.
THEOREM SampledIsOwn == Spec => []SampledFromOwnPrompt
  <1>1. ASSUME CacheInv, pc = "sample", ~stale
        PROVE  logits = Items(embd, Picture(prompt))
    <2>1. Generating
      BY <1>1 DEF Generating
    <2>2. logits = Items(FirstItems(embd, n_past), Picture(prompt))
      BY <1>1, <2>1 DEF CacheInv, OwnInv, Own
    <2>3. n_past = Len(embd) /\ embd \in Seq(Word) /\ n_past \in Nat
      BY <1>1, <2>1, CacheIs DEF CacheInv, LoopInv
    <2>4. n_past >= Len(embd)
      BY <2>3
    <2>5. FirstItems(embd, n_past) = embd
      BY <2>3, <2>4, FirstItemsAll
    <2>6. QED BY <2>2, <2>5
  <1>2. CacheInv => SampledFromOwnPrompt
    BY <1>1 DEF SampledFromOwnPrompt
  <1>3. QED BY <1>2, CacheInvariant, PTL

\* Every snapshot brings back what its tokens say, with the picture that is in the cache.
THEOREM SnapshotsExact == Spec => []SnapshotsAreExact
  <1>1. ASSUME CacheInv
        PROVE  SnapshotsAreExact
    <2>1. \A t, read : Describes(t, read) <=> Names(t, read, hash)
      BY DEF Describes, Names
    <2>2. ASSUME ~stale, pc # "chunks"
          PROVE  \A i \in DOMAIN ckpts : Exact(ckpts[i], hash)
      BY <1>1, <2>2 DEF CacheInv, SnapshotInv
    <2>3. QED BY <2>1, <2>2 DEF SnapshotsAreExact, Exact
  <1>2. QED BY <1>1, CacheInvariant, PTL

\* Whenever the process dies, a sidecar lies beside a whole session file only, and the
\* memory in that file holds the picture it names where the tokens have their placeholders:
\* unless embd did not describe the memory any more when it was saved (stale).
THEOREM SidecarIsTrue == Spec => []SidecarDescribesFile
  <1>1. CacheInv => SidecarDescribesFile
    BY DEF CacheInv, FileInv
  <1>2. QED BY <1>1, CacheInvariant, PTL

\* No capture during the ingestion of a prompt costs the snapshot with the smallest
\* position, or it is replaced by one that is as small.
THEOREM SmallestSnapshotStays == Spec => StablePrefixKept
  <1>1. ASSUME CacheInv, pc = "decode", [Next]_vars
        PROVE  \A i \in DOMAIN ckpts : \E j \in DOMAIN ckpts' : Size(ckpts'[j]) <= Size(ckpts[i])
    <2>1. op \in {"completion", "embedding"}
      BY <1>1 DEF CacheInv, StageInv, Running
    <2>2. ckpts \in Seq(Checkpoint) /\ DOMAIN ckpts = 1 .. Len(ckpts)
      BY <1>1, CacheIs
    <2>3. \A i \in 1 .. Len(ckpts) : Size(ckpts[i]) \in Nat
      BY <2>2, TypedSizes
    <2>4. ckpts' = ckpts \/ \E n : Decode /\ n = DecodeTo
                               /\ ckpts' = captureStateCheckpoint(ckpts, embd, n, mem')
      <3>1. CASE Decode
        BY <3>1 DEF Decode
      <3>2. CASE DecodeFails
        BY <3>2 DEF DecodeFails
      <3>3. CASE StopCompletion
        BY <3>3 DEF StopCompletion, cache
      <3>4. CASE UNCHANGED vars
        BY <3>4 DEF vars, cache
      <3>5. ~LoadPrompt
        BY <1>1 DEF LoadPrompt, RejectPrompt, LoadText, LoadMedia, EvaluateChunk, ChunkFails,
          FinishMedia
      <3>6. Generation => Decode \/ DecodeFails
        BY <1>1 DEF Generation, EnterNextToken, ContextFull, ShiftContext, SampleToken, SampleEnd,
          Finish, Continues
      <3>7. Application => StopCompletion
        BY <1>1 DEF Application, StartCompletion, StartEmbedding, Rerank, Bench, ClearCache,
          SaveSession, StartSave, WriteState, WriteSidecar, LoadSession, LoadSessionFails, Begin
      <3>8. ~Crash
        BY <2>1 DEF Crash
      <3>9. QED BY <1>1, <3>1, <3>2, <3>3, <3>4, <3>5, <3>6, <3>7, <3>8 DEF Next, Worker
    <2>5. CASE ckpts' = ckpts
      <3>1. \A i \in DOMAIN ckpts : Size(ckpts[i]) <= Size(ckpts[i])
        BY <2>2, <2>3
      <3>2. QED BY <2>5, <3>1
    <2>6. CASE \E n : Decode /\ n = DecodeTo
                 /\ ckpts' = captureStateCheckpoint(ckpts, embd, n, mem')
      <3>1. /\ Decodable /\ mem' = Extended(mem, NextBatch)
            /\ ckpts' = captureStateCheckpoint(ckpts, embd, DecodeTo, mem')
        BY <2>6 DEF Decode
      <3>2. NextBatch \in Seq(Item)
        BY <1>1, <3>1, NextBatchIs
      <3>3. mem' \in Memory
        BY <1>1, <3>1, <3>2, CacheIs, MemoryTyped
      <3>4. embd \in Seq(TokenType) /\ DecodeTo \in Nat /\ DecodeTo <= Len(embd)
        BY <1>1, CacheIs, DecodeToIs
      <3>5. /\ ckpts' \in Seq(Checkpoint)
            /\ \A i \in 1 .. Len(ckpts) : \E k \in 1 .. Len(ckpts') : Size(ckpts'[k]) <= Size(ckpts[i])
        BY <2>2, <3>1, <3>3, <3>4, CapturedIs
      <3>6. DOMAIN ckpts' = 1 .. Len(ckpts')
        BY <3>5
      <3>7. QED BY <2>2, <3>5, <3>6
    <2>7. QED BY <2>4, <2>5, <2>6
  <1>2. QED BY <1>1, CacheInvariant, PTL DEF StablePrefixKept, Spec
=============================================================================
