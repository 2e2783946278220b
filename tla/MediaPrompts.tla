---------------------------- MODULE MediaPrompts ----------------------------
(***************************************************************************)
(* Prompts, and what processMedia() makes of one with a picture.           *)
(*                                                                         *)
(* A prompt is a sequence of items: text tokens and the positions of at    *)
(* most one picture.  A token list names every picture position Null, as   *)
(* the code does.  Evaluation goes chunk by chunk: a run of text, or a     *)
(* picture, is taken as a whole.  Positions count from 0, as in the code.  *)
(***************************************************************************)
EXTENDS SequenceMemory

CONSTANT Pictures           \* items that are positions of a picture

Null == "null"              \* LLAMA_TOKEN_NULL
NoPicture == "no picture"   \* no media hashes

ASSUME PicturesAssumption == Pictures \cap {Null, NoPicture} = {}

\* A prompt of at least one item, with at most one picture; only media are named Null.
IsPrompt(items) ==
  /\ items # <<>> /\ items \in Seq(ToSet(items)) /\ Null \notin ToSet(items)
  /\ \A i, j \in DOMAIN items : {items[i], items[j]} \subseteq Pictures => items[i] = items[j]

Token(item) == IF item \in Pictures THEN Null ELSE item
Tokens(items) == [i \in DOMAIN items |-> Token(items[i])]
Picture(items) ==
  IF ToSet(items) \cap Pictures = {} THEN NoPicture
  ELSE CHOOSE p \in Pictures : p \in ToSet(items)

\* The items a token list stands for when its media are picture p.
Items(tokens, p) == [i \in DOMAIN tokens |-> IF tokens[i] = Null THEN p ELSE tokens[i]]

CommonPrefix(s, t) == Len(LongestCommonPrefix({s, t}))

\* Where a chunk begins: a run of text, or a picture.
ChunkStarts(items) ==
  {i \in 0 .. Len(items) - 1 :
     i = 0 \/ (items[i] # items[i + 1] /\ {items[i], items[i + 1]} \cap Pictures # {})}
ChunkOf(items, n) == Max({c \in ChunkStarts(items) : c <= n})
ChunkEnd(items, c) == Min({e \in ChunkStarts(items) : e > c} \cup {Len(items)})

FirstPicture(items) == Min({i \in DOMAIN items : items[i] \in Pictures}) - 1
MediaBoundary(items) == ChunkEnd(items, ChunkOf(items, FirstPicture(items)))

\* Within a chunk that is not the last, back to its start.
AlignedDown(items, n) ==
  IF n < Max(ChunkStarts(items)) THEN ChunkOf(items, n) ELSE n

\* Faulty variant: the logits of the generation before are good enough.
LeavingNothing(items, n) == n

\* Everything reused: the last token, or the last chunk if it is a picture, once more.
LeavingSomething(items, n) ==
  IF n = 0 \/ n < Len(items) THEN n
  ELSE IF items[n] \in Pictures THEN Max(ChunkStarts(items)) ELSE n - 1

\* Evaluation may resume here: at a chunk, or in the text that ends the prompt.
ResumesAt(items, n) ==
  \/ n \in ChunkStarts(items)
  \/ n > Max(ChunkStarts(items)) /\ Last(items) \notin Pictures

\* The prefix that is kept of what embd holds; less if the picture is another one.
KeptPrefix(embd, items, stable) ==
  LET n == AlignedDown(items, CommonPrefix(embd, Tokens(items)))
  IN LeavingSomething(items, IF stable THEN n ELSE Min({n, FirstPicture(items)}))
=============================================================================
