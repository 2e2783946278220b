--------------------------- MODULE SequenceMemory ---------------------------
(***************************************************************************)
(* What llama.cpp's memory of one sequence does with the calls this code   *)
(* makes on it.  A memory is described by what it has read: `attn' holds,  *)
(* position by position, the items an attention cache has cells for, and   *)
(* `rec' the items that went, in this order, into a recurrent state, which *)
(* stands at position `pos'.  An attention memory can give back its end, a *)
(* recurrent one only everything; a hybrid has both parts.                 *)
(* The context is not set up for speculative decoding, so that a recurrent *)
(* memory keeps no snapshots to roll back to (n_rs_seq = 0), and the model *)
(* has no sliding window.                                                  *)
(***************************************************************************)
EXTENDS Naturals, Sequences, FiniteSetsExt, SequencesExt

Kinds == {"attention", "recurrent", "hybrid"}

HasAttention(m) == m.kind # "recurrent"
HasRecurrent(m) == m.kind # "attention"

\* llama_memory_clear
Cleared(kind) == [kind |-> kind, attn |-> <<>>, rec |-> <<>>, pos |-> 0]

\* llama_memory_seq_pos_max, plus one.
Frontier(m) ==
  CASE m.kind = "attention" -> Len(m.attn)
    [] m.kind = "recurrent" -> m.pos
    [] m.kind = "hybrid" -> Min({Len(m.attn), m.pos})

FirstItems(s, n) == SubSeq(s, 1, Min({n, Len(s)}))

\* Does llama_memory_seq_rm(0, p, -1) succeed?  If not it changes nothing.
CanTruncate(m, p) == HasRecurrent(m) => p = 0 \/ p >= m.pos

\* What it leaves.
Truncated(m, p) ==
  IF ~CanTruncate(m, p) THEN m
  ELSE IF p = 0 THEN Cleared(m.kind)
  ELSE [m EXCEPT !.attn = FirstItems(@, p)]

\* llama_decode of the items that follow.
Extended(m, items) ==
  [m EXCEPT !.attn = IF HasAttention(m) THEN @ \o items ELSE @,
            !.rec = IF HasRecurrent(m) THEN @ \o items ELSE @,
            !.pos = IF HasRecurrent(m) THEN @ + Len(items) ELSE @]

\* What a recurrent state is said to hold once its position has been moved.
Unaccounted == "unaccounted"

\* llama_memory_seq_rm(a, a + n), then llama_memory_seq_add(a + n, end, -n): the cells
\* of an attention cache move up; a recurrent state keeps what it has read and only its
\* position is changed, if it lies behind.
ShiftedAt(m, a, n) ==
  [m EXCEPT !.attn = FirstItems(@, a) \o SubSeq(@, a + n + 1, Len(@)),
            !.rec = IF HasRecurrent(m) THEN <<Unaccounted>> ELSE @,
            !.pos = IF HasRecurrent(m) /\ @ > a + n THEN @ - n ELSE @]

\* llama_state_seq_get_data_ext and llama_state_seq_set_data_ext with PARTIAL_ONLY: the
\* recurrent part alone.
PartialState(m) == [rec |-> m.rec, pos |-> m.pos]
WithPartialState(m, s) == [m EXCEPT !.rec = s.rec, !.pos = s.pos]

\* What logits computed from the memory depend on.
Contents(m) ==
  IF ~HasAttention(m) THEN m.rec
  ELSE IF HasRecurrent(m) /\ m.rec # m.attn THEN <<Unaccounted>>
  ELSE m.attn

\* The memory holds exactly these items.
Holds(m, items) ==
  /\ HasAttention(m) => m.attn = items
  /\ HasRecurrent(m) => m.rec = items /\ m.pos = Len(items)
=============================================================================
