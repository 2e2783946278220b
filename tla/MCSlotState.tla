----------------------------- MODULE MCSlotState -----------------------------
(***************************************************************************)
(* Instances of SlotState for TLC.  `x' is sampled and comes back in the   *)
(* next turn of the conversation.                                          *)
(***************************************************************************)
EXTENDS SlotState

Turn == <<"a", "b">>
NextTurn == <<"a", "b", "x", "c">>
OtherTurn == <<"a", "c">>
PictureP == <<"a", "P", "P", "b">>
PictureQ == <<"a", "Q", "Q", "b">>
PictureAtEnd == <<"a", "P", "P">>

MCCompletions == {Turn, NextTurn, PictureP, PictureQ, PictureAtEnd}
MCDocuments == {Turn, OtherTurn}

Uses(load, save, save_prompt) ==
  [load |-> load, save |-> save, save_prompt |-> save_prompt, load_size |-> 0, save_size |-> 0]
MCUsesOfFile ==
  {Uses(load, save, FALSE) : load, save \in BOOLEAN}
  \cup {Uses(load, FALSE, TRUE) : load \in BOOLEAN}
  \cup {[Uses(TRUE, FALSE, FALSE) EXCEPT !.load_size = 2],
        [Uses(FALSE, TRUE, FALSE) EXCEPT !.save_size = 3]}
=============================================================================
