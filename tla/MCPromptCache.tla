--------------------------- MODULE MCPromptCache ---------------------------
(***************************************************************************)
(* Instances of PromptCache for TLC.  `d' is a delimiter of the template,  *)
(* `x' a token that is sampled and comes back in the next prompt, `h' one  *)
(* that ends within a character.                                           *)
(***************************************************************************)
EXTENDS PromptCache

Turn == <<"d", "a">>
NextTurn == <<"d", "a", "x", "d", "b">>
OtherTurn == <<"d", "b", "d", "a">>
Overlong == <<"a", "b", "a", "b", "a", "b">>
PictureP == <<"a", "P", "P", "b">>
PictureQ == <<"a", "Q", "Q", "b">>
PictureAtEnd == <<"a", "b", "a", "P">>

MCPrompts == {Turn, NextTurn, OtherTurn, Overlong, PictureP, PictureQ, PictureAtEnd}
MCSaved == {PictureP}
MCNPredict == {-1, 1}
MCMaxOps == [shift \in BOOLEAN |-> IF shift THEN 2 ELSE 3]
OneTurn == {Turn}
NoneSaved == {}
=============================================================================
