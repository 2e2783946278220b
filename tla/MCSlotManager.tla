--------------------------- MODULE MCSlotManager ---------------------------
(***************************************************************************)
(* Instances of SlotManager for TLC.  The configurations name the requests *)
(* by what they are; one function per request parameter covers them all.   *)
(***************************************************************************)
EXTENDS SlotManager

CONSTANTS plain, plain2, loader, mtp, mtp2, media, embedding, rerank, atonce

MCTask == [r \in Request |->
  IF r = rerank THEN "rerank" ELSE IF r \in {embedding, atonce} THEN "embedding"
  ELSE "completion"]
MCPromptLen == [r \in Request |-> IF r \in {embedding, rerank, plain2} THEN 1 ELSE 2]
MCNPredict == [r \in Request |->
  IF r \in {plain, loader} THEN 1 ELSE IF r = mtp THEN 3 ELSE -1]
MCNDocs == [r \in Request |-> 2]
MCMtp == Request \cap {mtp, mtp2}
MCMedia == Request \cap {media}
MCLoadsState == Request \cap {loader}
MCSavesPrompt == Request \cap {loader, media}
MCAtOnce == Request \cap {atonce}
=============================================================================
