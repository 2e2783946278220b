------------------------- MODULE SlotManagerProofs -------------------------
(***************************************************************************)
(* Theorems about SlotManager for every number of slots and requests and   *)
(* every size of batch, context and draft: its types, and what one slot    *)
(* may count on.  The batch fits its allocation, no slot outgrows its      *)
(* context or its token budget, prompt checkpoints are written at the      *)
(* position they name, and every sampled slot has logits of its own in the *)
(* batch that was just decoded.                                            *)
(*                                                                         *)
(* BatchInv is the inductive invariant.  What a slot promises depends on   *)
(* where the worker is: build_batch gives every generating slot a token,   *)
(* decoding and sampling use it up, and only between a completed sampling  *)
(* and the next build_batch is a generating slot sure to have a token that *)
(* is not yet in memory.  InFlight separates the two.                      *)
(***************************************************************************)
EXTENDS SlotManager, FiniteSetTheorems, TLAPS

USE DEF Slot, NoSlot

-----------------------------------------------------------------------------
(* Lemmas about the operators on one slot                                  *)

\* A slot that is working holds a request and that request's prompt.
WellFormed(slot) ==
  /\ slot \in SlotRecord
  /\ Active(slot) => /\ slot.request_id \in Request
                     /\ slot.num_prompt_tokens = PromptLen[slot.request_id]

\* reset() yields an idle slot.
LEMMA ResetWellFormed == WellFormed(reset) /\ reset.state = "IDLE"
  BY DEF WellFormed, reset, SlotRecord, State, Active

\* complete_slot() keeps the fields' types and leaves the slot DONE.
LEMMA CompleteWellFormed ==
  ASSUME NEW slot \in SlotRecord
  PROVE  WellFormed(complete_slot(slot)) /\ complete_slot(slot).state = "DONE"
  BY ZenonT(60) DEF WellFormed, complete_slot, SlotRecord, State, Active, IsCompletion

\* What is handed to a callback is an outcome.
LEMMA OutcomeType ==
  ASSUME NEW slot \in SlotRecord
  PROVE  OutcomeOf(slot) \in OutcomeRecord
  BY DEF OutcomeOf, OutcomeRecord, SlotRecord

\* Claiming a slot and loading a prompt make it a well-formed busy slot.
LEMMA LoadPromptType ==
  ASSUME NEW slot \in SlotRecord, NEW r \in Request, NEW start \in Nat
  PROVE  /\ Claim(slot, r) \in SlotRecord
         /\ Claim(slot, r).request_id = r
         /\ load_prompt(slot, r, start) \in SlotRecord
         /\ load_prompt(slot, r, start).request_id = slot.request_id
         /\ load_prompt(slot, r, start).num_prompt_tokens = PromptLen[r]
  <1>1. PromptLen[r] \in Nat /\ PromptLen[r] > 0
    BY TaskAssumption
  <1>2. Claim(slot, r) \in SlotRecord /\ Claim(slot, r).request_id = r
    BY ZenonT(60) DEF Claim, SlotRecord
  <1>3. CheckpointTarget(r) \in Nat
    BY <1>1 DEF CheckpointTarget
  <1>4. /\ load_prompt(slot, r, start) \in SlotRecord
        /\ load_prompt(slot, r, start).request_id = slot.request_id
        /\ load_prompt(slot, r, start).num_prompt_tokens = PromptLen[r]
    BY <1>1, <1>3 DEF load_prompt, SlotRecord, State
  <1>5. QED BY <1>2, <1>4

\* Counting a delivered token keeps the fields' types and the slot's request.
LEMMA CountTokenWellFormed ==
  ASSUME NEW slot, WellFormed(slot)
  PROVE  WellFormed(CountToken(slot))
  <1>1. slot \in SlotRecord
    BY DEF WellFormed
  <1>2. slot.n_decoded \in Nat /\ slot.n_remaining \in Int
    BY <1>1 DEF SlotRecord
  <1> DEFINE left == IF slot.n_remaining > 0 THEN slot.n_remaining - 1
                                             ELSE slot.n_remaining
  <1>3. slot.n_decoded + 1 \in Nat /\ left \in Int
    BY <1>2
  <1>4. CountToken(slot) = [slot EXCEPT !.n_decoded = slot.n_decoded + 1,
                                        !.n_remaining = left]
    BY DEF CountToken
  <1> HIDE DEF left
  <1>5. /\ CountToken(slot) \in SlotRecord
        /\ CountToken(slot).state = slot.state
        /\ CountToken(slot).request_id = slot.request_id
        /\ CountToken(slot).num_prompt_tokens = slot.num_prompt_tokens
    BY <1>1, <1>3, <1>4 DEF SlotRecord
  <1>6. QED BY <1>5 DEF WellFormed, Active

-----------------------------------------------------------------------------
(* Lemmas about the operators on all slots                                 *)

SlotsTyped == slots \in [Slot -> SlotRecord] /\ \A s \in Slot : WellFormed(slots[s])

OutcomesTyped == outcomes \in [Request -> Seq(OutcomeRecord)]

\* Delivering one outcome, or the outcomes of several slots, keeps the types.
LEMMA AnswerType ==
  ASSUME OutcomesTyped, NEW r \in Request, NEW slot \in SlotRecord, Answer(r, slot)
  PROVE  OutcomesTyped'
  BY OutcomeType DEF OutcomesTyped, Answer

LEMMA AnswerAllType ==
  ASSUME OutcomesTyped, NEW D \in SUBSET Slot, NEW f \in [Slot -> SlotRecord],
         AnswerAll(D, f)
  PROVE  OutcomesTyped'
  <1>1. ASSUME NEW r \in Request, \E s \in D : CallsBack(f[s], r)
        PROVE  OutcomeOf(f[CHOOSE s \in D : CallsBack(f[s], r)]) \in OutcomeRecord
    <2>1. (CHOOSE s \in D : CallsBack(f[s], r)) \in Slot
      BY <1>1
    <2>2. QED BY <2>1, OutcomeType
  <1>2. QED BY <1>1 DEF OutcomesTyped, AnswerAll

\* Changing one slot to a well-formed one.
LEMMA UpdateOneType ==
  ASSUME SlotsTyped, NEW s \in Slot, NEW slot, WellFormed(slot),
         slots' = [slots EXCEPT ![s] = slot]
  PROVE  SlotsTyped'
  <1>1. slots' \in [Slot -> SlotRecord]
    BY DEF SlotsTyped, WellFormed
  <1>2. \A t \in Slot : slots'[t] = slot \/ slots'[t] = slots[t]
    BY DEF SlotsTyped
  <1>3. \A t \in Slot : WellFormed(slots'[t])
    BY <1>2 DEF SlotsTyped
  <1>4. QED BY <1>1, <1>3 DEF SlotsTyped, WellFormed, Active

LEMMA CompleteOneType ==
  ASSUME SlotsTyped, OutcomesTyped, NEW s \in Slot, NEW slot \in SlotRecord,
         CompleteOne(s, slot)
  PROVE  SlotsTyped' /\ OutcomesTyped'
  <1>1. SlotsTyped'
    BY CompleteWellFormed, UpdateOneType DEF CompleteOne
  <1>2. [slots EXCEPT ![s] = slot] \in [Slot -> SlotRecord]
    BY DEF SlotsTyped
  <1>3. OutcomesTyped'
    BY <1>2, AnswerAllType DEF CompleteOne
  <1>4. QED BY <1>1, <1>3

LEMMA CompleteAndReleaseType ==
  ASSUME SlotsTyped, OutcomesTyped, NEW C \in SUBSET Slot, NEW f \in [Slot -> SlotRecord],
         \A s \in Slot : WellFormed(f[s]), CompleteAndRelease(C, f)
  PROVE  SlotsTyped' /\ OutcomesTyped'
  <1>1. OutcomesTyped'
    BY AnswerAllType DEF CompleteAndRelease
  <1>2. slots' = [s \in Slot |-> IF s \in C \cup DoneSlots THEN reset ELSE f[s]]
    BY DEF CompleteAndRelease
  <1>3. slots' \in [Slot -> SlotRecord]
    BY <1>2, ResetWellFormed DEF WellFormed
  <1>4. \A s \in Slot : WellFormed(slots'[s])
    BY <1>2, ResetWellFormed
  <1>5. QED BY <1>1, <1>3, <1>4 DEF SlotsTyped, WellFormed, Active

LEMMA ReleaseType ==
  ASSUME active_requests \in [Request -> Slot \cup {NoSlot}], NEW D \in SUBSET Slot,
         Release(D)
  PROVE  /\ active_requests' \in [Request -> Slot \cup {NoSlot}]
         /\ released_before' \subseteq Slot \X Slot
  BY DEF Release

-----------------------------------------------------------------------------
(* Lemmas about the steps of one slot                                      *)

BatchTyped == n_batch \in Nat /\ n_tokens \in Nat /\ batch_outputs \subseteq Slot

\* The number of prompt tokens put into the batch is a natural number that fits into
\* the room left and does not run past the prompt.
LEMMA PromptTokensTakenType ==
  ASSUME BatchTyped, NEW slot \in SlotRecord
  PROVE  /\ PromptTokensTaken(slot) \in Nat
         /\ PromptTokensTaken(slot) <= Room
         /\ slot.n_past <= slot.num_prompt_tokens =>
              slot.n_past + PromptTokensTaken(slot) <= slot.num_prompt_tokens
  <1>1. Room \in Nat
    BY DEF BatchTyped, Room
  <1>2. slot.n_past \in Nat /\ slot.num_prompt_tokens \in Nat
        /\ slot.save_prompt_state_tokens \in Int
    BY DEF SlotRecord
  <1>3. PromptEnd(slot) \in Int /\ PromptEnd(slot) <= slot.num_prompt_tokens
    BY <1>2 DEF PromptEnd, Least
  <1>4. QED BY <1>1, <1>2, <1>3 DEF PromptTokensTaken, Least

LEMMA TakePromptTokensType ==
  ASSUME SlotsTyped, BatchTyped, OutcomesTyped, NEW s \in Slot, NEW slot,
         WellFormed(slot), slot.state = "PROCESSING_PROMPT", TakePromptTokens(s, slot)
  PROVE  /\ SlotsTyped' /\ OutcomesTyped'
         /\ n_tokens' \in Nat /\ batch_outputs' \subseteq Slot
  <1> DEFINE past == slot.n_past + PromptTokensTaken(slot)
             next == [slot EXCEPT !.n_past = past,
                        !.state = IF past >= slot.num_prompt_tokens
                                  THEN "GENERATING" ELSE @]
  <1>1. slot \in SlotRecord
    BY DEF WellFormed
  <1>2. PromptTokensTaken(slot) \in Nat /\ past \in Nat
    BY <1>1, PromptTokensTakenType DEF SlotRecord
  <1>3. slots' = [slots EXCEPT ![s] = next]
    BY DEF TakePromptTokens
  <1>4. next \in SlotRecord
    BY <1>1, <1>2 DEF SlotRecord, State
  <1>5. /\ next.request_id = slot.request_id
        /\ next.num_prompt_tokens = slot.num_prompt_tokens
    BY <1>1 DEF SlotRecord
  <1>6. WellFormed(next)
    BY <1>4, <1>5 DEF WellFormed, Active
  <1>7. SlotsTyped'
    BY <1>3, <1>6, UpdateOneType
  <1>8. QED BY <1>2, <1>7 DEF TakePromptTokens, BatchTyped, OutcomesTyped

LEMMA ProcessMediaType ==
  ASSUME SlotsTyped, BatchTyped, OutcomesTyped, NEW s \in Slot, NEW slot,
         WellFormed(slot), slot.state = "PROCESSING_PROMPT", ProcessMedia(s, slot)
  PROVE  /\ SlotsTyped' /\ OutcomesTyped'
         /\ n_tokens' \in Nat /\ batch_outputs' \subseteq Slot
  <1>1. slot \in SlotRecord /\ slot.num_prompt_tokens \in Nat
    BY DEF WellFormed, SlotRecord
  <1>2. \A target \in MovedCheckpoint(slot) : target \in Nat \cup {-1}
    BY <1>1 DEF MovedCheckpoint
  <1>3. CASE /\ CompleteOne(s, slot)
             /\ UNCHANGED <<n_tokens, batch_outputs>>
    BY <1>1, <1>3, CompleteOneType DEF BatchTyped
  <1>4. CASE /\ CompleteOne(s, [slot EXCEPT !.incomplete = TRUE])
             /\ UNCHANGED <<n_tokens, batch_outputs>>
    <2>1. [slot EXCEPT !.incomplete = TRUE] \in SlotRecord
      BY <1>1 DEF SlotRecord
    <2>2. QED BY <1>4, <2>1, CompleteOneType DEF BatchTyped
  <1>5. ASSUME NEW target \in MovedCheckpoint(slot),
               slots' = [slots EXCEPT ![s] =
                 [slot EXCEPT !.state = "GENERATING", !.n_past = slot.num_prompt_tokens,
                              !.media = "pending_token",
                              !.save_prompt_state_tokens = target]],
               UNCHANGED <<n_tokens, batch_outputs, outcomes>>
        PROVE  /\ SlotsTyped' /\ OutcomesTyped'
               /\ n_tokens' \in Nat /\ batch_outputs' \subseteq Slot
    <2> DEFINE next == [slot EXCEPT !.state = "GENERATING",
                          !.n_past = slot.num_prompt_tokens, !.media = "pending_token",
                          !.save_prompt_state_tokens = target]
    <2>1. next \in SlotRecord
      BY <1>1, <1>2 DEF SlotRecord, State
    <2>2. /\ next.request_id = slot.request_id
          /\ next.num_prompt_tokens = slot.num_prompt_tokens
      BY <1>1 DEF SlotRecord
    <2>3. WellFormed(next)
      BY <2>1, <2>2 DEF WellFormed, Active
    <2>4. SlotsTyped'
      BY <1>5, <2>3, UpdateOneType
    <2>5. QED BY <1>5, <2>4 DEF OutcomesTyped, BatchTyped
  <1>6. ASSUME NEW target \in MovedCheckpoint(slot),
               NEW past \in 1..(slot.num_prompt_tokens - 1),
               TakePromptTokens(s, [slot EXCEPT !.n_past = past, !.media = "processed",
                                      !.save_prompt_state_tokens = target])
        PROVE  /\ SlotsTyped' /\ OutcomesTyped'
               /\ n_tokens' \in Nat /\ batch_outputs' \subseteq Slot
    <2> DEFINE next == [slot EXCEPT !.n_past = past, !.media = "processed",
                          !.save_prompt_state_tokens = target]
    <2>1. past \in Nat
      BY <1>1
    <2>2. next \in SlotRecord
      BY <1>1, <1>2, <2>1 DEF SlotRecord
    <2>3. /\ next.request_id = slot.request_id
          /\ next.state = slot.state
          /\ next.num_prompt_tokens = slot.num_prompt_tokens
      BY <1>1 DEF SlotRecord
    <2>4. WellFormed(next)
      BY <2>2, <2>3 DEF WellFormed, Active
    <2>5. QED BY <1>6, <2>3, <2>4, TakePromptTokensType
  <1>7. QED BY <1>3, <1>4, <1>5, <1>6 DEF ProcessMedia

LEMMA EnterMtpType ==
  ASSUME SlotsTyped, BatchTyped, OutcomesTyped, NEW s \in Slot, EnterMtp(s, slots[s])
  PROVE  /\ SlotsTyped' /\ OutcomesTyped'
         /\ n_tokens' \in Nat /\ batch_outputs' \subseteq Slot
  <1> DEFINE slot == slots[s]
             failed == [slot EXCEPT !.incomplete = TRUE, !.error_of = slot.request_id]
             next == [slot EXCEPT !.state = "GENERATING"]
  <1>1. slot \in SlotRecord /\ WellFormed(slot) /\ Active(slot)
    BY DEF SlotsTyped, WellFormed, EnterMtp, Active
  <1>2. slot.request_id \in Request
    BY <1>1 DEF WellFormed
  <1>3. failed \in SlotRecord
    BY <1>1, <1>2 DEF SlotRecord
  <1>4. WellFormed(next)
    BY <1>1 DEF WellFormed, SlotRecord, Active, State
  <1>5. CASE slot.media # "none"
    <2>1. CompleteOne(s, failed)
      BY <1>5 DEF EnterMtp
    <2>2. QED BY <1>3, <2>1, CompleteOneType DEF EnterMtp, BatchTyped
  <1>6. CASE slot.media = "none"
    <2>1. slots' = [slots EXCEPT ![s] = next] /\ UNCHANGED outcomes
      BY <1>6 DEF EnterMtp
    <2>2. SlotsTyped'
      BY <1>4, <2>1, UpdateOneType
    <2>3. QED BY <2>1, <2>2 DEF EnterMtp, BatchTyped, OutcomesTyped
  <1>7. QED BY <1>5, <1>6

\* Either the counted token completes the slot or the slot goes on with it.
LEMMA CountOrCompleteType ==
  ASSUME SlotsTyped, OutcomesTyped, NEW s \in Slot, NEW slot, WellFormed(slot),
         \/ CompleteOne(s, CountToken(slot))
         \/ slots' = [slots EXCEPT ![s] = CountToken(slot)] /\ UNCHANGED outcomes
  PROVE  SlotsTyped' /\ OutcomesTyped'
  <1>1. WellFormed(CountToken(slot)) /\ CountToken(slot) \in SlotRecord
    BY CountTokenWellFormed DEF WellFormed
  <1>2. CASE CompleteOne(s, CountToken(slot))
    BY <1>1, <1>2, CompleteOneType
  <1>3. CASE slots' = [slots EXCEPT ![s] = CountToken(slot)] /\ UNCHANGED outcomes
    BY <1>1, <1>3, UpdateOneType DEF OutcomesTyped
  <1>4. QED BY <1>2, <1>3

LEMMA SampleTokenType ==
  ASSUME SlotsTyped, OutcomesTyped, NEW s \in Slot, NEW slot, WellFormed(slot),
         SampleToken(s, slot)
  PROVE  SlotsTyped' /\ OutcomesTyped'
  <1> DEFINE sampled == [slot EXCEPT !.media = IF @ = "pending_token" THEN "processed"
                                               ELSE @]
  <1>1. slot \in SlotRecord
    BY DEF WellFormed
  <1>2. sampled \in SlotRecord
    BY <1>1 DEF SlotRecord
  <1>3. /\ sampled.request_id = slot.request_id /\ sampled.state = slot.state
        /\ sampled.num_prompt_tokens = slot.num_prompt_tokens
    BY <1>1 DEF SlotRecord
  <1>4. WellFormed(sampled)
    BY <1>2, <1>3 DEF WellFormed, Active
  <1>5. \/ CompleteOne(s, sampled)
        \/ CompleteOne(s, CountToken(sampled))
        \/ slots' = [slots EXCEPT ![s] = CountToken(sampled)] /\ UNCHANGED outcomes
    BY DEF SampleToken
  <1> HIDE DEF sampled
  <1>6. QED BY <1>2, <1>4, <1>5, CompleteOneType, CountOrCompleteType

LEMMA EmitMtpType ==
  ASSUME SlotsTyped, OutcomesTyped, NEW s \in Slot, NEW slot, WellFormed(slot),
         EmitMtp(s, slot)
  PROVE  SlotsTyped' /\ OutcomesTyped'
  <1> DEFINE rest == [slot EXCEPT !.spec_pending_tokens = @ - 1]
  <1>1. slot \in SlotRecord /\ slot.spec_pending_tokens \in Nat
    BY DEF WellFormed, SlotRecord
  <1>2. CASE slot.spec_pending_tokens = 0
    BY <1>1, <1>2, CompleteOneType DEF EmitMtp
  <1>3. CASE slot.spec_pending_tokens # 0
    <2>1. slot.spec_pending_tokens - 1 \in Nat
      BY <1>1, <1>3
    <2>2. rest \in SlotRecord
      BY <1>1, <2>1 DEF SlotRecord
    <2>3. /\ rest.request_id = slot.request_id /\ rest.state = slot.state
          /\ rest.num_prompt_tokens = slot.num_prompt_tokens
      BY <1>1 DEF SlotRecord
    <2>4. WellFormed(rest)
      BY <2>2, <2>3 DEF WellFormed, Active
    <2>5. \/ CompleteOne(s, CountToken(rest))
          \/ slots' = [slots EXCEPT ![s] = CountToken(rest)] /\ UNCHANGED outcomes
      BY <1>3 DEF EmitMtp
    <2> HIDE DEF rest
    <2>6. QED BY <2>4, <2>5, CountOrCompleteType
  <1>4. QED BY <1>2, <1>3

LEMMA MtpFailsType ==
  ASSUME SlotsTyped, OutcomesTyped, NEW s \in Slot, NEW slot \in SlotRecord,
         slot.request_id \in Request, MtpFails(s, slot)
  PROVE  SlotsTyped' /\ OutcomesTyped'
  <1>1. [slot EXCEPT !.incomplete = TRUE, !.error_of = slot.request_id] \in SlotRecord
    BY DEF SlotRecord
  <1>2. QED BY <1>1, CompleteOneType DEF MtpFails

\* The prompt evaluated by MTP is not empty.
LEMMA InitMtpType ==
  ASSUME NEW slot, WellFormed(slot), Active(slot)
  PROVE  WellFormed(InitMtp(slot)) /\ Active(InitMtp(slot))
  <1>1. slot \in SlotRecord /\ slot.num_prompt_tokens - 1 \in Nat
    BY TaskAssumption DEF WellFormed
  <1>2. CASE slot.spec
    BY <1>2 DEF InitMtp
  <1>3. CASE ~slot.spec
    <2> DEFINE next == [slot EXCEPT !.spec = TRUE, !.n_past = slot.num_prompt_tokens - 1]
    <2>1. next \in SlotRecord
      BY <1>1 DEF SlotRecord
    <2>2. /\ next.request_id = slot.request_id /\ next.state = slot.state
          /\ next.num_prompt_tokens = slot.num_prompt_tokens
      BY <1>1 DEF SlotRecord
    <2>3. InitMtp(slot) = next
      BY <1>3 DEF InitMtp
    <2>4. QED BY <2>1, <2>2, <2>3 DEF WellFormed, Active
  <1>4. QED BY <1>2, <1>3

LEMMA DraftLimitType ==
  ASSUME NEW slot \in SlotRecord
  PROVE  DraftLimit(slot) \in Nat
  <1>1. slot.n_past \in Nat /\ slot.n_remaining \in Int /\ NCtx \in Nat /\ MaxDraft \in Nat
    BY SizeAssumption DEF SlotRecord
  <1>2. QED BY <1>1 DEF DraftLimit, Greatest, Least

LEMMA RefillType ==
  ASSUME NEW slot, WellFormed(slot), NEW accepted \in 1..(DraftLimit(slot) + 1),
         NEW eos \in BOOLEAN
  PROVE  WellFormed(Refill(slot, accepted, eos))
  <1>1. slot \in SlotRecord /\ slot.n_past \in Nat /\ DraftLimit(slot) \in Nat
    BY DraftLimitType DEF WellFormed, SlotRecord
  <1> DEFINE filled == Refill(slot, accepted, eos)
             pending == IF eos THEN accepted - 1 ELSE accepted
             past == slot.n_past + accepted
  <1>3. accepted \in Nat /\ accepted - 1 \in Nat /\ past \in Nat
    BY <1>1
  <1>4. pending \in Nat
    BY <1>3
  <1>5. filled = [slot EXCEPT !.n_past = past, !.stopped_eos = eos,
                     !.spec_pending_tokens = pending]
    BY DEF Refill
  <1> HIDE DEF filled, pending, past
  <1>6. filled \in SlotRecord
    BY <1>1, <1>3, <1>4, <1>5 DEF SlotRecord
  <1>7. /\ filled.request_id = slot.request_id /\ filled.state = slot.state
        /\ filled.num_prompt_tokens = slot.num_prompt_tokens
    BY <1>1, <1>5 DEF SlotRecord
  <1>8. WellFormed(filled)
    BY <1>6, <1>7 DEF WellFormed, Active
  <1>9. QED BY <1>8 DEF filled

LEMMA SampleMtpType ==
  ASSUME SlotsTyped, OutcomesTyped, NEW s \in Slot, NEW slot, WellFormed(slot),
         Active(slot), SampleMtp(s, slot)
  PROVE  SlotsTyped' /\ OutcomesTyped'
  <1>1. slot \in SlotRecord /\ slot.request_id \in Request
    BY DEF WellFormed
  <1>2. WellFormed(InitMtp(slot)) /\ InitMtp(slot) \in SlotRecord
    BY InitMtpType DEF WellFormed
  <1>3. ASSUME NEW failed \in {slot, [slot EXCEPT !.spec = TRUE]}, MtpFails(s, failed)
        PROVE  SlotsTyped' /\ OutcomesTyped'
    <2>1. failed \in SlotRecord /\ failed.request_id = slot.request_id
      BY <1>1, <1>3 DEF SlotRecord
    <2>2. QED BY <1>1, <1>3, <2>1, MtpFailsType
  <1>4. CASE EmitMtp(s, slot)
    BY <1>4, EmitMtpType
  <1>5. CASE CompleteOne(s, InitMtp(slot))
    BY <1>2, <1>5, CompleteOneType
  <1>6. ASSUME NEW accepted \in 1..(DraftLimit(InitMtp(slot)) + 1), NEW eos \in BOOLEAN,
               EmitMtp(s, Refill(InitMtp(slot), accepted, eos))
        PROVE  SlotsTyped' /\ OutcomesTyped'
    <2>1. WellFormed(Refill(InitMtp(slot), accepted, eos))
      BY <1>2, RefillType
    <2>2. QED BY <1>6, <2>1, EmitMtpType
  <1>7. QED BY <1>3, <1>4, <1>5, <1>6 DEF SampleMtp

LEMMA DeliverResultType ==
  ASSUME SlotsTyped, OutcomesTyped, NEW s \in Slot, NEW slot \in SlotRecord,
         slot.request_id \in Request, DeliverResult(s, slot)
  PROVE  SlotsTyped' /\ OutcomesTyped'
  <1> DEFINE next == [slots[s] EXCEPT !.state = "DONE"]
  <1>1. slots[s] \in SlotRecord
    BY DEF SlotsTyped
  <1>2. WellFormed(next)
    BY <1>1 DEF WellFormed, SlotRecord, Active, State
  <1>3. SlotsTyped'
    BY <1>2, UpdateOneType DEF DeliverResult
  <1>4. OutcomesTyped'
    <2>1. CASE Answer(slot.request_id, slot)
      BY <2>1, AnswerType
    <2>2. CASE UNCHANGED outcomes
      BY <2>2 DEF OutcomesTyped
    <2>3. QED BY <2>1, <2>2 DEF DeliverResult
  <1>5. QED BY <1>3, <1>4

LEMMA ScoreDocumentType ==
  ASSUME SlotsTyped, OutcomesTyped, NEW s \in Slot, NEW slot, WellFormed(slot),
         Active(slot), ScoreDocument(s, slot)
  PROVE  SlotsTyped' /\ OutcomesTyped'
  <1> DEFINE r == slot.request_id
             next == slot.rerank_current_index + 1
             loaded == load_prompt(slot, r, 0)
             again == [loaded EXCEPT !.rerank_current_index = next]
             last == [slot EXCEPT !.rerank_current_index = next]
  <1>1. slot \in SlotRecord /\ r \in Request
    BY DEF WellFormed
  <1>2. next \in Nat
    BY <1>1 DEF SlotRecord
  <1>3. loaded \in SlotRecord /\ loaded.request_id = r
        /\ loaded.num_prompt_tokens = PromptLen[r]
    BY <1>1, LoadPromptType
  <1> HIDE DEF next, loaded
  <1>4. WellFormed(again)
    <2>1. again \in SlotRecord
      BY <1>2, <1>3 DEF SlotRecord
    <2>2. again.request_id = r /\ again.num_prompt_tokens = PromptLen[r]
      BY <1>3 DEF SlotRecord
    <2>3. QED BY <1>1, <2>1, <2>2 DEF WellFormed
  <1>5. last \in SlotRecord /\ last.request_id \in Request
    BY <1>1, <1>2 DEF SlotRecord
  <1>6. CASE next < NDocs[r]
    <2>1. slots' = [slots EXCEPT ![s] = again] /\ UNCHANGED outcomes
      BY <1>6 DEF ScoreDocument, next, loaded
    <2>2. QED BY <1>4, <2>1, UpdateOneType DEF OutcomesTyped
  <1>7. CASE ~(next < NDocs[r])
    <2>1. DeliverResult(s, last)
      BY <1>7 DEF ScoreDocument, next
    <2>2. QED BY <1>5, <2>1, DeliverResultType
  <1>8. QED BY <1>6, <1>7

-----------------------------------------------------------------------------
(* Type correctness                                                        *)

\* TypeOK alone is not inductive: the operators on a busy slot look up its request.
TypeInv == TypeOK /\ \A s \in Slot : WellFormed(slots[s])

LEMMA TypeInvParts ==
  ASSUME TypeInv
  PROVE  SlotsTyped /\ OutcomesTyped /\ BatchTyped
  BY DEF TypeInv, TypeOK, SlotsTyped, OutcomesTyped, BatchTyped

\* The queue without one of its elements is a queue.
LEMMA WithoutType ==
  ASSUME NEW q \in Seq(Request), NEW i \in DOMAIN q
  PROVE  Without(q, i) \in Seq(Request)
  <1>1. Len(q) \in Nat /\ Len(q) >= 1 /\ DOMAIN q = 1..Len(q)
    OBVIOUS
  <1>2. Len(q) - 1 \in Nat
    BY <1>1
  <1>3. \A j \in 1..(Len(q) - 1) : j \in DOMAIN q /\ j + 1 \in DOMAIN q
    BY <1>1
  <1>4. \A j \in DOMAIN q : q[j] \in Request
    OBVIOUS
  <1>5. \A j \in 1..(Len(q) - 1) : (IF j < i THEN q[j] ELSE q[j + 1]) \in Request
    BY <1>3, <1>4
  <1>6. Without(q, i) \in [1..(Len(q) - 1) -> Request]
    BY <1>5 DEF Without
  <1>7. QED BY <1>2, <1>6

LEMMA NextSlotType ==
  ASSUME cursor \in Slot, pc \in Pc, NEW last \in Pc, NextSlot(last)
  PROVE  cursor' \in Slot /\ pc' \in Pc
  BY SizeAssumption DEF NextSlot

\* A request given to a slot makes it busy and well formed.
LEMMA AssignType ==
  ASSUME SlotsTyped, OutcomesTyped, active_requests \in [Request -> Slot \cup {NoSlot}],
         NEW r \in Request, NEW s \in Slot, Assign(r, s) \/ FailLoad(r, s)
  PROVE  /\ SlotsTyped' /\ OutcomesTyped'
         /\ active_requests' \in [Request -> Slot \cup {NoSlot}]
  <1>1. slots[s] \in SlotRecord
    BY DEF SlotsTyped
  <1>2. Claim(slots[s], r) \in SlotRecord /\ Claim(slots[s], r).request_id = r
    BY <1>1, LoadPromptType
  <1>3. CASE Assign(r, s)
    <2>1. PICK start \in ReusableTokens(r) :
            slots' = [slots EXCEPT ![s] =
              [load_prompt(Claim(slots[s], r), r, start) EXCEPT
                 !.callback = TRUE, !.rerank_current_index = 0,
                 !.media = IF r \in Media THEN "deferred" ELSE "none",
                 !.n_remaining = IF Task[r] = "completion" THEN NPredict[r] ELSE -1]]
      BY <1>3 DEF Assign
    <2>2. start \in Nat
      BY <2>1, TaskAssumption DEF ReusableTokens
    <2> DEFINE loaded == load_prompt(Claim(slots[s], r), r, start)
               limit == IF Task[r] = "completion" THEN NPredict[r] ELSE -1
               next == [loaded EXCEPT
                 !.callback = TRUE, !.rerank_current_index = 0,
                 !.media = IF r \in Media THEN "deferred" ELSE "none",
                 !.n_remaining = limit]
    <2>3. loaded \in SlotRecord /\ loaded.request_id = r
          /\ loaded.num_prompt_tokens = PromptLen[r]
      BY <1>2, <2>2, LoadPromptType
    <2>4. limit \in Int
      BY TaskAssumption
    <2> HIDE DEF loaded, limit
    <2>5. next \in SlotRecord
      BY <2>3, <2>4 DEF SlotRecord
    <2>6. next.request_id = r /\ next.num_prompt_tokens = PromptLen[r]
      BY <2>3 DEF SlotRecord
    <2>7. WellFormed(next)
      BY <2>5, <2>6 DEF WellFormed
    <2>8. slots' = [slots EXCEPT ![s] = next]
      BY <2>1 DEF loaded, limit
    <2>9. SlotsTyped'
      BY <2>7, <2>8, UpdateOneType
    <2>10. QED BY <1>3, <2>9 DEF Assign, OutcomesTyped
  <1>4. CASE FailLoad(r, s)
    <2> DEFINE failed == [Claim(slots[s], r) EXCEPT !.state = "DONE", !.incomplete = TRUE,
                                                    !.error_of = r]
    <2>1. failed \in SlotRecord /\ failed.state = "DONE"
      BY <1>2 DEF SlotRecord, State
    <2>2. WellFormed(failed)
      BY <2>1 DEF WellFormed, Active
    <2>3. slots' = [slots EXCEPT ![s] = failed] /\ Answer(r, failed)
      BY <1>4 DEF FailLoad
    <2>4. SlotsTyped' /\ OutcomesTyped'
      BY <2>1, <2>2, <2>3, UpdateOneType, AnswerType
    <2>5. QED BY <1>4, <2>4 DEF FailLoad
  <1>5. QED BY <1>3, <1>4

\* A slot changed without touching its state, its request and its prompt.
LEMMA SameWorkWellFormed ==
  ASSUME NEW slot, WellFormed(slot), NEW next \in SlotRecord,
         next.state = slot.state, next.request_id = slot.request_id,
         next.num_prompt_tokens = slot.num_prompt_tokens
  PROVE  WellFormed(next)
  BY DEF WellFormed, Active

\* Every slot well formed after a step in which each one is.
LEMMA UpdateAllType ==
  ASSUME NEW f, slots' = [s \in Slot |-> f[s]], \A s \in Slot : WellFormed(f[s])
  PROVE  SlotsTyped'
  <1>1. slots' \in [Slot -> SlotRecord] /\ \A s \in Slot : WellFormed(slots'[s])
    BY DEF WellFormed
  <1>2. QED BY <1>1 DEF SlotsTyped, WellFormed, Active

\* TypeInv from its parts.
LEMMA TypeInvFrom ==
  ASSUME SlotsTyped', OutcomesTyped', BatchTyped',
         (queue_requests \in Seq(Request))',
         (active_requests \in [Request -> Slot \cup {NoSlot}])',
         (released_before \subseteq Slot \X Slot)', (cursor \in Slot)', (pc \in Pc)',
         (processing_active \in BOOLEAN)',
         (stopper \in {"none", "stored", "notified", "joined"})',
         (submitted \subseteq Request)', (to_notify \subseteq Request)',
         (cancel_result \in [Request -> {"none", "ACTIVE", "QUEUED", "NOT_FOUND"}])',
         (prompt_files \in [Request ->
            [by : Request \cup {NoRequest}, n_past : Nat, tokens : Nat \cup {-1}]])'
  PROVE  TypeInv'
  BY DEF TypeInv, TypeOK, SlotsTyped, OutcomesTyped, BatchTyped

\* The initial state is well typed.
LEMMA TypeInit == Init => TypeInv
  <1> SUFFICES ASSUME Init PROVE TypeInv
    OBVIOUS
  <1>1. slots \in [Slot -> SlotRecord] /\ \A s \in Slot : WellFormed(slots[s])
    BY ResetWellFormed DEF Init, WellFormed
  <1>2. 1 \in Slot /\ NBatch \in Nat
    BY SizeAssumption
  <1>3. outcomes \in [Request -> Seq(OutcomeRecord)]
    BY DEF Init
  <1>4. /\ prompt_files \in [Request ->
             [by : Request \cup {NoRequest}, n_past : Nat, tokens : Nat \cup {-1}]]
        /\ cancel_result \in [Request -> {"none", "ACTIVE", "QUEUED", "NOT_FOUND"}]
        /\ active_requests \in [Request -> Slot \cup {NoSlot}]
    BY DEF Init, NoFile
  <1>5. QED BY <1>1, <1>2, <1>3, <1>4 DEF Init, TypeInv, TypeOK, Pc

\* Every step of a client or of the stopping thread keeps the types.
LEMMA TypeClient ==
  ASSUME TypeInv, (\E r \in Request : Client(r)) \/ Stopper
  PROVE  TypeInv'
  <1>0. SlotsTyped /\ OutcomesTyped /\ BatchTyped
    BY TypeInvParts
  <1> USE DEF batchVars
  <1>1. ASSUME NEW r \in Request, QueueRequest(r) PROVE TypeInv'
    BY <1>1, <1>0, TypeInvFrom DEF QueueRequest, TypeInv, TypeOK, SlotsTyped,
       OutcomesTyped, BatchTyped, WellFormed, Active
  <1>2. ASSUME NEW r \in Request, AnswerAtOnce(r) PROVE TypeInv'
    <2>1. reset \in SlotRecord
      BY ResetWellFormed DEF WellFormed
    <2>2. OutcomesTyped'
      BY <1>2, <1>0, <2>1, AnswerType DEF AnswerAtOnce
    <2>3. QED
      BY <1>2, <1>0, <2>2, TypeInvFrom DEF AnswerAtOnce, TypeInv, TypeOK, SlotsTyped,
         BatchTyped, WellFormed, Active
  <1>3. ASSUME NEW r \in Request, CancelRequest(r) PROVE TypeInv'
    <2>1. CASE CancelActive(r)
      <3> DEFINE s == active_requests[r]
                 next == [slots[s] EXCEPT !.is_interrupted = TRUE]
      <3>1. s \in Slot /\ slots' = [slots EXCEPT ![s] = next]
        BY <2>1 DEF CancelActive, ActiveSlots
      <3>2. slots[s] \in SlotRecord /\ WellFormed(slots[s])
        BY <1>0, <3>1 DEF SlotsTyped
      <3>3. /\ next \in SlotRecord /\ next.state = slots[s].state
            /\ next.request_id = slots[s].request_id
            /\ next.num_prompt_tokens = slots[s].num_prompt_tokens
        BY <3>2 DEF SlotRecord
      <3>4. WellFormed(next)
        BY <3>2, <3>3, SameWorkWellFormed
      <3>5. SlotsTyped'
        BY <1>0, <3>1, <3>4, UpdateOneType
      <3>6. QED
        BY <1>0, <1>3, <2>1, <3>5, TypeInvFrom DEF CancelRequest, CancelActive, TypeInv,
           TypeOK, OutcomesTyped, BatchTyped
    <2>2. CASE CancelQueued(r)
      <3>1. queue_requests \in Seq(Request)
        BY DEF TypeInv, TypeOK
      <3>2. queue_requests' \in Seq(Request)
        BY <2>2, <3>1, WithoutType DEF CancelQueued
      <3>3. QED
        BY <1>0, <1>3, <2>2, <3>2, TypeInvFrom DEF CancelRequest, CancelQueued, TypeInv,
           TypeOK, SlotsTyped, OutcomesTyped, BatchTyped, WellFormed, Active
    <2>3. CASE CancelNotFound(r)
      BY <1>0, <1>3, <2>3, TypeInvFrom DEF CancelRequest, CancelNotFound, TypeInv,
         TypeOK, SlotsTyped, OutcomesTyped, BatchTyped, WellFormed, Active
    <2>4. QED BY <1>3, <2>1, <2>2, <2>3 DEF CancelRequest
  <1>4. ASSUME NEW r \in Request, Notify(r) PROVE TypeInv'
    BY <1>4, <1>0, TypeInvFrom DEF Notify, TypeInv, TypeOK, Pc, SlotsTyped,
       OutcomesTyped, BatchTyped, WellFormed, Active
  <1>5. ASSUME Stopper PROVE TypeInv'
    BY <1>5, <1>0, TypeInvFrom DEF Stopper, StopStore, StopNotify, StopJoin, TypeInv,
       TypeOK, Pc, SlotsTyped, OutcomesTyped, BatchTyped, WellFormed, Active
  <1>6. QED BY <1>1, <1>2, <1>3, <1>4, <1>5 DEF Client

\* Every step of update_slots keeps the types.
LEMMA TypeUpdate ==
  ASSUME TypeInv, Update
  PROVE  TypeInv'
  <1>0. /\ SlotsTyped /\ OutcomesTyped /\ BatchTyped
        /\ slots \in [Slot -> SlotRecord] /\ \A s \in Slot : WellFormed(slots[s])
        /\ active_requests \in [Request -> Slot \cup {NoSlot}]
        /\ queue_requests \in Seq(Request) /\ cursor \in Slot /\ pc \in Pc
    BY TypeInvParts DEF TypeInv, TypeOK
  <1>00. ActiveSlots \subseteq Slot /\ DoneSlots \subseteq Slot
         /\ InterruptedSlots \subseteq Slot
    BY DEF ActiveSlots, DoneSlots, InterruptedSlots
  <1> USE DEF batchVars, clientVars
  <1>1. CASE TerminalizeCancelled
    <2>1. CASE InterruptedSlots = {}
      BY <1>0, <1>1, <2>1, TypeInvFrom DEF TerminalizeCancelled, TypeInv, TypeOK, Pc,
         SlotsTyped, OutcomesTyped, BatchTyped, WellFormed, Active
    <2>2. CASE CompleteAndRelease(InterruptedSlots, slots)
      <3>1. SlotsTyped' /\ OutcomesTyped'
        BY <1>0, <1>00, <2>2, CompleteAndReleaseType
      <3>2. Release(InterruptedSlots \cup DoneSlots)
        BY <2>2 DEF CompleteAndRelease
      <3>3. /\ active_requests' \in [Request -> Slot \cup {NoSlot}]
            /\ released_before' \subseteq Slot \X Slot
        BY <1>0, <1>00, <3>2, ReleaseType
      <3>4. QED
        BY <1>0, <1>1, <3>1, <3>3, TypeInvFrom DEF TerminalizeCancelled, TypeInv,
           TypeOK, Pc, BatchTyped
    <2>3. QED BY <1>1, <2>1, <2>2 DEF TerminalizeCancelled
  <1>2. CASE AssignHead
    <2>1. Head(queue_requests) \in Request /\ Tail(queue_requests) \in Seq(Request)
      BY <1>0, <1>2 DEF AssignHead
    <2>2. PICK s \in Slot : Assign(Head(queue_requests), s)
                            \/ FailLoad(Head(queue_requests), s)
      BY <1>2 DEF AssignHead
    <2>3. /\ SlotsTyped' /\ OutcomesTyped'
          /\ active_requests' \in [Request -> Slot \cup {NoSlot}]
      BY <1>0, <2>1, <2>2, AssignType
    <2>4. QED
      BY <1>0, <1>2, <2>1, <2>3, TypeInvFrom DEF AssignHead, TypeInv, TypeOK, Pc,
         BatchTyped
  <1>3. CASE StopAssigning \/ CheckActive \/ DecodeBatch
    BY <1>0, <1>3, TypeInvFrom DEF StopAssigning, CheckActive, DecodeBatch, TypeInv,
       TypeOK, Pc, SlotsTyped, OutcomesTyped, BatchTyped, WellFormed, Active
  <1>4. CASE BuildGenerating
    <2> DEFINE G == {s \in Slot : HasGeneratedToken(slots[s])}
               f == [s \in Slot |-> IF s \in G THEN [slots[s] EXCEPT !.n_past = @ + 1]
                                               ELSE slots[s]]
    <2>1. ASSUME NEW s \in Slot PROVE WellFormed(f[s])
      <3>1. CASE s \in G
        <4> DEFINE past == slots[s].n_past + 1
                   next == [slots[s] EXCEPT !.n_past = past]
        <4>1. past \in Nat
          BY <1>0 DEF SlotRecord
        <4> HIDE DEF past
        <4>2. /\ next \in SlotRecord /\ next.state = slots[s].state
              /\ next.request_id = slots[s].request_id
              /\ next.num_prompt_tokens = slots[s].num_prompt_tokens
          BY <1>0, <4>1, ZenonT(60) DEF SlotRecord
        <4>3. WellFormed(next)
          BY <1>0, <4>2, SameWorkWellFormed
        <4>4. QED BY <3>1, <4>3 DEF past
      <3>2. QED BY <1>0, <3>1
    <2>2. slots' = f /\ batch_outputs' = G /\ n_tokens' = Cardinality(G)
      BY <1>4 DEF BuildGenerating
    <2>3. Cardinality(G) \in Nat
      <3>1. IsFiniteSet(Slot)
        BY FS_Interval, SizeAssumption
      <3>2. IsFiniteSet(G)
        BY <3>1, FS_Subset
      <3>3. QED BY <3>2, FS_CardinalityType
    <2>4. SlotsTyped'
      BY <2>1, <2>2, UpdateAllType
    <2>5. 1 \in Slot
      BY SizeAssumption
    <2>6. QED
      BY <1>0, <1>4, <2>2, <2>3, <2>4, <2>5, TypeInvFrom DEF BuildGenerating, TypeInv,
         TypeOK, Pc, OutcomesTyped, BatchTyped
  <1>5. CASE BuildPrompt
    <2>1. cursor' \in Slot /\ pc' \in Pc
      BY <1>0, <1>5, NextSlotType DEF BuildPrompt, Pc
    <2>2. SlotsTyped' /\ OutcomesTyped' /\ n_tokens' \in Nat /\ batch_outputs' \subseteq Slot
      <3>1. CASE SkipSlot(slots[cursor])
        BY <1>0, <3>1 DEF SkipSlot, SlotsTyped, OutcomesTyped, BatchTyped, WellFormed,
           Active
      <3>2. CASE EnterMtp(cursor, slots[cursor])
        BY <1>0, <3>2, EnterMtpType
      <3>3. CASE EvaluateMedia(cursor, slots[cursor])
        BY <1>0, <3>3, ProcessMediaType DEF EvaluateMedia
      <3>4. CASE EvaluateText(cursor, slots[cursor])
        BY <1>0, <3>4, TakePromptTokensType DEF EvaluateText
      <3>5. QED BY <1>5, <3>1, <3>2, <3>3, <3>4 DEF BuildPrompt
    <2>3. QED
      BY <1>0, <1>5, <2>1, <2>2, TypeInvFrom DEF BuildPrompt, TypeInv, TypeOK, BatchTyped
  <1>6. CASE DecodeFails
    <2>1. n_batch' \in Nat
      BY <1>0, <1>6 DEF DecodeFails, BatchTyped
    <2>2. QED
      BY <1>0, <1>6, <2>1, TypeInvFrom DEF DecodeFails, TypeInv, TypeOK, Pc, SlotsTyped,
         OutcomesTyped, BatchTyped, WellFormed, Active
  <1>7. CASE AbortBatch
    <2> DEFINE f == [s \in Slot |-> IF s \in ActiveSlots
                                    THEN [slots[s] EXCEPT !.incomplete = TRUE]
                                    ELSE slots[s]]
    <2>1. ASSUME NEW s \in Slot PROVE WellFormed(f[s])
      <3> DEFINE next == [slots[s] EXCEPT !.incomplete = TRUE]
      <3>1. /\ next \in SlotRecord /\ next.state = slots[s].state
            /\ next.request_id = slots[s].request_id
            /\ next.num_prompt_tokens = slots[s].num_prompt_tokens
        BY <1>0, ZenonT(60) DEF SlotRecord
      <3>2. WellFormed(next)
        BY <1>0, <3>1, SameWorkWellFormed
      <3>3. QED BY <1>0, <3>2
    <2>2. f \in [Slot -> SlotRecord]
      BY <2>1 DEF WellFormed
    <2>3. CompleteAndRelease(ActiveSlots, f)
      BY <1>7 DEF AbortBatch
    <2>4. SlotsTyped' /\ OutcomesTyped'
      <3> HIDE DEF f
      <3>1. QED BY <1>0, <1>00, <2>1, <2>2, <2>3, CompleteAndReleaseType
    <2>5. Release(ActiveSlots \cup DoneSlots)
      BY <2>3 DEF CompleteAndRelease
    <2>6. /\ active_requests' \in [Request -> Slot \cup {NoSlot}]
          /\ released_before' \subseteq Slot \X Slot
      BY <1>0, <1>00, <2>5, ReleaseType
    <2>7. QED
      BY <1>0, <1>7, <2>4, <2>6, TypeInvFrom DEF AbortBatch, TypeInv, TypeOK, Pc,
         BatchTyped
  <1>8. CASE SaveCheckpoints
    <2> DEFINE due(s) == DueForCheckpoint(slots[s]) \/ MissedCheckpoint(slots[s])
               f == [s \in Slot |-> IF due(s)
                       THEN [slots[s] EXCEPT !.save_prompt_state_tokens = -1]
                       ELSE slots[s]]
    <2>1. ASSUME NEW s \in Slot PROVE WellFormed(f[s])
      <3> DEFINE next == [slots[s] EXCEPT !.save_prompt_state_tokens = -1]
      <3> HIDE DEF due
      <3>1. /\ next \in SlotRecord /\ next.state = slots[s].state
            /\ next.request_id = slots[s].request_id
            /\ next.num_prompt_tokens = slots[s].num_prompt_tokens
        BY <1>0, ZenonT(60) DEF SlotRecord
      <3>2. WellFormed(next)
        BY <1>0, <3>1, SameWorkWellFormed
      <3>3. QED BY <1>0, <3>2
    <2>2. slots' = f
      BY <1>8 DEF SaveCheckpoints
    <2>3. SlotsTyped'
      <3> HIDE DEF due
      <3>1. QED BY <2>1, <2>2, UpdateAllType
    <2>4. ASSUME NEW slot \in SlotRecord
          PROVE  [by |-> slot.request_id, n_past |-> slot.n_past,
                  tokens |-> slot.save_prompt_state_tokens]
                   \in [by : Request \cup {NoRequest}, n_past : Nat,
                        tokens : Nat \cup {-1}]
      BY DEF SlotRecord
    <2>5. prompt_files' \in [Request ->
            [by : Request \cup {NoRequest}, n_past : Nat, tokens : Nat \cup {-1}]]
      <3>0. PICK saved \in SUBSET {s \in Slot : DueForCheckpoint(slots[s])} :
              prompt_files' = [r \in Request |->
                IF \E s \in saved : Writes(slots[s], r)
                THEN LET slot == slots[CHOOSE s \in saved : Writes(slots[s], r)] IN
                     [by |-> slot.request_id, n_past |-> slot.n_past,
                      tokens |-> slot.save_prompt_state_tokens]
                ELSE prompt_files[r]]
        BY <1>8 DEF SaveCheckpoints
      <3> DEFINE last(r) == slots[CHOOSE s \in saved : Writes(slots[s], r)]
      <3>1. ASSUME NEW r \in Request, \E s \in saved : Writes(slots[s], r)
            PROVE  last(r) \in SlotRecord
        <4>1. (CHOOSE s \in saved : Writes(slots[s], r)) \in saved
          BY <3>1
        <4>2. (CHOOSE s \in saved : Writes(slots[s], r)) \in Slot
          BY <3>0, <4>1
        <4>3. QED BY <1>0, <4>2
      <3>2. prompt_files' = [r \in Request |->
              IF \E s \in saved : Writes(slots[s], r)
              THEN [by |-> last(r).request_id, n_past |-> last(r).n_past,
                    tokens |-> last(r).save_prompt_state_tokens]
              ELSE prompt_files[r]]
        BY <3>0
      <3>3. prompt_files \in [Request ->
              [by : Request \cup {NoRequest}, n_past : Nat, tokens : Nat \cup {-1}]]
        BY DEF TypeInv, TypeOK
      <3> HIDE DEF last
      <3>4. QED BY <2>4, <3>1, <3>2, <3>3
    <2>6. QED
      BY <1>0, <1>8, <2>3, <2>5, TypeInvFrom DEF SaveCheckpoints, TypeInv, TypeOK, Pc,
         OutcomesTyped, BatchTyped
  <1>9. CASE TerminalizeBeforeSampling
    <2> DEFINE f == [s \in Slot |-> IF s \in InterruptedSlots
                                    THEN complete_slot(slots[s]) ELSE slots[s]]
    <2>1. ASSUME NEW s \in Slot PROVE WellFormed(f[s])
      BY <1>0, CompleteWellFormed
    <2>2. slots' = f /\ AnswerAll(InterruptedSlots, slots)
      BY <1>9 DEF TerminalizeBeforeSampling
    <2>3. SlotsTyped'
      BY <2>1, <2>2, UpdateAllType
    <2>4. OutcomesTyped'
      BY <1>0, <1>00, <2>2, AnswerAllType
    <2>5. 1 \in Slot
      BY SizeAssumption
    <2>6. QED
      BY <1>0, <1>9, <2>3, <2>4, <2>5, TypeInvFrom DEF TerminalizeBeforeSampling, TypeInv,
         TypeOK, Pc, BatchTyped
  <1>10. CASE sample_and_callback
    <2>1. cursor' \in Slot /\ pc' \in Pc
      BY <1>0, <1>10, NextSlotType DEF sample_and_callback, Pc
    <2>2. SlotsTyped' /\ OutcomesTyped'
      <3>1. CASE SkipSample(slots[cursor])
        BY <1>0, <3>1 DEF SkipSample, SlotsTyped, OutcomesTyped, WellFormed, Active
      <3>2. CASE SampleCompletion(cursor, slots[cursor])
        BY <1>0, <3>2, SampleMtpType, SampleTokenType DEF SampleCompletion, Active
      <3>3. CASE SampleEmbedding(cursor, slots[cursor])
        BY <1>0, <3>3, DeliverResultType DEF SampleEmbedding, Active, WellFormed
      <3>4. CASE SampleRerank(cursor, slots[cursor])
        BY <1>0, <3>4, ScoreDocumentType DEF SampleRerank, Active
      <3>5. QED BY <1>10, <3>1, <3>2, <3>3, <3>4 DEF sample_and_callback
    <2>3. batch_outputs' = batch_outputs \/ batch_outputs' = {}
      <3>1. CASE SampleMtp(cursor, slots[cursor])
        BY <3>1 DEF SampleMtp
      <3>2. QED
        BY <1>10, <3>1 DEF sample_and_callback, SkipSample, SampleCompletion,
           SampleEmbedding, SampleRerank
    <2>4. QED
      BY <1>0, <1>10, <2>1, <2>2, <2>3, TypeInvFrom DEF sample_and_callback, TypeInv,
         TypeOK, BatchTyped
  <1>11. CASE release_completed_slots
    <2> DEFINE f == [s \in Slot |-> IF s \in DoneSlots THEN reset ELSE slots[s]]
    <2>1. \A s \in Slot : WellFormed(f[s])
      BY <1>0, ResetWellFormed
    <2>2. slots' = f /\ Release(DoneSlots)
      BY <1>11 DEF release_completed_slots
    <2>3. SlotsTyped'
      BY <2>1, <2>2, UpdateAllType
    <2>4. /\ active_requests' \in [Request -> Slot \cup {NoSlot}]
          /\ released_before' \subseteq Slot \X Slot
      BY <1>0, <1>00, <2>2, ReleaseType
    <2>5. QED
      BY <1>0, <1>11, <2>3, <2>4, TypeInvFrom DEF release_completed_slots, TypeInv,
         TypeOK, Pc, OutcomesTyped, BatchTyped
  <1>12. QED
    BY <1>1, <1>2, <1>3, <1>4, <1>5, <1>6, <1>7, <1>8, <1>9, <1>10, <1>11 DEF Update

\* The loop around update_slots moves nothing but pc.
LEMMA TypeLoop ==
  ASSUME TypeInv, LoopTop \/ CheckWork \/ FallAsleep \/ SpuriousWakeup \/ Reevaluate
  PROVE  TypeInv'
  BY TypeInvParts, TypeInvFrom DEF LoopTop, CheckWork, FallAsleep, SpuriousWakeup,
     Reevaluate, workerLocals, batchVars, clientVars, TypeInv, TypeOK, Pc, SlotsTyped,
     OutcomesTyped, BatchTyped, WellFormed, Active

LEMMA TypeStep == TypeInv /\ [Next]_vars => TypeInv'
  <1> SUFFICES ASSUME TypeInv, [Next]_vars PROVE TypeInv'
    OBVIOUS
  <1>1. CASE Next
    BY <1>1, TypeClient, TypeUpdate, TypeLoop DEF Next, Worker
  <1>2. CASE UNCHANGED vars
    BY <1>2 DEF vars, TypeInv, TypeOK, WellFormed, Active
  <1>3. QED BY <1>1, <1>2

\* Every field of every slot, and every other variable, keeps its type: no token count
\* becomes negative and the loops over the slots stay within them.
THEOREM TypeCorrect == Spec => []TypeOK
  <1>1. TypeInv => TypeOK
    BY DEF TypeInv
  <1>2. QED BY TypeInit, TypeStep, <1>1, PTL DEF Spec

-----------------------------------------------------------------------------
(* The inductive invariant                                                 *)

\* A prompt under evaluation has generated nothing and has a token left.
PromptAhead(slot) ==
  slot.state = "PROCESSING_PROMPT" =>
    slot.n_decoded = 0 /\ slot.n_past < slot.num_prompt_tokens

\* A pending checkpoint has a file, and until a token is generated the position of the
\* sequence memory has not passed it.
CheckpointAhead(slot) ==
  slot.save_prompt_state_tokens # -1 =>
    /\ slot.save_prompt_state_path # NoRequest
    /\ slot.n_decoded = 0 => /\ slot.n_past <= slot.save_prompt_state_tokens
                             /\ slot.save_prompt_state_tokens <= slot.num_prompt_tokens

\* A slot that has started to speculate saves no prompt.
SpecSavesNothing(slot) == slot.spec => slot.save_prompt_state_path = NoRequest

ContextKept(slot) ==
  Active(slot) => slot.n_past <= Greatest(NCtx, slot.num_prompt_tokens)

\* What is left of a positive n_predict plus what has been delivered is n_predict.
Budget(slot) ==
  IF NPredict[slot.request_id] > 0
  THEN /\ slot.n_remaining >= 1
       /\ slot.n_decoded + slot.n_remaining = NPredict[slot.request_id]
  ELSE slot.n_remaining <= 0

\* The accepted draft tokens that wait for delivery, and `extra` ones, fit into it.
PendingFits(slot, extra) ==
  IF UsesMtp(slot)
  THEN NPredict[slot.request_id] > 0 =>
         slot.spec_pending_tokens + extra <= slot.n_remaining
  ELSE slot.spec_pending_tokens = 0

BudgetKept(slot) ==
  Active(slot) => IF IsCompletion(slot) THEN Budget(slot) /\ PendingFits(slot, 0)
                                        ELSE slot.n_decoded = 0

SlotKept(slot) ==
  /\ PromptAhead(slot) /\ CheckpointAhead(slot) /\ SpecSavesNothing(slot)
  /\ ContextKept(slot) /\ BudgetKept(slot)

\* What a slot that is not busy hands to its next request.
Fresh(slot) ==
  /\ slot.n_decoded = 0 /\ slot.spec_pending_tokens = 0
  /\ slot.save_prompt_state_tokens = -1 /\ ~slot.spec

\* An idle slot is fresh, and so is one that a failed load left DONE; the slots that are
\* DONE between build_batch and their release are not.
FreshKept(s) ==
  slots[s].state = "IDLE" \/ (slots[s].state = "DONE" /\ pc \notin Finishing)
    => Fresh(slots[s])

\* From build_batch until slot s has been sampled.
InFlight(s) ==
  \/ pc \in {"build", "step4", "abort", "step46", "step5"}
  \/ pc = "sample" /\ s >= cursor

\* An MTP slot before the cursor, which has decoded on the context for itself.
MtpBefore == \E t \in Slot : t < cursor /\ slots[t].spec

\* A slot in flight that generates has tokens in the batch, or logits from its media,
\* or decodes by itself; or an MTP slot sampled before it has replaced the outputs.
HasLogits(s) ==
  slots[s].state = "GENERATING" =>
    \/ UsesMtp(slots[s]) \/ s \in batch_outputs \/ slots[s].media = "pending_token"
    \/ pc = "sample" /\ MtpBefore

\* Between two batches a generating slot has a token that is not in memory yet.
HasNextToken(slot) ==
  slot.state = "GENERATING" =>
    /\ IsCompletion(slot) /\ slot.n_decoded > 0
    /\ UsesMtp(slot) \/ slot.n_past < NCtx

FlightKept(s) == IF InFlight(s) THEN HasLogits(s) ELSE HasNextToken(slots[s])

OutcomesKept ==
  \A r \in Request : NPredict[r] > 0 =>
    \A i \in DOMAIN outcomes[r] : outcomes[r][i].n_decoded <= NPredict[r]

BatchInv ==
  /\ n_batch <= NBatch /\ BatchBounded
  /\ \A s \in Slot : SlotKept(slots[s]) /\ FreshKept(s) /\ FlightKept(s)
  /\ OutcomesKept /\ PromptFilesExact
-----------------------------------------------------------------------------
(* Lemmas about the operators on one slot                                  *)

\* What the record handed to a callback must satisfy.
WithinBudget(slot) ==
  slot.request_id \in Request /\ NPredict[slot.request_id] > 0 =>
    slot.n_decoded <= NPredict[slot.request_id]

\* A slot may end in any state that has its checkpoint ahead and its budget kept.
MayEnd(slot) ==
  /\ slot \in SlotRecord
  /\ CheckpointAhead(slot) /\ SpecSavesNothing(slot) /\ WithinBudget(slot)

LEMMA KeptMayEnd ==
  ASSUME NEW slot, WellFormed(slot), Active(slot), SlotKept(slot)
  PROVE  MayEnd(slot)
  <1>1. slot \in SlotRecord /\ slot.request_id \in Request
    BY DEF WellFormed
  <1>2. /\ NPredict[slot.request_id] \in Int
        /\ slot.n_decoded \in Nat /\ slot.n_remaining \in Int
    BY <1>1, TaskAssumption DEF SlotRecord
  <1>3. WithinBudget(slot)
    BY <1>1, <1>2 DEF WithinBudget, SlotKept, BudgetKept, Budget
  <1>4. QED BY <1>1, <1>3 DEF MayEnd, SlotKept

\* An idle slot as reset() leaves it.
LEMMA ResetKept == SlotKept(reset) /\ Fresh(reset) /\ MayEnd(reset)
  BY ResetWellFormed, RequestAssumption DEF reset, SlotKept, PromptAhead,
     CheckpointAhead, SpecSavesNothing, ContextKept, BudgetKept, Fresh, MayEnd, Active,
     WithinBudget, WellFormed

\* complete_slot() leaves a slot that promises only what concerns its checkpoint.
LEMMA CompleteKept ==
  ASSUME NEW slot, MayEnd(slot)
  PROVE  SlotKept(complete_slot(slot)) /\ complete_slot(slot).state = "DONE"
  <1> DEFINE done == complete_slot(slot)
  <1>1. slot \in SlotRecord
    BY DEF MayEnd
  <1>2. /\ done.state = "DONE" /\ done.n_past = slot.n_past
        /\ done.save_prompt_state_tokens = slot.save_prompt_state_tokens
        /\ done.save_prompt_state_path = slot.save_prompt_state_path
        /\ done.num_prompt_tokens = slot.num_prompt_tokens
        /\ done.n_decoded = slot.n_decoded /\ done.spec = slot.spec
    BY <1>1 DEF complete_slot, SlotRecord
  <1> HIDE DEF done
  <1>3. SlotKept(done)
    BY <1>2 DEF MayEnd, SlotKept, PromptAhead, CheckpointAhead, SpecSavesNothing,
       ContextKept, BudgetKept, Active
  <1>4. QED BY <1>2, <1>3 DEF done

\* Counting a token keeps everything as long as the budget is not used up, and even
\* then the slot may end.
LEMMA CountTokenKept ==
  ASSUME NEW slot, WellFormed(slot), slot.state = "GENERATING", IsCompletion(slot),
         CheckpointAhead(slot), SpecSavesNothing(slot), ContextKept(slot),
         Budget(slot), PendingFits(slot, 1)
  PROVE  /\ MayEnd(CountToken(slot))
         /\ ~ReachesLimit(slot) => SlotKept(CountToken(slot))
         /\ CountToken(slot).n_decoded > 0 /\ IsCompletion(CountToken(slot))
         /\ UsesMtp(CountToken(slot)) <=> UsesMtp(slot)
         /\ CountToken(slot).n_past = slot.n_past
         /\ CountToken(slot).state = "GENERATING"
  <1> DEFINE next == CountToken(slot)
             left == IF slot.n_remaining > 0 THEN slot.n_remaining - 1
                                             ELSE slot.n_remaining
             r == slot.request_id
  <1>1. slot \in SlotRecord /\ r \in Request
    BY DEF WellFormed, Active
  <1>2. /\ slot.n_decoded \in Nat /\ slot.n_remaining \in Int /\ NPredict[r] \in Int
        /\ slot.spec_pending_tokens \in Nat
    BY <1>1, TaskAssumption DEF SlotRecord
  <1>3. left \in Int /\ slot.n_decoded + 1 \in Nat /\ slot.n_decoded + 1 > 0
    BY <1>2
  <1>4. next = [slot EXCEPT !.n_decoded = slot.n_decoded + 1, !.n_remaining = left]
    BY DEF CountToken
  <1>5. next \in SlotRecord
    BY CountTokenWellFormed DEF WellFormed
  <1> HIDE DEF next, left
  <1>6. /\ next.state = "GENERATING" /\ next.n_past = slot.n_past
        /\ next.request_id = r
        /\ next.save_prompt_state_tokens = slot.save_prompt_state_tokens
        /\ next.save_prompt_state_path = slot.save_prompt_state_path
        /\ next.num_prompt_tokens = slot.num_prompt_tokens
        /\ next.n_decoded = slot.n_decoded + 1 /\ next.spec = slot.spec
        /\ next.n_remaining = left
        /\ next.spec_pending_tokens = slot.spec_pending_tokens
    BY <1>1, <1>4 DEF SlotRecord
  <1>7. CheckpointAhead(next) /\ SpecSavesNothing(next) /\ PromptAhead(next)
    BY <1>3, <1>6, <1>2 DEF CheckpointAhead, SpecSavesNothing, PromptAhead
  <1>8. WithinBudget(next)
    BY <1>2, <1>6 DEF WithinBudget, Budget
  <1>9. IsCompletion(next) /\ (UsesMtp(next) <=> UsesMtp(slot))
    BY <1>6 DEF IsCompletion, UsesMtp
  <1>10. ASSUME ~ReachesLimit(slot) PROVE Budget(next) /\ PendingFits(next, 0)
    BY <1>2, <1>6, <1>9, <1>10 DEF Budget, PendingFits, left, ReachesLimit
  <1>11. ContextKept(next)
    BY <1>6 DEF ContextKept, Active
  <1>12. QED
    BY <1>3, <1>5, <1>6, <1>7, <1>8, <1>9, <1>10, <1>11 DEF MayEnd, SlotKept, BudgetKept, next

\* next_token_mtp() begins by placing the slot one token short of its prompt.
LEMMA InitMtpKept ==
  ASSUME NEW slot, WellFormed(slot), slot.state = "GENERATING", IsCompletion(slot),
         SlotKept(slot), UsesMtp(slot), MtpSupported(slot)
  PROVE  /\ WellFormed(InitMtp(slot)) /\ SlotKept(InitMtp(slot))
         /\ InitMtp(slot).state = "GENERATING" /\ IsCompletion(InitMtp(slot))
         /\ UsesMtp(InitMtp(slot))
         /\ InitMtp(slot).spec_pending_tokens = slot.spec_pending_tokens
         /\ InitMtp(slot).save_prompt_state_tokens = -1
         /\ InitMtp(slot).save_prompt_state_path = NoRequest
  <1> DEFINE next == InitMtp(slot)
             r == slot.request_id
  <1>1. slot \in SlotRecord /\ r \in Request /\ slot.num_prompt_tokens = PromptLen[r]
    BY DEF WellFormed, Active
  <1>2. slot.num_prompt_tokens \in Nat /\ slot.num_prompt_tokens > 0 /\ NCtx \in Nat
    BY <1>1, TaskAssumption, SizeAssumption
  <1>3. slot.save_prompt_state_path = NoRequest /\ slot.save_prompt_state_tokens = -1
    BY DEF MtpSupported, SlotKept, SpecSavesNothing, CheckpointAhead
  <1>4. CASE slot.spec
    BY <1>3, <1>4 DEF InitMtp
  <1>5. CASE ~slot.spec
    <2> DEFINE past == slot.num_prompt_tokens - 1
    <2>1. past \in Nat /\ past <= slot.num_prompt_tokens
      BY <1>2
    <2>2. next = [slot EXCEPT !.spec = TRUE, !.n_past = past]
      BY <1>5 DEF InitMtp
    <2> HIDE DEF next, past
    <2>3. next \in SlotRecord
      BY <1>1, <2>1, <2>2 DEF SlotRecord
    <2>4. /\ next.state = "GENERATING" /\ next.n_past = past
          /\ next.request_id = r
          /\ next.save_prompt_state_tokens = -1
          /\ next.save_prompt_state_path = NoRequest
          /\ next.num_prompt_tokens = slot.num_prompt_tokens
          /\ next.n_decoded = slot.n_decoded
          /\ next.n_remaining = slot.n_remaining
          /\ next.spec_pending_tokens = slot.spec_pending_tokens
      BY <1>1, <1>3, <2>2 DEF SlotRecord
    <2>5. WellFormed(next)
      BY <1>1, <2>3, <2>4 DEF WellFormed
    <2>6. PromptAhead(next) /\ CheckpointAhead(next) /\ SpecSavesNothing(next)
      BY <2>4 DEF PromptAhead, CheckpointAhead, SpecSavesNothing
    <2>7. ContextKept(next)
      BY <1>2, <2>1, <2>4 DEF ContextKept, Greatest
    <2>8. BudgetKept(next)
      BY <2>4 DEF BudgetKept, SlotKept, Budget, PendingFits, IsCompletion, UsesMtp, Active
    <2>9. QED
      BY <2>4, <2>5, <2>6, <2>7, <2>8 DEF SlotKept, IsCompletion, UsesMtp, next
  <1>6. QED BY <1>4, <1>5

\* The draft and the model's own token fit into what is left of the context and of the
\* budget.
LEMMA RefillKept ==
  ASSUME NEW slot, WellFormed(slot), slot.state = "GENERATING", IsCompletion(slot),
         SlotKept(slot), UsesMtp(slot), ~CannotRefill(slot),
         slot.save_prompt_state_tokens = -1, slot.save_prompt_state_path = NoRequest,
         NEW accepted \in 1..(DraftLimit(slot) + 1), NEW eos \in BOOLEAN
  PROVE  /\ WellFormed(Refill(slot, accepted, eos))
         /\ SlotKept(Refill(slot, accepted, eos))
         /\ Refill(slot, accepted, eos).state = "GENERATING"
         /\ IsCompletion(Refill(slot, accepted, eos))
         /\ UsesMtp(Refill(slot, accepted, eos))
         /\ Refill(slot, accepted, eos).save_prompt_state_tokens = -1
  <1> DEFINE next == Refill(slot, accepted, eos)
             r == slot.request_id
             pending == IF eos THEN accepted - 1 ELSE accepted
             past == slot.n_past + accepted
  <1>1. slot \in SlotRecord /\ r \in Request /\ slot.num_prompt_tokens = PromptLen[r]
    BY DEF WellFormed, Active
  <1>2. /\ slot.n_past \in Nat /\ slot.n_remaining \in Int /\ slot.n_decoded \in Nat
        /\ NCtx \in Nat /\ MaxDraft \in Nat /\ NPredict[r] \in Int
        /\ slot.num_prompt_tokens \in Nat
    BY <1>1, TaskAssumption, SizeAssumption DEF SlotRecord
  <1>3. slot.n_past + 1 < NCtx /\ slot.n_remaining # 0
    BY <1>2 DEF CannotRefill
  <1>4. /\ DraftLimit(slot) \in Nat /\ DraftLimit(slot) + 1 <= NCtx - slot.n_past
        /\ slot.n_remaining >= 1 => DraftLimit(slot) + 1 <= slot.n_remaining
    BY <1>2, <1>3 DEF DraftLimit, Greatest, Least
  <1>5. /\ accepted \in Nat /\ pending \in Nat /\ past \in Nat /\ past <= NCtx
        /\ pending <= accepted
        /\ slot.n_remaining >= 1 => pending <= slot.n_remaining
    BY <1>2, <1>4
  <1>6. next = [slot EXCEPT !.n_past = past, !.stopped_eos = eos,
                  !.spec_pending_tokens = pending]
    BY DEF Refill
  <1> HIDE DEF next, pending, past
  <1>7. next \in SlotRecord
    BY <1>1, <1>5, <1>6 DEF SlotRecord
  <1>8. /\ next.state = "GENERATING" /\ next.n_past = past /\ next.request_id = r
        /\ next.save_prompt_state_tokens = -1
        /\ next.save_prompt_state_path = NoRequest
        /\ next.num_prompt_tokens = slot.num_prompt_tokens
        /\ next.n_decoded = slot.n_decoded
        /\ next.n_remaining = slot.n_remaining
        /\ next.spec_pending_tokens = pending
    BY <1>1, <1>6 DEF SlotRecord
  <1>9. WellFormed(next)
    BY <1>1, <1>7, <1>8 DEF WellFormed
  <1>10. PromptAhead(next) /\ CheckpointAhead(next) /\ SpecSavesNothing(next)
    BY <1>8 DEF PromptAhead, CheckpointAhead, SpecSavesNothing
  <1>11. ContextKept(next)
    BY <1>2, <1>5, <1>8 DEF ContextKept, Greatest
  <1>12. BudgetKept(next)
    <2>1. Budget(slot)
      BY DEF SlotKept, BudgetKept, Active
    <2>2. Budget(next) /\ IsCompletion(next) /\ UsesMtp(next)
      BY <1>8, <2>1 DEF Budget, IsCompletion, UsesMtp
    <2>3. PendingFits(next, 0)
      BY <1>2, <1>5, <1>8, <2>2 DEF PendingFits, Budget
    <2>4. QED BY <2>2, <2>3 DEF BudgetKept
  <1>13. QED
    BY <1>8, <1>9, <1>10, <1>11, <1>12 DEF SlotKept, IsCompletion, UsesMtp, next

-----------------------------------------------------------------------------
(* Lemmas about answering                                                  *)

LEMMA AnswerKept ==
  ASSUME OutcomesTyped, OutcomesKept, NEW r \in Request, NEW slot \in SlotRecord,
         NPredict[r] > 0 => slot.n_decoded <= NPredict[r], Answer(r, slot)
  PROVE  OutcomesKept'
  <1>1. OutcomeOf(slot).n_decoded = slot.n_decoded
    BY DEF OutcomeOf
  <1>2. \A q \in Request :
          outcomes'[q] = IF q = r THEN Append(outcomes[r], OutcomeOf(slot))
                         ELSE outcomes[q]
    BY DEF Answer, OutcomesTyped
  <1>3. outcomes[r] \in Seq(OutcomeRecord)
    BY DEF OutcomesTyped
  <1>4. \A i \in DOMAIN Append(outcomes[r], OutcomeOf(slot)) :
          \/ i \in DOMAIN outcomes[r]
             /\ Append(outcomes[r], OutcomeOf(slot))[i] = outcomes[r][i]
          \/ Append(outcomes[r], OutcomeOf(slot))[i] = OutcomeOf(slot)
    BY <1>3
  <1>5. QED BY <1>1, <1>2, <1>4 DEF OutcomesKept

LEMMA AnswerAllKept ==
  ASSUME OutcomesTyped, OutcomesKept, NEW D \in SUBSET Slot, NEW f,
         \A s \in D : WithinBudget(f[s]), AnswerAll(D, f)
  PROVE  OutcomesKept'
  <1> SUFFICES ASSUME NEW r \in Request, NPredict[r] > 0, NEW i \in DOMAIN outcomes'[r]
               PROVE  outcomes'[r][i].n_decoded <= NPredict[r]
    BY DEF OutcomesKept
  <1>1. CASE \E s \in D : CallsBack(f[s], r)
    <2> DEFINE slot == f[CHOOSE s \in D : CallsBack(f[s], r)]
               o == OutcomeOf(slot)
    <2>1. CallsBack(slot, r) /\ WithinBudget(slot)
      BY <1>1
    <2>2. o.n_decoded <= NPredict[r]
      BY <2>1 DEF CallsBack, WithinBudget, OutcomeOf
    <2>3. outcomes'[r] = Append(outcomes[r], o)
      BY <1>1 DEF AnswerAll
    <2> HIDE DEF slot, o
    <2>4. outcomes[r] \in Seq(OutcomeRecord)
      BY DEF OutcomesTyped
    <2>5. \/ i \in DOMAIN outcomes[r] /\ outcomes'[r][i] = outcomes[r][i]
          \/ outcomes'[r][i] = o
      BY <2>3, <2>4
    <2>6. QED BY <2>2, <2>5 DEF OutcomesKept
  <1>2. CASE ~\E s \in D : CallsBack(f[s], r)
    BY <1>2 DEF AnswerAll, OutcomesKept
  <1>3. QED BY <1>1, <1>2

\* A slot that may end ends in a slot that is kept.
LEMMA CompleteOneKept ==
  ASSUME SlotsTyped, OutcomesTyped, OutcomesKept, NEW s \in Slot, NEW slot, MayEnd(slot),
         CompleteOne(s, slot)
  PROVE  /\ slots' = [slots EXCEPT ![s] = complete_slot(slot)]
         /\ SlotKept(complete_slot(slot)) /\ complete_slot(slot).state = "DONE"
         /\ OutcomesKept'
  <1> DEFINE f == [slots EXCEPT ![s] = slot]
  <1>1. f[s] = slot /\ {s} \in SUBSET Slot /\ WithinBudget(slot)
    BY DEF SlotsTyped, MayEnd
  <1>2. OutcomesKept'
    <2>1. AnswerAll({s}, f)
      BY DEF CompleteOne
    <2> HIDE DEF f
    <2>2. \A t \in {s} : WithinBudget(f[t])
      BY <1>1
    <2>3. QED BY <1>1, <2>1, <2>2, AnswerAllKept
  <1>3. QED BY <1>2, CompleteKept DEF CompleteOne

-----------------------------------------------------------------------------
(* build_batch on one slot                                                 *)

\* Slot s leaves build_batch kept; if it generates, it has something to sample from.
BuildsTo(s) ==
  /\ \E next :
       /\ SlotKept(next) /\ slots' = [slots EXCEPT ![s] = next] /\ next.state # "IDLE"
       /\ next.state = "GENERATING" =>
            UsesMtp(next) \/ s \in batch_outputs' \/ next.media = "pending_token"
  /\ batch_outputs \subseteq batch_outputs' /\ BatchBounded' /\ OutcomesKept'

BatchRoom == BatchTyped /\ n_batch <= NBatch /\ BatchBounded

\* The prompt loop stops at a checkpoint that is still ahead, and takes a token of
\* every prompt it finishes.
LEMMA TokensTakenKept ==
  ASSUME BatchRoom, NEW slot \in SlotRecord, slot.n_past < slot.num_prompt_tokens,
         slot.save_prompt_state_tokens # -1 =>
           slot.n_past <= slot.save_prompt_state_tokens
  PROVE  /\ PromptTokensTaken(slot) \in Nat
         /\ n_tokens + PromptTokensTaken(slot) <= Greatest(NBatch, NSlots)
         /\ slot.n_past + PromptTokensTaken(slot) <= slot.num_prompt_tokens
         /\ slot.save_prompt_state_tokens # -1 =>
              slot.n_past + PromptTokensTaken(slot) <= slot.save_prompt_state_tokens
         /\ slot.n_past + PromptTokensTaken(slot) >= slot.num_prompt_tokens =>
              PromptTokensTaken(slot) > 0
  <1>1. /\ slot.n_past \in Nat /\ slot.num_prompt_tokens \in Nat
        /\ slot.save_prompt_state_tokens \in Int
    BY DEF SlotRecord
  <1>2. n_batch \in Nat /\ n_tokens \in Nat /\ NBatch \in Nat /\ NSlots \in Nat
    BY SizeAssumption DEF BatchRoom, BatchTyped
  <1>3. Room \in Nat /\ n_tokens + Room <= Greatest(NBatch, NSlots)
    BY <1>2 DEF Room, BatchRoom, BatchBounded, Greatest
  <1>4. /\ PromptEnd(slot) \in Int /\ PromptEnd(slot) <= slot.num_prompt_tokens
        /\ slot.save_prompt_state_tokens # -1 =>
             PromptEnd(slot) <= slot.save_prompt_state_tokens
    BY <1>1 DEF PromptEnd, Least
  <1>5. Greatest(NBatch, NSlots) \in Nat
    BY <1>2 DEF Greatest
  <1>6. QED BY <1>1, <1>2, <1>3, <1>4, <1>5 DEF PromptTokensTaken, Least

LEMMA TakePromptTokensBuilds ==
  ASSUME BatchRoom, OutcomesKept, NEW s \in Slot, NEW slot, WellFormed(slot),
         slot.state = "PROCESSING_PROMPT", SlotKept(slot), TakePromptTokens(s, slot)
  PROVE  BuildsTo(s)
  <1> DEFINE taken == PromptTokensTaken(slot)
             past == slot.n_past + taken
             state == IF past >= slot.num_prompt_tokens THEN "GENERATING" ELSE slot.state
             next == [slot EXCEPT !.n_past = past, !.state = state]
  <1>1. slot \in SlotRecord /\ slot.n_decoded = 0 /\ slot.n_past < slot.num_prompt_tokens
    BY DEF WellFormed, SlotKept, PromptAhead
  <1>2. /\ slot.n_past \in Nat /\ slot.num_prompt_tokens \in Nat
        /\ slot.save_prompt_state_tokens \in Int /\ NCtx \in Nat
    BY <1>1, SizeAssumption DEF SlotRecord
  <1>3. slot.save_prompt_state_tokens # -1 =>
          /\ slot.save_prompt_state_path # NoRequest
          /\ slot.n_past <= slot.save_prompt_state_tokens
          /\ slot.save_prompt_state_tokens <= slot.num_prompt_tokens
    BY <1>1 DEF SlotKept, CheckpointAhead
  <1>4. /\ taken \in Nat /\ n_tokens + taken <= Greatest(NBatch, NSlots)
        /\ past <= slot.num_prompt_tokens
        /\ slot.save_prompt_state_tokens # -1 => past <= slot.save_prompt_state_tokens
        /\ past >= slot.num_prompt_tokens => taken > 0
    BY <1>1, <1>2, <1>3, TokensTakenKept
  <1>5. /\ slots' = [slots EXCEPT ![s] = next] /\ n_tokens' = n_tokens + taken
        /\ batch_outputs' = IF taken > 0 THEN batch_outputs \cup {s} ELSE batch_outputs
        /\ UNCHANGED outcomes
    BY DEF TakePromptTokens
  <1>6. /\ past \in Nat /\ state \in {"PROCESSING_PROMPT", "GENERATING"}
        /\ state = "GENERATING" <=> past >= slot.num_prompt_tokens
    BY <1>2, <1>4
  <1> HIDE DEF taken, past, state
  <1>7. /\ next.state = state /\ next.n_past = past
        /\ next.request_id = slot.request_id
        /\ next.save_prompt_state_tokens = slot.save_prompt_state_tokens
        /\ next.save_prompt_state_path = slot.save_prompt_state_path
        /\ next.num_prompt_tokens = slot.num_prompt_tokens
        /\ next.n_decoded = 0 /\ next.spec = slot.spec
        /\ next.n_remaining = slot.n_remaining
        /\ next.spec_pending_tokens = slot.spec_pending_tokens
    BY <1>1 DEF SlotRecord
  <1> HIDE DEF next
  <1>8. PromptAhead(next)
    BY <1>2, <1>6, <1>7 DEF PromptAhead
  <1>9. CheckpointAhead(next) /\ SpecSavesNothing(next)
    BY <1>3, <1>4, <1>7 DEF CheckpointAhead, SpecSavesNothing, SlotKept
  <1>10. ContextKept(next)
    BY <1>2, <1>4, <1>6, <1>7 DEF ContextKept, Greatest
  <1>11. BudgetKept(next)
    BY <1>1, <1>7 DEF BudgetKept, SlotKept, Budget, PendingFits, IsCompletion, UsesMtp,
       Active
  <1>12. next.state = "GENERATING" => s \in batch_outputs'
    BY <1>4, <1>5, <1>6, <1>7
  <1>13. batch_outputs \subseteq batch_outputs' /\ BatchBounded' /\ OutcomesKept'
    BY <1>4, <1>5 DEF OutcomesKept, BatchBounded
  <1>14. QED
    BY <1>5, <1>6, <1>7, <1>8, <1>9, <1>10, <1>11, <1>12, <1>13 DEF BuildsTo, SlotKept

LEMMA CompleteOneBuilds ==
  ASSUME SlotsTyped, OutcomesTyped, OutcomesKept, BatchRoom, NEW s \in Slot, NEW slot,
         MayEnd(slot), CompleteOne(s, slot), UNCHANGED <<n_tokens, batch_outputs>>
  PROVE  BuildsTo(s)
  BY CompleteOneKept DEF BuildsTo, BatchRoom, BatchBounded

\* Marking a slot as failed changes nothing it has to keep.
LEMMA FailedMayEnd ==
  ASSUME NEW slot, MayEnd(slot), NEW e \in Request \cup {NoRequest}
  PROVE  /\ MayEnd([slot EXCEPT !.incomplete = TRUE])
         /\ MayEnd([slot EXCEPT !.incomplete = TRUE, !.error_of = e])
  <1>1. slot \in SlotRecord
    BY DEF MayEnd
  <1>2. ASSUME NEW next \in SlotRecord, next.request_id = slot.request_id,
               next.n_past = slot.n_past, next.n_decoded = slot.n_decoded,
               next.save_prompt_state_tokens = slot.save_prompt_state_tokens,
               next.save_prompt_state_path = slot.save_prompt_state_path,
               next.num_prompt_tokens = slot.num_prompt_tokens, next.spec = slot.spec
        PROVE  MayEnd(next)
    BY <1>2 DEF MayEnd, CheckpointAhead, SpecSavesNothing, WithinBudget
  <1>3. MayEnd([slot EXCEPT !.incomplete = TRUE])
    <2> DEFINE next == [slot EXCEPT !.incomplete = TRUE]
    <2>1. /\ next \in SlotRecord /\ next.request_id = slot.request_id
          /\ next.n_past = slot.n_past /\ next.n_decoded = slot.n_decoded
          /\ next.save_prompt_state_tokens = slot.save_prompt_state_tokens
          /\ next.save_prompt_state_path = slot.save_prompt_state_path
          /\ next.num_prompt_tokens = slot.num_prompt_tokens /\ next.spec = slot.spec
      BY <1>1 DEF SlotRecord
    <2> HIDE DEF next
    <2>2. QED BY <1>2, <2>1 DEF next
  <1>4. MayEnd([slot EXCEPT !.incomplete = TRUE, !.error_of = e])
    <2> DEFINE next == [slot EXCEPT !.incomplete = TRUE, !.error_of = e]
    <2>1. /\ next \in SlotRecord /\ next.request_id = slot.request_id
          /\ next.n_past = slot.n_past /\ next.n_decoded = slot.n_decoded
          /\ next.save_prompt_state_tokens = slot.save_prompt_state_tokens
          /\ next.save_prompt_state_path = slot.save_prompt_state_path
          /\ next.num_prompt_tokens = slot.num_prompt_tokens /\ next.spec = slot.spec
      BY <1>1 DEF SlotRecord
    <2> HIDE DEF next
    <2>2. QED BY <1>2, <2>1 DEF next
  <1>5. QED BY <1>3, <1>4

LEMMA ProcessMediaBuilds ==
  ASSUME SlotsTyped, OutcomesTyped, OutcomesKept, BatchRoom, NEW s \in Slot, NEW slot,
         WellFormed(slot), slot.state = "PROCESSING_PROMPT", SlotKept(slot),
         ProcessMedia(s, slot)
  PROVE  BuildsTo(s)
  <1>1. slot \in SlotRecord /\ slot.n_decoded = 0 /\ Active(slot) /\ MayEnd(slot)
    BY KeptMayEnd DEF WellFormed, SlotKept, PromptAhead, Active
  <1>2. slot.num_prompt_tokens \in Nat /\ NCtx \in Nat
    BY <1>1, SizeAssumption DEF SlotRecord
  <1>3. \A target \in MovedCheckpoint(slot) :
          /\ target \in Nat \cup {-1}
          /\ target # -1 => target = slot.num_prompt_tokens
                            /\ slot.save_prompt_state_tokens # -1
    BY <1>2 DEF MovedCheckpoint
  <1>4. CASE /\ CompleteOne(s, slot)
             /\ UNCHANGED <<n_tokens, batch_outputs>>
    BY <1>1, <1>4, CompleteOneBuilds
  <1>5. CASE /\ CompleteOne(s, [slot EXCEPT !.incomplete = TRUE])
             /\ UNCHANGED <<n_tokens, batch_outputs>>
    BY <1>1, <1>5, FailedMayEnd, CompleteOneBuilds
  <1>6. ASSUME NEW target \in MovedCheckpoint(slot),
               slots' = [slots EXCEPT ![s] =
                 [slot EXCEPT !.state = "GENERATING", !.n_past = slot.num_prompt_tokens,
                              !.media = "pending_token",
                              !.save_prompt_state_tokens = target]],
               UNCHANGED <<n_tokens, batch_outputs, outcomes>>
        PROVE  BuildsTo(s)
    <2> DEFINE next == [slot EXCEPT !.state = "GENERATING",
                          !.n_past = slot.num_prompt_tokens, !.media = "pending_token",
                          !.save_prompt_state_tokens = target]
    <2>1. /\ next.state = "GENERATING" /\ next.n_past = slot.num_prompt_tokens
          /\ next.media = "pending_token" /\ next.request_id = slot.request_id
          /\ next.save_prompt_state_tokens = target
          /\ next.save_prompt_state_path = slot.save_prompt_state_path
          /\ next.num_prompt_tokens = slot.num_prompt_tokens
          /\ next.n_decoded = 0 /\ next.spec = slot.spec
          /\ next.n_remaining = slot.n_remaining
          /\ next.spec_pending_tokens = slot.spec_pending_tokens
      BY <1>1 DEF SlotRecord
    <2>2. slots' = [slots EXCEPT ![s] = next]
      BY <1>6
    <2> HIDE DEF next
    <2>3. PromptAhead(next) /\ SpecSavesNothing(next)
      BY <2>1 DEF PromptAhead, SpecSavesNothing, SlotKept
    <2>4. CheckpointAhead(next)
      BY <1>2, <1>3, <2>1 DEF CheckpointAhead, SlotKept
    <2>5. ContextKept(next)
      BY <1>2, <2>1 DEF ContextKept, Greatest
    <2>6. BudgetKept(next)
      BY <1>1, <2>1 DEF BudgetKept, SlotKept, Budget, PendingFits, IsCompletion, UsesMtp,
         Active
    <2>7. SlotKept(next)
      BY <2>3, <2>4, <2>5, <2>6 DEF SlotKept
    <2>8. QED BY <1>6, <2>1, <2>2, <2>7 DEF BuildsTo, BatchRoom, BatchBounded, OutcomesKept
  <1>7. ASSUME NEW target \in MovedCheckpoint(slot),
               NEW past \in 1..(slot.num_prompt_tokens - 1),
               TakePromptTokens(s, [slot EXCEPT !.n_past = past, !.media = "processed",
                                      !.save_prompt_state_tokens = target])
        PROVE  BuildsTo(s)
    <2> DEFINE next == [slot EXCEPT !.n_past = past, !.media = "processed",
                          !.save_prompt_state_tokens = target]
    <2>1. past \in Nat /\ past < slot.num_prompt_tokens
      BY <1>2
    <2>2. next \in SlotRecord
      BY <1>1, <1>3, <2>1 DEF SlotRecord
    <2>3. /\ next.state = "PROCESSING_PROMPT" /\ next.n_past = past
          /\ next.request_id = slot.request_id
          /\ next.save_prompt_state_tokens = target
          /\ next.save_prompt_state_path = slot.save_prompt_state_path
          /\ next.num_prompt_tokens = slot.num_prompt_tokens
          /\ next.n_decoded = 0 /\ next.spec = slot.spec
          /\ next.n_remaining = slot.n_remaining
          /\ next.spec_pending_tokens = slot.spec_pending_tokens
      BY <1>1 DEF SlotRecord
    <2>4. TakePromptTokens(s, next)
      BY <1>7
    <2> HIDE DEF next
    <2>5. WellFormed(next)
      BY <1>1, <2>2, <2>3 DEF WellFormed, Active
    <2>6. PromptAhead(next) /\ SpecSavesNothing(next)
      BY <2>1, <2>3 DEF PromptAhead, SpecSavesNothing, SlotKept
    <2>7. CheckpointAhead(next)
      BY <1>2, <1>3, <2>1, <2>3 DEF CheckpointAhead, SlotKept
    <2>8. ContextKept(next)
      BY <1>2, <2>1, <2>3 DEF ContextKept, Greatest
    <2>9. BudgetKept(next)
      BY <1>1, <2>3 DEF BudgetKept, SlotKept, Budget, PendingFits, IsCompletion, UsesMtp,
         Active
    <2>10. SlotKept(next)
      BY <2>6, <2>7, <2>8, <2>9 DEF SlotKept
    <2>11. QED BY <2>3, <2>4, <2>5, <2>10, TakePromptTokensBuilds
  <1>8. QED BY <1>4, <1>5, <1>6, <1>7 DEF ProcessMedia

LEMMA EnterMtpBuilds ==
  ASSUME SlotsTyped, OutcomesTyped, OutcomesKept, BatchRoom, NEW s \in Slot,
         SlotKept(slots[s]), EnterMtp(s, slots[s])
  PROVE  BuildsTo(s)
  <1> DEFINE slot == slots[s]
  <1>1. slot \in SlotRecord /\ WellFormed(slot) /\ Active(slot)
        /\ slot.state = "PROCESSING_PROMPT" /\ UsesMtp(slot)
    BY DEF SlotsTyped, WellFormed, EnterMtp, Active
  <1>2. MayEnd(slot) /\ slot.request_id \in Request \cup {NoRequest}
    BY <1>1, KeptMayEnd DEF WellFormed
  <1>3. CASE slot.media # "none"
    <2> DEFINE failed == [slot EXCEPT !.incomplete = TRUE, !.error_of = slot.request_id]
    <2>1. CompleteOne(s, failed) /\ UNCHANGED <<n_tokens, batch_outputs>>
      BY <1>3 DEF EnterMtp
    <2>2. MayEnd(failed)
      BY <1>2, FailedMayEnd
    <2>3. QED BY <2>1, <2>2, CompleteOneBuilds
  <1>4. CASE slot.media = "none"
    <2> DEFINE next == [slot EXCEPT !.state = "GENERATING"]
    <2>1. /\ next.state = "GENERATING" /\ next.n_past = slot.n_past
          /\ next.request_id = slot.request_id
          /\ next.save_prompt_state_tokens = slot.save_prompt_state_tokens
          /\ next.save_prompt_state_path = slot.save_prompt_state_path
          /\ next.num_prompt_tokens = slot.num_prompt_tokens
          /\ next.n_decoded = slot.n_decoded /\ next.spec = slot.spec
          /\ next.n_remaining = slot.n_remaining
          /\ next.spec_pending_tokens = slot.spec_pending_tokens
      BY <1>1 DEF SlotRecord
    <2>2. slots' = [slots EXCEPT ![s] = next] /\ UNCHANGED <<outcomes, n_tokens, batch_outputs>>
      BY <1>4 DEF EnterMtp
    <2> HIDE DEF next
    <2>3. SlotKept(next) /\ UsesMtp(next)
      BY <1>1, <2>1 DEF SlotKept, PromptAhead, CheckpointAhead, SpecSavesNothing,
         ContextKept, BudgetKept, Budget, PendingFits, IsCompletion, UsesMtp, Active
    <2>4. QED BY <2>1, <2>2, <2>3 DEF BuildsTo, BatchRoom, BatchBounded, OutcomesKept
  <1>5. QED BY <1>3, <1>4

-----------------------------------------------------------------------------
(* sample_and_callback on one slot                                         *)

SamplesTo(s) ==
  /\ \E next : /\ SlotKept(next) /\ HasNextToken(next) /\ next.state # "IDLE"
               /\ slots' = [slots EXCEPT ![s] = next]
  /\ OutcomesKept'

LEMMA CompleteOneSamples ==
  ASSUME SlotsTyped, OutcomesTyped, OutcomesKept, NEW s \in Slot, NEW slot,
         MayEnd(slot), CompleteOne(s, slot)
  PROVE  SamplesTo(s)
  BY CompleteOneKept DEF SamplesTo, HasNextToken

LEMMA SampleTokenSamples ==
  ASSUME SlotsTyped, OutcomesTyped, OutcomesKept, NEW s \in Slot, NEW slot,
         WellFormed(slot), slot.state = "GENERATING", IsCompletion(slot), ~UsesMtp(slot),
         SlotKept(slot), SampleToken(s, slot)
  PROVE  SamplesTo(s)
  <1> DEFINE medium == IF slot.media = "pending_token" THEN "processed" ELSE slot.media
             sampled == [slot EXCEPT !.media = medium]
             counted == CountToken(sampled)
  <1>1. slot \in SlotRecord
    BY DEF WellFormed
  <1>2. /\ sampled \in SlotRecord
        /\ sampled.state = "GENERATING" /\ sampled.n_past = slot.n_past
        /\ sampled.request_id = slot.request_id
        /\ sampled.save_prompt_state_tokens = slot.save_prompt_state_tokens
        /\ sampled.save_prompt_state_path = slot.save_prompt_state_path
        /\ sampled.num_prompt_tokens = slot.num_prompt_tokens
        /\ sampled.n_decoded = slot.n_decoded /\ sampled.spec = slot.spec
        /\ sampled.n_remaining = slot.n_remaining
        /\ sampled.spec_pending_tokens = slot.spec_pending_tokens
    BY <1>1 DEF SlotRecord
  <1>3. \/ CompleteOne(s, sampled)
        \/ CompleteOne(s, counted)
        \/ /\ ~(ReachesLimit(slot) \/ slot.n_past >= NCtx)
           /\ slots' = [slots EXCEPT ![s] = counted] /\ UNCHANGED outcomes
    BY DEF SampleToken
  <1> HIDE DEF sampled, counted
  <1>4. WellFormed(sampled) /\ Active(sampled)
    BY <1>2 DEF WellFormed, Active
  <1>5. SlotKept(sampled) /\ IsCompletion(sampled) /\ ~UsesMtp(sampled)
    BY <1>2 DEF SlotKept, PromptAhead, CheckpointAhead, SpecSavesNothing,
       ContextKept, BudgetKept, Budget, PendingFits, IsCompletion, UsesMtp, Active
  <1>6. Budget(sampled) /\ PendingFits(sampled, 1)
    BY <1>4, <1>5 DEF SlotKept, BudgetKept, PendingFits
  <1>7. /\ MayEnd(counted) /\ (~ReachesLimit(sampled) => SlotKept(counted))
        /\ counted.n_decoded > 0 /\ IsCompletion(counted)
        /\ counted.n_past = slot.n_past /\ counted.state = "GENERATING"
    BY <1>2, <1>4, <1>5, <1>6, CountTokenKept DEF SlotKept, counted
  <1>8. CASE CompleteOne(s, sampled)
    BY <1>4, <1>5, <1>8, KeptMayEnd, CompleteOneSamples
  <1>9. CASE CompleteOne(s, counted)
    BY <1>7, <1>9, CompleteOneSamples
  <1>10. CASE /\ ~(ReachesLimit(slot) \/ slot.n_past >= NCtx)
              /\ slots' = [slots EXCEPT ![s] = counted] /\ UNCHANGED outcomes
    <2>1. ~ReachesLimit(sampled)
      BY <1>2, <1>10 DEF ReachesLimit
    <2>2. slot.n_past \in Nat /\ NCtx \in Nat
      BY <1>1, SizeAssumption DEF SlotRecord
    <2>3. counted.n_past < NCtx
      BY <1>7, <1>10, <2>2
    <2>4. QED BY <1>2, <1>7, <1>10, <2>1, <2>3 DEF SamplesTo, HasNextToken, OutcomesKept
  <1>11. QED BY <1>3, <1>8, <1>9, <1>10

LEMMA EmitMtpSamples ==
  ASSUME SlotsTyped, OutcomesTyped, OutcomesKept, NEW s \in Slot, NEW slot,
         WellFormed(slot), slot.state = "GENERATING", IsCompletion(slot), UsesMtp(slot),
         SlotKept(slot), EmitMtp(s, slot)
  PROVE  SamplesTo(s)
  <1> DEFINE rest == [slot EXCEPT !.spec_pending_tokens = slot.spec_pending_tokens - 1]
             counted == CountToken(rest)
  <1>1. /\ slot \in SlotRecord /\ slot.spec_pending_tokens \in Nat /\ Active(slot)
        /\ slot.n_remaining \in Int
    BY DEF WellFormed, SlotRecord, Active
  <1>2. CASE slot.spec_pending_tokens = 0
    BY <1>1, <1>2, KeptMayEnd, CompleteOneSamples DEF EmitMtp
  <1>3. CASE slot.spec_pending_tokens # 0
    <2>1. slot.spec_pending_tokens - 1 \in Nat
      BY <1>1, <1>3
    <2>2. /\ rest \in SlotRecord
          /\ rest.state = "GENERATING" /\ rest.n_past = slot.n_past
          /\ rest.request_id = slot.request_id
          /\ rest.save_prompt_state_tokens = slot.save_prompt_state_tokens
          /\ rest.save_prompt_state_path = slot.save_prompt_state_path
          /\ rest.num_prompt_tokens = slot.num_prompt_tokens
          /\ rest.n_decoded = slot.n_decoded /\ rest.spec = slot.spec
          /\ rest.n_remaining = slot.n_remaining
          /\ rest.spec_pending_tokens = slot.spec_pending_tokens - 1
      BY <1>1, <2>1 DEF SlotRecord
    <2>3. \/ CompleteOne(s, counted)
          \/ ~ReachesLimit(slot) /\ slots' = [slots EXCEPT ![s] = counted]
             /\ UNCHANGED outcomes
      BY <1>3 DEF EmitMtp
    <2> HIDE DEF rest, counted
    <2>4. WellFormed(rest)
      BY <2>2 DEF WellFormed, Active
    <2>5. /\ IsCompletion(rest) /\ UsesMtp(rest) /\ CheckpointAhead(rest)
          /\ SpecSavesNothing(rest) /\ ContextKept(rest) /\ Budget(rest)
      BY <2>2 DEF SlotKept, CheckpointAhead, SpecSavesNothing, ContextKept, BudgetKept,
         Budget, IsCompletion, UsesMtp, Active
    <2>6. PendingFits(rest, 1)
      BY <1>1, <2>2, <2>5 DEF SlotKept, BudgetKept, PendingFits, UsesMtp, Active
    <2>7. /\ MayEnd(counted) /\ (~ReachesLimit(rest) => SlotKept(counted))
          /\ counted.n_decoded > 0 /\ IsCompletion(counted) /\ UsesMtp(counted)
          /\ counted.state = "GENERATING"
      BY <2>2, <2>4, <2>5, <2>6, CountTokenKept DEF counted
    <2>8. ReachesLimit(rest) <=> ReachesLimit(slot)
      BY <2>2 DEF ReachesLimit
    <2>9. CASE CompleteOne(s, counted)
      BY <2>7, <2>9, CompleteOneSamples
    <2>10. CASE ~ReachesLimit(slot) /\ slots' = [slots EXCEPT ![s] = counted]
                /\ UNCHANGED outcomes
      BY <2>7, <2>8, <2>10 DEF SamplesTo, HasNextToken, OutcomesKept
    <2>11. QED BY <2>3, <2>9, <2>10
  <1>4. QED BY <1>2, <1>3

LEMMA SampleMtpSamples ==
  ASSUME SlotsTyped, OutcomesTyped, OutcomesKept, NEW s \in Slot, NEW slot,
         WellFormed(slot), slot.state = "GENERATING", IsCompletion(slot), UsesMtp(slot),
         SlotKept(slot), SampleMtp(s, slot)
  PROVE  SamplesTo(s)
  <1>1. Active(slot) /\ slot.request_id \in Request \cup {NoRequest} /\ MayEnd(slot)
    BY KeptMayEnd DEF WellFormed, Active
  <1>2. CASE MtpFails(s, slot)
    BY <1>1, <1>2, FailedMayEnd, CompleteOneSamples DEF MtpFails
  <1>7. ASSUME MtpSupported(slot), MtpFails(s, [slot EXCEPT !.spec = TRUE])
        PROVE  SamplesTo(s)
    <2> DEFINE begun == [slot EXCEPT !.spec = TRUE]
    <2>1. slot \in SlotRecord /\ (slot.spec \/ slot.save_prompt_state_path = NoRequest)
      BY <1>7 DEF WellFormed, MtpSupported
    <2>2. /\ begun \in SlotRecord /\ begun.request_id = slot.request_id
          /\ begun.n_past = slot.n_past /\ begun.n_decoded = slot.n_decoded
          /\ begun.save_prompt_state_tokens = slot.save_prompt_state_tokens
          /\ begun.save_prompt_state_path = slot.save_prompt_state_path
          /\ begun.num_prompt_tokens = slot.num_prompt_tokens
      BY <2>1 DEF SlotRecord
    <2>3. MtpFails(s, begun)
      BY <1>7
    <2> HIDE DEF begun
    <2>4. MayEnd(begun)
      BY <1>1, <2>1, <2>2 DEF MayEnd, CheckpointAhead, SpecSavesNothing, WithinBudget
    <2>5. QED BY <1>1, <2>2, <2>3, <2>4, FailedMayEnd, CompleteOneSamples DEF MtpFails
  <1>3. CASE EmitMtp(s, slot)
    BY <1>3, EmitMtpSamples
  <1>4. ASSUME MtpSupported(slot), CompleteOne(s, InitMtp(slot))
        PROVE  SamplesTo(s)
    <2>1. MayEnd(InitMtp(slot))
      BY <1>4, InitMtpKept, KeptMayEnd DEF Active
    <2>2. QED BY <1>4, <2>1, CompleteOneSamples
  <1>5. ASSUME MtpSupported(slot), ~CannotRefill(InitMtp(slot)),
               NEW accepted \in 1..(DraftLimit(InitMtp(slot)) + 1), NEW eos \in BOOLEAN,
               EmitMtp(s, Refill(InitMtp(slot), accepted, eos))
        PROVE  SamplesTo(s)
    <2> DEFINE begun == InitMtp(slot)
               filled == Refill(begun, accepted, eos)
    <2>1. /\ WellFormed(begun) /\ begun.state = "GENERATING" /\ IsCompletion(begun)
          /\ SlotKept(begun) /\ UsesMtp(begun)
          /\ begun.save_prompt_state_tokens = -1
          /\ begun.save_prompt_state_path = NoRequest
      BY <1>5, InitMtpKept
    <2>2. /\ WellFormed(filled) /\ filled.state = "GENERATING" /\ IsCompletion(filled)
          /\ SlotKept(filled) /\ UsesMtp(filled)
      BY <1>5, <2>1, RefillKept
    <2>3. QED BY <1>5, <2>2, EmitMtpSamples
  <1>6. QED BY <1>2, <1>3, <1>4, <1>5, <1>7 DEF SampleMtp

\* Emitting or ending leaves the speculative state of the slot in place.
LEMMA EndsWithSpec ==
  ASSUME SlotsTyped, NEW s \in Slot, NEW slot \in SlotRecord, slot.spec,
         EmitMtp(s, slot) \/ CompleteOne(s, slot)
  PROVE  slots'[s].spec
  <1>1. ASSUME NEW last \in SlotRecord, last.spec, CompleteOne(s, last)
        PROVE  slots'[s].spec
    <2>1. slots' = [slots EXCEPT ![s] = complete_slot(last)]
      BY <1>1 DEF CompleteOne
    <2>2. complete_slot(last).spec
      BY <1>1 DEF complete_slot, SlotRecord
    <2> HIDE DEF complete_slot
    <2>3. QED BY <2>1, <2>2 DEF SlotsTyped
  <1>2. CASE CompleteOne(s, slot)
    BY <1>1, <1>2
  <1>3. CASE EmitMtp(s, slot) /\ slot.spec_pending_tokens # 0
    <2> DEFINE pending == slot.spec_pending_tokens - 1
               rest == [slot EXCEPT !.spec_pending_tokens = pending]
               counted == CountToken(rest)
    <2>1. slot.spec_pending_tokens \in Nat /\ pending \in Nat
      BY <1>3 DEF SlotRecord
    <2> HIDE DEF pending
    <2>2. rest \in SlotRecord /\ rest.spec
      BY <2>1 DEF SlotRecord
    <2> HIDE DEF rest
    <2>3. counted.spec
      BY <2>2 DEF CountToken, SlotRecord
    <2>4. counted \in SlotRecord
      <3> DEFINE left == IF rest.n_remaining > 0 THEN rest.n_remaining - 1 ELSE rest.n_remaining
      <3>1. rest.n_remaining \in Int /\ rest.n_decoded + 1 \in Nat
        BY <2>2 DEF SlotRecord
      <3>2. left \in Int
        BY <3>1
      <3>3. counted = [rest EXCEPT !.n_decoded = rest.n_decoded + 1, !.n_remaining = left]
        BY DEF CountToken
      <3> HIDE DEF counted, left
      <3>4. QED BY <2>2, <3>1, <3>2, <3>3 DEF SlotRecord
    <2>5. CompleteOne(s, counted) \/ slots' = [slots EXCEPT ![s] = counted]
      BY <1>3 DEF EmitMtp, rest, pending
    <2> HIDE DEF counted
    <2>6. QED BY <1>1, <2>3, <2>4, <2>5 DEF SlotsTyped
  <1>4. QED BY <1>2, <1>3 DEF EmitMtp

\* An MTP slot that replaced the outputs of the batch has set up its speculative state.
LEMMA SampleMtpOutputs ==
  ASSUME SlotsTyped, NEW s \in Slot, slots[s].state = "GENERATING", SampleMtp(s, slots[s])
  PROVE  UNCHANGED batch_outputs \/ slots'[s].spec
  <1> DEFINE slot == slots[s]
             begun == InitMtp(slot)
             failed == [slot EXCEPT !.spec = TRUE, !.incomplete = TRUE,
                                    !.error_of = slot.request_id]
  <1>1. slot \in SlotRecord /\ WellFormed(slot) /\ WellFormed(begun)
    BY InitMtpType DEF SlotsTyped, Active
  <1>2. begun \in SlotRecord /\ begun.spec
    BY <1>1 DEF WellFormed, InitMtp, SlotRecord
  <1>3. failed \in SlotRecord /\ failed.spec
    BY <1>1 DEF SlotRecord
  <1>4. CASE MtpFails(s, [slot EXCEPT !.spec = TRUE])
    <2>1. CompleteOne(s, failed)
      BY <1>1, <1>4 DEF MtpFails, SlotRecord
    <2>2. QED BY <1>3, <2>1, EndsWithSpec
  <1>5. CASE CompleteOne(s, begun)
    BY <1>2, <1>5, EndsWithSpec
  <1>6. ASSUME NEW accepted \in 1..(DraftLimit(begun) + 1), NEW eos \in BOOLEAN,
               EmitMtp(s, Refill(begun, accepted, eos))
        PROVE  slots'[s].spec
    <2>1. Refill(begun, accepted, eos) \in SlotRecord
      BY <1>1, <1>6, RefillType DEF WellFormed
    <2>2. Refill(begun, accepted, eos).spec
      BY <1>2 DEF Refill, SlotRecord
    <2>3. QED BY <1>6, <2>1, <2>2, EndsWithSpec
  <1>7. QED BY <1>4, <1>5, <1>6 DEF SampleMtp

\* An embedding or a rerank score is delivered; `slot` is s with its document counted.
LEMMA DeliverResultSamples ==
  ASSUME SlotsTyped, OutcomesTyped, OutcomesKept, NEW s \in Slot, NEW slot \in SlotRecord,
         WellFormed(slots[s]), Active(slots[s]), SlotKept(slots[s]),
         ~IsCompletion(slots[s]), slot.request_id = slots[s].request_id,
         slot.n_decoded = slots[s].n_decoded, DeliverResult(s, slot)
  PROVE  SamplesTo(s)
  <1> DEFINE done == [slots[s] EXCEPT !.state = "DONE"]
             r == slot.request_id
  <1>1. slots[s] \in SlotRecord /\ r \in Request /\ slot.n_decoded = 0
    BY DEF WellFormed, SlotKept, BudgetKept
  <1>2. OutcomesKept'
    <2>1. NPredict[r] > 0 => slot.n_decoded <= NPredict[r]
      BY <1>1, TaskAssumption
    <2>2. CASE Answer(r, slot)
      BY <1>1, <2>1, <2>2, AnswerKept
    <2>3. CASE UNCHANGED outcomes
      BY <2>3 DEF OutcomesKept
    <2>4. QED BY <2>2, <2>3 DEF DeliverResult
  <1>3. /\ done.state = "DONE" /\ done.n_past = slots[s].n_past
        /\ done.save_prompt_state_tokens = slots[s].save_prompt_state_tokens
        /\ done.save_prompt_state_path = slots[s].save_prompt_state_path
        /\ done.num_prompt_tokens = slots[s].num_prompt_tokens
        /\ done.n_decoded = slots[s].n_decoded /\ done.spec = slots[s].spec
    BY <1>1 DEF SlotRecord
  <1>4. slots' = [slots EXCEPT ![s] = done]
    BY DEF DeliverResult
  <1> HIDE DEF done
  <1>5. SlotKept(done) /\ HasNextToken(done)
    BY <1>3 DEF SlotKept, PromptAhead, CheckpointAhead, SpecSavesNothing, ContextKept,
       BudgetKept, HasNextToken, Active
  <1>6. QED BY <1>2, <1>3, <1>4, <1>5 DEF SamplesTo

\* Loading a prompt from position `start` leaves the slot with a token to evaluate and
\* its checkpoint, if any, ahead.
LEMMA LoadPromptKept ==
  ASSUME NEW slot \in SlotRecord, NEW r \in Request, NEW start \in 0..(PromptLen[r] - 1),
         SpecSavesNothing(slot)
  PROVE  LET next == load_prompt(slot, r, start) IN
         /\ next \in SlotRecord /\ next.state = "PROCESSING_PROMPT"
         /\ PromptAhead(next) /\ CheckpointAhead(next) /\ SpecSavesNothing(next)
         /\ ContextKept(next)
         /\ next.request_id = slot.request_id /\ next.n_decoded = 0
         /\ next.spec_pending_tokens = slot.spec_pending_tokens
         /\ next.num_prompt_tokens = PromptLen[r] /\ next.n_past = start
         /\ next.spec = slot.spec
         /\ next.save_prompt_state_path = slot.save_prompt_state_path
  <1> DEFINE next == load_prompt(slot, r, start)
             target == IF slot.save_prompt_state_path = NoRequest
                          \/ start > CheckpointTarget(r)
                       THEN -1 ELSE CheckpointTarget(r)
  <1>1. PromptLen[r] \in Nat /\ PromptLen[r] > 0 /\ NCtx \in Nat /\ start \in Nat
        /\ start < PromptLen[r]
    BY TaskAssumption, SizeAssumption
  <1>2. /\ target \in Nat \cup {-1} /\ target <= PromptLen[r]
        /\ target # -1 => start <= target /\ slot.save_prompt_state_path # NoRequest
    BY <1>1 DEF CheckpointTarget
  <1>3. next = [slot EXCEPT !.state = "PROCESSING_PROMPT", !.n_decoded = 0,
                  !.num_prompt_tokens = PromptLen[r], !.n_past = start,
                  !.save_prompt_state_tokens = target]
    BY DEF load_prompt
  <1> HIDE DEF next, target
  <1>4. next \in SlotRecord
    BY <1>1, <1>2, <1>3 DEF SlotRecord, State
  <1>5. /\ next.state = "PROCESSING_PROMPT" /\ next.n_decoded = 0 /\ next.n_past = start
        /\ next.num_prompt_tokens = PromptLen[r]
        /\ next.save_prompt_state_tokens = target
        /\ next.save_prompt_state_path = slot.save_prompt_state_path
        /\ next.request_id = slot.request_id /\ next.spec = slot.spec
        /\ next.spec_pending_tokens = slot.spec_pending_tokens
    BY <1>3 DEF SlotRecord
  <1>6. PromptAhead(next) /\ CheckpointAhead(next) /\ SpecSavesNothing(next)
    BY <1>1, <1>2, <1>5 DEF PromptAhead, CheckpointAhead, SpecSavesNothing
  <1>7. ContextKept(next)
    BY <1>1, <1>5 DEF ContextKept, Greatest
  <1>8. QED BY <1>4, <1>5, <1>6, <1>7 DEF next

LEMMA ScoreDocumentSamples ==
  ASSUME SlotsTyped, OutcomesTyped, OutcomesKept, NEW s \in Slot,
         WellFormed(slots[s]), slots[s].state = "GENERATING", SlotKept(slots[s]),
         Task[slots[s].request_id] = "rerank", ScoreDocument(s, slots[s])
  PROVE  SamplesTo(s)
  <1> DEFINE slot == slots[s]
             r == slot.request_id
             index == slot.rerank_current_index + 1
             loaded == load_prompt(slot, r, 0)
             again == [loaded EXCEPT !.rerank_current_index = index]
             last == [slot EXCEPT !.rerank_current_index = index]
  <1>1. slot \in SlotRecord /\ r \in Request /\ index \in Nat
        /\ Active(slot) /\ ~IsCompletion(slot) /\ ~UsesMtp(slot)
    BY FeatureAssumption DEF WellFormed, SlotRecord, Active, IsCompletion, UsesMtp
  <1>2. PromptLen[r] \in Nat /\ PromptLen[r] > 0
    BY <1>1, TaskAssumption
  <1>3. CASE index < NDocs[r]
    <2>1. slots' = [slots EXCEPT ![s] = again] /\ UNCHANGED outcomes
      BY <1>3 DEF ScoreDocument
    <2>2. /\ loaded \in SlotRecord /\ loaded.state = "PROCESSING_PROMPT"
          /\ PromptAhead(loaded) /\ CheckpointAhead(loaded) /\ SpecSavesNothing(loaded)
          /\ ContextKept(loaded) /\ loaded.request_id = r /\ loaded.n_decoded = 0
      BY <1>1, <1>2, LoadPromptKept DEF SlotKept
    <2> HIDE DEF loaded
    <2>3. /\ again.state = "PROCESSING_PROMPT" /\ again.n_past = loaded.n_past
          /\ again.request_id = r
          /\ again.save_prompt_state_tokens = loaded.save_prompt_state_tokens
          /\ again.save_prompt_state_path = loaded.save_prompt_state_path
          /\ again.num_prompt_tokens = loaded.num_prompt_tokens
          /\ again.n_decoded = 0 /\ again.spec = loaded.spec
      BY <2>2 DEF SlotRecord
    <2> HIDE DEF again
    <2>4. /\ PromptAhead(again) /\ CheckpointAhead(again) /\ SpecSavesNothing(again)
          /\ ContextKept(again)
      BY <2>2, <2>3 DEF PromptAhead, CheckpointAhead, SpecSavesNothing, ContextKept, Active
    <2>5. BudgetKept(again) /\ HasNextToken(again)
      BY <1>1, <2>3 DEF BudgetKept, IsCompletion, HasNextToken
    <2>6. QED BY <2>1, <2>3, <2>4, <2>5 DEF SamplesTo, SlotKept, OutcomesKept
  <1>4. CASE ~(index < NDocs[r])
    <2>1. DeliverResult(s, last)
      BY <1>4 DEF ScoreDocument
    <2>2. last \in SlotRecord /\ last.request_id = r /\ last.n_decoded = slot.n_decoded
      BY <1>1 DEF SlotRecord
    <2> HIDE DEF last
    <2>3. QED BY <1>1, <2>1, <2>2, DeliverResultSamples
  <1>5. QED BY <1>3, <1>4

-----------------------------------------------------------------------------
(* BatchInv is inductive                                                   *)

LEMMA BatchInit == Init => BatchInv
  <1> SUFFICES ASSUME Init PROVE BatchInv
    OBVIOUS
  <1>1. \A s \in Slot : slots[s] = reset
    BY DEF Init
  <1>2. \A s \in Slot : FlightKept(s)
    BY <1>1, ResetWellFormed DEF FlightKept, HasLogits, HasNextToken
  <1>3. n_batch <= NBatch /\ BatchBounded
    BY SizeAssumption DEF Init, BatchBounded, Greatest
  <1>4. OutcomesKept /\ PromptFilesExact
    BY DEF Init, OutcomesKept, PromptFilesExact, NoFile
  <1>5. QED BY <1>1, <1>2, <1>3, <1>4, ResetKept DEF BatchInv, FreshKept

LEMMA BatchParts ==
  ASSUME TypeInv, BatchInv
  PROVE  /\ SlotsTyped /\ OutcomesTyped /\ BatchRoom /\ OutcomesKept
         /\ n_batch \in Nat /\ n_tokens \in Nat /\ NBatch \in Nat
         /\ \A s \in Slot : SlotKept(slots[s]) /\ WellFormed(slots[s])
         /\ \A s \in Slot : FlightKept(s) /\ FreshKept(s)
  BY TypeInvParts, SizeAssumption DEF BatchInv, BatchRoom, BatchTyped, BatchBounded,
     SlotsTyped

\* Slots that differ at most in is_interrupted keep the same promises.
SameSlot(slot, next) ==
  /\ next.state = slot.state /\ next.request_id = slot.request_id
  /\ next.n_past = slot.n_past /\ next.num_prompt_tokens = slot.num_prompt_tokens
  /\ next.n_decoded = slot.n_decoded /\ next.n_remaining = slot.n_remaining
  /\ next.spec = slot.spec /\ next.spec_pending_tokens = slot.spec_pending_tokens
  /\ next.save_prompt_state_path = slot.save_prompt_state_path
  /\ next.save_prompt_state_tokens = slot.save_prompt_state_tokens
  /\ next.media = slot.media

LEMMA SameSlotKept ==
  ASSUME NEW slot, NEW next, SameSlot(slot, next)
  PROVE  /\ SlotKept(slot) => SlotKept(next)
         /\ Fresh(slot) => Fresh(next)
         /\ Active(slot) <=> Active(next)
         /\ HasNextToken(slot) => HasNextToken(next)
  BY DEF SameSlot, SlotKept, PromptAhead, CheckpointAhead, SpecSavesNothing, ContextKept,
     BudgetKept, Budget, PendingFits, IsCompletion, UsesMtp, Active, Fresh, HasNextToken

\* Steps that touch no slot beyond is_interrupted and no outcome, file or batch.
LEMMA SameBatch ==
  ASSUME TypeInv, BatchInv, \A s \in Slot : SameSlot(slots[s], slots'[s]),
         UNCHANGED <<n_batch, n_tokens, batch_outputs, prompt_files>>, OutcomesKept',
         pc' \in Finishing \/ pc \notin Finishing, pc = "sample" => UNCHANGED <<pc, cursor>>,
         \A s \in Slot : InFlight(s)' <=> InFlight(s)
  PROVE  BatchInv'
  <1>1. \A s \in Slot : SlotKept(slots'[s])
    BY SameSlotKept DEF BatchInv
  <1>2. \A s \in Slot : FlightKept(s)'
    <2>1. MtpBefore /\ UNCHANGED cursor => MtpBefore'
      BY DEF MtpBefore, SameSlot
    <2>2. QED BY <2>1, SameSlotKept DEF BatchInv, FlightKept, HasLogits, SameSlot, UsesMtp
  <1>3. \A s \in Slot : FreshKept(s)'
    BY SameSlotKept DEF BatchInv, FreshKept, SameSlot
  <1>4. QED
    BY <1>1, <1>2, <1>3 DEF BatchInv, BatchBounded, PromptFilesExact, OutcomesKept

\* Steps that change nothing but variables BatchInv does not depend on.
LEMMA ControlBatch ==
  ASSUME TypeInv, BatchInv,
         UNCHANGED <<slots, n_batch, n_tokens, batch_outputs, outcomes, prompt_files>>,
         pc' \in Finishing \/ pc \notin Finishing, pc = "sample" => UNCHANGED <<pc, cursor>>,
         \A s \in Slot : InFlight(s)' <=> InFlight(s)
  PROVE  BatchInv'
  <1>1. \A s \in Slot : SameSlot(slots[s], slots'[s])
    BY DEF SameSlot
  <1>2. OutcomesKept'
    BY DEF BatchInv, OutcomesKept
  <1>3. QED BY <1>1, <1>2, SameBatch

LEMMA BatchClient ==
  ASSUME TypeInv, BatchInv, NEW r \in Request, Client(r)
  PROVE  BatchInv'
  <1>1. CASE QueueRequest(r)
    BY <1>1, ControlBatch DEF QueueRequest, batchVars, InFlight
  <1>2. CASE AnswerAtOnce(r)
    <2>1. reset \in SlotRecord /\ reset.n_decoded = 0
      BY ResetWellFormed DEF WellFormed, reset
    <2>2. NPredict[r] > 0 => reset.n_decoded <= NPredict[r]
      BY <2>1, TaskAssumption
    <2>3. Answer(r, reset)
      BY <1>2 DEF AnswerAtOnce
    <2>4. OutcomesKept'
      BY <2>1, <2>2, <2>3, AnswerKept, BatchParts
    <2>5. QED BY <1>2, <2>4, SameBatch DEF AnswerAtOnce, batchVars, InFlight, SameSlot
  <1>3. CASE CancelRequest(r)
    <2>1. slots \in [Slot -> SlotRecord]
      BY BatchParts DEF SlotsTyped
    <2>2. \A s \in Slot : SameSlot(slots[s], slots'[s])
      <3>1. CASE UNCHANGED slots
        BY <3>1 DEF SameSlot
      <3>2. ASSUME NEW t \in Slot, slots' = [slots EXCEPT ![t].is_interrupted = TRUE]
            PROVE  \A s \in Slot : SameSlot(slots[s], slots'[s])
        <4> DEFINE next == [slots[t] EXCEPT !.is_interrupted = TRUE]
        <4>1. SameSlot(slots[t], next)
          BY <2>1 DEF SlotRecord, SameSlot
        <4>2. slots' = [slots EXCEPT ![t] = next]
          BY <3>2
        <4> HIDE DEF next
        <4>3. slots'[t] = next /\ \A s \in Slot \ {t} : slots'[s] = slots[s]
          BY <2>1, <4>2
        <4>4. QED BY <4>1, <4>3 DEF SameSlot
      <3>3. QED
        BY <1>3, <3>1, <3>2 DEF CancelRequest, CancelActive, CancelQueued,
           CancelNotFound, ActiveSlots
    <2>3. OutcomesKept'
      BY <1>3 DEF CancelRequest, BatchInv, OutcomesKept
    <2>4. QED BY <1>3, <2>2, <2>3, SameBatch DEF CancelRequest, batchVars, InFlight
  <1>4. CASE Notify(r)
    BY <1>4, ControlBatch DEF Notify, batchVars, InFlight, Finishing
  <1>5. QED BY <1>1, <1>2, <1>3, <1>4 DEF Client

LEMMA BatchLoop ==
  ASSUME TypeInv, BatchInv,
         \/ LoopTop \/ CheckWork \/ FallAsleep \/ SpuriousWakeup \/ Reevaluate \/ Stopper
         \/ StopAssigning \/ CheckActive \/ DecodeBatch
  PROVE  BatchInv'
  <1>1. CASE LoopTop \/ CheckWork \/ FallAsleep \/ SpuriousWakeup \/ Reevaluate
    BY <1>1, ControlBatch DEF LoopTop, CheckWork, FallAsleep, SpuriousWakeup, Reevaluate,
       workerLocals, batchVars, clientVars, InFlight, Finishing
  <1>2. CASE Stopper
    BY <1>2, ControlBatch DEF Stopper, StopStore, StopNotify, StopJoin, batchVars,
       InFlight, Finishing
  <1>3. CASE StopAssigning \/ CheckActive
    BY <1>3, ControlBatch DEF StopAssigning, CheckActive, batchVars, InFlight, Finishing
  <1>4. CASE DecodeBatch
    BY <1>4, ControlBatch DEF DecodeBatch, batchVars, InFlight, Finishing
  <1>5. QED BY <1>1, <1>2, <1>3, <1>4


\* A release: each slot is as reset() leaves it, or as it was and not DONE.
LEMMA ReleaseBatch ==
  ASSUME TypeInv, BatchInv, OutcomesKept', UNCHANGED <<batchVars, prompt_files>>,
         \A s \in Slot :
           \/ slots'[s] = reset
           \/ /\ slots'[s] = slots[s] /\ slots[s].state # "DONE"
              /\ HasNextToken(slots[s]),
         \A s \in Slot : ~InFlight(s)'
  PROVE  BatchInv'
  <1>1. ASSUME NEW s \in Slot
        PROVE  SlotKept(slots'[s]) /\ FreshKept(s)' /\ FlightKept(s)'
    <2>1. CASE slots'[s] = reset
      BY <2>1, ResetKept, ResetWellFormed DEF FlightKept, FreshKept, HasNextToken
    <2>2. CASE /\ slots'[s] = slots[s] /\ slots[s].state # "DONE"
               /\ HasNextToken(slots[s])
      BY <2>2 DEF BatchInv, FlightKept, FreshKept
    <2>3. QED BY <2>1, <2>2
  <1>2. QED
    BY <1>1 DEF BatchInv, BatchBounded, PromptFilesExact, batchVars

LEMMA BatchTerminalizeCancelled ==
  ASSUME TypeInv, BatchInv, TerminalizeCancelled
  PROVE  BatchInv'
  <1>1. pc = "step1" /\ pc' = "assign" /\ UNCHANGED <<batchVars, prompt_files>>
    BY DEF TerminalizeCancelled
  <1>2. \A s \in Slot : ~InFlight(s) /\ ~InFlight(s)' /\ HasNextToken(slots[s])
    BY <1>1, BatchParts DEF InFlight, FlightKept
  <1>3. CASE InterruptedSlots = {}
    BY <1>1, <1>2, <1>3, ControlBatch DEF TerminalizeCancelled, batchVars, Finishing
  <1>4. CASE InterruptedSlots # {}
    <2>1. CompleteAndRelease(InterruptedSlots, slots)
      BY <1>4 DEF TerminalizeCancelled
    <2>2. \A s \in InterruptedSlots : s \in Slot /\ MayEnd(slots[s])
      BY BatchParts, KeptMayEnd DEF InterruptedSlots, ActiveSlots
    <2>3. OutcomesKept'
      BY <2>1, <2>2, BatchParts, AnswerAllKept DEF CompleteAndRelease, MayEnd
    <2>4. \A s \in Slot : \/ slots'[s] = reset
                          \/ slots'[s] = slots[s] /\ slots[s].state # "DONE"
      BY <2>1 DEF CompleteAndRelease, DoneSlots
    <2>5. QED BY <1>1, <1>2, <2>3, <2>4, ReleaseBatch
  <1>5. QED BY <1>3, <1>4

LEMMA BatchAbort ==
  ASSUME TypeInv, BatchInv, AbortBatch
  PROVE  BatchInv'
  <1> DEFINE f == [s \in Slot |-> IF s \in ActiveSlots
                                  THEN [slots[s] EXCEPT !.incomplete = TRUE] ELSE slots[s]]
  <1>1. /\ CompleteAndRelease(ActiveSlots, f) /\ pc' = "loop_end"
        /\ UNCHANGED <<batchVars, prompt_files>>
    BY DEF AbortBatch
  <1>2. \A s \in ActiveSlots : s \in Slot /\ MayEnd(f[s])
    BY BatchParts, KeptMayEnd, FailedMayEnd DEF ActiveSlots
  <1>3. \A s \in Slot \ ActiveSlots : f[s] = slots[s]
    OBVIOUS
  <1> HIDE DEF f
  <1>4. OutcomesKept'
    BY <1>1, <1>2, BatchParts, AnswerAllKept DEF CompleteAndRelease, MayEnd
  <1>5. \A s \in Slot : \/ slots'[s] = reset
                        \/ slots'[s] = slots[s] /\ slots[s].state = "IDLE"
    <2>1. \A s \in Slot : slots[s].state \in State
      BY BatchParts DEF SlotsTyped, SlotRecord
    <2>2. QED
      BY <1>1, <1>3, <2>1 DEF CompleteAndRelease, DoneSlots, ActiveSlots, Active, State
  <1>6. \A s \in Slot : ~InFlight(s)'
    BY <1>1 DEF InFlight
  <1>7. QED BY <1>1, <1>4, <1>5, <1>6, ReleaseBatch DEF HasNextToken

LEMMA BatchReleaseCompleted ==
  ASSUME TypeInv, BatchInv, release_completed_slots
  PROVE  BatchInv'
  <1>1. pc = "step6" /\ pc' = "step7" /\ UNCHANGED <<batchVars, prompt_files, outcomes>>
    BY DEF release_completed_slots
  <1>2. \A s \in Slot : ~InFlight(s)' /\ HasNextToken(slots[s])
    BY <1>1, BatchParts DEF InFlight, FlightKept
  <1>3. \A s \in Slot : \/ slots'[s] = reset
                        \/ slots'[s] = slots[s] /\ slots[s].state # "DONE"
    BY DEF release_completed_slots, DoneSlots
  <1>4. OutcomesKept'
    BY <1>1 DEF BatchInv, OutcomesKept
  <1>5. QED BY <1>1, <1>2, <1>3, <1>4, ReleaseBatch

\* The outputs of the other slots survive a step on slot s, unless s is an MTP slot that
\* is sampled.
OutputsKept(s) ==
  \/ pc # "sample" /\ pc' # "sample" /\ batch_outputs \subseteq batch_outputs'
  \/ pc' = "step6"
  \/ /\ pc = "sample" /\ pc' = "sample" /\ s = cursor /\ cursor' = s + 1
     /\ UNCHANGED batch_outputs \/ slots'[s].spec

\* One slot moves, in build_batch or in sample_and_callback.
LEMMA OneSlotBatch ==
  ASSUME TypeInv, BatchInv, NEW s \in Slot, NEW next,
         slots' = [slots EXCEPT ![s] = next], SlotKept(next), OutcomesKept',
         next.state # "IDLE", FlightKept(s)', n_batch' = n_batch, BatchBounded',
         OutputsKept(s),
         UNCHANGED prompt_files, pc \in Finishing, pc' \in Finishing,
         \A t \in Slot \ {s} : InFlight(t)' <=> InFlight(t)
  PROVE  BatchInv'
  <1>1. slots'[s] = next /\ \A t \in Slot \ {s} : slots'[t] = slots[t]
    BY BatchParts DEF SlotsTyped
  <1>2. \A t \in Slot : SlotKept(slots'[t])
    BY <1>1, BatchParts
  <1>3. \A t \in Slot : FreshKept(t)'
    BY <1>1, BatchParts DEF FreshKept
  <1>4. ASSUME NEW t \in Slot \ {s} PROVE FlightKept(t)'
    <2>1. FlightKept(t) /\ slots'[t] = slots[t] /\ (InFlight(t)' <=> InFlight(t))
      BY <1>1, BatchParts
    <2>2. CASE ~InFlight(t)
      BY <2>1, <2>2 DEF FlightKept
    <2>3. ASSUME InFlight(t), HasLogits(t) PROVE HasLogits(t)'
      <3>1. CASE pc # "sample" /\ pc' # "sample" /\ batch_outputs \subseteq batch_outputs'
        BY <2>1, <2>3, <3>1 DEF HasLogits
      <3>2. CASE pc' = "step6"
        BY <2>1, <2>3, <3>2 DEF InFlight
      <3>3. CASE /\ pc = "sample" /\ pc' = "sample" /\ s = cursor /\ cursor' = s + 1
                 /\ UNCHANGED batch_outputs \/ slots'[s].spec
        <4>1. s \in Int /\ s < cursor' /\ \A u \in Slot : u < cursor => u < cursor' /\ u # s
          BY <3>3 DEF Slot
        <4>2. CASE slots'[s].spec
          BY <2>1, <3>3, <4>1, <4>2 DEF HasLogits, MtpBefore
        <4>3. CASE UNCHANGED batch_outputs
          <5>1. MtpBefore => MtpBefore'
            BY <1>1, <4>1 DEF MtpBefore
          <5>2. QED BY <2>1, <2>3, <3>3, <4>3, <5>1 DEF HasLogits
        <4>4. QED BY <3>3, <4>2, <4>3
      <3>4. QED BY <3>1, <3>2, <3>3 DEF OutputsKept
    <2>4. QED BY <2>1, <2>2, <2>3 DEF FlightKept
  <1>5. \A t \in Slot : FlightKept(t)'
    BY <1>4
  <1>6. QED BY <1>2, <1>3, <1>5 DEF BatchInv, PromptFilesExact

\* The first pass of build_batch decodes one token of every slot that has one.
LEMMA BatchBuildGenerating ==
  ASSUME TypeInv, BatchInv, BuildGenerating
  PROVE  BatchInv'
  <1> DEFINE G == {s \in Slot : HasGeneratedToken(slots[s])}
             pushed(s) == [slots[s] EXCEPT !.n_past = slots[s].n_past + 1]
  <1>1. /\ pc = "step3" /\ pc' = "build"
        /\ slots' = [s \in Slot |-> IF s \in G THEN pushed(s) ELSE slots[s]]
        /\ batch_outputs' = G /\ n_tokens' = Cardinality(G)
        /\ UNCHANGED <<n_batch, outcomes, prompt_files>>
    BY DEF BuildGenerating
  <1>2. BatchBounded'
    <2>1. IsFiniteSet(1..NSlots) /\ Cardinality(1..NSlots) = NSlots
      BY FS_Interval, SizeAssumption
    <2>2. G \in SUBSET (1..NSlots) /\ IsFiniteSet(G)
      BY <2>1, FS_Subset DEF Slot
    <2>3. Cardinality(G) <= NSlots /\ Cardinality(G) \in Nat
      BY <2>1, <2>2, FS_Subset, FS_CardinalityType
    <2>4. QED BY <1>1, <2>3, SizeAssumption DEF BatchBounded, Greatest
  <1>3. \A s \in Slot : ~InFlight(s) /\ InFlight(s)'
    BY <1>1 DEF InFlight
  <1>4. ASSUME NEW s \in Slot
        PROVE  SlotKept(slots'[s]) /\ FreshKept(s)' /\ FlightKept(s)'
    <2>1. /\ SlotKept(slots[s]) /\ FreshKept(s) /\ HasNextToken(slots[s])
          /\ slots[s] \in SlotRecord
      BY <1>3, BatchParts DEF FlightKept, SlotsTyped
    <2>2. CASE s \notin G
      <3>1. slots'[s] = slots[s]
        BY <1>1, <2>2
      <3>2. HasLogits(s)'
        BY <2>1, <2>2, <3>1 DEF HasLogits, HasNextToken, HasGeneratedToken
      <3>3. QED
        BY <1>1, <1>3, <2>1, <3>1, <3>2 DEF FlightKept, FreshKept, Finishing
    <2>3. CASE s \in G
      <3> DEFINE next == pushed(s)
      <3>1. slots'[s] = next
        BY <1>1, <2>3
      <3>2. /\ slots[s].state = "GENERATING" /\ IsCompletion(slots[s])
            /\ ~UsesMtp(slots[s]) /\ slots[s].n_decoded > 0
        BY <2>3 DEF HasGeneratedToken
      <3>3. /\ slots[s].n_past \in Nat /\ slots[s].n_past < NCtx /\ NCtx \in Nat
            /\ slots[s].num_prompt_tokens \in Nat /\ slots[s].n_decoded # 0
        BY <2>1, <3>2, SizeAssumption DEF HasNextToken, SlotRecord
      <3>4. /\ next.state = "GENERATING" /\ next.n_past = slots[s].n_past + 1
            /\ next.request_id = slots[s].request_id
            /\ next.save_prompt_state_tokens = slots[s].save_prompt_state_tokens
            /\ next.save_prompt_state_path = slots[s].save_prompt_state_path
            /\ next.num_prompt_tokens = slots[s].num_prompt_tokens
            /\ next.n_decoded = slots[s].n_decoded /\ next.spec = slots[s].spec
            /\ next.n_remaining = slots[s].n_remaining
            /\ next.spec_pending_tokens = slots[s].spec_pending_tokens
        BY <2>1, <3>2 DEF SlotRecord
      <3> HIDE DEF next
      <3>5. PromptAhead(next) /\ CheckpointAhead(next) /\ SpecSavesNothing(next)
        BY <2>1, <3>3, <3>4 DEF SlotKept, PromptAhead, CheckpointAhead, SpecSavesNothing
      <3>6. ContextKept(next)
        BY <3>3, <3>4 DEF ContextKept, Greatest
      <3>7. BudgetKept(next)
        BY <2>1, <3>2, <3>4 DEF SlotKept, BudgetKept, Budget, PendingFits, IsCompletion,
           UsesMtp, Active
      <3>8. HasLogits(s)'
        BY <1>1, <2>3 DEF HasLogits
      <3>9. QED
        BY <1>3, <3>1, <3>4, <3>5, <3>6, <3>7, <3>8 DEF SlotKept, FlightKept, FreshKept
    <2>4. QED BY <2>2, <2>3
  <1>5. QED
    BY <1>1, <1>2, <1>4 DEF BatchInv, BatchBounded, PromptFilesExact, OutcomesKept

\* The second pass, on the slot at the cursor.
LEMMA BatchBuildPrompt ==
  ASSUME TypeInv, BatchInv, BuildPrompt
  PROVE  BatchInv'
  <1> PICK s \in Slot : s = cursor
    BY DEF TypeInv, TypeOK
  <1>1. /\ pc = "build" /\ pc' \in {"build", "step4"}
        /\ UNCHANGED <<n_batch, prompt_files>>
    BY DEF BuildPrompt, NextSlot
  <1>2. \A t \in Slot : InFlight(t)' /\ InFlight(t)
    BY <1>1 DEF InFlight
  <1>3. CASE SkipSlot(slots[s])
    BY <1>1, <1>2, <1>3, ControlBatch DEF SkipSlot, Finishing
  <1>4. ASSUME BuildsTo(s) PROVE BatchInv'
    <2>1. PICK next : /\ SlotKept(next) /\ slots' = [slots EXCEPT ![s] = next]
                      /\ next.state # "IDLE"
                      /\ next.state = "GENERATING" =>
                           \/ UsesMtp(next) \/ s \in batch_outputs'
                           \/ next.media = "pending_token"
      BY <1>4 DEF BuildsTo
    <2>2. slots'[s] = next
      BY <1>1, <2>1, BatchParts DEF SlotsTyped
    <2>3. HasLogits(s)'
      BY <1>1, <2>1, <2>2 DEF HasLogits
    <2>4. FlightKept(s)'
      BY <1>1, <1>2, <2>3 DEF FlightKept
    <2>5. OutputsKept(s)
      BY <1>1, <1>4 DEF BuildsTo, OutputsKept
    <2>6. QED
      BY <1>1, <1>2, <1>4, <2>1, <2>4, <2>5, OneSlotBatch DEF BuildsTo, Finishing
  <1>5. CASE EnterMtp(s, slots[s])
    BY <1>1, <1>4, <1>5, BatchParts, EnterMtpBuilds
  <1>6. CASE EvaluateMedia(s, slots[s])
    BY <1>1, <1>4, <1>6, BatchParts, ProcessMediaBuilds DEF EvaluateMedia
  <1>7. CASE EvaluateText(s, slots[s])
    BY <1>1, <1>4, <1>7, BatchParts, TakePromptTokensBuilds DEF EvaluateText
  <1>8. QED BY <1>3, <1>5, <1>6, <1>7 DEF BuildPrompt

LEMMA BatchSample ==
  ASSUME TypeInv, BatchInv, sample_and_callback
  PROVE  BatchInv'
  <1> PICK s \in Slot : s = cursor
    BY DEF TypeInv, TypeOK
  <1>1. /\ pc = "sample"
        /\ UNCHANGED <<n_batch, n_tokens, prompt_files>>
    BY DEF sample_and_callback
  <1>2. /\ pc' \in {"sample", "step6"} /\ NSlots \in Nat
        /\ pc' = "sample" => s # NSlots /\ cursor' = s + 1
        /\ pc' = "step6" => s = NSlots
    BY <1>1, SizeAssumption DEF sample_and_callback, NextSlot
  <1>3. /\ InFlight(s) /\ ~InFlight(s)'
        /\ \A t \in Slot \ {s} : InFlight(t)' <=> InFlight(t)
    <2>1. \A t \in Slot \ {s} : /\ t \in Int /\ t <= NSlots
                               /\ t >= s <=> t >= s + 1
      BY DEF Slot
    <2>2. CASE pc' = "sample"
      BY <1>1, <1>2, <2>1, <2>2 DEF InFlight, Slot
    <2>3. CASE pc' = "step6"
      BY <1>1, <1>2, <2>1, <2>3 DEF InFlight, Slot
    <2>4. QED BY <1>2, <2>2, <2>3
  <1>4. /\ slots[s] \in SlotRecord /\ WellFormed(slots[s])
        /\ SlotKept(slots[s])
        /\ SlotsTyped /\ OutcomesTyped /\ OutcomesKept /\ BatchBounded
    BY <1>1, BatchParts DEF BatchInv, SlotsTyped
  <1>5. CASE SkipSample(slots[s])
    <2>1. \A t \in Slot : FlightKept(t)'
      <3>1. \A t \in Slot : slots'[t] = slots[t] /\ FlightKept(t)
        BY <1>5, BatchParts DEF SkipSample
      <3>2. FlightKept(s)'
        BY <1>1, <1>3, <1>5, <3>1 DEF FlightKept, HasNextToken, SkipSample
      <3>3. UNCHANGED batch_outputs /\ \A u \in Slot : u < s => u < s + 1
        BY <1>5 DEF SkipSample, Slot
      <3>4. pc' = "sample" /\ MtpBefore => MtpBefore'
        BY <1>2, <3>1, <3>3 DEF MtpBefore
      <3>5. ASSUME NEW t \in Slot \ {s} PROVE FlightKept(t)'
        <4>1. InFlight(t)' => pc' = "sample"
          BY <1>2 DEF InFlight
        <4>2. QED BY <1>1, <1>3, <3>1, <3>3, <3>4, <4>1 DEF FlightKept, HasLogits
      <3>6. QED BY <3>2, <3>5
    <2>2. QED
      BY <1>1, <1>2, <1>5, <2>1 DEF SkipSample, BatchInv, FreshKept, Finishing,
         BatchBounded, OutcomesKept, PromptFilesExact
  <1>6. ASSUME SamplesTo(s), UNCHANGED batch_outputs \/ slots'[s].spec PROVE BatchInv'
    <2>1. PICK next : /\ SlotKept(next) /\ HasNextToken(next) /\ next.state # "IDLE"
                      /\ slots' = [slots EXCEPT ![s] = next]
      BY <1>6 DEF SamplesTo
    <2>2. slots'[s] = next
      BY <1>1, <2>1, <1>4 DEF SlotsTyped
    <2>3. FlightKept(s)'
      BY <1>3, <2>1, <2>2, <1>1 DEF FlightKept
    <2>4. OutputsKept(s)
      BY <1>1, <1>2, <1>6 DEF OutputsKept
    <2>5. BatchBounded'
      BY <1>1, <1>4 DEF BatchBounded
    <2>6. QED
      BY <1>1, <1>2, <1>3, <1>4, <1>6, <2>1, <2>3, <2>4, <2>5, OneSlotBatch
      DEF SamplesTo, Finishing
  <1>7. CASE SampleCompletion(s, slots[s])
    <2>1. slots[s].state = "GENERATING" /\ IsCompletion(slots[s])
      BY <1>7 DEF SampleCompletion
    <2>2. CASE UsesMtp(slots[s])
      <3>1. SampleMtp(s, slots[s])
        BY <1>7, <2>2 DEF SampleCompletion
      <3>2. QED BY <1>4, <1>6, <2>1, <2>2, <3>1, SampleMtpSamples, SampleMtpOutputs
    <2>3. CASE ~UsesMtp(slots[s])
      BY <1>4, <1>6, <1>7, <2>1, <2>3, SampleTokenSamples DEF SampleCompletion
    <2>4. QED BY <2>2, <2>3
  <1>8. CASE SampleEmbedding(s, slots[s])
    BY <1>1, <1>4, <1>6, <1>8, DeliverResultSamples DEF SampleEmbedding, Active, IsCompletion
  <1>9. CASE SampleRerank(s, slots[s])
    BY <1>1, <1>4, <1>6, <1>9, ScoreDocumentSamples DEF SampleRerank
  <1>10. QED BY <1>5, <1>7, <1>8, <1>9 DEF sample_and_callback

\* A decode that fails halves n_batch and discards the batch.
LEMMA BatchDecodeFails ==
  ASSUME TypeInv, BatchInv, DecodeFails
  PROVE  BatchInv'
  <1>1. /\ pc = "step4" /\ pc' = "abort"
        /\ UNCHANGED <<slots, n_tokens, batch_outputs, cursor, outcomes, prompt_files>>
    BY DEF DecodeFails
  <1>2. n_batch' <= NBatch
    <2>1. n_batch \in Nat /\ n_batch <= NBatch /\ NBatch \in Nat
      BY BatchParts DEF BatchInv
    <2>2. n_batch \div 2 <= n_batch /\ n_batch \div 2 \in Nat
      BY <2>1
    <2>3. QED BY <2>1, <2>2 DEF DecodeFails
  <1>3. \A s \in Slot : FreshKept(s)' /\ FlightKept(s)'
    BY <1>1, BatchParts DEF FreshKept, FlightKept, HasLogits, InFlight, Finishing
  <1>4. QED
    BY <1>1, <1>2, <1>3 DEF BatchInv, BatchBounded, OutcomesKept, PromptFilesExact

\* A due checkpoint is exactly at its target: it is not beyond by CheckpointAhead.
LEMMA BatchSaveCheckpoints ==
  ASSUME TypeInv, BatchInv, SaveCheckpoints
  PROVE  BatchInv'
  <1>1. /\ pc = "step46" /\ pc' = "step5"
        /\ slots' = [s \in Slot |->
             IF DueForCheckpoint(slots[s]) \/ MissedCheckpoint(slots[s])
             THEN [slots[s] EXCEPT !.save_prompt_state_tokens = -1] ELSE slots[s]]
        /\ UNCHANGED <<n_batch, n_tokens, batch_outputs, cursor, outcomes>>
    BY DEF SaveCheckpoints, batchVars
  <1>2. PICK saved \in SUBSET {s \in Slot : DueForCheckpoint(slots[s])} :
          prompt_files' = [r \in Request |->
            IF \E s \in saved : Writes(slots[s], r)
            THEN LET slot == slots[CHOOSE s \in saved : Writes(slots[s], r)] IN
                 [by |-> slot.request_id, n_past |-> slot.n_past,
                  tokens |-> slot.save_prompt_state_tokens]
            ELSE prompt_files[r]]
    BY DEF SaveCheckpoints
  <1>3. ASSUME NEW s \in Slot, DueForCheckpoint(slots[s])
        PROVE  slots[s].n_past = slots[s].save_prompt_state_tokens
    <2>1. slots[s] \in SlotRecord /\ CheckpointAhead(slots[s])
      BY BatchParts DEF SlotsTyped, SlotKept
    <2>2. slots[s].n_past \in Nat /\ slots[s].save_prompt_state_tokens \in Int
      BY <2>1 DEF SlotRecord
    <2>3. QED BY <1>3, <2>1, <2>2 DEF DueForCheckpoint, CheckpointAhead
  <1>4. PromptFilesExact'
    <2> SUFFICES ASSUME NEW r \in Request
                 PROVE  prompt_files'[r].n_past = prompt_files'[r].tokens
      BY DEF PromptFilesExact
    <2>1. CASE \E s \in saved : Writes(slots[s], r)
      <3> DEFINE s == CHOOSE s \in saved : Writes(slots[s], r)
      <3>1. s \in saved
        BY <2>1
      <3>2. s \in Slot /\ DueForCheckpoint(slots[s])
        BY <1>2, <3>1
      <3>3. slots[s].n_past = slots[s].save_prompt_state_tokens
        BY <1>3, <3>2
      <3>4. prompt_files'[r] = [by |-> slots[s].request_id, n_past |-> slots[s].n_past,
                                tokens |-> slots[s].save_prompt_state_tokens]
        BY <1>2, <2>1
      <3>5. QED BY <3>3, <3>4
    <2>2. CASE ~\E s \in saved : Writes(slots[s], r)
      BY <1>2, <2>2 DEF BatchInv, PromptFilesExact
    <2>3. QED BY <2>1, <2>2
  <1>5. ASSUME NEW s \in Slot
        PROVE  SlotKept(slots'[s]) /\ FreshKept(s)' /\ FlightKept(s)'
    <2> DEFINE next == [slots[s] EXCEPT !.save_prompt_state_tokens = -1]
    <2>1. slots[s] \in SlotRecord /\ SlotKept(slots[s]) /\ FreshKept(s) /\ HasLogits(s)
      BY <1>1, BatchParts DEF SlotsTyped, FlightKept, InFlight
    <2>2. /\ next.state = slots[s].state /\ next.n_past = slots[s].n_past
          /\ next.request_id = slots[s].request_id
          /\ next.save_prompt_state_tokens = -1
          /\ next.save_prompt_state_path = slots[s].save_prompt_state_path
          /\ next.num_prompt_tokens = slots[s].num_prompt_tokens
          /\ next.n_decoded = slots[s].n_decoded /\ next.spec = slots[s].spec
          /\ next.n_remaining = slots[s].n_remaining
          /\ next.spec_pending_tokens = slots[s].spec_pending_tokens
          /\ next.media = slots[s].media
      BY <2>1 DEF SlotRecord
    <2>3. slots'[s] = next \/ slots'[s] = slots[s]
      BY <1>1
    <2> HIDE DEF next
    <2>4. SlotKept(next)
      BY <2>1, <2>2 DEF SlotKept, PromptAhead, CheckpointAhead, SpecSavesNothing,
         ContextKept, BudgetKept, Budget, PendingFits, IsCompletion, UsesMtp, Active
    <2>5. FreshKept(s)'
      BY <1>1, <2>1, <2>2, <2>3 DEF FreshKept, Fresh, Finishing
    <2>6. HasLogits(s)' /\ InFlight(s)'
      BY <1>1, <2>1, <2>2, <2>3 DEF HasLogits, UsesMtp, InFlight
    <2>7. QED BY <2>1, <2>3, <2>4, <2>5, <2>6 DEF FlightKept
  <1>6. QED BY <1>1, <1>4, <1>5 DEF BatchInv, BatchBounded, OutcomesKept

\* Cancelled slots are completed before anything is sampled.
LEMMA BatchTerminalizeBeforeSampling ==
  ASSUME TypeInv, BatchInv, TerminalizeBeforeSampling
  PROVE  BatchInv'
  <1>1. /\ pc = "step5" /\ pc' = "sample" /\ cursor' = 1
        /\ slots' = [s \in Slot |-> IF s \in InterruptedSlots THEN complete_slot(slots[s])
                                    ELSE slots[s]]
        /\ AnswerAll(InterruptedSlots, slots)
        /\ UNCHANGED <<n_batch, n_tokens, batch_outputs, prompt_files>>
    BY DEF TerminalizeBeforeSampling
  <1>2. \A s \in InterruptedSlots : s \in Slot /\ MayEnd(slots[s])
    BY BatchParts, KeptMayEnd DEF InterruptedSlots, ActiveSlots
  <1>3. OutcomesKept'
    BY <1>1, <1>2, BatchParts, AnswerAllKept DEF MayEnd
  <1>4. \A s \in Slot : InFlight(s)' /\ InFlight(s)
    BY <1>1 DEF InFlight, Slot
  <1>5. ASSUME NEW s \in Slot
        PROVE  SlotKept(slots'[s]) /\ FreshKept(s)' /\ FlightKept(s)'
    <2>1. SlotKept(slots[s]) /\ FreshKept(s) /\ HasLogits(s)
      BY <1>4, BatchParts DEF FlightKept
    <2>2. \/ slots'[s] = slots[s]
          \/ SlotKept(slots'[s]) /\ slots'[s].state = "DONE"
      BY <1>1, <1>2, CompleteKept
    <2>3. FreshKept(s)'
      BY <1>1, <2>1, <2>2 DEF FreshKept, Finishing
    <2>4. HasLogits(s)'
      BY <1>1, <2>1, <2>2 DEF HasLogits
    <2>5. QED BY <1>4, <2>1, <2>2, <2>3, <2>4 DEF FlightKept
  <1>6. QED
    BY <1>1, <1>3, <1>5 DEF BatchInv, BatchBounded, PromptFilesExact

\* A fresh slot is claimed for request r.
LEMMA ClaimKept ==
  ASSUME NEW slot \in SlotRecord, Fresh(slot), NEW r \in Request
  PROVE  LET next == Claim(slot, r) IN
         /\ next \in SlotRecord /\ next.request_id = r
         /\ Fresh(next) /\ CheckpointAhead(next) /\ SpecSavesNothing(next)
  <1> DEFINE path == IF Task[r] # "completion" THEN slot.save_prompt_state_path
                     ELSE IF r \in SavesPrompt THEN r ELSE NoRequest
             next == [slot EXCEPT !.request_id = r, !.is_interrupted = FALSE,
                        !.callback = FALSE, !.save_prompt_state_path = path]
  <1>1. Claim(slot, r) = next
    BY DEF Claim
  <1>2. path \in Request \cup {NoRequest}
    BY DEF SlotRecord
  <1> HIDE DEF path
  <1>3. /\ next \in SlotRecord /\ next.request_id = r
        /\ next.n_decoded = slot.n_decoded /\ next.spec = slot.spec
        /\ next.spec_pending_tokens = slot.spec_pending_tokens
        /\ next.save_prompt_state_tokens = slot.save_prompt_state_tokens
    BY <1>2 DEF SlotRecord
  <1> HIDE DEF next
  <1>4. Fresh(next) /\ CheckpointAhead(next) /\ SpecSavesNothing(next)
    BY <1>3 DEF Fresh, CheckpointAhead, SpecSavesNothing
  <1>5. QED BY <1>1, <1>3, <1>4

\* The head of the queue is given a slot, or its state fails to load.
LEMMA BatchAssign ==
  ASSUME TypeInv, BatchInv, NEW r \in Request, NEW s \in Slot, Available(s),
         pc \notin Finishing, Assign(r, s) \/ FailLoad(r, s)
  PROVE  /\ OutcomesKept'
         /\ \E next : /\ slots' = [slots EXCEPT ![s] = next] /\ SlotKept(next)
                      /\ next.state = "PROCESSING_PROMPT"
                           \/ (next.state = "DONE" /\ Fresh(next))
  <1> DEFINE claimed == Claim(slots[s], r)
  <1>1. slots[s] \in SlotRecord /\ Fresh(slots[s]) /\ OutcomesTyped /\ OutcomesKept
    BY BatchParts DEF SlotsTyped, Available, FreshKept
  <1>2. /\ claimed \in SlotRecord /\ claimed.request_id = r
        /\ Fresh(claimed) /\ CheckpointAhead(claimed) /\ SpecSavesNothing(claimed)
    BY <1>1, ClaimKept
  <1>3. PromptLen[r] \in Nat /\ PromptLen[r] > 0 /\ NPredict[r] \in Int
    BY TaskAssumption
  <1>4. CASE Assign(r, s)
    <2>1. PICK start \in ReusableTokens(r) :
            slots' = [slots EXCEPT ![s] =
              [load_prompt(claimed, r, start) EXCEPT
                 !.callback = TRUE, !.rerank_current_index = 0,
                 !.media = IF r \in Media THEN "deferred" ELSE "none",
                 !.n_remaining = IF Task[r] = "completion" THEN NPredict[r] ELSE -1]]
      BY <1>4 DEF Assign
    <2>2. start \in 0..(PromptLen[r] - 1)
      BY <1>3, <2>1 DEF ReusableTokens
    <2> DEFINE loaded == load_prompt(claimed, r, start)
               limit == IF Task[r] = "completion" THEN NPredict[r] ELSE -1
               medium == IF r \in Media THEN "deferred" ELSE "none"
               next == [loaded EXCEPT !.callback = TRUE, !.rerank_current_index = 0,
                                      !.media = medium, !.n_remaining = limit]
    <2>3. /\ loaded \in SlotRecord /\ loaded.state = "PROCESSING_PROMPT"
          /\ PromptAhead(loaded) /\ CheckpointAhead(loaded) /\ SpecSavesNothing(loaded)
          /\ ContextKept(loaded) /\ loaded.request_id = r /\ loaded.n_decoded = 0
          /\ loaded.spec_pending_tokens = claimed.spec_pending_tokens
      BY <1>2, <2>2, LoadPromptKept
    <2>4. slots' = [slots EXCEPT ![s] = next]
      BY <2>1
    <2> HIDE DEF loaded, claimed, limit, medium
    <2>5. /\ next.state = "PROCESSING_PROMPT" /\ next.n_past = loaded.n_past
          /\ next.request_id = r
          /\ next.save_prompt_state_tokens = loaded.save_prompt_state_tokens
          /\ next.save_prompt_state_path = loaded.save_prompt_state_path
          /\ next.num_prompt_tokens = loaded.num_prompt_tokens
          /\ next.n_decoded = 0 /\ next.spec = loaded.spec
          /\ next.n_remaining = limit
          /\ next.spec_pending_tokens = 0
      BY <1>2, <2>3 DEF SlotRecord, Fresh
    <2> HIDE DEF next
    <2>6. /\ PromptAhead(next) /\ CheckpointAhead(next) /\ SpecSavesNothing(next)
          /\ ContextKept(next)
      BY <2>3, <2>5 DEF PromptAhead, CheckpointAhead, SpecSavesNothing, ContextKept, Active
    <2>7. BudgetKept(next)
      BY <1>3, <2>5 DEF BudgetKept, Budget, PendingFits, IsCompletion, limit
    <2>8. OutcomesKept'
      BY <1>1, <1>4 DEF Assign, OutcomesKept
    <2>9. QED BY <2>4, <2>5, <2>6, <2>7, <2>8 DEF SlotKept
  <1>5. CASE FailLoad(r, s)
    <2> DEFINE failed == [claimed EXCEPT !.state = "DONE", !.incomplete = TRUE,
                                         !.error_of = r]
    <2>1. slots' = [slots EXCEPT ![s] = failed] /\ Answer(r, failed)
      BY <1>5 DEF FailLoad
    <2> HIDE DEF claimed
    <2>2. /\ failed \in SlotRecord /\ failed.state = "DONE"
          /\ failed.n_decoded = 0 /\ failed.spec = claimed.spec
          /\ failed.spec_pending_tokens = claimed.spec_pending_tokens
          /\ failed.save_prompt_state_tokens = claimed.save_prompt_state_tokens
      BY <1>2 DEF SlotRecord, State, Fresh
    <2> HIDE DEF failed
    <2>3. Fresh(failed) /\ SlotKept(failed)
      BY <1>2, <2>2 DEF Fresh, SlotKept, PromptAhead, CheckpointAhead, SpecSavesNothing,
         ContextKept, BudgetKept, Active
    <2>4. NPredict[r] > 0 => failed.n_decoded <= NPredict[r]
      BY <1>3, <2>2
    <2>5. OutcomesKept'
      BY <1>1, <2>1, <2>2, <2>4, AnswerKept
    <2>6. QED BY <2>1, <2>2, <2>3, <2>5
  <1>6. QED BY <1>4, <1>5

LEMMA BatchAssignHead ==
  ASSUME TypeInv, BatchInv, AssignHead
  PROVE  BatchInv'
  <1> DEFINE r == Head(queue_requests)
  <1>1. r \in Request
    BY DEF AssignHead, TypeInv, TypeOK
  <1>2. PICK s \in Slot : Available(s) /\ (Assign(r, s) \/ FailLoad(r, s))
    BY DEF AssignHead, get_available_slot
  <1>3. /\ pc \in {"assign", "step7", "reassign"} /\ pc' \in {"assign", "reassign"}
        /\ UNCHANGED <<n_batch, n_tokens, batch_outputs, prompt_files>>
    BY DEF AssignHead, batchVars
  <1> HIDE DEF r
  <1>4. \A t \in Slot : ~InFlight(t) /\ ~InFlight(t)'
    BY <1>3 DEF InFlight
  <1>5. OutcomesKept' /\ \E next :
          /\ slots' = [slots EXCEPT ![s] = next] /\ SlotKept(next)
          /\ next.state = "PROCESSING_PROMPT" \/ (next.state = "DONE" /\ Fresh(next))
    BY <1>1, <1>2, <1>3, BatchAssign DEF Finishing
  <1>6. PICK next :
          /\ slots' = [slots EXCEPT ![s] = next] /\ SlotKept(next)
          /\ next.state = "PROCESSING_PROMPT" \/ (next.state = "DONE" /\ Fresh(next))
    BY <1>5
  <1>7. slots'[s] = next /\ \A t \in Slot \ {s} : slots'[t] = slots[t]
    BY <1>6, BatchParts DEF SlotsTyped
  <1>8. \A t \in Slot : SlotKept(slots'[t]) /\ FreshKept(t)'
    BY <1>3, <1>6, <1>7, BatchParts DEF FreshKept, Finishing
  <1>9. \A t \in Slot : FlightKept(t)'
    BY <1>4, <1>6, <1>7, BatchParts DEF FlightKept, HasNextToken
  <1>10. QED
    BY <1>3, <1>5, <1>8, <1>9 DEF BatchInv, BatchBounded, PromptFilesExact

LEMMA BatchStep == TypeInv /\ BatchInv /\ [Next]_vars => BatchInv'
  <1> SUFFICES ASSUME TypeInv, BatchInv, [Next]_vars PROVE BatchInv'
    OBVIOUS
  <1>1. CASE UNCHANGED vars
    BY <1>1, ControlBatch DEF vars, InFlight
  <1>2. CASE Update
    BY <1>2, BatchLoop, BatchTerminalizeCancelled, BatchAssignHead, BatchBuildGenerating,
       BatchBuildPrompt, BatchDecodeFails, BatchAbort, BatchSaveCheckpoints,
       BatchTerminalizeBeforeSampling, BatchSample, BatchReleaseCompleted DEF Update
  <1>3. CASE LoopTop \/ CheckWork \/ FallAsleep \/ Reevaluate \/ SpuriousWakeup \/ Stopper
    BY <1>3, BatchLoop
  <1>4. CASE \E r \in Request : Client(r)
    BY <1>4, BatchClient
  <1>5. QED BY <1>1, <1>2, <1>3, <1>4 DEF Next, Worker

\* BatchInv holds in every reachable state.
THEOREM BatchInvariant == Spec => []BatchInv
  <1>1. Init => TypeInv /\ BatchInv
    BY TypeInit, BatchInit
  <1>2. (TypeInv /\ BatchInv) /\ [Next]_vars => (TypeInv /\ BatchInv)'
    BY TypeStep, BatchStep
  <1>3. QED BY <1>1, <1>2, PTL DEF Spec

-----------------------------------------------------------------------------
(* What follows from it                                                    *)

\* The batch holds at most n_batch tokens as configured, or one of each slot where there
\* are more slots than that, for every number of slots: the first pass of build_batch
\* ignores n_batch, halved or not, and the second then finds no room.
THEOREM BatchFits == Spec => []BatchBounded
  <1>1. BatchInv => BatchBounded
    BY DEF BatchInv
  <1>2. QED BY BatchInvariant, <1>1, PTL

\* Every completion, embedding or score is read from outputs of its own, however the
\* prompts were split over batches, unless an MTP slot of a smaller index has been
\* sampled before: without MTP requests, always.
THEOREM LogitsAreOwn == Spec => []SampledLogitsAreOwn
  <1>1. BatchInv => SampledLogitsAreOwn
    BY DEF BatchInv, FlightKept, InFlight, HasLogits, MtpBefore, SampledLogitsAreOwn
  <1>2. QED BY BatchInvariant, <1>1, PTL

\* A prompt checkpoint names exactly the position the sequence memory had when it was
\* written.
THEOREM CheckpointsExact == Spec => []PromptFilesExact
  <1>1. BatchInv => PromptFilesExact
    BY DEF BatchInv
  <1>2. QED BY BatchInvariant, <1>1, PTL

\* No completion delivers more tokens than a positive n_predict, with any draft length.
THEOREM PredictLimitKept == Spec => []WithinPredictLimit
  <1>1. TypeInv /\ BatchInv => WithinPredictLimit
    <2> SUFFICES ASSUME TypeInv, BatchInv,
                        NEW s \in Slot, Active(slots[s]), IsCompletion(slots[s]),
                        slots[s].n_remaining > 0
                 PROVE  slots[s].n_decoded + slots[s].spec_pending_tokens
                          <= NPredict[slots[s].request_id]
      BY DEF BatchInv, OutcomesKept, WithinPredictLimit
    <2> DEFINE slot == slots[s]
    <2>1. /\ slot.request_id \in Request
          /\ Budget(slot) /\ PendingFits(slot, 0)
          /\ slot.n_remaining \in Int /\ slot.n_decoded \in Nat
          /\ slot.spec_pending_tokens \in Nat
      BY BatchParts DEF SlotKept, BudgetKept, WellFormed, SlotRecord
    <2>2. NPredict[slot.request_id] \in Int
      BY <2>1, TaskAssumption
    <2>3. QED BY <2>1, <2>2 DEF Budget, PendingFits
  <1>2. QED BY TypeInit, TypeStep, BatchInvariant, <1>1, PTL DEF Spec

\* No slot decodes past its share of the context, beyond a prompt that was itself longer.
THEOREM ContextLimitKept == Spec => []WithinContext
  <1>1. BatchInv => WithinContext
    BY DEF BatchInv, SlotKept, ContextKept, WithinContext
  <1>2. QED BY BatchInvariant, <1>1, PTL
=============================================================================
