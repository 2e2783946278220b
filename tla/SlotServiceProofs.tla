------------------------- MODULE SlotServiceProofs -------------------------
(***************************************************************************)
(* What the application may count on, for every number of slots and        *)
(* requests: each request is in one place and answered at most once, no    *)
(* completion is lost, the worker does not sleep through a request, the    *)
(* answers of cancel_request are true, and the engine implements           *)
(* RequestService.                                                         *)
(***************************************************************************)
EXTENDS SlotManagerProofs

-----------------------------------------------------------------------------
(* What the steps of a slot have in common                                 *)

\* The slot still works for the same request, whose callback is still in place, and is
\* interrupted if it was.
SameRequest(slot, next) ==
  /\ next \in SlotRecord /\ Active(next)
  /\ next.request_id = slot.request_id /\ next.callback = slot.callback
  /\ next.is_interrupted = slot.is_interrupted

Continues(s) ==
  \E next : /\ SameRequest(slots[s], next)
            /\ slots' = [slots EXCEPT ![s] = next] /\ UNCHANGED outcomes

Finishes(s) == \E next : SameRequest(slots[s], next) /\ CompleteOne(s, next)

Delivers(s) ==
  /\ ~IsCompletion(slots[s])
  /\ slots' = [slots EXCEPT ![s].state = "DONE"]
  /\ \/ UNCHANGED outcomes
     \/ \E o \in SlotRecord : /\ o.is_interrupted = slots[s].is_interrupted
                             /\ Answer(slots[s].request_id, o)

\* One slot works: it goes on, or completes, or delivers a result.
WorksOn(s) == Continues(s) \/ Finishes(s) \/ Delivers(s)

LEMMA CountTokenSame ==
  ASSUME NEW slot, NEW next, SameRequest(slot, next)
  PROVE  SameRequest(slot, CountToken(next))
  <1>1. next \in SlotRecord
    BY DEF SameRequest
  <1>2. next.n_decoded \in Nat /\ next.n_remaining \in Int
    BY <1>1 DEF SlotRecord
  <1> DEFINE left == IF next.n_remaining > 0 THEN next.n_remaining - 1
                                             ELSE next.n_remaining
  <1>3. next.n_decoded + 1 \in Nat /\ left \in Int
    BY <1>2
  <1>4. CountToken(next) = [next EXCEPT !.n_decoded = next.n_decoded + 1,
                                        !.n_remaining = left]
    BY DEF CountToken
  <1> HIDE DEF left
  <1>5. /\ CountToken(next) \in SlotRecord
        /\ CountToken(next).state = next.state
        /\ CountToken(next).request_id = next.request_id
        /\ CountToken(next).callback = next.callback
        /\ CountToken(next).is_interrupted = next.is_interrupted
    BY <1>1, <1>3, <1>4 DEF SlotRecord
  <1>6. QED BY <1>5 DEF SameRequest, Active

LEMMA CountOrCompleteWorks ==
  ASSUME NEW s \in Slot, NEW slot, SameRequest(slots[s], slot),
         \/ CompleteOne(s, CountToken(slot))
         \/ slots' = [slots EXCEPT ![s] = CountToken(slot)] /\ UNCHANGED outcomes
  PROVE  WorksOn(s)
  BY CountTokenSame DEF WorksOn, Continues, Finishes

\* build_batch on one slot.
LEMMA TakePromptTokensWorks ==
  ASSUME BatchTyped, NEW s \in Slot, NEW slot, SameRequest(slots[s], slot),
         TakePromptTokens(s, slot)
  PROVE  WorksOn(s)
  <1> DEFINE past == slot.n_past + PromptTokensTaken(slot)
             next == [slot EXCEPT !.n_past = past,
                        !.state = IF past >= slot.num_prompt_tokens
                                  THEN "GENERATING" ELSE @]
  <1>1. slot \in SlotRecord /\ slot.state \in {"PROCESSING_PROMPT", "GENERATING"}
    BY DEF SameRequest, Active
  <1>2. past \in Nat
    BY <1>1, PromptTokensTakenType DEF SlotRecord
  <1>3. slots' = [slots EXCEPT ![s] = next] /\ UNCHANGED outcomes
    BY DEF TakePromptTokens
  <1>4. /\ next \in SlotRecord /\ next.state \in {"PROCESSING_PROMPT", "GENERATING"}
        /\ next.request_id = slot.request_id /\ next.callback = slot.callback
        /\ next.is_interrupted = slot.is_interrupted
    BY <1>1, <1>2 DEF SlotRecord, State
  <1>5. SameRequest(slots[s], next)
    BY <1>4 DEF SameRequest, Active
  <1>6. QED BY <1>3, <1>5 DEF WorksOn, Continues

LEMMA BuildPromptWorks ==
  ASSUME TypeInv, NEW s \in Slot,
         \/ EnterMtp(s, slots[s]) \/ EvaluateMedia(s, slots[s])
         \/ EvaluateText(s, slots[s])
  PROVE  Active(slots[s]) /\ WorksOn(s)
  <1> DEFINE slot == slots[s]
  <1>1. /\ slot \in SlotRecord /\ WellFormed(slot)
        /\ slot.state = "PROCESSING_PROMPT" /\ Active(slot)
    BY DEF TypeInv, TypeOK, EnterMtp, EvaluateMedia, EvaluateText, Active
  <1>2. slot.request_id \in Request /\ slot.num_prompt_tokens \in Nat
    BY <1>1 DEF WellFormed, SlotRecord
  <1>3. BatchTyped
    BY TypeInvParts
  <1>4. CASE EnterMtp(s, slot)
    <2> DEFINE failed == [slot EXCEPT !.incomplete = TRUE, !.error_of = slot.request_id]
               next == [slot EXCEPT !.state = "GENERATING"]
    <2>1. SameRequest(slot, failed)
      BY <1>1, <1>2 DEF SameRequest, SlotRecord, Active
    <2>2. SameRequest(slot, next)
      BY <1>1 DEF SameRequest, SlotRecord, Active, State
    <2>3. \/ CompleteOne(s, failed)
          \/ slots' = [slots EXCEPT ![s] = next] /\ UNCHANGED outcomes
      BY <1>4 DEF EnterMtp
    <2>4. QED BY <1>1, <2>1, <2>2, <2>3 DEF WorksOn, Continues, Finishes
  <1>5. CASE EvaluateMedia(s, slot)
    <2>1. \A target \in MovedCheckpoint(slot) : target \in Nat \cup {-1}
      BY <1>2 DEF MovedCheckpoint
    <2>2. SameRequest(slot, slot) /\ SameRequest(slot, [slot EXCEPT !.incomplete = TRUE])
      BY <1>1 DEF SameRequest, SlotRecord, Active
    <2>3. ASSUME NEW target \in MovedCheckpoint(slot)
          PROVE  SameRequest(slot,
                   [slot EXCEPT !.state = "GENERATING", !.n_past = slot.num_prompt_tokens,
                                !.media = "pending_token",
                                !.save_prompt_state_tokens = target])
      BY <1>1, <1>2, <2>1 DEF SameRequest, SlotRecord, Active, State
    <2>4. ASSUME NEW target \in MovedCheckpoint(slot),
                 NEW past \in 1..(slot.num_prompt_tokens - 1)
          PROVE  SameRequest(slot, [slot EXCEPT !.n_past = past, !.media = "processed",
                                      !.save_prompt_state_tokens = target])
      <3>1. past \in Nat
        BY <1>2
      <3>2. QED BY <1>1, <2>1, <3>1 DEF SameRequest, SlotRecord, Active
    <2>5. CASE CompleteOne(s, slot) \/ CompleteOne(s, [slot EXCEPT !.incomplete = TRUE])
      BY <1>1, <2>2, <2>5 DEF WorksOn, Finishes
    <2>6. CASE \E target \in MovedCheckpoint(slot) :
                 /\ slots' = [slots EXCEPT ![s] =
                      [slot EXCEPT !.state = "GENERATING",
                                   !.n_past = slot.num_prompt_tokens,
                                   !.media = "pending_token",
                                   !.save_prompt_state_tokens = target]]
                 /\ UNCHANGED outcomes
      BY <1>1, <2>3, <2>6 DEF WorksOn, Continues
    <2>7. CASE \E target \in MovedCheckpoint(slot), past \in 1..(slot.num_prompt_tokens - 1) :
                 TakePromptTokens(s, [slot EXCEPT !.n_past = past, !.media = "processed",
                                                  !.save_prompt_state_tokens = target])
      BY <1>1, <1>3, <2>4, <2>7, TakePromptTokensWorks
    <2>8. QED BY <1>5, <2>5, <2>6, <2>7 DEF EvaluateMedia, ProcessMedia
  <1>6. CASE EvaluateText(s, slot)
    <2>1. SameRequest(slot, slot)
      BY <1>1 DEF SameRequest
    <2>2. QED BY <1>1, <1>3, <1>6, <2>1, TakePromptTokensWorks DEF EvaluateText
  <1>7. QED BY <1>4, <1>5, <1>6

\* sample_and_callback on one slot: ordinary completions.
LEMMA SampleTokenWorks ==
  ASSUME NEW s \in Slot, SameRequest(slots[s], slots[s]), SampleToken(s, slots[s])
  PROVE  WorksOn(s)
  <1> DEFINE slot == slots[s]
             sampled == [slot EXCEPT !.media = IF @ = "pending_token" THEN "processed"
                                               ELSE @]
  <1>1. SameRequest(slot, sampled)
    BY DEF SameRequest, SlotRecord, Active
  <1>2. \/ CompleteOne(s, sampled)
        \/ CompleteOne(s, CountToken(sampled))
        \/ slots' = [slots EXCEPT ![s] = CountToken(sampled)] /\ UNCHANGED outcomes
    BY DEF SampleToken
  <1> HIDE DEF sampled
  <1>3. CASE CompleteOne(s, sampled)
    BY <1>1, <1>3 DEF WorksOn, Finishes
  <1>4. QED BY <1>1, <1>2, <1>3, CountOrCompleteWorks

\* Completions with speculative decoding.
LEMMA EmitMtpWorks ==
  ASSUME NEW s \in Slot, NEW slot, SameRequest(slots[s], slot), EmitMtp(s, slot)
  PROVE  WorksOn(s)
  <1> DEFINE rest == [slot EXCEPT !.spec_pending_tokens = @ - 1]
  <1>1. slot \in SlotRecord /\ slot.spec_pending_tokens \in Nat
    BY DEF SameRequest, SlotRecord
  <1>2. CASE slot.spec_pending_tokens = 0
    BY <1>2 DEF EmitMtp, WorksOn, Finishes
  <1>3. CASE slot.spec_pending_tokens # 0
    <2>1. slot.spec_pending_tokens - 1 \in Nat
      BY <1>1, <1>3
    <2>2. SameRequest(slots[s], rest)
      BY <1>1, <2>1 DEF SameRequest, SlotRecord, Active
    <2>3. \/ CompleteOne(s, CountToken(rest))
          \/ slots' = [slots EXCEPT ![s] = CountToken(rest)] /\ UNCHANGED outcomes
      BY <1>3 DEF EmitMtp
    <2> HIDE DEF rest
    <2>4. QED BY <2>2, <2>3, CountOrCompleteWorks
  <1>4. QED BY <1>2, <1>3

LEMMA SampleMtpWorks ==
  ASSUME NEW s \in Slot, WellFormed(slots[s]), Active(slots[s]), SampleMtp(s, slots[s])
  PROVE  WorksOn(s)
  <1> DEFINE slot == slots[s]
  <1>1. slot \in SlotRecord /\ slot.request_id \in Request /\ SameRequest(slot, slot)
    BY DEF WellFormed, SameRequest
  <1>2. WellFormed(InitMtp(slot)) /\ Active(InitMtp(slot))
    BY InitMtpType
  <1>3. SameRequest(slot, InitMtp(slot))
    <2>1. InitMtp(slot) \in SlotRecord
      BY <1>2 DEF WellFormed
    <2>2. InitMtp(slot).request_id = slot.request_id
          /\ InitMtp(slot).callback = slot.callback
          /\ InitMtp(slot).is_interrupted = slot.is_interrupted
      BY <1>1 DEF InitMtp, SlotRecord
    <2>3. QED BY <1>2, <2>1, <2>2 DEF SameRequest
  <1>4. ASSUME NEW ended \in {slot, [slot EXCEPT !.spec = TRUE]}, MtpFails(s, ended)
        PROVE  WorksOn(s)
    <2> DEFINE failed == [ended EXCEPT !.incomplete = TRUE, !.error_of = ended.request_id]
    <2>1. ended \in SlotRecord /\ SameRequest(slot, ended)
      BY <1>1 DEF SameRequest, SlotRecord, Active
    <2>2. SameRequest(slot, failed)
      BY <2>1 DEF SameRequest, SlotRecord, Active
    <2>3. QED BY <1>4, <2>2 DEF MtpFails, WorksOn, Finishes
  <1>5. CASE EmitMtp(s, slot)
    BY <1>1, <1>5, EmitMtpWorks
  <1>6. CASE CompleteOne(s, InitMtp(slot))
    BY <1>3, <1>6 DEF WorksOn, Finishes
  <1>7. ASSUME NEW accepted \in 1..(DraftLimit(InitMtp(slot)) + 1), NEW eos \in BOOLEAN,
               EmitMtp(s, Refill(InitMtp(slot), accepted, eos))
        PROVE  WorksOn(s)
    <2> DEFINE begun == InitMtp(slot)
               filled == Refill(begun, accepted, eos)
    <2>1. filled \in SlotRecord
      BY <1>2, RefillType DEF WellFormed
    <2>2. /\ filled.request_id = begun.request_id /\ filled.state = begun.state
          /\ filled.callback = begun.callback
          /\ filled.is_interrupted = begun.is_interrupted
      <3> DEFINE pending == IF eos THEN accepted - 1 ELSE accepted
                 past == begun.n_past + accepted
      <3>1. begun \in SlotRecord
        BY <1>2 DEF WellFormed
      <3>2. filled = [begun EXCEPT !.n_past = past, !.stopped_eos = eos,
                        !.spec_pending_tokens = pending]
        BY DEF Refill
      <3> HIDE DEF begun, filled, pending, past
      <3>3. QED BY <3>1, <3>2 DEF SlotRecord
    <2>3. SameRequest(slot, filled)
      BY <1>3, <2>1, <2>2 DEF SameRequest, Active
    <2>4. QED BY <1>7, <2>3, EmitMtpWorks
  <1>8. QED BY <1>4, <1>5, <1>6, <1>7 DEF SampleMtp

\* Embedding and rerank requests.
LEMMA DeliverResultWorks ==
  ASSUME NEW s \in Slot, NEW slot \in SlotRecord, slot.request_id = slots[s].request_id,
         slot.is_interrupted = slots[s].is_interrupted,
         Task[slot.request_id] # "completion", DeliverResult(s, slot)
  PROVE  WorksOn(s)
  BY DEF DeliverResult, WorksOn, Delivers, IsCompletion

LEMMA ScoreDocumentWorks ==
  ASSUME NEW s \in Slot, WellFormed(slots[s]), Active(slots[s]),
         Task[slots[s].request_id] = "rerank", ScoreDocument(s, slots[s])
  PROVE  WorksOn(s)
  <1> DEFINE slot == slots[s]
             r == slot.request_id
             next == slot.rerank_current_index + 1
             loaded == load_prompt(slot, r, 0)
             again == [loaded EXCEPT !.rerank_current_index = next]
             last == [slot EXCEPT !.rerank_current_index = next]
  <1>1. slot \in SlotRecord /\ r \in Request
    BY DEF WellFormed
  <1>2. next \in Nat
    BY <1>1 DEF SlotRecord
  <1>3. /\ loaded \in SlotRecord /\ loaded.request_id = r
        /\ loaded.state = "PROCESSING_PROMPT" /\ loaded.callback = slot.callback
        /\ loaded.is_interrupted = slot.is_interrupted
    <2> DEFINE target == IF slot.save_prompt_state_path = NoRequest
                              \/ 0 > CheckpointTarget(r)
                         THEN -1 ELSE CheckpointTarget(r)
    <2>1. loaded \in SlotRecord /\ loaded.request_id = r
      BY <1>1, LoadPromptType
    <2>2. loaded = [slot EXCEPT !.state = "PROCESSING_PROMPT", !.n_decoded = 0,
                      !.num_prompt_tokens = PromptLen[r], !.n_past = 0,
                      !.save_prompt_state_tokens = target]
      BY DEF load_prompt
    <2> HIDE DEF loaded, target
    <2>3. /\ loaded.state = "PROCESSING_PROMPT" /\ loaded.callback = slot.callback
          /\ loaded.is_interrupted = slot.is_interrupted
      BY <1>1, <2>2 DEF SlotRecord
    <2>4. QED BY <2>1, <2>3
  <1> HIDE DEF next, loaded
  <1>4. SameRequest(slot, again)
    BY <1>2, <1>3 DEF SameRequest, SlotRecord, Active
  <1>5. last \in SlotRecord /\ last.request_id = r
        /\ last.is_interrupted = slot.is_interrupted
    BY <1>1, <1>2 DEF SlotRecord
  <1>6. CASE next < NDocs[r]
    <2>1. slots' = [slots EXCEPT ![s] = again] /\ UNCHANGED outcomes
      BY <1>6 DEF ScoreDocument, next, loaded
    <2>2. QED BY <1>4, <2>1 DEF WorksOn, Continues
  <1>7. CASE ~(next < NDocs[r])
    <2>1. DeliverResult(s, last)
      BY <1>7 DEF ScoreDocument, next
    <2>2. QED BY <1>5, <2>1, DeliverResultWorks
  <1>8. QED BY <1>6, <1>7

LEMMA SampleWorks ==
  ASSUME TypeInv, NEW s \in Slot,
         \/ SampleCompletion(s, slots[s]) \/ SampleEmbedding(s, slots[s])
         \/ SampleRerank(s, slots[s])
  PROVE  Active(slots[s]) /\ WorksOn(s)
  <1>1. /\ slots[s] \in SlotRecord /\ WellFormed(slots[s]) /\ Active(slots[s])
        /\ SameRequest(slots[s], slots[s])
    BY DEF TypeInv, TypeOK, SampleCompletion, SampleEmbedding, SampleRerank, Active,
       SameRequest
  <1>2. CASE SampleCompletion(s, slots[s])
    BY <1>1, <1>2, SampleMtpWorks, SampleTokenWorks DEF SampleCompletion
  <1>3. CASE SampleEmbedding(s, slots[s])
    BY <1>1, <1>3, DeliverResultWorks DEF SampleEmbedding
  <1>4. CASE SampleRerank(s, slots[s])
    BY <1>1, <1>4, ScoreDocumentWorks DEF SampleRerank
  <1>5. QED BY <1>2, <1>3, <1>4

-----------------------------------------------------------------------------
(* Lemmas about the queue                                                  *)

Distinct(q) == \A i, j \in DOMAIN q : q[i] = q[j] => i = j
Occurs(x, q) == \E i \in DOMAIN q : q[i] = x

LEMMA TailOccurs ==
  ASSUME NEW q \in Seq(Request), q # <<>>, Distinct(q)
  PROVE  /\ Head(q) \in Request /\ Occurs(Head(q), q) /\ Distinct(Tail(q))
         /\ \A x : Occurs(x, Tail(q)) <=> Occurs(x, q) /\ x # Head(q)
  <1>1. /\ Len(q) \in Nat /\ Len(q) >= 1 /\ DOMAIN q = 1..Len(q)
        /\ Head(q) = q[1] /\ Head(q) \in Request
        /\ DOMAIN Tail(q) = 1..(Len(q) - 1)
        /\ \A i \in DOMAIN Tail(q) : Tail(q)[i] = q[i + 1]
    OBVIOUS
  <1>2. Distinct(Tail(q))
    BY <1>1 DEF Distinct
  <1>3. ASSUME NEW x PROVE Occurs(x, Tail(q)) <=> Occurs(x, q) /\ x # Head(q)
    <2>1. ASSUME NEW i \in DOMAIN Tail(q), Tail(q)[i] = x
          PROVE  i + 1 \in DOMAIN q /\ q[i + 1] = x /\ x # q[1]
      BY <1>1, <2>1 DEF Distinct
    <2>2. ASSUME NEW i \in DOMAIN q, q[i] = x, x # q[1]
          PROVE  i - 1 \in DOMAIN Tail(q) /\ Tail(q)[i - 1] = x
      BY <1>1, <2>2
    <2>3. QED BY <1>1, <2>1, <2>2 DEF Occurs
  <1>4. QED BY <1>1, <1>2, <1>3 DEF Occurs

LEMMA AppendOccurs ==
  ASSUME NEW q \in Seq(Request), NEW r \in Request, Distinct(q), ~Occurs(r, q)
  PROVE  /\ Distinct(Append(q, r))
         /\ \A x : Occurs(x, Append(q, r)) <=> Occurs(x, q) \/ x = r
  <1>1. /\ Len(q) \in Nat /\ DOMAIN q = 1..Len(q)
        /\ DOMAIN Append(q, r) = 1..(Len(q) + 1)
        /\ Append(q, r)[Len(q) + 1] = r
        /\ \A i \in DOMAIN q : Append(q, r)[i] = q[i]
    OBVIOUS
  <1>2. \A i \in DOMAIN Append(q, r) : i \in DOMAIN q \/ i = Len(q) + 1
    BY <1>1
  <1>3. \A i \in DOMAIN q : q[i] # r
    BY DEF Occurs
  <1>4. Distinct(Append(q, r))
    BY <1>1, <1>2, <1>3 DEF Distinct
  <1>5. \A x : Occurs(x, Append(q, r)) <=> Occurs(x, q) \/ x = r
    BY <1>1, <1>2 DEF Occurs
  <1>6. QED BY <1>4, <1>5

LEMMA WithoutOccurs ==
  ASSUME NEW q \in Seq(Request), NEW k \in DOMAIN q, Distinct(q)
  PROVE  /\ Distinct(Without(q, k))
         /\ \A x : Occurs(x, Without(q, k)) <=> Occurs(x, q) /\ x # q[k]
  <1> DEFINE w == Without(q, k)
  <1>1. /\ Len(q) \in Nat /\ DOMAIN q = 1..Len(q) /\ k \in 1..Len(q)
        /\ DOMAIN w = 1..(Len(q) - 1)
    BY DEF Without
  <1>2. \A i \in DOMAIN w : w[i] = q[IF i < k THEN i ELSE i + 1]
    BY <1>1 DEF Without
  <1> HIDE DEF w
  <1>3. \A i \in DOMAIN w : /\ (IF i < k THEN i ELSE i + 1) \in DOMAIN q
                            /\ (IF i < k THEN i ELSE i + 1) # k
    BY <1>1
  <1>4. Distinct(w)
    BY <1>1, <1>2, <1>3 DEF Distinct
  <1>5. ASSUME NEW x PROVE Occurs(x, w) <=> Occurs(x, q) /\ x # q[k]
    <2>1. Occurs(x, w) => Occurs(x, q) /\ x # q[k]
      BY <1>2, <1>3 DEF Occurs, Distinct
    <2>2. ASSUME NEW i \in DOMAIN q, q[i] = x, x # q[k] PROVE Occurs(x, w)
      <3>1. CASE i < k
        <4>1. i \in DOMAIN w /\ w[i] = x
          BY <1>1, <1>2, <2>2, <3>1
        <4>2. QED BY <4>1 DEF Occurs
      <3>2. CASE i > k
        <4>1. i - 1 \in DOMAIN w /\ w[i - 1] = x
          BY <1>1, <1>2, <2>2, <3>2
        <4>2. QED BY <4>1 DEF Occurs
      <3>3. QED BY <1>1, <2>2, <3>1, <3>2
    <2>3. QED BY <2>1, <2>2 DEF Occurs
  <1>6. QED BY <1>4, <1>5 DEF w

-----------------------------------------------------------------------------
(* Preservation by the kinds of steps                                      *)

\* For the placement of requests the slot has not changed.
SameView(s) ==
  /\ slots'[s].request_id = slots[s].request_id
  /\ slots'[s].callback = slots[s].callback
  /\ slots'[s].state = "IDLE" <=> slots[s].state = "IDLE"
  /\ Active(slots'[s]) <=> Active(slots[s])

\* Of the requests held by the slots of C the completions are answered, once; the
\* others may be; no other request is.
AnswersOnly(C) ==
  /\ \A r \in Request :
       \/ outcomes'[r] = outcomes[r]
       \/ Len(outcomes'[r]) = 1 /\ \E s \in C : slots[s].request_id = r
  /\ \A s \in C : IsCompletion(slots[s]) => outcomes'[slots[s].request_id] # <<>>

LEMMA PlacementParts ==
  ASSUME TypeInv, PlacementInv
  PROVE  /\ Distinct(queue_requests) /\ \A r : Queued(r) <=> Occurs(r, queue_requests)
         /\ queue_requests \in Seq(Request) /\ slots \in [Slot -> SlotRecord]
         /\ active_requests \in [Request -> Slot \cup {NoSlot}]
         /\ cancel_result \in [Request -> {"none", "ACTIVE", "QUEUED", "NOT_FOUND"}]
         /\ outcomes \in [Request -> Seq(OutcomeRecord)] /\ submitted \subseteq Request
         /\ \A s \in Slot : Active(slots[s]) => slots[s].request_id \in Request
         /\ \A s \in Slot : ~Vacant(s) => slots[s].request_id \in Request
         /\ \A s \in Slot : Active(slots[s]) => ~Vacant(s)
  BY DEF TypeInv, TypeOK, WellFormed, PlacementInv, QueueDistinct, HeldLeftQueue,
     Distinct, Occurs, Queued, Active, Vacant

\* Completing slots calls back for the completions among them only.
LEMMA AnswerAllAnswers ==
  ASSUME TypeInv, PlacementInv, NEW C \in SUBSET ActiveSlots, NEW f,
         \A s \in C : f[s].request_id = slots[s].request_id
                      /\ f[s].callback = slots[s].callback,
         AnswerAll(C, f), TypeInv'
  PROVE  AnswersOnly(C)
  <1>1. \A s \in C : s \in Slot /\ Active(slots[s])
    BY DEF ActiveSlots
  <1>2. \A s \in C : slots[s].callback /\ outcomes[slots[s].request_id] = <<>>
                     /\ slots[s].request_id \in Request
    BY <1>1, PlacementParts DEF PlacementInv, BusyOwnsRequest
  <1>3. ASSUME NEW r \in Request, NEW s \in C, CallsBack(f[s], r)
        PROVE  slots[s].request_id = r /\ Len(outcomes'[r]) = 1
    <2>1. slots[s].request_id = r /\ outcomes[r] = <<>>
      BY <1>2, <1>3 DEF CallsBack
    <2>2. PICK o : outcomes'[r] = Append(outcomes[r], o)
      BY <1>3 DEF AnswerAll
    <2>3. Append(<<>>, o) = <<o>> /\ Len(<<o>>) = 1
      OBVIOUS
    <2>4. QED BY <2>1, <2>2, <2>3
  <1>4. ASSUME NEW r \in Request, ~\E s \in C : CallsBack(f[s], r)
        PROVE  outcomes'[r] = outcomes[r]
    BY <1>4 DEF AnswerAll
  <1>5. ASSUME NEW s \in C, IsCompletion(slots[s])
        PROVE  outcomes'[slots[s].request_id] # <<>>
    <2>1. CallsBack(f[s], slots[s].request_id)
      BY <1>2, <1>5 DEF CallsBack, IsCompletion
    <2>2. Len(outcomes'[slots[s].request_id]) = 1
      BY <1>2, <1>3, <2>1
    <2>3. Len(<<>>) = 0
      OBVIOUS
    <2>4. QED BY <2>2, <2>3
  <1>6. QED BY <1>3, <1>4, <1>5 DEF AnswersOnly

\* The active slots of C complete; every other slot looks as before.
LEMMA MovePlacement ==
  ASSUME TypeInv, TypeInv', PlacementInv, NEW C \in SUBSET ActiveSlots,
         \A s \in Slot \ C : SameView(s),
         \A s \in C : slots'[s].request_id = slots[s].request_id
                      /\ slots'[s].state = "DONE",
         AnswersOnly(C),
         UNCHANGED <<queue_requests, active_requests, submitted>>,
         \A r \in Request :
           /\ cancel_result'[r] = "QUEUED" <=> cancel_result[r] = "QUEUED"
           /\ r \notin submitted => cancel_result'[r] = cancel_result[r],
         pc' \in Finishing \/ (C = {} /\ pc \notin Finishing)
  PROVE  PlacementInv'
  <1>1. \A s \in C : s \in Slot /\ Active(slots[s])
    BY DEF ActiveSlots
  <1>2. \A s \in Slot : slots'[s].request_id = slots[s].request_id
    BY DEF SameView
  <1>3. \A s \in Slot : slots'[s].state = "IDLE" <=> slots[s].state = "IDLE"
    BY <1>1 DEF SameView, Active
  <1>4. \A s \in Slot : Active(slots'[s]) <=> Active(slots[s]) /\ s \notin C
    BY <1>1 DEF SameView, Active
  <1>5. \A r : Queued(r)' <=> Queued(r)
    BY DEF Queued
  <1>6. /\ \A s \in Slot : ~Vacant(s) => slots[s].request_id \in Request
        /\ \A s \in Slot : Active(slots[s]) => ~Vacant(s)
        /\ active_requests \in [Request -> Slot \cup {NoSlot}]
        /\ submitted \subseteq Request
    BY PlacementParts
  <1>7. Len(<<>>) = 0
    OBVIOUS
  <1>8. QueueDistinct'
    BY DEF PlacementInv, QueueDistinct
  <1>9. \A r \in Request : Queued(r) => outcomes'[r] = outcomes[r]
    BY <1>1, <1>6 DEF PlacementInv, HeldLeftQueue, AnswersOnly
  <1>10. QueuedUntouched'
    BY <1>5, <1>9 DEF PlacementInv, QueuedUntouched
  <1>11. HeldLeftQueue'
    BY <1>2, <1>3, <1>5, <1>6 DEF PlacementInv, HeldLeftQueue, Vacant
  <1>12. OneHolder'
    BY <1>2, <1>3 DEF PlacementInv, OneHolder, Vacant
  <1>13. BusyOwnsRequest'
    <2> SUFFICES ASSUME NEW s \in Slot, Active(slots'[s])
                 PROVE  /\ active_requests'[slots'[s].request_id] = s
                        /\ slots'[s].callback /\ outcomes'[slots'[s].request_id] = <<>>
      BY DEF BusyOwnsRequest
    <2>1. Active(slots[s]) /\ s \notin C /\ ~Vacant(s) /\ slots[s].request_id \in Request
      BY <1>4, <1>6
    <2>2. \A t \in C : slots[t].request_id # slots[s].request_id
      BY <1>1, <1>6, <2>1 DEF PlacementInv, OneHolder
    <2>3. outcomes'[slots[s].request_id] = outcomes[slots[s].request_id]
      BY <2>1, <2>2 DEF AnswersOnly
    <2>4. slots'[s].callback = slots[s].callback
      BY <2>1 DEF SameView
    <2>5. QED BY <1>2, <2>1, <2>3, <2>4 DEF PlacementInv, BusyOwnsRequest
  <1>14. EntryIsHeld'
    <2> SUFFICES ASSUME NEW r \in Request, active_requests[r] # NoSlot
                 PROVE  /\ slots'[active_requests[r]].request_id = r
                        /\ slots'[active_requests[r]].state # "IDLE"
                        /\ pc' \notin Finishing => Active(slots'[active_requests[r]])
      BY DEF EntryIsHeld, Vacant
    <2>1. active_requests[r] \in Slot
      BY <1>6
    <2>2. QED BY <1>2, <1>3, <1>4, <2>1 DEF PlacementInv, EntryIsHeld, Vacant
  <1>15. UnknownUntouched'
    <2>1. \A r \in Request \ submitted : outcomes'[r] = outcomes[r]
      BY <1>1, <1>6 DEF PlacementInv, HeldLeftQueue, AnswersOnly
    <2>2. QED BY <2>1 DEF PlacementInv, UnknownUntouched
  <1>16. OneOutcome'
    <2> SUFFICES ASSUME NEW r \in Request
                 PROVE  /\ Len(outcomes'[r]) <= 1
                        /\ cancel_result'[r] = "QUEUED" => outcomes'[r] = <<>>
      BY DEF OneOutcome
    <2>1. CASE outcomes'[r] = outcomes[r]
      BY <2>1 DEF PlacementInv, OneOutcome
    <2>2. CASE Len(outcomes'[r]) = 1 /\ \E s \in C : slots[s].request_id = r
      BY <1>1, <1>6, <2>2 DEF PlacementInv, HeldLeftQueue
    <2>3. QED BY <2>1, <2>2 DEF AnswersOnly
  <1>17. NothingLost'
    <2> SUFFICES ASSUME NEW r \in submitted, Task[r] = "completion"
                 PROVE  \/ Queued(r)
                        \/ \E s \in Slot : Active(slots'[s]) /\ CallsBack(slots'[s], r)
                        \/ outcomes'[r] # <<>>
                        \/ cancel_result'[r] = "QUEUED"
      BY <1>5 DEF NothingLost
    <2>1. CASE outcomes[r] # <<>>
      BY <1>6, <1>7, <2>1 DEF AnswersOnly
    <2>2. ASSUME NEW s \in Slot, Active(slots[s]), CallsBack(slots[s], r)
          PROVE  outcomes'[r] # <<>> \/ (Active(slots'[s]) /\ CallsBack(slots'[s], r))
      <3>1. slots[s].request_id = r /\ slots[s].callback /\ IsCompletion(slots[s])
        BY <2>2 DEF CallsBack
      <3>2. CASE s \in C
        BY <3>1, <3>2 DEF AnswersOnly
      <3>3. CASE s \notin C
        BY <2>2, <3>1, <3>3 DEF SameView, CallsBack, IsCompletion
      <3>4. QED BY <3>2, <3>3
    <2>3. QED BY <1>6, <2>1, <2>2 DEF PlacementInv, NothingLost
  <1>18. QED
    BY <1>8, <1>10, <1>11, <1>12, <1>13, <1>14, <1>15, <1>16, <1>17 DEF PlacementInv

\* Steps that change nothing the placement of requests depends on.
LEMMA SamePlacement ==
  ASSUME TypeInv, TypeInv', PlacementInv, \A s \in Slot : SameView(s),
         UNCHANGED <<queue_requests, active_requests, submitted, outcomes>>,
         \A r \in Request :
           /\ cancel_result'[r] = "QUEUED" <=> cancel_result[r] = "QUEUED"
           /\ r \notin submitted => cancel_result'[r] = cancel_result[r],
         pc' \in Finishing \/ pc \notin Finishing
  PROVE  PlacementInv'
  <1>1. AnswersOnly({})
    BY DEF AnswersOnly
  <1>2. QED BY <1>1, MovePlacement

\* The step of one slot.
LEMMA WorksPlacement ==
  ASSUME TypeInv, TypeInv', PlacementInv, NEW s \in Slot, Active(slots[s]), WorksOn(s),
         UNCHANGED <<queue_requests, active_requests, submitted, cancel_result>>,
         pc' \in Finishing
  PROVE  PlacementInv'
  <1>1. slots \in [Slot -> SlotRecord] /\ slots[s].request_id \in Request /\ {s} \subseteq ActiveSlots
    BY PlacementParts DEF ActiveSlots
  <1>2. ASSUME NEW next, SameRequest(slots[s], next),
               slots' = [slots EXCEPT ![s] = next], UNCHANGED outcomes
        PROVE  PlacementInv'
    <2>1. slots'[s] = next /\ \A t \in Slot \ {s} : slots'[t] = slots[t]
      BY <1>1, <1>2
    <2>2. \A t \in Slot : SameView(t)
      BY <1>2, <2>1 DEF SameView, SameRequest, Active
    <2>3. QED BY <1>2, <2>2, SamePlacement
  <1>3. ASSUME NEW next, SameRequest(slots[s], next), CompleteOne(s, next)
        PROVE  PlacementInv'
    <2> DEFINE f == [slots EXCEPT ![s] = next]
               done == complete_slot(next)
    <2>1. /\ done.request_id = slots[s].request_id /\ done.state = "DONE"
      BY <1>3 DEF complete_slot, SameRequest, SlotRecord
    <2>2. slots' = [slots EXCEPT ![s] = done] /\ AnswerAll({s}, f)
      BY <1>3 DEF CompleteOne
    <2> HIDE DEF done
    <2>3. slots'[s] = done /\ \A t \in Slot \ {s} : slots'[t] = slots[t]
      BY <1>1, <2>2
    <2>4. f[s].request_id = slots[s].request_id /\ f[s].callback = slots[s].callback
      BY <1>1, <1>3 DEF SameRequest
    <2> HIDE DEF f
    <2>5. AnswersOnly({s})
      BY <1>1, <2>2, <2>4, AnswerAllAnswers
    <2>6. \A t \in Slot \ {s} : SameView(t)
      BY <2>3 DEF SameView
    <2>7. QED BY <1>1, <2>1, <2>3, <2>5, <2>6, MovePlacement
  <1>4. CASE Delivers(s)
    <2> DEFINE done == [slots[s] EXCEPT !.state = "DONE"]
    <2>1. done.request_id = slots[s].request_id /\ done.state = "DONE"
      BY <1>1 DEF SlotRecord
    <2>2. slots' = [slots EXCEPT ![s] = done]
      BY <1>4 DEF Delivers
    <2> HIDE DEF done
    <2>3. slots'[s] = done /\ \A t \in Slot \ {s} : slots'[t] = slots[t]
      BY <1>1, <2>2
    <2>4. AnswersOnly({s})
      <3>1. ~IsCompletion(slots[s]) /\ outcomes[slots[s].request_id] = <<>>
        BY <1>4 DEF Delivers, PlacementInv, BusyOwnsRequest
      <3>2. CASE UNCHANGED outcomes
        BY <3>1, <3>2 DEF AnswersOnly
      <3>3. ASSUME NEW o \in SlotRecord, Answer(slots[s].request_id, o)
            PROVE  AnswersOnly({s})
        <4> DEFINE r == slots[s].request_id
        <4>1. outcomes \in [Request -> Seq(OutcomeRecord)] /\ r \in Request
          BY <1>1, PlacementParts
        <4>2. outcomes'[r] = Append(<<>>, OutcomeOf(o))
          BY <3>1, <3>3, <4>1 DEF Answer
        <4>3. \A x \in Request : x # r => outcomes'[x] = outcomes[x]
          BY <3>3, <4>1 DEF Answer
        <4>4. Len(outcomes'[r]) = 1
          BY <4>2
        <4>5. QED BY <3>1, <4>3, <4>4 DEF AnswersOnly
      <3>4. QED BY <1>4, <3>2, <3>3 DEF Delivers
    <2>5. \A t \in Slot \ {s} : SameView(t)
      BY <2>3 DEF SameView
    <2>6. QED BY <1>1, <2>1, <2>3, <2>4, <2>5, MovePlacement
  <1>5. QED BY <1>2, <1>3, <1>4 DEF WorksOn, Continues, Finishes

\* Slots are completed and every DONE slot is reset.
LEMMA ReleasePlacement ==
  ASSUME TypeInv, TypeInv', PlacementInv, NEW C \in SUBSET ActiveSlots, NEW D,
         D = C \cup DoneSlots, \A s \in D : slots'[s] = reset,
         \A s \in Slot \ D : SameView(s), AnswersOnly(C), Release(D),
         UNCHANGED <<queue_requests, submitted, cancel_result>>
  PROVE  PlacementInv'
  <1>1. /\ \A s \in Slot : ~Vacant(s) => slots[s].request_id \in Request
        /\ \A s \in Slot : Active(slots[s]) => ~Vacant(s)
        /\ active_requests \in [Request -> Slot \cup {NoSlot}]
        /\ slots \in [Slot -> SlotRecord] /\ submitted \subseteq Request
    BY PlacementParts
  <1>2. /\ \A s \in C : s \in Slot /\ Active(slots[s])
        /\ \A s \in D : s \in Slot /\ ~Vacant(s)
    BY DEF ActiveSlots, DoneSlots, Active, Vacant
  <1>3. \A s \in Slot \ D : Vacant(s) \/ Active(slots[s])
    BY <1>1 DEF SlotRecord, State, Active, Vacant, DoneSlots
  <1>4. \A s \in D : slots'[s].state = "IDLE" /\ ~Active(slots'[s])
    BY ResetWellFormed DEF Active
  <1>5. \A s \in Slot : slots'[s].state # "IDLE" =>
          /\ s \notin D /\ ~Vacant(s) /\ slots'[s].request_id = slots[s].request_id
    BY <1>4 DEF SameView, Vacant
  <1>6. \A s \in Slot : Active(slots'[s]) =>
          /\ s \notin D /\ Active(slots[s]) /\ slots'[s].request_id = slots[s].request_id
          /\ slots'[s].callback = slots[s].callback
    BY <1>4 DEF SameView
  <1>7. \A r : Queued(r)' <=> Queued(r)
    BY DEF Queued
  <1>8. \A r \in Request :
          active_requests'[r] = IF \E s \in D : slots[s].request_id = r
                                THEN NoSlot ELSE active_requests[r]
    BY DEF Release
  <1>9. Len(<<>>) = 0
    OBVIOUS
  <1>10. QueueDistinct'
    BY DEF PlacementInv, QueueDistinct
  <1>11. QueuedUntouched'
    <2>1. \A r \in Request : Queued(r) => outcomes'[r] = outcomes[r]
      BY <1>1, <1>2 DEF PlacementInv, HeldLeftQueue, AnswersOnly
    <2>2. QED BY <1>7, <1>8, <2>1 DEF PlacementInv, QueuedUntouched
  <1>12. HeldLeftQueue'
    BY <1>5, <1>7 DEF PlacementInv, HeldLeftQueue, Vacant
  <1>13. OneHolder'
    BY <1>5 DEF PlacementInv, OneHolder, Vacant
  <1>14. BusyOwnsRequest'
    <2> SUFFICES ASSUME NEW s \in Slot, Active(slots'[s])
                 PROVE  /\ active_requests'[slots'[s].request_id] = s
                        /\ slots'[s].callback /\ outcomes'[slots'[s].request_id] = <<>>
      BY DEF BusyOwnsRequest
    <2> DEFINE r == slots[s].request_id
    <2>1. /\ Active(slots[s]) /\ s \notin D /\ ~Vacant(s) /\ r \in Request
          /\ slots'[s].request_id = r /\ slots'[s].callback = slots[s].callback
      BY <1>1, <1>6
    <2>2. \A t \in D : slots[t].request_id # r
      BY <1>2, <2>1 DEF PlacementInv, OneHolder
    <2>3. active_requests'[r] = active_requests[r] /\ outcomes'[r] = outcomes[r]
      BY <1>8, <2>1, <2>2 DEF AnswersOnly
    <2>4. QED BY <2>1, <2>3 DEF PlacementInv, BusyOwnsRequest
  <1>15. EntryIsHeld'
    <2> SUFFICES ASSUME NEW r \in Request, active_requests'[r] # NoSlot
                 PROVE  /\ slots'[active_requests'[r]].request_id = r
                        /\ slots'[active_requests'[r]].state # "IDLE"
                        /\ Active(slots'[active_requests'[r]])
      BY DEF EntryIsHeld, Vacant
    <2> DEFINE s == active_requests[r]
    <2>1. active_requests'[r] = s /\ s \in Slot /\ \A t \in D : slots[t].request_id # r
      BY <1>1, <1>8
    <2>2. slots[s].request_id = r /\ ~Vacant(s)
      BY <2>1 DEF PlacementInv, EntryIsHeld
    <2>3. s \notin D /\ Active(slots[s])
      BY <1>3, <2>1, <2>2
    <2>4. QED BY <2>1, <2>2, <2>3 DEF SameView, Active, Vacant
  <1>16. UnknownUntouched'
    <2>1. \A r \in Request \ submitted : outcomes'[r] = outcomes[r]
      BY <1>1, <1>2 DEF PlacementInv, HeldLeftQueue, AnswersOnly
    <2>2. QED BY <2>1 DEF PlacementInv, UnknownUntouched
  <1>17. OneOutcome'
    <2> SUFFICES ASSUME NEW r \in Request
                 PROVE  /\ Len(outcomes'[r]) <= 1
                        /\ cancel_result'[r] = "QUEUED" => outcomes'[r] = <<>>
      BY DEF OneOutcome
    <2>1. CASE outcomes'[r] = outcomes[r]
      BY <2>1 DEF PlacementInv, OneOutcome
    <2>2. CASE Len(outcomes'[r]) = 1 /\ \E s \in C : slots[s].request_id = r
      BY <1>1, <1>2, <2>2 DEF PlacementInv, HeldLeftQueue
    <2>3. QED BY <2>1, <2>2 DEF AnswersOnly
  <1>18. NothingLost'
    <2> SUFFICES ASSUME NEW r \in submitted, Task[r] = "completion"
                 PROVE  \/ Queued(r)
                        \/ \E s \in Slot : Active(slots'[s]) /\ CallsBack(slots'[s], r)
                        \/ outcomes'[r] # <<>>
                        \/ cancel_result'[r] = "QUEUED"
      BY <1>7 DEF NothingLost
    <2>1. CASE outcomes[r] # <<>>
      BY <1>1, <1>9, <2>1 DEF AnswersOnly
    <2>2. ASSUME NEW s \in Slot, Active(slots[s]), CallsBack(slots[s], r)
          PROVE  outcomes'[r] # <<>> \/ (Active(slots'[s]) /\ CallsBack(slots'[s], r))
      <3>1. slots[s].request_id = r /\ slots[s].callback /\ IsCompletion(slots[s])
        BY <2>2 DEF CallsBack
      <3>2. CASE s \in C
        BY <3>1, <3>2 DEF AnswersOnly
      <3>3. CASE s \notin C
        <4>1. s \notin D
          BY <2>2, <3>3 DEF DoneSlots, Active
        <4>2. QED BY <2>2, <3>1, <4>1 DEF SameView, CallsBack, IsCompletion
      <3>4. QED BY <3>2, <3>3
    <2>3. QED BY <1>1, <2>1, <2>2 DEF PlacementInv, NothingLost
  <1>19. QED
    BY <1>10, <1>11, <1>12, <1>13, <1>14, <1>15, <1>16, <1>17, <1>18 DEF PlacementInv

LEMMA CompleteAndReleasePlacement ==
  ASSUME TypeInv, TypeInv', PlacementInv, NEW C \in SUBSET ActiveSlots, NEW f,
         \A s \in Slot : /\ f[s].request_id = slots[s].request_id
                         /\ f[s].callback = slots[s].callback
                         /\ f[s].state = slots[s].state,
         CompleteAndRelease(C, f),
         UNCHANGED <<queue_requests, submitted, cancel_result>>
  PROVE  PlacementInv'
  <1> DEFINE D == C \cup DoneSlots
  <1>1. C \subseteq Slot /\ D \subseteq Slot
    BY DEF ActiveSlots, DoneSlots
  <1>2. AnswersOnly(C)
    BY <1>1, AnswerAllAnswers DEF CompleteAndRelease
  <1>3. Release(D) /\ slots' = [s \in Slot |-> IF s \in D THEN reset ELSE f[s]]
    BY DEF CompleteAndRelease
  <1>4. \A s \in D : slots'[s] = reset
    BY <1>1, <1>3
  <1>5. \A s \in Slot \ D : SameView(s)
    BY <1>3 DEF SameView, Active
  <1> HIDE DEF D
  <1>6. QED BY <1>2, <1>3, <1>4, <1>5, ReleasePlacement DEF D

\* The head of the queue is given a slot, or fails to load.
LEMMA AssignPlacement ==
  ASSUME TypeInv, TypeInv', PlacementInv, AssignHead
  PROVE  PlacementInv'
  <1> DEFINE r == Head(queue_requests)
  <1>1. PICK s \in Slot : /\ Available(s)
                          /\ Assign(r, s) \/ FailLoad(r, s)
    BY DEF AssignHead, get_available_slot
  <1>2. /\ \A t \in Slot : ~Vacant(t) => slots[t].request_id \in Request
        /\ \A t \in Slot : Active(slots[t]) => ~Vacant(t)
        /\ active_requests \in [Request -> Slot \cup {NoSlot}]
        /\ slots \in [Slot -> SlotRecord] /\ submitted \subseteq Request
        /\ outcomes \in [Request -> Seq(OutcomeRecord)]
        /\ queue_requests \in Seq(Request) /\ Distinct(queue_requests)
        /\ \A x : Queued(x) <=> Occurs(x, queue_requests)
    BY PlacementParts
  <1>3. /\ queue_requests' = Tail(queue_requests) /\ queue_requests # <<>>
        /\ pc \notin Finishing /\ UNCHANGED <<submitted, cancel_result>>
    BY DEF AssignHead, clientVars, Finishing
  <1>4. /\ r \in Request /\ Queued(r) /\ Distinct(queue_requests')
        /\ \A x : Queued(x)' <=> Queued(x) /\ x # r
    <2>1. \A x : Queued(x)' <=> Occurs(x, queue_requests')
      BY DEF Queued, Occurs
    <2>2. QED BY <1>2, <1>3, <2>1, TailOccurs
  <1> HIDE DEF r
  <1>5. /\ r \in submitted /\ active_requests[r] = NoSlot
        /\ outcomes[r] = <<>> /\ cancel_result[r] # "QUEUED"
    BY <1>4 DEF PlacementInv, QueuedUntouched
  <1>6. \A t \in Slot : ~Vacant(t) => slots[t].request_id # r
    BY <1>4 DEF PlacementInv, HeldLeftQueue
  <1>7. ~Active(slots[s]) /\ \A x \in Request : active_requests[x] # s
    <2>1. ~Active(slots[s])
      BY <1>1 DEF Available, Active
    <2>2. s # NoSlot
      BY SizeAssumption DEF Slot, NoSlot
    <2>3. QED BY <1>3, <2>1, <2>2 DEF PlacementInv, EntryIsHeld
  <1>8. QueueDistinct'
    BY <1>4 DEF QueueDistinct, Distinct
  <1>9. CASE Assign(r, s)
    <2>1. PICK start \in ReusableTokens(r) :
            slots' = [slots EXCEPT ![s] =
              [load_prompt(Claim(slots[s], r), r, start) EXCEPT
                 !.callback = TRUE, !.rerank_current_index = 0,
                 !.media = IF r \in Media THEN "deferred" ELSE "none",
                 !.n_remaining = IF Task[r] = "completion" THEN NPredict[r] ELSE -1]]
      BY <1>9 DEF Assign
    <2>2. start \in Nat
      BY <1>4, <2>1, TaskAssumption DEF ReusableTokens
    <2> DEFINE loaded == load_prompt(Claim(slots[s], r), r, start)
               limit == IF Task[r] = "completion" THEN NPredict[r] ELSE -1
               next == [loaded EXCEPT
                 !.callback = TRUE, !.rerank_current_index = 0,
                 !.media = IF r \in Media THEN "deferred" ELSE "none",
                 !.n_remaining = limit]
    <2>3. loaded \in SlotRecord /\ loaded.request_id = r
          /\ loaded.state = "PROCESSING_PROMPT"
      <3> DEFINE claim == Claim(slots[s], r)
                 target == IF claim.save_prompt_state_path = NoRequest
                              \/ start > CheckpointTarget(r)
                           THEN -1 ELSE CheckpointTarget(r)
      <3>1. claim \in SlotRecord /\ claim.request_id = r
        BY <1>2, <1>4, LoadPromptType
      <3>2. loaded \in SlotRecord /\ loaded.request_id = r
        BY <1>4, <2>2, <3>1, LoadPromptType
      <3>3. loaded = [claim EXCEPT !.state = "PROCESSING_PROMPT", !.n_decoded = 0,
                        !.num_prompt_tokens = PromptLen[r], !.n_past = start,
                        !.save_prompt_state_tokens = target]
        BY DEF load_prompt
      <3> HIDE DEF claim, target, loaded
      <3>4. loaded.state = "PROCESSING_PROMPT"
        BY <3>1, <3>3 DEF SlotRecord
      <3>5. QED BY <3>2, <3>4
    <2> HIDE DEF loaded, limit
    <2>4. /\ next.request_id = r /\ next.state = "PROCESSING_PROMPT"
          /\ next.callback = TRUE
      BY <2>3 DEF SlotRecord
    <2>5. slots' = [slots EXCEPT ![s] = next]
      BY <2>1 DEF loaded, limit
    <2> HIDE DEF next
    <2>6. slots'[s] = next /\ \A t \in Slot \ {s} : slots'[t] = slots[t]
      BY <1>2, <2>5
    <2>7. /\ active_requests' = [active_requests EXCEPT ![r] = s] /\ UNCHANGED outcomes
      BY <1>9 DEF Assign
    <2>8. active_requests'[r] = s
          /\ \A x \in Request : x # r => active_requests'[x] = active_requests[x]
      BY <1>2, <1>4, <2>7
    <2>9. Active(slots'[s]) /\ slots'[s].state # "IDLE"
      BY <2>4, <2>6 DEF Active
    <2>10. QueuedUntouched'
      BY <1>3, <1>4, <2>7, <2>8 DEF PlacementInv, QueuedUntouched
    <2>11. HeldLeftQueue'
      BY <1>3, <1>4, <1>5, <2>4, <2>6 DEF PlacementInv, HeldLeftQueue, Vacant
    <2>12. OneHolder'
      BY <1>6, <2>4, <2>6 DEF PlacementInv, OneHolder, Vacant
    <2>13. BusyOwnsRequest'
      <3>1. \A t \in Slot \ {s} : Active(slots[t]) =>
              slots[t].request_id \in Request /\ slots[t].request_id # r
        BY <1>2, <1>6
      <3>2. QED
        BY <1>5, <2>4, <2>6, <2>7, <2>8, <3>1 DEF PlacementInv, BusyOwnsRequest
    <2>14. EntryIsHeld'
      <3> SUFFICES ASSUME NEW x \in Request, active_requests'[x] # NoSlot
                   PROVE  /\ slots'[active_requests'[x]].request_id = x
                          /\ slots'[active_requests'[x]].state # "IDLE"
                          /\ Active(slots'[active_requests'[x]])
        BY DEF EntryIsHeld, Vacant
      <3>1. CASE x = r
        BY <2>4, <2>6, <2>8, <2>9, <3>1
      <3>2. CASE x # r
        <4>1. /\ active_requests'[x] = active_requests[x]
              /\ active_requests[x] \in Slot \ {s}
          BY <1>2, <1>7, <2>8, <3>2
        <4>2. QED
          BY <1>3, <2>6, <4>1 DEF PlacementInv, EntryIsHeld, Vacant
      <3>3. QED BY <3>1, <3>2
    <2>15. UnknownUntouched' /\ OneOutcome'
      BY <1>3, <2>7 DEF PlacementInv, UnknownUntouched, OneOutcome
    <2>16. NothingLost'
      <3>1. Task[r] = "completion" => CallsBack(slots'[s], r)
        BY <2>4, <2>6 DEF CallsBack, IsCompletion
      <3>2. QED
        BY <1>3, <1>4, <1>7, <2>6, <2>7, <2>9, <3>1 DEF PlacementInv, NothingLost
    <2>17. QED
      BY <1>8, <2>10, <2>11, <2>12, <2>13, <2>14, <2>15, <2>16 DEF PlacementInv
  <1>10. CASE FailLoad(r, s)
    <2> DEFINE claim == Claim(slots[s], r)
               failed == [claim EXCEPT !.state = "DONE", !.incomplete = TRUE,
                                       !.error_of = r]
    <2>1. claim \in SlotRecord /\ claim.request_id = r
      BY <1>2, <1>4, LoadPromptType
    <2>2. slots' = [slots EXCEPT ![s] = failed] /\ Answer(r, failed)
          /\ UNCHANGED active_requests
      BY <1>10 DEF FailLoad
    <2> HIDE DEF claim
    <2>3. failed.request_id = r /\ failed.state = "DONE"
      BY <2>1 DEF SlotRecord
    <2> HIDE DEF failed
    <2>4. slots'[s] = failed /\ \A t \in Slot \ {s} : slots'[t] = slots[t]
      BY <1>2, <2>2
    <2>5. ~Active(slots'[s]) /\ slots'[s].state # "IDLE"
      BY <2>3, <2>4 DEF Active
    <2>6. /\ \A x \in Request : x # r => outcomes'[x] = outcomes[x]
          /\ Len(outcomes'[r]) = 1 /\ outcomes'[r] # <<>>
      BY <1>2, <1>4, <1>5, <2>2 DEF Answer
    <2>7. QueuedUntouched'
      BY <1>3, <1>4, <2>2, <2>6 DEF PlacementInv, QueuedUntouched
    <2>8. HeldLeftQueue'
      BY <1>3, <1>4, <1>5, <2>3, <2>4 DEF PlacementInv, HeldLeftQueue, Vacant
    <2>9. OneHolder'
      BY <1>6, <2>3, <2>4 DEF PlacementInv, OneHolder, Vacant
    <2>10. BusyOwnsRequest'
      <3>1. \A t \in Slot \ {s} : Active(slots[t]) =>
              slots[t].request_id \in Request /\ slots[t].request_id # r
        BY <1>2, <1>6
      <3>2. QED BY <2>2, <2>4, <2>5, <2>6, <3>1 DEF PlacementInv, BusyOwnsRequest
    <2>11. EntryIsHeld'
      <3> SUFFICES ASSUME NEW x \in Request, active_requests[x] # NoSlot
                   PROVE  /\ slots'[active_requests[x]].request_id = x
                          /\ slots'[active_requests[x]].state # "IDLE"
                          /\ Active(slots'[active_requests[x]])
        BY <2>2 DEF EntryIsHeld, Vacant
      <3>1. active_requests[x] \in Slot \ {s}
        BY <1>2, <1>7
      <3>2. QED BY <1>3, <2>4, <3>1 DEF PlacementInv, EntryIsHeld, Vacant
    <2>12. UnknownUntouched'
      BY <1>3, <1>5, <2>6 DEF PlacementInv, UnknownUntouched
    <2>13. OneOutcome'
      <3> SUFFICES ASSUME NEW x \in Request
                   PROVE  /\ Len(outcomes'[x]) <= 1
                          /\ cancel_result[x] = "QUEUED" => outcomes'[x] = <<>>
        BY <1>3 DEF OneOutcome
      <3>1. CASE x = r
        <4>1. Len(outcomes'[x]) = 1
          BY <2>6, <3>1
        <4>2. cancel_result[x] # "QUEUED"
          BY <1>5, <3>1
        <4>3. QED BY <4>1, <4>2
      <3>2. CASE x # r
        BY <2>6, <3>2 DEF PlacementInv, OneOutcome
      <3>3. QED BY <3>1, <3>2
    <2>14. NothingLost'
      BY <1>2, <1>3, <1>4, <1>7, <2>4, <2>6 DEF PlacementInv, NothingLost
    <2>15. QED
      BY <1>8, <2>7, <2>8, <2>9, <2>10, <2>11, <2>12, <2>13, <2>14 DEF PlacementInv
  <1>11. QED BY <1>1, <1>9, <1>10

-----------------------------------------------------------------------------
(* Preservation by every step                                              *)

\* Nobody knows an id before its request is queued.
LEMMA UnsubmittedIsNowhere ==
  ASSUME TypeInv, PlacementInv, NEW r \in Request, r \notin submitted
  PROVE  /\ ~Queued(r) /\ active_requests[r] = NoSlot /\ outcomes[r] = <<>>
         /\ cancel_result[r] = "none"
         /\ \A s \in Slot : ~Vacant(s) => slots[s].request_id # r
  <1>1. \A s \in Slot : ~Vacant(s) => slots[s].request_id # r
    BY DEF PlacementInv, HeldLeftQueue
  <1>2. active_requests[r] = NoSlot
    <2>1. active_requests[r] \in Slot \cup {NoSlot}
      BY PlacementParts
    <2>2. QED BY <1>1, <2>1 DEF PlacementInv, EntryIsHeld
  <1>3. QED BY <1>1, <1>2 DEF PlacementInv, QueuedUntouched, UnknownUntouched

LEMMA QueueRequestPlacement ==
  ASSUME TypeInv, PlacementInv, NEW r \in Request, QueueRequest(r)
  PROVE  PlacementInv'
  <1>1. /\ r \notin submitted /\ queue_requests' = Append(queue_requests, r)
        /\ submitted' = submitted \cup {r}
        /\ UNCHANGED <<slots, active_requests, pc, cancel_result, outcomes>>
    BY DEF QueueRequest
  <1>2. /\ ~Queued(r) /\ active_requests[r] = NoSlot /\ outcomes[r] = <<>>
        /\ cancel_result[r] = "none"
        /\ \A s \in Slot : ~Vacant(s) => slots[s].request_id # r
    BY <1>1, UnsubmittedIsNowhere
  <1>3. /\ queue_requests \in Seq(Request) /\ Distinct(queue_requests)
        /\ \A x : Queued(x) <=> Occurs(x, queue_requests)
    BY PlacementParts
  <1>4. \A x : Queued(x)' <=> Occurs(x, queue_requests')
    BY DEF Queued, Occurs
  <1>5. Distinct(queue_requests') /\ \A x : Queued(x)' <=> Queued(x) \/ x = r
    BY <1>1, <1>2, <1>3, <1>4, AppendOccurs
  <1>6. QueueDistinct'
    BY <1>5 DEF QueueDistinct, Distinct
  <1>7. QueuedUntouched' /\ HeldLeftQueue' /\ UnknownUntouched' /\ NothingLost'
    BY <1>1, <1>2, <1>5 DEF PlacementInv, QueuedUntouched, HeldLeftQueue,
       UnknownUntouched, NothingLost, Vacant
  <1>8. OneHolder' /\ BusyOwnsRequest' /\ EntryIsHeld' /\ OneOutcome'
    BY <1>1 DEF PlacementInv, OneHolder, BusyOwnsRequest, EntryIsHeld, OneOutcome, Vacant
  <1>9. QED BY <1>6, <1>7, <1>8 DEF PlacementInv

LEMMA AnswerAtOncePlacement ==
  ASSUME TypeInv, PlacementInv, NEW r \in Request, AnswerAtOnce(r)
  PROVE  PlacementInv'
  <1>1. /\ r \notin submitted /\ r \in AtOnce /\ submitted' = submitted \cup {r}
        /\ outcomes' = [outcomes EXCEPT ![r] = Append(@, OutcomeOf(reset))]
        /\ UNCHANGED <<slots, active_requests, pc, cancel_result, queue_requests>>
    BY DEF AnswerAtOnce, Answer
  <1>2. /\ ~Queued(r) /\ active_requests[r] = NoSlot /\ outcomes[r] = <<>>
        /\ cancel_result[r] = "none"
        /\ \A s \in Slot : ~Vacant(s) => slots[s].request_id # r
    BY <1>1, UnsubmittedIsNowhere
  <1>3. /\ outcomes \in [Request -> Seq(OutcomeRecord)] /\ submitted \subseteq Request
        /\ \A s \in Slot : Active(slots[s]) => ~Vacant(s) /\ slots[s].request_id \in Request
    BY PlacementParts
  <1>4. /\ \A x \in Request : x # r => outcomes'[x] = outcomes[x]
        /\ Len(outcomes'[r]) = 1
    BY <1>1, <1>2, <1>3
  <1>5. Task[r] # "completion"
    BY <1>1, FeatureAssumption
  <1>6. \A x : Queued(x)' <=> Queued(x)
    BY <1>1 DEF Queued
  <1>7. QueueDistinct' /\ HeldLeftQueue' /\ OneHolder' /\ EntryIsHeld'
    BY <1>1, <1>6 DEF PlacementInv, QueueDistinct, HeldLeftQueue, OneHolder, EntryIsHeld,
       Vacant
  <1>8. QueuedUntouched' /\ UnknownUntouched'
    BY <1>1, <1>2, <1>4, <1>6 DEF PlacementInv, QueuedUntouched, UnknownUntouched
  <1>9. BusyOwnsRequest'
    BY <1>1, <1>2, <1>3, <1>4 DEF PlacementInv, BusyOwnsRequest
  <1>10. OneOutcome'
    <2> SUFFICES ASSUME NEW x \in Request
                 PROVE  /\ Len(outcomes'[x]) <= 1
                        /\ cancel_result[x] = "QUEUED" => outcomes'[x] = <<>>
      BY <1>1 DEF OneOutcome
    <2>1. CASE x = r
      <3>1. Len(outcomes'[x]) = 1 /\ cancel_result[x] = "none"
        BY <1>2, <1>4, <2>1
      <3>2. QED BY <3>1
    <2>2. CASE x # r
      BY <1>4, <2>2 DEF PlacementInv, OneOutcome
    <2>3. QED BY <2>1, <2>2
  <1>11. NothingLost'
    BY <1>1, <1>3, <1>4, <1>5, <1>6 DEF PlacementInv, NothingLost
  <1>12. QED BY <1>7, <1>8, <1>9, <1>10, <1>11 DEF PlacementInv

LEMMA CancelQueuedPlacement ==
  ASSUME TypeInv, PlacementInv, NEW r \in Request, CancelRequest(r), CancelQueued(r)
  PROVE  PlacementInv'
  <1>1. PICK k \in DOMAIN queue_requests :
          queue_requests[k] = r /\ queue_requests' = Without(queue_requests, k)
    BY DEF CancelQueued
  <1>2. /\ r \in submitted /\ cancel_result' = [cancel_result EXCEPT ![r] = "QUEUED"]
        /\ UNCHANGED <<slots, active_requests, pc, submitted, outcomes>>
    BY DEF CancelQueued, CancelRequest
  <1>3. /\ queue_requests \in Seq(Request) /\ Distinct(queue_requests)
        /\ \A x : Queued(x) <=> Occurs(x, queue_requests)
        /\ cancel_result \in [Request -> {"none", "ACTIVE", "QUEUED", "NOT_FOUND"}]
        /\ \A s \in Slot : ~Vacant(s) => slots[s].request_id \in Request
        /\ submitted \subseteq Request
    BY PlacementParts
  <1>4. \A x : Queued(x)' <=> Occurs(x, queue_requests')
    BY DEF Queued, Occurs
  <1>5. Distinct(queue_requests') /\ \A x : Queued(x)' <=> Queued(x) /\ x # r
    BY <1>1, <1>3, <1>4, WithoutOccurs
  <1>6. Queued(r) /\ outcomes[r] = <<>>
    BY <1>1 DEF Queued, PlacementInv, QueuedUntouched
  <1>7. /\ cancel_result'[r] = "QUEUED"
        /\ \A x \in Request : x # r => cancel_result'[x] = cancel_result[x]
    BY <1>2, <1>3
  <1>8. QueueDistinct'
    BY <1>5 DEF QueueDistinct, Distinct
  <1>9. QueuedUntouched' /\ UnknownUntouched'
    BY <1>2, <1>5, <1>7 DEF PlacementInv, QueuedUntouched, UnknownUntouched
  <1>10. HeldLeftQueue'
    BY <1>2, <1>3, <1>5, <1>6, <1>7 DEF PlacementInv, HeldLeftQueue, Vacant
  <1>11. OneHolder' /\ BusyOwnsRequest' /\ EntryIsHeld'
    BY <1>2 DEF PlacementInv, OneHolder, BusyOwnsRequest, EntryIsHeld, Vacant
  <1>12. OneOutcome'
    <2> SUFFICES ASSUME NEW x \in Request
                 PROVE  /\ Len(outcomes[x]) <= 1
                        /\ cancel_result'[x] = "QUEUED" => outcomes[x] = <<>>
      BY <1>2 DEF OneOutcome
    <2>1. Len(outcomes[x]) <= 1
      BY DEF PlacementInv, OneOutcome
    <2>2. CASE x = r
      BY <1>6, <2>1, <2>2
    <2>3. CASE x # r
      BY <1>7, <2>1, <2>3 DEF PlacementInv, OneOutcome
    <2>4. QED BY <2>2, <2>3
  <1>13. NothingLost'
    BY <1>2, <1>3, <1>5, <1>7 DEF PlacementInv, NothingLost
  <1>14. QED BY <1>8, <1>9, <1>10, <1>11, <1>12, <1>13 DEF PlacementInv

LEMMA CancelRequestPlacement ==
  ASSUME TypeInv, TypeInv', PlacementInv, NEW r \in Request, CancelRequest(r)
  PROVE  PlacementInv'
  <1>1. /\ r \in submitted /\ cancel_result[r] = "none" /\ pc' = pc
        /\ UNCHANGED <<active_requests, submitted, outcomes>>
    BY DEF CancelRequest
  <1>2. /\ slots \in [Slot -> SlotRecord]
        /\ cancel_result \in [Request -> {"none", "ACTIVE", "QUEUED", "NOT_FOUND"}]
    BY PlacementParts
  <1>3. CASE CancelActive(r)
    <2> DEFINE s == active_requests[r]
               next == [slots[s] EXCEPT !.is_interrupted = TRUE]
    <2>1. s \in Slot /\ slots' = [slots EXCEPT ![s] = next] /\ UNCHANGED queue_requests
      BY <1>3 DEF CancelActive, ActiveSlots
    <2>2. /\ next.state = slots[s].state /\ next.request_id = slots[s].request_id
          /\ next.callback = slots[s].callback
      BY <1>2, <2>1 DEF SlotRecord
    <2> HIDE DEF next
    <2>3. \A t \in Slot : SameView(t)
      BY <1>2, <2>1, <2>2 DEF SameView, Active
    <2>4. cancel_result' = [cancel_result EXCEPT ![r] = "ACTIVE"]
      BY <1>3 DEF CancelActive
    <2>5. \A x \in Request :
            /\ cancel_result'[x] = "QUEUED" <=> cancel_result[x] = "QUEUED"
            /\ x \notin submitted => cancel_result'[x] = cancel_result[x]
      BY <1>1, <1>2, <2>4
    <2>6. QED BY <1>1, <2>1, <2>3, <2>5, SamePlacement
  <1>4. CASE CancelNotFound(r)
    <2>1. /\ cancel_result' = [cancel_result EXCEPT ![r] = "NOT_FOUND"]
          /\ UNCHANGED <<queue_requests, slots>>
      BY <1>4 DEF CancelNotFound
    <2>2. \A x \in Request :
            /\ cancel_result'[x] = "QUEUED" <=> cancel_result[x] = "QUEUED"
            /\ x \notin submitted => cancel_result'[x] = cancel_result[x]
      BY <1>1, <1>2, <2>1
    <2>3. \A t \in Slot : SameView(t)
      BY <2>1 DEF SameView
    <2>4. QED BY <1>1, <2>1, <2>2, <2>3, SamePlacement
  <1>5. QED BY <1>3, <1>4, CancelQueuedPlacement DEF CancelRequest

\* The steps of the worker inside update_slots.
LEMMA UpdatePlacement ==
  ASSUME TypeInv, TypeInv', PlacementInv, Update
  PROVE  PlacementInv'
  <1> USE DEF batchVars, clientVars
  <1>1. slots \in [Slot -> SlotRecord] /\ cursor \in Slot
    BY DEF TypeInv, TypeOK
  <1>2. CASE TerminalizeCancelled
    <2>1. CASE InterruptedSlots = {}
      <3>1. \A s \in Slot : SameView(s)
        BY <1>2, <2>1 DEF TerminalizeCancelled, SameView
      <3>2. QED
        BY <1>2, <2>1, <3>1, SamePlacement DEF TerminalizeCancelled, Finishing
    <2>2. CASE CompleteAndRelease(InterruptedSlots, slots)
      <3>1. InterruptedSlots \subseteq ActiveSlots
        BY DEF InterruptedSlots
      <3>2. QED
        BY <1>2, <2>2, <3>1, CompleteAndReleasePlacement DEF TerminalizeCancelled
    <2>3. QED BY <1>2, <2>1, <2>2 DEF TerminalizeCancelled
  <1>3. CASE StopAssigning \/ CheckActive \/ DecodeBatch \/ DecodeFails
    <2>1. \A s \in Slot : SameView(s)
      BY <1>3 DEF StopAssigning, CheckActive, DecodeBatch, DecodeFails, SameView
    <2>2. QED
      BY <1>3, <2>1, SamePlacement DEF StopAssigning, CheckActive, DecodeBatch,
         DecodeFails, Finishing
  <1>4. CASE BuildGenerating
    <2> DEFINE past(s) == slots[s].n_past + 1
               next(s) == [slots[s] EXCEPT !.n_past = past(s)]
    <2>1. \A s \in Slot : slots'[s] = slots[s] \/ slots'[s] = next(s)
      BY <1>4 DEF BuildGenerating
    <2> HIDE DEF past
    <2>2. ASSUME NEW s \in Slot PROVE SameView(s)
      <3>1. slots[s] \in SlotRecord
        BY <1>1
      <3>2. /\ next(s).state = slots[s].state /\ next(s).request_id = slots[s].request_id
            /\ next(s).callback = slots[s].callback
        BY <3>1 DEF SlotRecord
      <3> HIDE DEF next
      <3>3. QED BY <2>1, <3>2 DEF SameView, Active
    <2>3. QED BY <1>4, <2>2, SamePlacement DEF BuildGenerating, Finishing
  <1>5. CASE BuildPrompt
    <2>1. pc = "build" /\ pc' \in Finishing
      BY <1>5 DEF BuildPrompt, NextSlot, Finishing
    <2>2. CASE SkipSlot(slots[cursor])
      <3>1. \A s \in Slot : SameView(s)
        BY <2>2 DEF SkipSlot, SameView
      <3>2. QED BY <1>5, <2>1, <2>2, <3>1, SamePlacement DEF BuildPrompt, SkipSlot
    <2>3. CASE ~SkipSlot(slots[cursor])
      <3>1. Active(slots[cursor]) /\ WorksOn(cursor)
        BY <1>1, <1>5, <2>3, BuildPromptWorks DEF BuildPrompt
      <3>2. QED BY <1>1, <1>5, <2>1, <3>1, WorksPlacement DEF BuildPrompt
    <2>4. QED BY <2>2, <2>3
  <1>6. CASE AbortBatch
    <2> DEFINE f == [s \in Slot |-> IF s \in ActiveSlots
                                    THEN [slots[s] EXCEPT !.incomplete = TRUE]
                                    ELSE slots[s]]
    <2>1. ASSUME NEW s \in Slot
          PROVE  /\ f[s].request_id = slots[s].request_id
                 /\ f[s].callback = slots[s].callback /\ f[s].state = slots[s].state
      BY <1>1 DEF SlotRecord
    <2>2. CompleteAndRelease(ActiveSlots, f)
      BY <1>6 DEF AbortBatch
    <2> HIDE DEF f
    <2>3. QED BY <1>6, <2>1, <2>2, CompleteAndReleasePlacement DEF AbortBatch
  <1>7. CASE SaveCheckpoints
    <2> DEFINE next(s) == [slots[s] EXCEPT !.save_prompt_state_tokens = -1]
    <2>1. \A s \in Slot : slots'[s] = slots[s] \/ slots'[s] = next(s)
      BY <1>7 DEF SaveCheckpoints
    <2>2. ASSUME NEW s \in Slot PROVE SameView(s)
      <3>1. slots[s] \in SlotRecord
        BY <1>1
      <3>2. /\ next(s).state = slots[s].state /\ next(s).request_id = slots[s].request_id
            /\ next(s).callback = slots[s].callback
        BY <3>1 DEF SlotRecord
      <3> HIDE DEF next
      <3>3. QED BY <2>1, <3>2 DEF SameView, Active
    <2>3. QED BY <1>7, <2>2, SamePlacement DEF SaveCheckpoints, Finishing
  <1>8. CASE TerminalizeBeforeSampling
    <2> DEFINE C == InterruptedSlots
    <2>1. C \subseteq ActiveSlots /\ C \subseteq Slot
      BY DEF InterruptedSlots, ActiveSlots
    <2>2. /\ \A s \in C : slots'[s] = complete_slot(slots[s])
          /\ \A s \in Slot \ C : slots'[s] = slots[s]
          /\ AnswerAll(C, slots)
      BY <1>8, <2>1 DEF TerminalizeBeforeSampling
    <2> HIDE DEF C
    <2>3. AnswersOnly(C)
      BY <2>1, <2>2, AnswerAllAnswers
    <2>4. ASSUME NEW s \in C
          PROVE  slots'[s].request_id = slots[s].request_id /\ slots'[s].state = "DONE"
      <3>1. slots[s] \in SlotRecord
        BY <1>1, <2>1
      <3>2. QED BY <2>2, <3>1 DEF complete_slot, SlotRecord
    <2>5. \A s \in Slot \ C : SameView(s)
      BY <2>2 DEF SameView
    <2>6. QED
      BY <1>8, <2>1, <2>3, <2>4, <2>5, MovePlacement DEF TerminalizeBeforeSampling,
         Finishing
  <1>9. CASE sample_and_callback
    <2>1. pc = "sample" /\ pc' \in Finishing
      BY <1>9 DEF sample_and_callback, NextSlot, Finishing
    <2>2. CASE SkipSample(slots[cursor])
      <3>1. \A s \in Slot : SameView(s)
        BY <2>2 DEF SkipSample, SameView
      <3>2. QED
        BY <1>9, <2>1, <2>2, <3>1, SamePlacement DEF sample_and_callback, SkipSample
    <2>3. CASE ~SkipSample(slots[cursor])
      <3>1. Active(slots[cursor]) /\ WorksOn(cursor)
        BY <1>1, <1>9, <2>3, SampleWorks DEF sample_and_callback
      <3>2. QED BY <1>1, <1>9, <2>1, <3>1, WorksPlacement DEF sample_and_callback
    <2>4. QED BY <2>2, <2>3
  <1>10. CASE release_completed_slots
    <2>1. /\ \A s \in DoneSlots : slots'[s] = reset
          /\ \A s \in Slot \ DoneSlots : slots'[s] = slots[s]
      BY <1>10 DEF release_completed_slots, DoneSlots
    <2>2. \A s \in Slot \ DoneSlots : SameView(s)
      BY <2>1 DEF SameView
    <2>3. Release(DoneSlots) /\ DoneSlots = {} \cup DoneSlots
      BY <1>10 DEF release_completed_slots
    <2>4. AnswersOnly({})
      BY <1>10 DEF AnswersOnly, release_completed_slots
    <2>5. QED
      BY <1>10, <2>1, <2>2, <2>3, <2>4, ReleasePlacement DEF release_completed_slots
  <1>11. QED
    BY <1>2, <1>3, <1>4, <1>5, <1>6, <1>7, <1>8, <1>9, <1>10, AssignPlacement DEF Update

\* Steps that move pc, a flag or a pending notification.
LEMMA ControlPlacement ==
  ASSUME TypeInv, TypeInv', PlacementInv,
         \/ LoopTop \/ CheckWork \/ FallAsleep \/ SpuriousWakeup \/ Reevaluate \/ Stopper
         \/ \E r \in Request : Notify(r)
         \/ UNCHANGED vars
  PROVE  PlacementInv'
  <1> USE DEF Stopper, StopStore, StopNotify, StopJoin, LoopTop, CheckWork, FallAsleep,
              SpuriousWakeup, Reevaluate, Notify, workerLocals, batchVars, clientVars, vars
  <1>1. \A s \in Slot : SameView(s)
    BY DEF SameView
  <1>2. pc' \in Finishing \/ pc \notin Finishing
    BY DEF Finishing
  <1>3. UNCHANGED <<queue_requests, active_requests, submitted, outcomes, cancel_result>>
    OBVIOUS
  <1>4. QED BY <1>1, <1>2, <1>3, SamePlacement

LEMMA PlacementInit == Init => PlacementInv
  <1> SUFFICES ASSUME Init PROVE PlacementInv
    OBVIOUS
  <1>1. /\ queue_requests = <<>> /\ submitted = {}
        /\ \A s \in Slot : slots[s] = reset
        /\ \A r \in Request : /\ active_requests[r] = NoSlot /\ outcomes[r] = <<>>
                              /\ cancel_result[r] = "none"
    BY DEF Init
  <1>2. \A s \in Slot : Vacant(s) /\ ~Active(slots[s])
    BY <1>1, ResetWellFormed DEF Vacant, Active
  <1>3. DOMAIN <<>> = {} /\ Len(<<>>) = 0
    OBVIOUS
  <1>4. \A r : ~Queued(r)
    BY <1>1, <1>3 DEF Queued
  <1>5. QED
    BY <1>1, <1>2, <1>3, <1>4 DEF PlacementInv, QueueDistinct, QueuedUntouched,
       HeldLeftQueue, OneHolder, BusyOwnsRequest, EntryIsHeld, UnknownUntouched,
       OneOutcome, NothingLost

LEMMA PlacementStep == TypeInv /\ PlacementInv /\ [Next]_vars => PlacementInv'
  <1> SUFFICES ASSUME TypeInv, PlacementInv, [Next]_vars PROVE PlacementInv'
    OBVIOUS
  <1>1. TypeInv'
    BY TypeStep
  <1>2. CASE Update
    BY <1>1, <1>2, UpdatePlacement
  <1>3. ASSUME NEW r \in Request, Client(r) PROVE PlacementInv'
    BY <1>1, <1>3, QueueRequestPlacement, AnswerAtOncePlacement, CancelRequestPlacement,
       ControlPlacement DEF Client
  <1>4. CASE \/ LoopTop \/ CheckWork \/ FallAsleep \/ SpuriousWakeup \/ Reevaluate
             \/ Stopper \/ UNCHANGED vars
    BY <1>1, <1>4, ControlPlacement
  <1>5. QED BY <1>2, <1>3, <1>4 DEF Next, Worker

\* However queueing, cancelling, failing loads, failing batches and releases overlap,
\* every request is where PlacementInv says.
THEOREM PlacementInvariant == Spec => []PlacementInv
  BY TypeInit, TypeStep, PlacementInit, PlacementStep, PTL DEF Spec

\* The queue, active_requests and the slots agree on where every request is, so that
\* cancel_request reaches exactly the request it was given.
THEOREM PlacementCorrect == Spec => []RequestPlacement
  <1>1. TypeInv /\ PlacementInv => RequestPlacement
    <2> SUFFICES ASSUME TypeInv, PlacementInv PROVE RequestPlacement
      OBVIOUS
    <2>1. \A r \in Request : Queued(r) => ~Running(r)
      BY PlacementParts DEF Running, PlacementInv, HeldLeftQueue
    <2>2. QED
      BY <2>1 DEF PlacementInv, QueueDistinct, QueuedUntouched, BusyOwnsRequest,
         EntryIsHeld, RequestPlacement, Vacant
  <1>2. QED BY TypeInit, TypeStep, PlacementInvariant, <1>1, PTL DEF Spec

\* No callback runs twice, nor for a request that was taken back from the queue.
THEOREM AtMostOneOutcome == Spec => []OneOutcome
  <1>1. PlacementInv => OneOutcome
    BY DEF PlacementInv
  <1>2. QED BY PlacementInvariant, <1>1, PTL

\* No completion is dropped: it waits, runs with its callback, or has been answered or
\* taken back.
THEOREM NoCompletionLost == Spec => []NothingLost
  <1>1. PlacementInv => NothingLost
    BY DEF PlacementInv
  <1>2. QED BY PlacementInvariant, <1>1, PTL

-----------------------------------------------------------------------------
(* The inductive invariants                                                *)

\* The worker parks with the mutex held since it last saw that there is no work.  Once
\* it has let go of the mutex a request can still join the queue, but no slot can
\* become busy, and whoever queues owes a notification until the worker has woken.
Asleep ==
  /\ pc \in {"parking", "waiting", "woken"} => ActiveSlots = {}
  /\ pc = "parking" => queue_requests = <<>>
  /\ pc = "waiting" => queue_requests = <<>> \/ to_notify # {}

\* A request whose cancellation was answered ACTIVE has left the queue for good; while
\* it is running its slot is interrupted, and every outcome it has says so.
CancelledStays ==
  \A r \in Request : cancel_result[r] = "ACTIVE" =>
    /\ ~Queued(r)
    /\ \A s \in Slot : Active(slots[s]) /\ slots[s].request_id = r =>
         slots[s].is_interrupted
    /\ \A i \in DOMAIN outcomes[r] : outcomes[r][i].interrupted

\* The slots cancelled before step 5 are gone when sampling begins, and no slot can be
\* cancelled before it ends.
NoneCancelledInSampling == pc = "sample" => InterruptedSlots = {}

CancelInv == CancelledStays /\ NoneCancelledInSampling

-----------------------------------------------------------------------------
(* The worker does not sleep through a request                             *)

LEMMA AsleepStep ==
  ASSUME TypeInv, Asleep, [Next]_vars
  PROVE  Asleep'
  <1> USE DEF batchVars, clientVars, workerLocals
  <1>1. CASE Update
    <2>1. pc' \notin {"parking", "waiting", "woken"}
      BY <1>1 DEF Update, TerminalizeCancelled, AssignHead, StopAssigning, CheckActive,
         BuildGenerating, BuildPrompt, NextSlot, DecodeBatch, DecodeFails, AbortBatch,
         SaveCheckpoints, TerminalizeBeforeSampling, sample_and_callback,
         release_completed_slots
    <2>2. QED BY <2>1 DEF Asleep
  <1>2. CASE \/ LoopTop \/ CheckWork \/ FallAsleep \/ SpuriousWakeup \/ Reevaluate
             \/ Stopper \/ UNCHANGED vars
    <2>1. ActiveSlots' = ActiveSlots /\ UNCHANGED <<queue_requests, to_notify>>
      BY <1>2 DEF LoopTop, CheckWork, FallAsleep, SpuriousWakeup, Reevaluate, Stopper,
         StopStore, StopNotify, StopJoin, vars, ActiveSlots
    <2>2. QED
      BY <1>2, <2>1 DEF LoopTop, CheckWork, FallAsleep, SpuriousWakeup, Reevaluate,
         Stopper, StopStore, StopNotify, StopJoin, vars, HasWork, Asleep
  <1>3. ASSUME NEW r \in Request, Client(r) PROVE Asleep'
    <2>1. CASE Notify(r)
      <3>1. ActiveSlots' = ActiveSlots
        BY <2>1 DEF Notify, ActiveSlots
      <3>2. QED BY <2>1, <3>1 DEF Notify, Asleep
    <2>2. CASE AnswerAtOnce(r)
      <3>1. ActiveSlots' = ActiveSlots
        BY <2>2 DEF AnswerAtOnce, ActiveSlots
      <3>2. QED BY <2>2, <3>1 DEF AnswerAtOnce, Asleep
    <2>3. CASE QueueRequest(r)
      <3>1. ActiveSlots' = ActiveSlots
        BY <2>3 DEF QueueRequest, ActiveSlots
      <3>2. QED
        BY <2>3, <3>1 DEF QueueRequest, MutexFree, WorkerHoldsMutex, Asleep
    <2>4. CASE CancelRequest(r)
      <3>1. pc' = pc /\ pc # "parking"
        BY <2>4 DEF CancelRequest, MutexFree, WorkerHoldsMutex
      <3>2. CASE CancelActive(r)
        <4>1. ActiveSlots # {}
          BY <3>2 DEF CancelActive
        <4>2. QED BY <3>1, <4>1 DEF Asleep
      <3>3. CASE CancelQueued(r) \/ CancelNotFound(r)
        <4>1. ActiveSlots' = ActiveSlots
          BY <3>3 DEF CancelQueued, CancelNotFound, ActiveSlots
        <4>2. \/ UNCHANGED <<queue_requests, to_notify>>
              \/ r \in to_notify'
          BY <3>3 DEF CancelQueued, CancelNotFound
        <4>3. QED BY <3>1, <4>1, <4>2 DEF Asleep
      <3>4. QED BY <2>4, <3>2, <3>3 DEF CancelRequest
    <2>5. QED BY <1>3, <2>1, <2>2, <2>3, <2>4 DEF Client
  <1>4. QED BY <1>1, <1>2, <1>3 DEF Next, Worker

\* When the worker sleeps no slot is busy, and a request that waits in the queue is
\* about to be announced by a notification: the one between push and notify_one, the
\* predicate's evaluation and the wait lose no wakeup.
THEOREM WakeupKept == Spec => []NoLostWakeup
  <1>1. Init => Asleep
    BY DEF Init, Asleep
  <1>2. TypeInv /\ Asleep /\ [Next]_vars => Asleep'
    BY AsleepStep
  <1>3. Asleep => NoLostWakeup
    BY DEF Asleep, NoLostWakeup
  <1>4. QED BY TypeInit, TypeStep, <1>1, <1>2, <1>3, PTL DEF Spec

-----------------------------------------------------------------------------
(* A cancelled request stays cancelled                                     *)

LEMMA PlacementTyped ==
  ASSUME TypeInv
  PROVE  /\ slots \in [Slot -> SlotRecord]
         /\ outcomes \in [Request -> Seq(OutcomeRecord)]
         /\ active_requests \in [Request -> Slot \cup {NoSlot}]
         /\ cancel_result \in [Request -> {"none", "ACTIVE", "QUEUED", "NOT_FOUND"}]
         /\ cursor \in Slot
         /\ \A s \in Slot : Active(slots[s]) => slots[s].request_id \in Request
  BY DEF TypeInv, TypeOK, WellFormed, Active

LEMMA CompleteNotActive ==
  ASSUME NEW slot \in SlotRecord
  PROVE  ~Active(complete_slot(slot))
  BY DEF complete_slot, Active, SlotRecord

Cancelled(r) == cancel_result[r] = "ACTIVE"

\* If the slot is still busy it was before, for the same request, and no flag changed.
KeepsFlag(s) ==
  Active(slots'[s]) =>
    /\ Active(slots[s]) /\ slots'[s].request_id = slots[s].request_id
    /\ slots'[s].is_interrupted = slots[s].is_interrupted

\* Request r receives nothing, or what one of the busy slots of C has for it.
AnsweredFrom(C, r) ==
  \/ outcomes'[r] = outcomes[r]
  \/ \E s \in C : \E o :
       /\ slots[s].request_id = r /\ Active(slots[s])
       /\ o.interrupted = slots[s].is_interrupted
       /\ outcomes'[r] = Append(outcomes[r], o)

LEMMA CancelledFrom ==
  ASSUME TypeInv, CancelledStays, UNCHANGED cancel_result,
         \A r \in Request : Cancelled(r) =>
           /\ Queued(r)' => Queued(r)
           /\ AnsweredFrom(Slot, r)
           /\ \A s \in Slot : slots'[s].request_id = r => KeepsFlag(s)
  PROVE  CancelledStays'
  <1> SUFFICES ASSUME NEW r \in Request, Cancelled(r)
               PROVE  /\ ~Queued(r)'
                      /\ \A s \in Slot : Active(slots'[s]) /\ slots'[s].request_id = r =>
                           slots'[s].is_interrupted
                      /\ \A i \in DOMAIN outcomes'[r] : outcomes'[r][i].interrupted
    BY DEF CancelledStays, Cancelled, Active
  <1>1. ~Queued(r)'
    BY DEF CancelledStays, Cancelled
  <1>2. ASSUME NEW s \in Slot, Active(slots'[s]), slots'[s].request_id = r
        PROVE  slots'[s].is_interrupted
    <2>1. slots[s].is_interrupted
      BY <1>2 DEF CancelledStays, Cancelled, KeepsFlag
    <2>2. slots'[s].is_interrupted = slots[s].is_interrupted
      BY <1>2 DEF KeepsFlag
    <2>3. QED BY <2>1, <2>2
  <1>3. ASSUME NEW i \in DOMAIN outcomes'[r] PROVE outcomes'[r][i].interrupted
    <2>1. CASE outcomes'[r] = outcomes[r]
      BY <2>1 DEF CancelledStays, Cancelled
    <2>2. ASSUME NEW s \in Slot, NEW o, slots[s].request_id = r, Active(slots[s]),
                 o.interrupted = slots[s].is_interrupted,
                 outcomes'[r] = Append(outcomes[r], o)
          PROVE  outcomes'[r][i].interrupted
      <3> DEFINE old == outcomes[r]
      <3>1. old \in Seq(OutcomeRecord)
        BY DEF TypeInv, TypeOK
      <3>2. i \in DOMAIN old \/ i = Len(old) + 1
        BY <2>2, <3>1
      <3>3. CASE i \in DOMAIN old
        <4>1. Append(old, o)[i] = old[i]
          BY <3>1, <3>3
        <4>2. QED BY <2>2, <3>3, <4>1 DEF CancelledStays, Cancelled
      <3>4. CASE i = Len(old) + 1
        <4>1. Append(old, o)[i] = o
          BY <3>1, <3>4
        <4>2. slots[s].is_interrupted
          BY <2>2 DEF CancelledStays, Cancelled
        <4>3. QED BY <2>2, <4>1, <4>2
      <3>5. QED BY <3>2, <3>3, <3>4
    <2>3. QED BY <2>1, <2>2 DEF AnsweredFrom
  <1>4. QED BY <1>1, <1>2, <1>3

LEMMA AnswerAllFrom ==
  ASSUME NEW C \in SUBSET ActiveSlots, NEW f,
         \A s \in C : /\ f[s].request_id = slots[s].request_id
                      /\ f[s].is_interrupted = slots[s].is_interrupted,
         AnswerAll(C, f)
  PROVE  \A r \in Request : AnsweredFrom(Slot, r)
  <1> SUFFICES ASSUME NEW r \in Request PROVE AnsweredFrom(Slot, r)
    OBVIOUS
  <1>1. CASE \E s \in C : CallsBack(f[s], r)
    <2> DEFINE s == CHOOSE s \in C : CallsBack(f[s], r)
    <2>1. s \in C /\ CallsBack(f[s], r)
      BY <1>1
    <2>2. outcomes'[r] = Append(outcomes[r], OutcomeOf(f[s]))
      BY <1>1 DEF AnswerAll
    <2> HIDE DEF s
    <2>3. OutcomeOf(f[s]).interrupted = slots[s].is_interrupted
      BY <2>1 DEF OutcomeOf
    <2>4. slots[s].request_id = r /\ Active(slots[s]) /\ s \in Slot
      BY <2>1 DEF CallsBack, ActiveSlots
    <2>5. QED BY <2>2, <2>3, <2>4 DEF AnsweredFrom
  <1>2. CASE ~\E s \in C : CallsBack(f[s], r)
    BY <1>2 DEF AnswerAll, AnsweredFrom
  <1>3. QED BY <1>1, <1>2

LEMMA WorksCancelled ==
  ASSUME TypeInv, NEW s \in Slot, Active(slots[s]), WorksOn(s)
  PROVE  /\ \A r \in Request : AnsweredFrom(Slot, r)
         /\ \A t \in Slot : KeepsFlag(t)
         /\ InterruptedSlots = {} => InterruptedSlots' = {}
  <1>1. /\ slots \in [Slot -> SlotRecord] /\ slots[s] \in SlotRecord
        /\ slots[s].request_id \in Request
        /\ outcomes \in [Request -> Seq(OutcomeRecord)]
    BY PlacementTyped
  <1>2. /\ \A r \in Request : AnsweredFrom(Slot, r)
        /\ \A t \in Slot : KeepsFlag(t)
    <2>1. CASE Continues(s)
      <3>1. PICK next : SameRequest(slots[s], next) /\ slots' = [slots EXCEPT ![s] = next]
        BY <2>1 DEF Continues
      <3>2. \A t \in Slot : slots'[t] = IF t = s THEN next ELSE slots[t]
        BY <1>1, <3>1
      <3>3. QED
        BY <2>1, <3>1, <3>2 DEF Continues, SameRequest, KeepsFlag, AnsweredFrom
    <2>2. CASE Finishes(s)
      <3>1. PICK next : SameRequest(slots[s], next) /\ CompleteOne(s, next)
        BY <2>2 DEF Finishes
      <3> DEFINE f == [slots EXCEPT ![s] = next]
      <3>2. f[s] = next
        BY <1>1
      <3>3. AnswerAll({s}, f) /\ slots' = [slots EXCEPT ![s] = complete_slot(next)]
        BY <3>1 DEF CompleteOne
      <3> HIDE DEF f
      <3>4. \A r \in Request : AnsweredFrom(Slot, r)
        BY <3>1, <3>2, <3>3, AnswerAllFrom DEF SameRequest, ActiveSlots
      <3>5. ~Active(complete_slot(next))
        BY <3>1, CompleteNotActive DEF SameRequest
      <3>6. \A t \in Slot : slots'[t] = IF t = s THEN complete_slot(next) ELSE slots[t]
        BY <1>1, <3>3
      <3>7. QED BY <3>4, <3>5, <3>6 DEF KeepsFlag
    <2>3. CASE Delivers(s)
      <3>1. \A t \in Slot : slots'[t] = IF t = s THEN [slots[s] EXCEPT !.state = "DONE"]
                                        ELSE slots[t]
        BY <1>1, <2>3 DEF Delivers
      <3>2. ~Active([slots[s] EXCEPT !.state = "DONE"])
        BY <1>1 DEF Active, SlotRecord
      <3>3. \A t \in Slot : KeepsFlag(t)
        BY <3>1, <3>2 DEF KeepsFlag
      <3>4. ASSUME NEW o \in SlotRecord, o.is_interrupted = slots[s].is_interrupted,
                   Answer(slots[s].request_id, o), NEW r \in Request
            PROVE  AnsweredFrom(Slot, r)
        <4>1. OutcomeOf(o).interrupted = slots[s].is_interrupted
          BY <3>4 DEF OutcomeOf
        <4>2. outcomes'[r] = IF r = slots[s].request_id
                             THEN Append(outcomes[r], OutcomeOf(o)) ELSE outcomes[r]
          BY <1>1, <3>4 DEF Answer
        <4>3. QED BY <4>1, <4>2 DEF AnsweredFrom
      <3>5. QED BY <2>3, <3>3, <3>4 DEF Delivers, AnsweredFrom
    <2>4. QED BY <2>1, <2>2, <2>3 DEF WorksOn
  <1>3. InterruptedSlots = {} => InterruptedSlots' = {}
    BY <1>2 DEF InterruptedSlots, ActiveSlots, KeepsFlag
  <1>4. QED BY <1>2, <1>3

LEMMA CompleteAndReleaseCancelled ==
  ASSUME TypeInv, NEW C \in SUBSET ActiveSlots, NEW f,
         \A s \in Slot : /\ f[s].request_id = slots[s].request_id
                         /\ f[s].is_interrupted = slots[s].is_interrupted
                         /\ f[s].state = slots[s].state,
         CompleteAndRelease(C, f)
  PROVE  /\ \A r \in Request : AnsweredFrom(Slot, r)
         /\ \A s \in Slot : KeepsFlag(s)
  <1>1. AnswerAll(C, f)
        /\ slots' = [s \in Slot |-> IF s \in C \cup DoneSlots THEN reset ELSE f[s]]
    BY DEF CompleteAndRelease
  <1>2. ~Active(reset)
    BY ResetWellFormed DEF Active
  <1>3. \A s \in Slot : KeepsFlag(s)
    BY <1>1, <1>2 DEF KeepsFlag, Active
  <1>4. C \subseteq Slot
    BY DEF ActiveSlots
  <1>5. QED BY <1>1, <1>3, <1>4, AnswerAllFrom

\* The slot given to a request holds it, and is busy; unless its state fails to load.
LEMMA AssignOccupies ==
  ASSUME TypeInv, NEW r \in Request, NEW s \in Slot
  PROVE  /\ Assign(r, s) =>
              \E next : /\ next.request_id = r /\ Active(next)
                       /\ slots' = [slots EXCEPT ![s] = next]
         /\ FailLoad(r, s) =>
              \E next : /\ next.request_id = r /\ ~Active(next)
                       /\ slots' = [slots EXCEPT ![s] = next]
  <1> DEFINE claimed == Claim(slots[s], r)
  <1>1. claimed \in SlotRecord /\ claimed.request_id = r
    BY PlacementTyped, LoadPromptType
  <1> HIDE DEF claimed
  <1>2. ASSUME Assign(r, s)
        PROVE  \E next : /\ next.request_id = r /\ Active(next)
                         /\ slots' = [slots EXCEPT ![s] = next]
    <2>1. PICK start \in ReusableTokens(r) :
            slots' = [slots EXCEPT ![s] =
              [load_prompt(claimed, r, start) EXCEPT
                 !.callback = TRUE, !.rerank_current_index = 0,
                 !.media = IF r \in Media THEN "deferred" ELSE "none",
                 !.n_remaining = IF Task[r] = "completion" THEN NPredict[r] ELSE -1]]
      BY <1>2 DEF Assign, claimed
    <2> DEFINE loaded == load_prompt(claimed, r, start)
               next == [loaded EXCEPT
                 !.callback = TRUE, !.rerank_current_index = 0,
                 !.media = IF r \in Media THEN "deferred" ELSE "none",
                 !.n_remaining = IF Task[r] = "completion" THEN NPredict[r] ELSE -1]
    <2>2. /\ loaded.request_id = r /\ loaded.state = "PROCESSING_PROMPT"
          /\ next.request_id = loaded.request_id /\ next.state = loaded.state
      BY <1>1 DEF load_prompt, SlotRecord
    <2>3. slots' = [slots EXCEPT ![s] = next]
      BY <2>1
    <2> HIDE DEF next, loaded
    <2>4. QED BY <2>2, <2>3 DEF Active
  <1>3. ASSUME FailLoad(r, s)
        PROVE  \E next : /\ next.request_id = r /\ ~Active(next)
                         /\ slots' = [slots EXCEPT ![s] = next]
    <2> DEFINE next == [claimed EXCEPT !.state = "DONE", !.incomplete = TRUE,
                                       !.error_of = r]
    <2>1. next.request_id = r /\ ~Active(next)
      BY <1>1 DEF SlotRecord, Active
    <2>2. slots' = [slots EXCEPT ![s] = next]
      BY <1>3 DEF FailLoad, claimed
    <2> HIDE DEF next
    <2>3. QED BY <2>1, <2>2
  <1>4. QED BY <1>2, <1>3

\* The head of the queue has not been cancelled.
LEMMA AssignHeadCancelled ==
  ASSUME TypeInv, CancelledStays, AssignHead,
         NEW r \in Request, Cancelled(r)
  PROVE  /\ Queued(r)' => Queued(r)
         /\ AnsweredFrom(Slot, r)
         /\ \A s \in Slot : slots'[s].request_id = r => KeepsFlag(s)
  <1> DEFINE h == Head(queue_requests)
  <1>1. /\ queue_requests \in Seq(Request) /\ queue_requests # <<>>
        /\ queue_requests' = Tail(queue_requests)
    BY DEF TypeInv, TypeOK, AssignHead
  <1>2. Queued(r)' => Queued(r)
    <2>1. \A i \in DOMAIN Tail(queue_requests) :
            i + 1 \in DOMAIN queue_requests
            /\ Tail(queue_requests)[i] = queue_requests[i + 1]
      BY <1>1
    <2>2. QED BY <1>1, <2>1 DEF Queued
  <1>3. h \in Request /\ h # r
    <2>1. 1 \in DOMAIN queue_requests /\ h = queue_requests[1] /\ h \in Request
      BY <1>1
    <2>2. Queued(h)
      BY <2>1 DEF Queued
    <2>3. QED BY <2>1, <2>2 DEF CancelledStays, Cancelled
  <1> HIDE DEF h
  <1>4. PICK s \in Slot : Assign(h, s) \/ FailLoad(h, s)
    BY DEF AssignHead, h
  <1>5. PICK next : next.request_id = h /\ slots' = [slots EXCEPT ![s] = next]
    BY <1>3, <1>4, AssignOccupies
  <1>6. \A t \in Slot : slots'[t].request_id = r => KeepsFlag(t)
    BY <1>3, <1>5, PlacementTyped DEF KeepsFlag
  <1>7. AnsweredFrom(Slot, r)
    BY <1>3, <1>4, PlacementTyped DEF Assign, FailLoad, Answer, AnsweredFrom
  <1>8. QED BY <1>2, <1>6, <1>7

\* No request starts; those that are answered were running; no flag is changed.
WorkerKeeps ==
  /\ \A r \in Request : AnsweredFrom(Slot, r)
  /\ \A s \in Slot : KeepsFlag(s)
  /\ pc' = "sample" => InterruptedSlots' = {}

LEMMA UpdateKeeps ==
  ASSUME TypeInv, NoneCancelledInSampling, Update, ~AssignHead
  PROVE  /\ UNCHANGED <<queue_requests, submitted, cancel_result>>
         /\ WorkerKeeps
  <1> USE DEF batchVars, clientVars
  <1> DEFINE Kept == /\ \A r \in Request : AnsweredFrom(Slot, r)
                     /\ \A s \in Slot : KeepsFlag(s)
             None == pc' = "sample" => InterruptedSlots' = {}
  <1>1. UNCHANGED <<queue_requests, submitted, cancel_result>>
    BY DEF Update, TerminalizeCancelled, StopAssigning, CheckActive, BuildGenerating,
       BuildPrompt, DecodeBatch, DecodeFails, AbortBatch, SaveCheckpoints,
       TerminalizeBeforeSampling, sample_and_callback, release_completed_slots
  <1> SUFFICES WorkerKeeps
    BY <1>1
  <1>2. ASSUME Kept, None PROVE WorkerKeeps
    BY <1>2 DEF WorkerKeeps
  <1>3. CASE TerminalizeCancelled
    <2>1. None
      BY <1>3 DEF TerminalizeCancelled
    <2>2. CASE InterruptedSlots = {}
      BY <1>2, <1>3, <2>1, <2>2 DEF TerminalizeCancelled, AnsweredFrom, KeepsFlag
    <2>3. CASE CompleteAndRelease(InterruptedSlots, slots)
      <3>1. InterruptedSlots \in SUBSET ActiveSlots
        BY DEF InterruptedSlots
      <3>2. Kept
        BY <2>3, <3>1, CompleteAndReleaseCancelled
      <3>3. QED BY <1>2, <2>1, <3>2
    <2>4. QED BY <1>3, <2>2, <2>3 DEF TerminalizeCancelled
  <1>4. CASE StopAssigning \/ CheckActive \/ DecodeBatch \/ DecodeFails
    <2>1. Kept /\ None
      BY <1>4 DEF StopAssigning, CheckActive, DecodeBatch, DecodeFails, AnsweredFrom,
         KeepsFlag
    <2>2. QED BY <1>2, <2>1
  <1>5. CASE BuildGenerating
    <2> DEFINE past(s) == slots[s].n_past + 1
               next(s) == [slots[s] EXCEPT !.n_past = past(s)]
    <2>1. \A s \in Slot : slots'[s] = slots[s] \/ slots'[s] = next(s)
      BY <1>5 DEF BuildGenerating
    <2> HIDE DEF past
    <2>2. ASSUME NEW s \in Slot
          PROVE  /\ next(s).state = slots[s].state
                 /\ next(s).request_id = slots[s].request_id
                 /\ next(s).is_interrupted = slots[s].is_interrupted
      BY PlacementTyped DEF SlotRecord
    <2> HIDE DEF next
    <2>3. \A s \in Slot : KeepsFlag(s)
      BY <2>1, <2>2 DEF KeepsFlag, Active
    <2>4. QED BY <1>2, <1>5, <2>3 DEF BuildGenerating, AnsweredFrom
  <1>6. CASE BuildPrompt
    <2>1. None
      BY <1>6 DEF BuildPrompt, NextSlot
    <2>2. PICK s \in Slot : s = cursor
      BY PlacementTyped
    <2>3. CASE SkipSlot(slots[s])
      BY <1>2, <2>1, <2>3 DEF SkipSlot, AnsweredFrom, KeepsFlag
    <2>4. CASE ~SkipSlot(slots[s])
      <3>1. Active(slots[s]) /\ WorksOn(s)
        BY <1>6, <2>2, <2>4, BuildPromptWorks DEF BuildPrompt
      <3>2. QED BY <1>2, <2>1, <3>1, WorksCancelled
    <2>5. QED BY <2>3, <2>4
  <1>7. CASE AbortBatch
    <2> DEFINE f == [s \in Slot |-> IF s \in ActiveSlots
                                    THEN [slots[s] EXCEPT !.incomplete = TRUE]
                                    ELSE slots[s]]
    <2>1. ASSUME NEW s \in Slot
          PROVE  /\ f[s].request_id = slots[s].request_id
                 /\ f[s].is_interrupted = slots[s].is_interrupted
                 /\ f[s].state = slots[s].state
      BY PlacementTyped DEF SlotRecord
    <2>2. CompleteAndRelease(ActiveSlots, f)
      BY <1>7 DEF AbortBatch
    <2> HIDE DEF f
    <2>3. Kept
      BY <2>1, <2>2, CompleteAndReleaseCancelled
    <2>4. QED BY <1>2, <1>7, <2>3 DEF AbortBatch
  <1>8. CASE SaveCheckpoints
    <2> DEFINE next(s) == [slots[s] EXCEPT !.save_prompt_state_tokens = -1]
    <2>1. \A s \in Slot : slots'[s] = slots[s] \/ slots'[s] = next(s)
      BY <1>8 DEF SaveCheckpoints
    <2>2. ASSUME NEW s \in Slot
          PROVE  /\ next(s).state = slots[s].state
                 /\ next(s).request_id = slots[s].request_id
                 /\ next(s).is_interrupted = slots[s].is_interrupted
      BY PlacementTyped DEF SlotRecord
    <2> HIDE DEF next
    <2>3. \A s \in Slot : KeepsFlag(s)
      BY <2>1, <2>2 DEF KeepsFlag, Active
    <2>4. QED BY <1>2, <1>8, <2>3 DEF SaveCheckpoints, AnsweredFrom
  <1>9. CASE TerminalizeBeforeSampling
    <2> DEFINE C == InterruptedSlots
    <2>1. C \in SUBSET ActiveSlots /\ C \subseteq Slot
          /\ \A s \in Slot : Active(slots[s]) /\ slots[s].is_interrupted <=> s \in C
      BY DEF InterruptedSlots, ActiveSlots
    <2>2. /\ \A s \in C : slots'[s] = complete_slot(slots[s])
          /\ \A s \in Slot \ C : slots'[s] = slots[s]
          /\ AnswerAll(C, slots)
      BY <1>9, <2>1 DEF TerminalizeBeforeSampling
    <2> HIDE DEF C
    <2>3. \A s \in C : ~Active(slots'[s])
      BY <2>1, <2>2, CompleteNotActive, PlacementTyped
    <2>4. Kept
      BY <2>1, <2>2, <2>3, AnswerAllFrom DEF KeepsFlag
    <2>5. InterruptedSlots' = {}
      <3>1. ASSUME NEW s \in Slot PROVE ~(Active(slots'[s]) /\ slots'[s].is_interrupted)
        BY <2>1, <2>2, <2>3
      <3>2. QED BY <3>1 DEF InterruptedSlots, ActiveSlots
    <2>6. QED BY <1>2, <2>2, <2>4, <2>5
  <1>10. CASE sample_and_callback
    <2>1. pc = "sample" /\ InterruptedSlots = {}
      BY <1>10 DEF sample_and_callback, NoneCancelledInSampling
    <2>2. PICK s \in Slot : s = cursor
      BY PlacementTyped
    <2>3. CASE SkipSample(slots[s])
      <3>1. InterruptedSlots' = {}
        BY <2>1, <2>3 DEF SkipSample, InterruptedSlots, ActiveSlots
      <3>2. QED BY <1>2, <2>1, <2>3, <3>1 DEF SkipSample, AnsweredFrom, KeepsFlag
    <2>4. CASE ~SkipSample(slots[s])
      <3>1. Active(slots[s]) /\ WorksOn(s)
        BY <1>10, <2>2, <2>4, SampleWorks DEF sample_and_callback
      <3>2. QED BY <1>2, <2>1, <3>1, WorksCancelled
    <2>5. QED BY <2>3, <2>4
  <1>11. CASE release_completed_slots
    <2>1. ~Active(reset)
      BY ResetWellFormed DEF Active
    <2>2. \A s \in Slot : slots'[s] = reset \/ slots'[s] = slots[s]
      BY <1>11 DEF release_completed_slots
    <2>3. \A s \in Slot : KeepsFlag(s)
      BY <2>1, <2>2 DEF KeepsFlag
    <2>4. QED BY <1>2, <1>11, <2>3 DEF release_completed_slots, AnsweredFrom
  <1>12. QED
    BY <1>3, <1>4, <1>5, <1>6, <1>7, <1>8, <1>9, <1>10, <1>11 DEF Update

LEMMA CancelUpdate ==
  ASSUME TypeInv, CancelInv, Update
  PROVE  CancelInv'
  <1>1. CASE AssignHead
    <2>1. CancelledStays'
      BY <1>1, AssignHeadCancelled, CancelledFrom DEF AssignHead, clientVars, CancelInv
    <2>2. QED BY <1>1, <2>1 DEF AssignHead, CancelInv, NoneCancelledInSampling
  <1>2. CASE ~AssignHead
    <2>1. UNCHANGED <<queue_requests, cancel_result>> /\ WorkerKeeps
      BY <1>2, UpdateKeeps DEF CancelInv
    <2>2. \A r : Queued(r)' <=> Queued(r)
      BY <2>1 DEF Queued
    <2>3. CancelledStays'
      BY <2>1, <2>2, CancelledFrom DEF CancelInv, WorkerKeeps
    <2>4. QED BY <2>1, <2>3 DEF CancelInv, NoneCancelledInSampling, WorkerKeeps
  <1>3. QED BY <1>1, <1>2

LEMMA CancelClient ==
  ASSUME TypeInv, PlacementInv, CancelInv, NEW r \in Request, Client(r)
  PROVE  CancelInv'
  <1> DEFINE Quiet(x) == cancel_result'[x] = cancel_result[x]
  <1>1. queue_requests \in Seq(Request) /\ PlacementInv
    BY DEF TypeInv, TypeOK
  <1>2. CASE QueueRequest(r)
    <2>1. /\ queue_requests' = Append(queue_requests, r) /\ cancel_result[r] = "none"
          /\ UNCHANGED <<slots, outcomes, cancel_result, pc>>
      BY <1>2 DEF QueueRequest, PlacementInv, UnknownUntouched
    <2>2. ASSUME NEW x \in Request, x # r PROVE Queued(x)' => Queued(x)
      <3>1. \A i \in DOMAIN queue_requests' :
              \/ i \in DOMAIN queue_requests /\ queue_requests'[i] = queue_requests[i]
              \/ queue_requests'[i] = r
        BY <1>1, <2>1
      <3>2. QED BY <2>2, <3>1 DEF Queued
    <2>3. CancelledStays'
      BY <2>1, <2>2, CancelledFrom DEF CancelInv, Cancelled, AnsweredFrom, KeepsFlag
    <2>4. QED
      BY <2>1, <2>3 DEF CancelInv, NoneCancelledInSampling, InterruptedSlots, ActiveSlots
  <1>3. CASE AnswerAtOnce(r)
    <2>1. /\ UNCHANGED <<queue_requests, slots, cancel_result, pc>>
          /\ cancel_result[r] = "none"
      BY <1>3 DEF AnswerAtOnce, PlacementInv, UnknownUntouched
    <2>2. \A x \in Request : x # r => outcomes'[x] = outcomes[x]
      BY <1>3, PlacementTyped DEF AnswerAtOnce, Answer
    <2>3. CancelledStays'
      BY <2>1, <2>2, CancelledFrom DEF CancelInv, Cancelled, AnsweredFrom, KeepsFlag,
         Queued
    <2>4. QED
      BY <2>1, <2>3 DEF CancelInv, NoneCancelledInSampling, InterruptedSlots, ActiveSlots
  <1>4. CASE Notify(r)
    <2>1. UNCHANGED <<queue_requests, slots, cancel_result, outcomes>>
          /\ (pc' = "sample" => pc = "sample")
      BY <1>4 DEF Notify
    <2>2. CancelledStays'
      BY <2>1 DEF CancelInv, CancelledStays, Queued
    <2>3. QED
      BY <2>1, <2>2 DEF CancelInv, NoneCancelledInSampling, InterruptedSlots, ActiveSlots
  <1>5. CASE CancelRequest(r)
    <2>1. pc' # "sample" /\ UNCHANGED outcomes
      BY <1>5 DEF CancelRequest, MutexFree, WorkerHoldsMutex
    <2>2. CASE CancelActive(r)
      <3>1. PICK s \in Slot : s = active_requests[r] /\ Active(slots[s])
        BY <2>2 DEF CancelActive, ActiveSlots
      <3> DEFINE next == [slots[s] EXCEPT !.is_interrupted = TRUE]
      <3>2. slots[s].request_id = r /\ ~Queued(r) /\ outcomes[r] = <<>>
        <4>1. slots[s].request_id = r
          BY <3>1, SizeAssumption DEF PlacementInv, EntryIsHeld, Slot, NoSlot
        <4>2. QED
          BY <3>1, <4>1 DEF PlacementInv, HeldLeftQueue, BusyOwnsRequest, Vacant, Active
      <3>3. /\ \A t \in Slot : slots'[t] = IF t = s THEN next ELSE slots[t]
            /\ \A x \in Request :
                 cancel_result'[x] = IF x = r THEN "ACTIVE" ELSE cancel_result[x]
            /\ UNCHANGED queue_requests
        BY <2>2, <3>1, PlacementTyped DEF CancelActive
      <3>4. next.is_interrupted /\ next.request_id = r /\ Active(next)
        BY <3>1, <3>2, PlacementTyped DEF SlotRecord, Active
      <3> HIDE DEF next
      <3>5. ASSUME NEW t \in Slot, Active(slots'[t]), slots'[t].request_id = r
            PROVE  slots'[t].is_interrupted
        BY <3>1, <3>2, <3>3, <3>4, <3>5 DEF PlacementInv, BusyOwnsRequest
      <3>6. CancelledStays'
        <4> SUFFICES ASSUME NEW x \in Request, cancel_result'[x] = "ACTIVE"
                     PROVE  /\ ~Queued(x)
                            /\ \A t \in Slot :
                                 Active(slots'[t]) /\ slots'[t].request_id = x =>
                                   slots'[t].is_interrupted
                            /\ \A i \in DOMAIN outcomes[x] : outcomes[x][i].interrupted
          BY <2>1, <3>3 DEF CancelledStays, Queued
        <4>1. CASE x = r
          <5>1. DOMAIN <<>> = {}
            OBVIOUS
          <5>2. QED BY <3>2, <3>5, <4>1, <5>1
        <4>2. CASE x # r
          BY <3>3, <3>4, <4>2 DEF CancelInv, CancelledStays
        <4>3. QED BY <4>1, <4>2
      <3>7. QED BY <2>1, <3>6 DEF CancelInv, NoneCancelledInSampling
    <2>3. CASE CancelQueued(r) \/ CancelNotFound(r)
      <3>1. /\ UNCHANGED slots
            /\ \A x \in Request : cancel_result'[x] = "ACTIVE" => cancel_result[x] = "ACTIVE"
        BY <2>3, PlacementTyped DEF CancelQueued, CancelNotFound
      <3>2. \A x \in Request : Queued(x)' => Queued(x)
        <4>1. CASE CancelNotFound(r)
          BY <4>1 DEF CancelNotFound, Queued
        <4>2. ASSUME NEW i \in DOMAIN queue_requests,
                     queue_requests' = Without(queue_requests, i)
              PROVE  \A x \in Request : Queued(x)' => Queued(x)
          <5>1. Distinct(queue_requests)
            BY PlacementParts
          <5>2. \A x : Occurs(x, queue_requests') => Occurs(x, queue_requests)
            BY <1>1, <4>2, <5>1, WithoutOccurs
          <5>3. QED BY <5>2 DEF Occurs, Queued
        <4>3. QED BY <2>3, <4>1, <4>2 DEF CancelQueued
      <3>3. CancelledStays'
        BY <2>1, <3>1, <3>2 DEF CancelInv, CancelledStays
      <3>4. QED BY <2>1, <3>3 DEF CancelInv, NoneCancelledInSampling
    <2>4. QED BY <1>5, <2>2, <2>3 DEF CancelRequest
  <1>6. QED BY <1>2, <1>3, <1>4, <1>5 DEF Client

LEMMA CancelInit == Init => CancelInv
  BY DEF Init, CancelInv, CancelledStays, NoneCancelledInSampling

LEMMA CancelStep == TypeInv /\ PlacementInv /\ CancelInv /\ [Next]_vars => CancelInv'
  <1> SUFFICES ASSUME TypeInv, PlacementInv, CancelInv, [Next]_vars PROVE CancelInv'
    OBVIOUS
  <1>1. CASE \/ LoopTop \/ CheckWork \/ FallAsleep \/ SpuriousWakeup \/ Reevaluate
             \/ Stopper \/ UNCHANGED vars
    <2>1. UNCHANGED <<queue_requests, slots, cancel_result, outcomes>>
          /\ (pc' = "sample" => pc = "sample")
      BY <1>1 DEF LoopTop, CheckWork, FallAsleep, SpuriousWakeup, Reevaluate, Stopper,
         StopStore, StopNotify, StopJoin, vars, workerLocals, clientVars
    <2>2. CancelledStays'
      BY <2>1 DEF CancelInv, CancelledStays, Queued
    <2>3. QED
      BY <2>1, <2>2 DEF CancelInv, NoneCancelledInSampling, InterruptedSlots, ActiveSlots
  <1>2. QED BY <1>1, CancelUpdate, CancelClient DEF Next, Worker

-----------------------------------------------------------------------------
(* The answers of cancel_request are true                                  *)

\* build_batch delivers no token.
LEMMA BuildPromptCounts ==
  ASSUME TypeInv, NEW s \in Slot,
         \/ EnterMtp(s, slots[s]) \/ EvaluateMedia(s, slots[s])
         \/ EvaluateText(s, slots[s])
  PROVE  slots'[s].n_decoded = slots[s].n_decoded
  <1> DEFINE slot == slots[s]
  <1>1. slot \in SlotRecord /\ slots \in [Slot -> SlotRecord]
    BY PlacementTyped
  <1>2. ASSUME NEW next \in SlotRecord, CompleteOne(s, next)
        PROVE  slots'[s].n_decoded = next.n_decoded
    BY <1>1, <1>2 DEF CompleteOne, complete_slot, SlotRecord
  <1>3. ASSUME NEW next \in SlotRecord, TakePromptTokens(s, next)
        PROVE  slots'[s].n_decoded = next.n_decoded
    <2> DEFINE past == next.n_past + PromptTokensTaken(next)
               taken == [next EXCEPT !.n_past = past,
                           !.state = IF past >= next.num_prompt_tokens
                                     THEN "GENERATING" ELSE @]
    <2>1. slots'[s] = taken
      BY <1>1, <1>3 DEF TakePromptTokens
    <2> HIDE DEF past
    <2>2. taken.n_decoded = next.n_decoded
      BY DEF SlotRecord
    <2>3. QED BY <2>1, <2>2
  <1>4. CASE EnterMtp(s, slot)
    <2> DEFINE failed == [slot EXCEPT !.incomplete = TRUE, !.error_of = slot.request_id]
    <2>1. failed \in SlotRecord /\ failed.n_decoded = slot.n_decoded
      BY <1>1 DEF SlotRecord
    <2>2. CompleteOne(s, failed) \/ slots' = [slots EXCEPT ![s].state = "GENERATING"]
      BY <1>4 DEF EnterMtp
    <2> HIDE DEF failed
    <2>3. QED BY <1>1, <1>2, <2>1, <2>2 DEF SlotRecord
  <1>5. CASE EvaluateText(s, slot)
    BY <1>1, <1>3, <1>5 DEF EvaluateText
  <1>6. CASE EvaluateMedia(s, slot)
    <2>1. slot.num_prompt_tokens \in Nat
          /\ \A target \in MovedCheckpoint(slot) : target \in Nat \cup {-1}
      BY <1>1 DEF SlotRecord, MovedCheckpoint
    <2>2. CASE CompleteOne(s, slot)
      BY <1>1, <1>2, <2>2
    <2>3. CASE CompleteOne(s, [slot EXCEPT !.incomplete = TRUE])
      <3> DEFINE next == [slot EXCEPT !.incomplete = TRUE]
      <3>1. next \in SlotRecord /\ next.n_decoded = slot.n_decoded
        BY <1>1 DEF SlotRecord
      <3> HIDE DEF next
      <3>2. CompleteOne(s, next)
        BY <2>3 DEF next
      <3>3. QED BY <1>2, <3>1, <3>2
    <2>4. ASSUME NEW target \in MovedCheckpoint(slot),
                 slots' = [slots EXCEPT ![s] =
                   [slot EXCEPT !.state = "GENERATING", !.n_past = slot.num_prompt_tokens,
                                !.media = "pending_token",
                                !.save_prompt_state_tokens = target]]
          PROVE  slots'[s].n_decoded = slot.n_decoded
      BY <1>1, <2>4 DEF SlotRecord
    <2>5. ASSUME NEW target \in MovedCheckpoint(slot),
                 NEW past \in 1..(slot.num_prompt_tokens - 1),
                 TakePromptTokens(s, [slot EXCEPT !.n_past = past, !.media = "processed",
                                                  !.save_prompt_state_tokens = target])
          PROVE  slots'[s].n_decoded = slot.n_decoded
      <3> DEFINE next == [slot EXCEPT !.n_past = past, !.media = "processed",
                                      !.save_prompt_state_tokens = target]
      <3>1. past \in Nat
        BY <2>1
      <3>2. next \in SlotRecord /\ next.n_decoded = slot.n_decoded
        BY <1>1, <2>1, <3>1 DEF SlotRecord
      <3>3. TakePromptTokens(s, next)
        BY <2>5
      <3> HIDE DEF next
      <3>4. QED BY <1>3, <3>2, <3>3
    <2>6. QED BY <1>6, <2>2, <2>3, <2>4, <2>5 DEF EvaluateMedia, ProcessMedia
  <1>7. QED BY <1>4, <1>5, <1>6

\* No step counts a token in an interrupted slot.
LEMMA InterruptedCounts ==
  ASSUME TypeInv, CancelInv, [Next]_vars,
         NEW s \in Slot, Active(slots[s]), slots[s].is_interrupted
  PROVE  slots'[s].n_decoded <= slots[s].n_decoded
  <1> USE DEF batchVars, clientVars
  <1>1. slots \in [Slot -> SlotRecord] /\ slots[s] \in SlotRecord
        /\ slots[s].n_decoded \in Nat /\ s \in InterruptedSlots /\ s \in ActiveSlots
        /\ s \notin DoneSlots
    BY PlacementTyped DEF SlotRecord, InterruptedSlots, ActiveSlots, Active, DoneSlots
  <1>2. ASSUME slots'[s].n_decoded = slots[s].n_decoded \/ slots'[s] = reset
        PROVE  slots'[s].n_decoded <= slots[s].n_decoded
    BY <1>1, <1>2 DEF reset
  <1>3. ASSUME slots'[s] = slots[s] PROVE slots'[s].n_decoded <= slots[s].n_decoded
    BY <1>2, <1>3
  <1>4. CASE TerminalizeCancelled
    BY <1>1, <1>2, <1>3, <1>4 DEF TerminalizeCancelled, CompleteAndRelease
  <1>5. CASE AssignHead
    <2>1. PICK t \in Slot :
            /\ get_available_slot(t)
            /\ Assign(Head(queue_requests), t) \/ FailLoad(Head(queue_requests), t)
      BY <1>5 DEF AssignHead
    <2>2. t # s
      BY <2>1 DEF get_available_slot, Available, Active
    <2>3. QED BY <1>1, <1>3, <2>1, <2>2 DEF Assign, FailLoad
  <1>6. CASE BuildGenerating
    <2> DEFINE past == slots[s].n_past + 1
               next == [slots[s] EXCEPT !.n_past = past]
    <2>1. slots'[s] = slots[s] \/ slots'[s] = next
      BY <1>6 DEF BuildGenerating
    <2> HIDE DEF past
    <2>2. next.n_decoded = slots[s].n_decoded
      BY <1>1 DEF SlotRecord
    <2> HIDE DEF next
    <2>3. QED BY <1>2, <2>1, <2>2
  <1>7. CASE BuildPrompt
    <2>1. PICK t \in Slot : t = cursor
      BY PlacementTyped
    <2>2. CASE SkipSlot(slots[t])
      BY <1>3, <2>2 DEF SkipSlot
    <2>3. CASE ~SkipSlot(slots[t])
      <3>1. \/ EnterMtp(t, slots[t]) \/ EvaluateMedia(t, slots[t])
            \/ EvaluateText(t, slots[t])
        BY <1>7, <2>1, <2>3 DEF BuildPrompt
      <3>2. CASE t = s
        BY <1>2, <3>1, <3>2, BuildPromptCounts
      <3>3. CASE t # s
        <4>1. slots'[s] = slots[s]
          BY <1>1, <3>1, <3>3, BuildPromptWorks DEF WorksOn, Continues, Finishes, Delivers,
             CompleteOne
        <4>2. QED BY <1>3, <4>1
      <3>4. QED BY <3>2, <3>3
    <2>4. QED BY <2>2, <2>3
  <1>8. CASE AbortBatch
    BY <1>1, <1>2, <1>8 DEF AbortBatch, CompleteAndRelease
  <1>9. CASE SaveCheckpoints
    <2> DEFINE next == [slots[s] EXCEPT !.save_prompt_state_tokens = -1]
    <2>1. slots'[s] = slots[s] \/ slots'[s] = next
      BY <1>9 DEF SaveCheckpoints
    <2>2. next.n_decoded = slots[s].n_decoded
      BY <1>1 DEF SlotRecord
    <2> HIDE DEF next
    <2>3. QED BY <1>2, <2>1, <2>2
  <1>10. CASE TerminalizeBeforeSampling
    <2>1. slots'[s] = complete_slot(slots[s])
      BY <1>1, <1>10 DEF TerminalizeBeforeSampling
    <2>2. complete_slot(slots[s]).n_decoded = slots[s].n_decoded
      BY <1>1 DEF complete_slot, SlotRecord
    <2>3. QED BY <1>2, <2>1, <2>2
  <1>11. CASE sample_and_callback
    BY <1>1, <1>11 DEF sample_and_callback, CancelInv, NoneCancelledInSampling
  <1>12. CASE release_completed_slots
    BY <1>1, <1>3, <1>12 DEF release_completed_slots
  <1>13. CASE StopAssigning \/ CheckActive \/ DecodeBatch \/ DecodeFails
    BY <1>3, <1>13 DEF StopAssigning, CheckActive, DecodeBatch, DecodeFails
  <1>14. CASE \/ LoopTop \/ CheckWork \/ FallAsleep \/ SpuriousWakeup \/ Reevaluate
              \/ Stopper \/ UNCHANGED vars
    BY <1>3, <1>14 DEF LoopTop, CheckWork, FallAsleep, SpuriousWakeup, Reevaluate, Stopper,
       StopStore, StopNotify, StopJoin, vars, workerLocals
  <1>15. ASSUME NEW r \in Request, Client(r)
         PROVE  slots'[s].n_decoded <= slots[s].n_decoded
    <2>1. CASE CancelActive(r)
      <3> DEFINE t == active_requests[r]
      <3>1. slots'[s] = slots[s] \/ slots'[s] = [slots[s] EXCEPT !.is_interrupted = TRUE]
        BY <1>1, <2>1 DEF CancelActive
      <3>2. [slots[s] EXCEPT !.is_interrupted = TRUE].n_decoded = slots[s].n_decoded
        BY <1>1 DEF SlotRecord
      <3>3. QED BY <1>2, <3>1, <3>2
    <2>2. CASE ~CancelActive(r)
      BY <1>3, <1>15, <2>2 DEF Client, QueueRequest, AnswerAtOnce, CancelRequest,
         CancelQueued, CancelNotFound, Notify
    <2>3. QED BY <2>1, <2>2
  <1>16. QED
    BY <1>4, <1>5, <1>6, <1>7, <1>8, <1>9, <1>10, <1>11, <1>12, <1>13, <1>14, <1>15
       DEF Next, Worker, Update

\* Only cancel_request writes what it answers, once for each request.
LEMMA CancelResultWrites ==
  ASSUME TypeInv, [Next]_vars, NEW r \in Request, cancel_result'[r] # cancel_result[r]
  PROVE  CancelRequest(r)
  <1> USE DEF batchVars, clientVars
  <1>1. cancel_result' # cancel_result
    OBVIOUS
  <1>2. PICK x \in Request : CancelRequest(x)
    BY <1>1 DEF Next, Worker, Update, TerminalizeCancelled, AssignHead, StopAssigning,
       CheckActive, BuildGenerating, BuildPrompt, DecodeBatch, DecodeFails, AbortBatch,
       SaveCheckpoints, TerminalizeBeforeSampling, sample_and_callback,
       release_completed_slots, LoopTop, CheckWork, FallAsleep, SpuriousWakeup, Reevaluate,
       workerLocals, Stopper, StopStore, StopNotify, StopJoin, Client, QueueRequest,
       AnswerAtOnce, Notify, vars
  <1>3. \A y \in Request : y # x => cancel_result'[y] = cancel_result[y]
    BY <1>2, PlacementTyped DEF CancelRequest, CancelActive, CancelQueued, CancelNotFound
  <1>4. QED BY <1>2, <1>3

\* cancel_request says NOT_FOUND only for a completion whose callback has already run;
\* once it has said ACTIVE the request receives no further token, and its outcome says
\* that it was interrupted.
THEOREM CancelTrue == Spec => CancelAnswersTruly
  <1>1. TypeInv /\ PlacementInv /\ CancelInv /\ CancelInv' /\ [Next]_vars =>
          \A r \in Request :
            /\ cancel_result[r] = "none" /\ cancel_result'[r] = "NOT_FOUND"
               /\ Task[r] = "completion" => outcomes[r] # <<>>
            /\ cancel_result[r] = "ACTIVE" =>
                 /\ \A s \in Slot : Active(slots[s]) /\ slots[s].request_id = r =>
                      slots'[s].n_decoded <= slots[s].n_decoded
                 /\ \A i \in DOMAIN outcomes'[r] : outcomes'[r][i].interrupted
    <2> SUFFICES ASSUME TypeInv, PlacementInv, CancelInv, CancelInv', [Next]_vars,
                        NEW r \in Request
                 PROVE  /\ cancel_result[r] = "none" /\ cancel_result'[r] = "NOT_FOUND"
                           /\ Task[r] = "completion" => outcomes[r] # <<>>
                        /\ cancel_result[r] = "ACTIVE" =>
                             /\ \A s \in Slot :
                                  Active(slots[s]) /\ slots[s].request_id = r =>
                                    slots'[s].n_decoded <= slots[s].n_decoded
                             /\ \A i \in DOMAIN outcomes'[r] : outcomes'[r][i].interrupted
      OBVIOUS
    <2>1. ASSUME cancel_result[r] = "none", cancel_result'[r] = "NOT_FOUND",
                 Task[r] = "completion"
          PROVE  outcomes[r] # <<>>
      <3>1. CancelRequest(r) /\ r \in submitted
        BY <2>1, CancelResultWrites DEF CancelRequest
      <3>2. CancelNotFound(r)
        BY <2>1, <3>1, PlacementTyped DEF CancelRequest, CancelActive, CancelQueued
      <3>3. ~Queued(r) /\ active_requests[r] \notin ActiveSlots
        BY <3>2 DEF CancelNotFound, NotActive, Queued
      <3>4. ~\E s \in Slot : Active(slots[s]) /\ CallsBack(slots[s], r)
        BY <3>3 DEF CallsBack, ActiveSlots, PlacementInv, BusyOwnsRequest
      <3>5. QED BY <2>1, <3>1, <3>3, <3>4 DEF PlacementInv, NothingLost
    <2>2. ASSUME cancel_result[r] = "ACTIVE"
          PROVE  /\ \A s \in Slot : Active(slots[s]) /\ slots[s].request_id = r =>
                      slots'[s].n_decoded <= slots[s].n_decoded
                 /\ \A i \in DOMAIN outcomes'[r] : outcomes'[r][i].interrupted
      <3>1. cancel_result'[r] = "ACTIVE"
        BY <2>2, CancelResultWrites DEF CancelRequest
      <3>2. \A s \in Slot : Active(slots[s]) /\ slots[s].request_id = r =>
              slots'[s].n_decoded <= slots[s].n_decoded
        BY <2>2, InterruptedCounts DEF CancelInv, CancelledStays
      <3>3. QED BY <3>1, <3>2 DEF CancelInv, CancelledStays
    <2>3. QED BY <2>1, <2>2
  <1>2. QED
    BY TypeInit, TypeStep, PlacementInit, PlacementStep, CancelInit, CancelStep, <1>1, PTL
       DEF Spec, CancelAnswersTruly

-----------------------------------------------------------------------------
(* The engine implements RequestService                                    *)

\* The status of a request, by what RequestPlacement and OneOutcome tell apart.
LEMMA StatusCases ==
  ASSUME TypeInv, PlacementInv, NEW r \in Request
  PROVE  /\ service_status(r) = "unknown" <=> r \notin submitted
         /\ service_status(r) = "waiting" <=> Queued(r)
         /\ service_status(r) = "running" <=> Running(r)
         /\ Queued(r) => r \in submitted /\ ~Running(r) /\ outcomes[r] = <<>>
         /\ Running(r) => outcomes[r] = <<>> /\ cancel_result[r] # "QUEUED"
  <1>1. Queued(r) => r \in submitted /\ outcomes[r] = <<>>
    BY DEF PlacementInv, QueuedUntouched
  <1>2. ASSUME Running(r)
        PROVE  /\ r \in submitted /\ ~Queued(r) /\ cancel_result[r] # "QUEUED"
               /\ outcomes[r] = <<>>
    <2>1. PICK s \in Slot : slots[s].request_id = r /\ Active(slots[s])
      BY <1>2 DEF Running
    <2>2. QED
      BY <2>1 DEF PlacementInv, HeldLeftQueue, BusyOwnsRequest, Vacant, Active
  <1>3. QED BY <1>1, <1>2 DEF service_status

\* Steps that take nothing from the queue and start nothing: every running request goes
\* on, or is answered, or is dropped if it has no completion callback.
LEMMA EndImplemented ==
  ASSUME TypeInv, PlacementInv, TypeInv', PlacementInv',
         UNCHANGED <<queue_requests, submitted>>,
         \A r \in Request :
           /\ cancel_result'[r] = "QUEUED" <=> cancel_result[r] = "QUEUED"
           /\ Running(r)' => Running(r)
           /\ outcomes'[r] = outcomes[r] \/ Running(r)
  PROVE  Service!End
  <1> DEFINE old == [r \in Request |-> service_status(r)]
             new == [r \in Request |-> service_status(r)']
             A == {r \in Request : old[r] = "running" /\ new[r] = "answered"}
             D == {r \in Request : old[r] = "running" /\ new[r] = "dropped"}
  <1>1. ASSUME NEW r \in Request
        PROVE  \/ new[r] = old[r]
               \/ old[r] = "running" /\ new[r] = "answered"
               \/ old[r] = "running" /\ new[r] = "dropped" /\ Task[r] # "completion"
    <2>1. Queued(r)' <=> Queued(r)
      BY DEF Queued
    <2>2. CASE Running(r)
      <3>1. old[r] = "running" /\ r \in submitted /\ ~Queued(r)
            /\ cancel_result[r] # "QUEUED"
        BY <2>2, StatusCases DEF service_status
      <3>2. service_status(r)' = IF outcomes'[r] # <<>> THEN "answered"
                                 ELSE IF Running(r)' THEN "running" ELSE "dropped"
        BY <2>1, <3>1 DEF service_status
      <3>3. CASE service_status(r)' = "dropped" /\ Task[r] = "completion"
        <4>1. outcomes'[r] = <<>> /\ ~Running(r)'
          BY <3>2, <3>3
        <4>2. ~\E s \in Slot : Active(slots'[s]) /\ CallsBack(slots'[s], r)
          BY <4>1 DEF Running, CallsBack
        <4>3. /\ r \in submitted' /\ ~Queued(r)' /\ cancel_result'[r] # "QUEUED"
          BY <2>1, <3>1
        <4>4. QED BY <3>3, <4>1, <4>2, <4>3 DEF PlacementInv, NothingLost
      <3>4. QED BY <3>1, <3>2, <3>3
    <2>3. CASE ~Running(r)
      BY <2>1, <2>3 DEF service_status
    <2>4. QED BY <2>2, <2>3
  <1>2. new = [r \in Request |-> IF r \in A THEN "answered"
                                 ELSE IF r \in D THEN "dropped" ELSE old[r]]
    BY <1>1
  <1>3. /\ A \in SUBSET {r \in Request : old[r] = "running"}
        /\ D \in SUBSET ({r \in Request : old[r] = "running"}
                           \cap {r \in Request : Task[r] # "completion"})
    BY <1>1
  <1> HIDE DEF A, D
  <1>4. QED BY <1>2, <1>3 DEF Service!End, Service!RunningRequests

LEMMA SameStatus ==
  ASSUME NEW r, r \in submitted' <=> r \in submitted, Queued(r)' <=> Queued(r),
         cancel_result'[r] = cancel_result[r], outcomes'[r] = outcomes[r],
         Running(r)' <=> Running(r)
  PROVE  service_status(r)' = service_status(r)
  BY DEF service_status

LEMMA SubmitImplemented ==
  ASSUME TypeInv, PlacementInv, NEW r \in Request, QueueRequest(r) \/ AnswerAtOnce(r)
  PROVE  Service!Submit(r)
  <1> DEFINE old == [x \in Request |-> service_status(x)]
             new == [x \in Request |-> service_status(x)']
  <1>1. /\ r \notin submitted /\ submitted' = submitted \cup {r}
        /\ UNCHANGED <<slots, cancel_result>>
        /\ \A x : Running(x)' <=> Running(x)
    BY DEF QueueRequest, AnswerAtOnce, Running
  <1>2. ~Queued(r) /\ outcomes[r] = <<>> /\ cancel_result[r] = "none"
        /\ service_status(r) = "unknown"
    BY <1>1 DEF PlacementInv, UnknownUntouched, QueuedUntouched, service_status
  <1>3. /\ queue_requests \in Seq(Request) /\ Distinct(queue_requests)
        /\ \A x : Queued(x) <=> Occurs(x, queue_requests)
        /\ outcomes \in [Request -> Seq(OutcomeRecord)]
    BY PlacementParts
  <1>4. CASE QueueRequest(r)
    <2>1. queue_requests' = Append(queue_requests, r) /\ UNCHANGED outcomes
      BY <1>4 DEF QueueRequest
    <2>2. \A x : Queued(x)' <=> Queued(x) \/ x = r
      <3>1. \A x : Occurs(x, queue_requests') <=> Occurs(x, queue_requests) \/ x = r
        BY <1>2, <1>3, <2>1, AppendOccurs
      <3>2. QED BY <1>3, <3>1 DEF Queued, Occurs
    <2>3. \A x \in Request : x # r => new[x] = old[x]
      BY <1>1, <2>1, <2>2, SameStatus
    <2>4. new[r] = "waiting"
      BY <1>1, <2>2 DEF service_status
    <2>5. new = [old EXCEPT ![r] = "waiting"]
      BY <2>3, <2>4
    <2>6. old[r] = "unknown"
      BY <1>2
    <2> HIDE DEF old, new
    <2>7. QED BY <2>1, <2>5, <2>6 DEF Service!Submit, old, new
  <1>5. CASE AnswerAtOnce(r)
    <2>1. UNCHANGED queue_requests /\ Answer(r, reset)
      BY <1>5 DEF AnswerAtOnce
    <2>2. \A x : Queued(x)' <=> Queued(x)
      BY <2>1 DEF Queued
    <2>3. \A x \in Request : x # r => new[x] = old[x]
      BY <1>1, <1>3, <2>1, <2>2, SameStatus DEF Answer
    <2>4. outcomes'[r] = Append(<<>>, OutcomeOf(reset))
      BY <1>2, <1>3, <2>1 DEF Answer
    <2>5. outcomes'[r] # <<>>
      <3> DEFINE o == OutcomeOf(reset)
      <3> HIDE DEF o
      <3>1. Append(<<>>, o) # <<>>
        OBVIOUS
      <3>2. QED BY <2>4, <3>1 DEF o
    <2>6. new[r] = "answered"
      BY <1>1, <1>2, <2>2, <2>5 DEF service_status
    <2>7. new = [old EXCEPT ![r] = "answered"]
      BY <2>3, <2>6
    <2>8. old[r] = "unknown"
      BY <1>2
    <2> HIDE DEF old, new
    <2>9. QED BY <2>1, <2>7, <2>8 DEF Service!Submit, old, new
  <1>6. QED BY <1>4, <1>5

LEMMA WithdrawImplemented ==
  ASSUME TypeInv, PlacementInv, NEW r \in Request, CancelRequest(r), CancelQueued(r)
  PROVE  Service!Withdraw(r)
  <1> DEFINE old == [x \in Request |-> service_status(x)]
             new == [x \in Request |-> service_status(x)']
  <1>1. PICK i \in DOMAIN queue_requests :
          queue_requests[i] = r /\ queue_requests' = Without(queue_requests, i)
    BY DEF CancelQueued
  <1>2. /\ cancel_result' = [cancel_result EXCEPT ![r] = "QUEUED"]
        /\ UNCHANGED <<slots, submitted, outcomes>> /\ r \in submitted
        /\ \A x : Running(x)' <=> Running(x)
    BY DEF CancelQueued, CancelRequest, Running
  <1>3. /\ queue_requests \in Seq(Request) /\ Distinct(queue_requests)
        /\ \A x : Queued(x) <=> Occurs(x, queue_requests)
    BY PlacementParts
  <1>4. \A x : Queued(x)' <=> Queued(x) /\ x # r
    <2>1. \A x : Occurs(x, queue_requests') <=> Occurs(x, queue_requests) /\ x # r
      BY <1>1, <1>3, WithoutOccurs
    <2>2. QED BY <1>3, <2>1 DEF Queued, Occurs
  <1>5. Queued(r)
    BY <1>1 DEF Queued
  <1>6. \A x \in Request : x # r => new[x] = old[x]
    BY <1>2, <1>4, PlacementTyped, SameStatus
  <1>7. old[r] = "waiting" /\ new[r] = "withdrawn"
    BY <1>2, <1>4, <1>5, PlacementTyped DEF service_status
  <1>8. new = [old EXCEPT ![r] = "withdrawn"]
    BY <1>6, <1>7
  <1> HIDE DEF old, new
  <1>9. old[r] = "waiting"
    BY <1>7
  <1>10. QED BY <1>1, <1>8, <1>9 DEF Service!Withdraw, Without, old, new

\* While a slot is available fewer than n_parallel requests are running, since
\* active_requests sends them to different slots.
LEMMA RoomToStart ==
  ASSUME TypeInv, PlacementInv, NEW s \in Slot, ~Active(slots[s])
  PROVE  Cardinality({r \in Request : Running(r)}) < NSlots
  <1> DEFINE R == {r \in Request : Running(r)}
             f == [r \in R |-> active_requests[r]]
  <1>1. ASSUME NEW r \in R
        PROVE  /\ active_requests[r] \in Slot \ {s}
               /\ slots[active_requests[r]].request_id = r
    <2>1. PICK t \in Slot : slots[t].request_id = r /\ Active(slots[t])
      BY DEF Running
    <2>2. QED BY <2>1 DEF PlacementInv, BusyOwnsRequest
  <1>2. f \in Injection(R, Slot \ {s})
    BY <1>1 DEF Injection, IsInjective
  <1>3. IsFiniteSet(1..NSlots) /\ Cardinality(1..NSlots) = NSlots
    BY FS_Interval, SizeAssumption
  <1>4. IsFiniteSet(Slot \ {s}) /\ Cardinality(Slot \ {s}) = NSlots - 1
    BY <1>3, FS_RemoveElement DEF Slot
  <1> HIDE DEF f, R
  <1>5. IsFiniteSet(R) /\ Cardinality(R) <= NSlots - 1
    BY <1>2, <1>4, FS_Injection
  <1>6. Cardinality(R) \in Nat /\ NSlots \in Nat
    BY <1>5, FS_CardinalityType, SizeAssumption
  <1>7. QED BY <1>5, <1>6 DEF R

\* The two modules count alike.
LEMMA SameCardinality == \A S : Service!Cardinality(S) = Cardinality(S)
  BY DEF Service!Cardinality, Cardinality, Service!IsFiniteSet, IsFiniteSet

LEMMA StartImplemented ==
  ASSUME TypeInv, PlacementInv, AssignHead
  PROVE  Service!Start
  <1> USE DEF clientVars
  <1> PICK h : h = Head(queue_requests)
    OBVIOUS
  <1> DEFINE old == [x \in Request |-> service_status(x)]
             new == [x \in Request |-> service_status(x)']
  <1>1. /\ queue_requests # <<>> /\ queue_requests' = Tail(queue_requests)
        /\ UNCHANGED <<submitted, cancel_result>>
    BY DEF AssignHead
  <1>2. /\ queue_requests \in Seq(Request) /\ Distinct(queue_requests)
        /\ \A x : Queued(x) <=> Occurs(x, queue_requests)
        /\ outcomes \in [Request -> Seq(OutcomeRecord)] /\ slots \in [Slot -> SlotRecord]
    BY PlacementParts
  <1>3. /\ h \in Request /\ Queued(h)
        /\ \A x : Queued(x)' <=> Queued(x) /\ x # h
    <2>1. /\ h \in Request /\ Occurs(h, queue_requests)
          /\ \A x : Occurs(x, queue_requests') <=> Occurs(x, queue_requests) /\ x # h
      BY <1>1, <1>2, TailOccurs
    <2>2. QED BY <1>2, <2>1 DEF Queued, Occurs
  <1>4. h \in submitted /\ outcomes[h] = <<>> /\ cancel_result[h] # "QUEUED"
    BY <1>3 DEF PlacementInv, QueuedUntouched
  <1>5. PICK s \in Slot : get_available_slot(s) /\ (Assign(h, s) \/ FailLoad(h, s))
    BY DEF AssignHead
  <1>6. ~Active(slots[s])
    BY <1>5 DEF get_available_slot, Available, Active
  <1>7. PICK next : /\ next.request_id = h /\ slots' = [slots EXCEPT ![s] = next]
                    /\ \/ Assign(h, s) /\ Active(next)
                       \/ FailLoad(h, s) /\ ~Active(next)
    BY <1>3, <1>5, AssignOccupies
  <1>8. \A t \in Slot : slots'[t] = IF t = s THEN next ELSE slots[t]
    BY <1>2, <1>7
  <1>9. \A x \in Request : x # h => (Running(x)' <=> Running(x))
    BY <1>6, <1>7, <1>8 DEF Running
  <1>10. \A x \in Request : x # h => outcomes'[x] = outcomes[x]
    BY <1>2, <1>7 DEF Assign, FailLoad, Answer
  <1>11. \A x \in Request : x # h => new[x] = old[x]
    BY <1>1, <1>3, <1>9, <1>10, SameStatus
  <1>12. CASE Assign(h, s) /\ Active(next)
    <2>1. Running(h)'
      BY <1>7, <1>8, <1>12 DEF Running
    <2>2. outcomes'[h] = <<>>
      BY <1>4, <1>12 DEF Assign
    <2>3. new[h] = "running"
      BY <1>1, <1>3, <1>4, <2>1, <2>2 DEF service_status
    <2>4. new = [old EXCEPT ![h] = "running"]
      BY <1>11, <2>3
    <2>5. {r \in Request : old[r] = "running"} = {r \in Request : Running(r)}
      BY StatusCases
    <2> HIDE DEF old, new
    <2>6. Cardinality({r \in Request : old[r] = "running"}) < NSlots
      BY <1>6, <2>5, RoomToStart
    <2>7. QED
      BY <1>1, <2>4, <2>6, SameCardinality DEF Service!Start, Service!RunningRequests,
         old, new
  <1>13. CASE FailLoad(h, s) /\ ~Active(next)
    <2>1. PICK o : outcomes'[h] = Append(<<>>, o)
      BY <1>2, <1>3, <1>4, <1>13 DEF FailLoad, Answer
    <2>2. Append(<<>>, o) # <<>>
      OBVIOUS
    <2>3. new[h] = "answered"
      BY <1>1, <1>3, <1>4, <2>1, <2>2 DEF service_status
    <2>4. new = [old EXCEPT ![h] = "answered"]
      BY <1>11, <2>3
    <2> HIDE DEF old, new
    <2>5. QED BY <1>1, <2>4 DEF Service!Start, old, new
  <1>14. QED BY <1>7, <1>12, <1>13

\* What a step of the worker does to the requests its slots hold: none begins to run,
\* and none is answered that was not running.
LEMMA NoneStarted ==
  ASSUME TypeInv, \A s \in Slot : KeepsFlag(s)
  PROVE  \A r \in Request : Running(r)' => Running(r)
  BY DEF KeepsFlag, Running

LEMMA RunningAnswered ==
  ASSUME NEW r \in Request, AnsweredFrom(Slot, r)
  PROVE  outcomes'[r] = outcomes[r] \/ Running(r)
  BY DEF AnsweredFrom, Running

LEMMA ServiceInit == Init => Service!Init
  <1> SUFFICES ASSUME Init PROVE Service!Init
    OBVIOUS
  <1>1. queue_requests = <<>> /\ submitted = {}
    BY DEF Init
  <1>2. [r \in Request |-> service_status(r)] = [r \in Request |-> "unknown"]
    BY <1>1 DEF service_status
  <1>3. QED BY <1>1, <1>2 DEF Service!Init

LEMMA ServiceStep ==
  ASSUME TypeInv, PlacementInv, CancelInv, [Next]_vars, TypeInv', PlacementInv'
  PROVE  Service!Next
  <1> DEFINE Ends == /\ UNCHANGED <<queue_requests, submitted>>
                     /\ \A r \in Request :
                          /\ cancel_result'[r] = "QUEUED" <=> cancel_result[r] = "QUEUED"
                          /\ Running(r)' => Running(r)
                          /\ outcomes'[r] = outcomes[r] \/ Running(r)
  <1>1. ASSUME Ends PROVE Service!Next
    BY <1>1, EndImplemented DEF Service!Next
  <1>2. CASE AssignHead
    BY <1>2, StartImplemented DEF Service!Next
  <1>3. CASE Update /\ ~AssignHead
    BY <1>1, <1>3, UpdateKeeps, NoneStarted, RunningAnswered DEF WorkerKeeps, CancelInv
  <1>4. CASE \/ LoopTop \/ CheckWork \/ FallAsleep \/ SpuriousWakeup \/ Reevaluate
             \/ Stopper \/ UNCHANGED vars \/ \E r \in Request : Notify(r)
    <2>1. UNCHANGED <<queue_requests, slots, cancel_result, outcomes, submitted>>
      BY <1>4 DEF LoopTop, CheckWork, FallAsleep, SpuriousWakeup, Reevaluate, Stopper,
         StopStore, StopNotify, StopJoin, vars, workerLocals, clientVars, Notify
    <2>2. QED BY <1>1, <2>1 DEF Running
  <1>5. ASSUME NEW r \in Request, QueueRequest(r) \/ AnswerAtOnce(r)
        PROVE  Service!Next
    BY <1>5, SubmitImplemented DEF Service!Next
  <1>6. ASSUME NEW r \in Request, CancelRequest(r)
        PROVE  Service!Next
    <2>1. CASE CancelQueued(r)
      BY <1>6, <2>1, WithdrawImplemented DEF Service!Next
    <2>2. CASE CancelActive(r) \/ CancelNotFound(r)
      <3>1. /\ UNCHANGED <<queue_requests, submitted, outcomes>>
            /\ \A x \in Request :
                 cancel_result'[x] = "QUEUED" <=> cancel_result[x] = "QUEUED"
        BY <1>6, <2>2, PlacementTyped DEF CancelRequest, CancelActive, CancelNotFound
      <3>2. ASSUME NEW s \in Slot
            PROVE  /\ slots'[s].request_id = slots[s].request_id
                   /\ slots'[s].state = slots[s].state
        <4> DEFINE next == [slots[s] EXCEPT !.is_interrupted = TRUE]
        <4>1. next.request_id = slots[s].request_id /\ next.state = slots[s].state
          BY PlacementTyped DEF SlotRecord
        <4>2. slots'[s] = slots[s] \/ slots'[s] = next
          BY <2>2, PlacementTyped DEF CancelActive, CancelNotFound
        <4> HIDE DEF next
        <4>3. QED BY <4>1, <4>2
      <3>3. \A x \in Request : Running(x)' => Running(x)
        BY <3>2 DEF Running, Active
      <3>4. QED BY <1>1, <3>1, <3>3
    <2>3. QED BY <1>6, <2>1, <2>2 DEF CancelRequest
  <1>7. QED BY <1>2, <1>3, <1>4, <1>5, <1>6 DEF Next, Worker, Client

\* Whatever the application queues and cancels and whichever batches fail, it sees a
\* service that serves requests in order, at most n_parallel at a time, and gives each
\* one final status.
THEOREM EngineImplementsService == Spec => ImplementsService
  <1>1. TypeInv /\ PlacementInv /\ CancelInv /\ [Next]_vars /\ TypeInv' /\ PlacementInv'
          => [Service!Next]_<<queue_requests, [r \in Request |-> service_status(r)]>>
    BY ServiceStep
  <1>2. QED
    BY TypeInit, TypeStep, PlacementInit, PlacementStep, CancelInit, CancelStep,
       ServiceInit, <1>1, PTL DEF Spec, ImplementsService, Service!Spec
=============================================================================
