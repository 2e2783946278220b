------------------------------ MODULE TokenText ------------------------------
(***************************************************************************)
(* From the bytes of sampled tokens to the text the application gets: the  *)
(* UTF-8 gate every token passes, the text it is appended to, the deltas   *)
(* that onToken is called with, and the search for stop words.             *)
(*                                                                         *)
(* A token's piece is a sequence of raw bytes; a character of several      *)
(* bytes may be split over tokens and some bytes may belong to none.  The  *)
(* text has two consumers that treat it differently: the loop of a single  *)
(* completion, which holds a delta back while it may turn into a stop word *)
(* and cuts the word off, and a slot of the parallel engine, which sends   *)
(* what the gate lets through and ends after a stop word.                  *)
(***************************************************************************)
EXTENDS Naturals, Sequences, FiniteSetsExt, SequencesExt

CONSTANT Cases   \* records [consumer, pieces, stop_words, max]: who, which tokens, how many bytes

Byte == 0 .. 255

ASSUME CasesAssumption ==
  \A c \in Cases :
    /\ c.consumer \in {"completion", "slot"} /\ c.max \in Nat
    /\ \A p \in c.pieces \cup c.stop_words : p \in Seq(Byte) /\ p # <<>>

VARIABLES
  case,             \* the case of this behaviour
  pending,          \* utf8_stream_gate
  generated_text,
  sent_count,       \* bytes of generated_text that were sent (single completion)
  has_next_token,
  running,          \* endCompletion() or complete_slot() has not been called
  stopped_word,
  fed,              \* history: the bytes of all tokens
  delivered,        \* history: all deltas
  checked,          \* history: length of generated_text when stop words were last looked for
  unseen            \* history: text was added that the last search did not reach

vars == <<case, pending, generated_text, sent_count, has_next_token, running, stopped_word,
          fed, delivered, checked, unseen>>

Init ==
  /\ case \in Cases
  /\ pending = <<>> /\ generated_text = <<>> /\ sent_count = 0
  /\ has_next_token = TRUE /\ running = TRUE /\ stopped_word = FALSE
  /\ fed = <<>> /\ delivered = <<>> /\ checked = 0 /\ unseen = FALSE

-----------------------------------------------------------------------------
(* UTF-8                                                                   *)

Replacement == <<\hEF, \hBF, \hBD>>   \* U+FFFD

IsContinuation(c) == c \in \h80 .. \hBF

\* utf8_lead_info: the length of the sequence c starts (0: none), and the range of its
\* second byte.
utf8_lead_info(c) ==
  [len |-> CASE c \in \hC2 .. \hDF -> 2
             [] c \in \hE0 .. \hEF -> 3
             [] c \in \hF0 .. \hF4 -> 4
             [] OTHER -> 0,
   lo |-> IF c = \hE0 THEN \hA0 ELSE IF c = \hF0 THEN \h90 ELSE \h80,
   hi |-> IF c = \hED THEN \h9F ELSE IF c = \hF4 THEN \h8F ELSE \hBF]

\* May cc be the byte number k after a lead?
Continues(lead, k, cc) == IF k = 1 THEN cc \in lead.lo .. lead.hi ELSE IsContinuation(cc)

\* Faulty variant: any continuation bytes are waited for.
utf8_incomplete_suffix_length_AnyRange(text) ==
  LET n == Len(text)
      leads == {b \in 1 .. Min({3, n}) : ~IsContinuation(text[n - b + 1])}
  IN IF leads = {} \/ utf8_lead_info(text[n - Min(leads) + 1]).len <= Min(leads) THEN 0
     ELSE Min(leads)

utf8_incomplete_suffix_length(text) ==
  LET n == Len(text)
      leads == {b \in 1 .. Min({3, n}) : ~IsContinuation(text[n - b + 1])}
      back == Min(leads)
      lead == utf8_lead_info(text[n - back + 1])
  IN IF leads # {} /\ lead.len > back
        /\ \A k \in 1 .. back - 1 : Continues(lead, k, text[n - back + 1 + k])
     THEN back ELSE 0

utf8_is_well_formed(text) ==
  LET n == Len(text)
      from[i \in 1 .. n + 1] ==
        IF i > n THEN TRUE
        ELSE IF text[i] < \h80 THEN from[i + 1]
        ELSE LET lead == utf8_lead_info(text[i])
             IN /\ lead.len > 0 /\ i + lead.len - 1 <= n
                /\ \A k \in 1 .. lead.len - 1 : Continues(lead, k, text[i + k])
                /\ from[i + lead.len]
  IN from[1]

\* Stop words are JavaScript strings: asString(runtime).utf8(runtime).
ASSUME StopWordsAssumption ==
  \A c \in Cases : \A w \in c.stop_words : utf8_is_well_formed(w)

\* The bytes of a sequence at i that belong together: its maximal valid part.
ValidPart(text, i, lead) ==
  Max({k \in 1 .. Min({lead.len, Len(text) - i + 1}) :
         \A j \in 1 .. k - 1 : Continues(lead, j, text[i + j])})

utf8_sanitize(text) ==
  LET n == Len(text)
      from[i \in 1 .. n + 1] ==
        IF i > n THEN <<>>
        ELSE IF text[i] < \h80 THEN <<text[i]>> \o from[i + 1]
        ELSE LET lead == utf8_lead_info(text[i])
                 k == ValidPart(text, i, lead)
             IN IF lead.len = 0 THEN Replacement \o from[i + 1]
                ELSE (IF k = lead.len THEN SubSeq(text, i, i + k - 1) ELSE Replacement)
                     \o from[i + k]
  IN from[1]

\* utf8_stream_gate::feed: what the gate lets through, and what it keeps.
feed(piece) ==
  LET all == pending \o piece
      ready == Len(all) - utf8_incomplete_suffix_length(all)
  IN [text |-> utf8_sanitize(SubSeq(all, 1, ready)), pending |-> SubSeq(all, ready + 1, Len(all))]

\* utf8_stream_gate::finish, appended to text.
Finished(text, held) == text \o utf8_sanitize(held)

-----------------------------------------------------------------------------
(* Stop words                                                              *)

\* std::string::find(word, from): the offsets at which word is found.
Found(word, text, from) ==
  {o \in from .. Len(text) : o + Len(word) <= Len(text)
                             /\ SubSeq(text, o + 1, o + Len(word)) = word}

\* Faulty variant: a word that began in an earlier token is overlooked.
SearchFrom_LastToken(word, text, last_token_size) ==
  IF Len(text) > last_token_size THEN Len(text) - last_token_size ELSE 0

\* Only the end of the text is searched: a word's length and the last token.
SearchFrom(word, text, last_token_size) ==
  LET tail == Len(word) + last_token_size
  IN IF Len(text) > tail THEN Len(text) - tail ELSE 0

\* findStoppingStrings(text, last_token_size, STOP_FULL): the offset of the first stop word.
FullStops(text, last_token_size) ==
  UNION {Found(w, text, SearchFrom(w, text, last_token_size)) : w \in case.stop_words}

\* findStoppingStrings(text, _, STOP_PARTIAL): where an end of the text begins that is the
\* beginning of a stop word (of each word the longest).
PartialStops(text) ==
  {Min(os) : os \in {{Len(text) - k : k \in {j \in 1 .. Min({Len(w), Len(text)}) :
                        IsSuffix(SubSeq(w, 1, j), text)}} : w \in case.stop_words} \ {{}}}

-----------------------------------------------------------------------------
(* A single completion: the loop of completion(), doCompletion()            *)

InCompletion == case.consumer = "completion" /\ running /\ has_next_token

Room(piece) == Len(fed) + Len(piece) <= case.max

\* A token that leaves a character incomplete: generation goes on whatever nextToken()
\* decided, and neither stop words are looked for nor anything is sent.
IncompleteToken ==
  /\ InCompletion
  /\ \E p \in case.pieces :
       LET passed == feed(p) IN
       /\ Room(p) /\ passed.pending # <<>>
       /\ pending' = passed.pending
       /\ generated_text' = generated_text \o passed.text
       /\ fed' = fed \o p
  /\ has_next_token' = TRUE
  /\ UNCHANGED <<case, sent_count, running, stopped_word, delivered, checked, unseen>>

\* Any other token.  `more': nextToken() has not come to its limit.
CompleteToken ==
  /\ InCompletion
  /\ \E p \in case.pieces, more \in BOOLEAN :
       LET passed == feed(p)
           text == generated_text \o passed.text
           unsent == SubSeq(text, sent_count + 1, Len(text))
           stops == FullStops(unsent, Len(p))
           partial == PartialStops(unsent)
       IN
       /\ Room(p) /\ passed.pending = <<>>
       /\ pending' = <<>> /\ fed' = fed \o p
       /\ unseen' = (unseen \/ Len(text) - checked > Len(p))
       /\ checked' = Len(text)
       /\ \/ /\ stops # {}
             /\ generated_text' = SubSeq(text, 1, sent_count + Min(stops))
             /\ has_next_token' = FALSE /\ stopped_word' = TRUE
             /\ UNCHANGED <<sent_count, delivered>>
          \/ /\ stops = {}
             /\ generated_text' = text /\ has_next_token' = more
             /\ IF partial = {} \/ (~more /\ Min(partial) > 0)
                THEN sent_count' = Len(text) /\ delivered' = delivered \o unsent
                ELSE UNCHANGED <<sent_count, delivered>>
             /\ UNCHANGED stopped_word
  /\ UNCHANGED <<case, running>>

\* The end of generation is sampled: no token.  While a character is incomplete
\* generation goes on all the same.
EndToken ==
  /\ InCompletion
  /\ has_next_token' = (pending # <<>>)
  /\ UNCHANGED <<case, pending, generated_text, sent_count, running, stopped_word, fed,
                 delivered, checked, unseen>>

\* The loop ends, by itself or by an interrupt: endCompletion().
EndCompletion ==
  /\ case.consumer = "completion" /\ running
  /\ generated_text' = Finished(generated_text, pending) /\ pending' = <<>>
  /\ running' = FALSE /\ has_next_token' = FALSE
  /\ unseen' = (unseen \/ (Len(generated_text') > checked /\ ~stopped_word))
  /\ UNCHANGED <<case, sent_count, stopped_word, fed, delivered, checked>>

-----------------------------------------------------------------------------
(* A slot: sample_and_callback(), emit_token(), complete_slot()             *)

InSlot == case.consumer = "slot" /\ running

\* A token: its delta is what the gate lets through, and is not sent when empty.  A stop
\* word or a limit completes the slot.
SlotToken ==
  /\ InSlot
  /\ \E p \in case.pieces, limit \in BOOLEAN :
       LET passed == feed(p)
           text == generated_text \o passed.text
           stops == text # <<>> /\ FullStops(text, Len(passed.text)) # {}
       IN
       /\ Room(p)
       /\ fed' = fed \o p /\ delivered' = delivered \o passed.text
       /\ stopped_word' = stops /\ checked' = Len(text)
       /\ running' = ~(stops \/ limit)
       /\ IF running'
          THEN generated_text' = text /\ pending' = passed.pending
          ELSE generated_text' = Finished(text, passed.pending) /\ pending' = <<>>
  /\ UNCHANGED <<case, sent_count, has_next_token, unseen>>

\* The end of generation, a cancellation or a failed batch: complete_slot().
CompleteSlot ==
  /\ InSlot
  /\ generated_text' = Finished(generated_text, pending) /\ pending' = <<>>
  /\ running' = FALSE
  /\ UNCHANGED <<case, sent_count, has_next_token, stopped_word, fed, delivered, checked, unseen>>

Next ==
  \/ IncompleteToken \/ CompleteToken \/ EndToken \/ EndCompletion
  \/ SlotToken \/ CompleteSlot

Spec == Init /\ [][Next]_vars

-----------------------------------------------------------------------------
(* What UTF-8 says, by code points                                         *)

\* The lead of a character of n bytes.
LeadBits == <<0 .. \h7F, \hC0 .. \hDF, \hE0 .. \hEF, \hF0 .. \hF7>>

CodePoint(s) ==
  LET Sextet(c) == c - \h80
  IN CASE Len(s) = 1 -> s[1]
       [] Len(s) = 2 -> 64 * (s[1] - \hC0) + Sextet(s[2])
       [] Len(s) = 3 -> 64 * (64 * (s[1] - \hE0) + Sextet(s[2])) + Sextet(s[3])
       [] Len(s) = 4 -> 64 * (64 * (64 * (s[1] - \hF0) + Sextet(s[2])) + Sextet(s[3])) + Sextet(s[4])

\* The first code point that needs n bytes, and the first there is not.
First == <<0, \h80, \h800, \h10000, \h110000>>

\* Its code point needs that many bytes and is no surrogate.
IsCharacter(s) ==
  /\ Len(s) \in 1 .. 4 /\ s[1] \in LeadBits[Len(s)]
  /\ \A i \in 2 .. Len(s) : IsContinuation(s[i])
  /\ First[Len(s)] <= CodePoint(s) /\ CodePoint(s) < First[Len(s) + 1]
  /\ ~(\hD800 <= CodePoint(s) /\ CodePoint(s) <= \hDFFF)

\* Some bytes would complete it.  (If any do, then some that are all the least or all the
\* greatest continuation byte: the code points of a lead are an interval that has no
\* invalid ones at one of its ends.)
CanBeCompleted(s) ==
  \E n \in 1 .. 3, c \in {\h80, \hBF} : IsCharacter(s \o [i \in 1 .. n |-> c])

\* Every character as it is; every maximal part of one, and every other byte, replaced.
Text(bytes) ==
  LET n == Len(bytes)
      from[i \in 1 .. n + 1] ==
        LET At(k) == SubSeq(bytes, i, i + k - 1)
            room == 1 .. Min({4, n - i + 1})
            characters == {k \in room : IsCharacter(At(k))}
            parts == {1} \cup {k \in room : CanBeCompleted(At(k))}
        IN IF i > n THEN <<>>
           ELSE IF characters # {} THEN At(Min(characters)) \o from[i + Min(characters)]
           ELSE Replacement \o from[i + Max(parts)]
  IN from[1]

-----------------------------------------------------------------------------
(* Properties                                                              *)

Cut == case.consumer = "completion" /\ stopped_word

\* Whatever the tokens are and however characters are split over them: no character is
\* lost, emitted twice or torn ("generated_text is well-formed at all times"), the gate
\* holds back only what later bytes can complete, and what onToken was given so far is a
\* beginning of the text, which for a completion ends where a stop word is cut off.
TextExact ==
  /\ utf8_is_well_formed(generated_text) /\ utf8_is_well_formed(delivered)
  /\ pending # <<>> => CanBeCompleted(pending)
  /\ IsPrefix(delivered, generated_text)
  /\ IF Cut THEN IsPrefix(generated_text, Text(fed))
     ELSE generated_text \o Text(pending) = Text(fed)

\* A stop word ends the generation as soon as it is in the text, also when it is spread
\* over tokens: a slot that goes on has none in its text, a completion has none even at
\* its end.  A completion may miss one if a token's bytes are not the text it adds: the
\* search goes back by the token's size, while the gate also passes on what it held back,
\* and U+FFFD for a dead byte; nor does it look while a character is incomplete.
StopWordEndsGeneration ==
  (IF case.consumer = "slot" THEN running ELSE pending = <<>> /\ ~unseen) =>
    \A w \in case.stop_words : Found(w, generated_text, 0) = {}
=============================================================================
