-------------------------- MODULE TokenTextProofs --------------------------
(***************************************************************************)
(* Theorems about TokenText: the text is the tokens' bytes read as UTF-8,  *)
(* whatever is split over tokens, and a stop word ends it.                 *)
(*                                                                         *)
(* The scans of utf8_sanitize() and utf8_is_well_formed() and the meaning  *)
(* of the bytes, Text, are recursive functions over positions.  All three  *)
(* are first shown to be one scan, which takes the bytes that belong       *)
(* together at the front (Width) and goes on with the rest.                *)
(***************************************************************************)
EXTENDS TokenText, Integers, WellFoundedInduction, TLAPS

-----------------------------------------------------------------------------
(* Least and greatest numbers                                              *)

LEMMA LeastExists ==
  ASSUME NEW S \in SUBSET Nat, S # {}
  PROVE  \E x \in S : \A y \in S : x <= y
  <1> DEFINE R == OpToRel(<, Nat)
  <1>1. \E x \in S : \A y \in S : ~(<<y, x>> \in R)
    BY NatLessThanWellFounded, WFMin
  <1>2. \A x, y \in Nat : y < x => <<y, x>> \in R
    BY DEF OpToRel
  <1> HIDE DEF R
  <1>3. PICK x \in S : \A y \in S : ~(<<y, x>> \in R)
    BY <1>1
  <1>4. ASSUME NEW y \in S PROVE x <= y
    <2>1. x \in Nat /\ y \in Nat
      OBVIOUS
    <2>2. ~(y < x)
      BY <1>2, <1>3, <2>1
    <2>3. QED BY <2>1, <2>2
  <1>5. QED BY <1>4

LEMMA MinIs ==
  ASSUME NEW S \in SUBSET Nat, S # {}
  PROVE  Min(S) \in S /\ \A y \in S : Min(S) <= y
  BY LeastExists DEF Min

LEMMA MinIsThat ==
  ASSUME NEW S \in SUBSET Nat, NEW m \in S, \A y \in S : m <= y
  PROVE  Min(S) = m
  <1>1. Min(S) \in S /\ Min(S) <= m
    BY MinIs
  <1>2. m <= Min(S) /\ m \in Nat /\ Min(S) \in Nat
    BY <1>1
  <1>3. QED BY <1>1, <1>2

LEMMA MinOfTwo ==
  ASSUME NEW a \in Nat, NEW b \in Nat
  PROVE  Min({a, b}) = IF a <= b THEN a ELSE b
  BY MinIs

LEMMA MaxIsThat ==
  ASSUME NEW S \in SUBSET Nat, NEW m \in S, \A y \in S : m >= y
  PROVE  Max(S) = m
  <1>1. Max(S) \in S /\ \A y \in S : Max(S) >= y
    BY DEF Max
  <1>2. Max(S) >= m /\ m >= Max(S) /\ m \in Nat /\ Max(S) \in Nat
    BY <1>1
  <1>3. QED BY <1>2

LEMMA GreatestExists ==
  ASSUME NEW n \in Nat, NEW S \in SUBSET (0 .. n), S # {}
  PROVE  \E x \in S : \A y \in S : x >= y
  <1> DEFINE T == {n - x : x \in S}
  <1>1. T \in SUBSET Nat /\ T # {}
    <2>1. \A x \in S : n - x \in Nat
      OBVIOUS
    <2>2. QED BY <2>1
  <1>2. PICK t \in T : \A u \in T : t <= u
    BY <1>1, LeastExists
  <1>3. PICK x \in S : t = n - x
    OBVIOUS
  <1>4. \A y \in S : n - y \in T
    OBVIOUS
  <1>5. QED BY <1>2, <1>3, <1>4

-----------------------------------------------------------------------------
(* Sequences                                                               *)

Bytes == Seq(Byte)

\* The bytes of s from position i.
Rest(s, i) == SubSeq(s, i, Len(s))

LEMMA SeqEqual ==
  ASSUME NEW S, NEW s \in Seq(S), NEW t \in Seq(S), Len(s) = Len(t),
         \A i \in 1 .. Len(s) : s[i] = t[i]
  PROVE  s = t
  OBVIOUS

LEMMA SubSeqIs ==
  ASSUME NEW S, NEW s \in Seq(S), NEW m \in 1 .. Len(s) + 1, NEW n \in 0 .. Len(s),
         m <= n + 1
  PROVE  /\ SubSeq(s, m, n) \in Seq(S) /\ Len(SubSeq(s, m, n)) = n - m + 1
         /\ \A i \in 1 .. n - m + 1 : SubSeq(s, m, n)[i] = s[m + i - 1]
  OBVIOUS

LEMMA ConcatIs ==
  ASSUME NEW S, NEW s \in Seq(S), NEW t \in Seq(S)
  PROVE  /\ s \o t \in Seq(S) /\ Len(s \o t) = Len(s) + Len(t)
         /\ \A i \in 1 .. Len(s) + Len(t) :
              (s \o t)[i] = IF i <= Len(s) THEN s[i] ELSE t[i - Len(s)]
  OBVIOUS

LEMMA ConcatAssociates ==
  ASSUME NEW S, NEW s \in Seq(S), NEW t \in Seq(S), NEW u \in Seq(S)
  PROVE  s \o (t \o u) = (s \o t) \o u
  OBVIOUS

LEMMA BytesConcat ==
  /\ <<>> \in Bytes
  /\ \A s, t \in Bytes : s \o t \in Bytes
  /\ \A s, t, u \in Bytes : s \o (t \o u) = (s \o t) \o u
  /\ \A s \in Bytes : s \o <<>> = s /\ <<>> \o s = s
  /\ \A s \in Bytes : Len(s) \in Nat
  /\ \A s, t \in Bytes : Len(s \o t) = Len(s) + Len(t)
  /\ \A s \in Bytes : s # <<>> => Len(s) > 0
  <1>1. \A s, t \in Bytes : s \o t \in Bytes /\ Len(s \o t) = Len(s) + Len(t)
    BY ConcatIs DEF Bytes
  <1>2. \A s, t, u \in Bytes : s \o (t \o u) = (s \o t) \o u
    BY ConcatAssociates DEF Bytes
  <1>3. /\ <<>> \in Bytes
        /\ \A s \in Bytes : Len(s) \in Nat /\ (s # <<>> => Len(s) > 0)
    BY DEF Bytes
  <1>4. \A s \in Bytes : s \o <<>> = s /\ <<>> \o s = s
    BY DEF Bytes
  <1>5. QED BY ONLY <1>1, <1>2, <1>3, <1>4

LEMMA RestIs ==
  ASSUME NEW S, NEW s \in Seq(S), NEW i \in 1 .. Len(s) + 1
  PROVE  /\ Rest(s, i) \in Seq(S) /\ Len(Rest(s, i)) = Len(s) - i + 1
         /\ \A j \in 1 .. Len(s) - i + 1 : Rest(s, i)[j] = s[i + j - 1]
  BY SubSeqIs DEF Rest

LEMMA RestOfRest ==
  ASSUME NEW S, NEW s \in Seq(S), NEW i \in 1 .. Len(s) + 1,
         NEW j \in 1 .. Len(s) - i + 2
  PROVE  Rest(Rest(s, i), j) = Rest(s, i + j - 1)
  <1> DEFINE t == Rest(s, i)
  <1>1. /\ t \in Seq(S) /\ Len(t) = Len(s) - i + 1
        /\ \A k \in 1 .. Len(s) - i + 1 : t[k] = s[i + k - 1]
    BY RestIs
  <1>2. i + j - 1 \in 1 .. Len(s) + 1 /\ j \in 1 .. Len(t) + 1
    BY <1>1
  <1> HIDE DEF t
  <1>3. /\ Rest(t, j) \in Seq(S) /\ Len(Rest(t, j)) = Len(t) - j + 1
        /\ \A k \in 1 .. Len(t) - j + 1 : Rest(t, j)[k] = t[j + k - 1]
    BY <1>1, <1>2, RestIs
  <1>4. /\ Rest(s, i + j - 1) \in Seq(S) /\ Len(Rest(s, i + j - 1)) = Len(s) - (i + j - 1) + 1
        /\ \A k \in 1 .. Len(s) - (i + j - 1) + 1 :
             Rest(s, i + j - 1)[k] = s[i + j - 1 + k - 1]
    BY <1>2, RestIs
  <1>5. Len(Rest(t, j)) = Len(Rest(s, i + j - 1))
    BY <1>1, <1>3, <1>4
  <1>6. ASSUME NEW k \in 1 .. Len(Rest(t, j))
        PROVE  Rest(t, j)[k] = Rest(s, i + j - 1)[k]
    <2>1. /\ k \in 1 .. Len(t) - j + 1 /\ k \in 1 .. Len(s) - (i + j - 1) + 1
          /\ j + k - 1 \in 1 .. Len(s) - i + 1
          /\ i + (j + k - 1) - 1 = i + j - 1 + k - 1
      BY <1>1, <1>3
    <2>2. QED BY <2>1, <1>1, <1>3, <1>4
  <1>7. Rest(t, j) = Rest(s, i + j - 1)
    BY <1>3, <1>4, <1>5, <1>6, SeqEqual
  <1>8. QED BY <1>7 DEF t

LEMMA RestAll ==
  ASSUME NEW S, NEW s \in Seq(S)
  PROVE  Rest(s, 1) = s
  BY DEF Rest

LEMMA RestOfConcat ==
  ASSUME NEW S, NEW s \in Seq(S), NEW t \in Seq(S)
  PROVE  /\ Rest(s \o t, Len(s) + 1) = t
         /\ \A i \in 1 .. Len(s) + 1 : Rest(s \o t, i) = Rest(s, i) \o t
  <1>1. /\ s \o t \in Seq(S) /\ Len(s \o t) = Len(s) + Len(t)
        /\ \A i \in 1 .. Len(s) + Len(t) :
             (s \o t)[i] = IF i <= Len(s) THEN s[i] ELSE t[i - Len(s)]
    BY ConcatIs
  <1> DEFINE u == s \o t
  <1> HIDE DEF u
  <1>2. ASSUME NEW i \in 1 .. Len(s) + 1
        PROVE  Rest(u, i) = Rest(s, i) \o t
    <2>1. /\ Rest(u, i) \in Seq(S) /\ Len(Rest(u, i)) = Len(s) + Len(t) - i + 1
          /\ \A j \in 1 .. Len(s) + Len(t) - i + 1 : Rest(u, i)[j] = u[i + j - 1]
      <3>1. i \in 1 .. Len(u) + 1 /\ u \in Seq(S) /\ Len(u) = Len(s) + Len(t)
        BY <1>1 DEF u
      <3>2. /\ Rest(u, i) \in Seq(S) /\ Len(Rest(u, i)) = Len(u) - i + 1
            /\ \A j \in 1 .. Len(u) - i + 1 : Rest(u, i)[j] = u[i + j - 1]
        BY <3>1, RestIs
      <3>3. QED BY <3>1, <3>2
    <2> DEFINE r == Rest(s, i)
    <2>2. /\ r \in Seq(S) /\ Len(r) = Len(s) - i + 1
          /\ \A j \in 1 .. Len(s) - i + 1 : r[j] = s[i + j - 1]
      BY RestIs
    <2> HIDE DEF r
    <2>3. /\ r \o t \in Seq(S) /\ Len(r \o t) = Len(r) + Len(t)
          /\ \A j \in 1 .. Len(r) + Len(t) :
               (r \o t)[j] = IF j <= Len(r) THEN r[j] ELSE t[j - Len(r)]
      BY <2>2, ConcatIs
    <2>4. Len(Rest(u, i)) = Len(r \o t)
      BY <2>1, <2>2, <2>3
    <2>5. ASSUME NEW j \in 1 .. Len(Rest(u, i))
          PROVE  Rest(u, i)[j] = (r \o t)[j]
      <3>1. /\ j \in 1 .. Len(s) + Len(t) - i + 1 /\ j \in 1 .. Len(r) + Len(t)
            /\ i + j - 1 \in 1 .. Len(s) + Len(t)
        BY <2>1, <2>2
      <3>2. /\ Rest(u, i)[j] = u[i + j - 1]
            /\ (r \o t)[j] = IF j <= Len(r) THEN r[j] ELSE t[j - Len(r)]
            /\ u[i + j - 1] = IF i + j - 1 <= Len(s) THEN s[i + j - 1]
                              ELSE t[i + j - 1 - Len(s)]
        BY <3>1, <1>1, <2>1, <2>3 DEF u
      <3>3. CASE j <= Len(r)
        <4>1. j \in 1 .. Len(s) - i + 1 /\ i + j - 1 <= Len(s)
          BY <3>3, <2>2
        <4>2. QED BY <3>2, <3>3, <4>1, <2>2
      <3>4. CASE j > Len(r)
        <4>1. ~(i + j - 1 <= Len(s)) /\ ~(j <= Len(r)) /\ i + j - 1 - Len(s) = j - Len(r)
          BY <3>4, <3>1, <2>2
        <4>2. QED BY <3>2, <4>1
      <3>5. j <= Len(r) \/ j > Len(r)
        BY <2>2
      <3>6. QED BY <3>3, <3>4, <3>5
    <2>6. Rest(u, i) = r \o t
      BY <2>1, <2>3, <2>4, <2>5, SeqEqual
    <2>7. QED BY <2>6 DEF r
  <1>3. Rest(u, Len(s) + 1) = t
    <2>1. Rest(s, Len(s) + 1) = <<>>
      <3>1. Rest(s, Len(s) + 1) \in Seq(S) /\ Len(Rest(s, Len(s) + 1)) = 0
        BY RestIs
      <3>2. QED BY <3>1
    <2>2. Len(s) + 1 \in 1 .. Len(s) + 1
      OBVIOUS
    <2>3. Rest(u, Len(s) + 1) = <<>> \o t
      BY <1>2, <2>1, <2>2
    <2>4. <<>> \o t = t
      OBVIOUS
    <2>5. QED BY <2>3, <2>4
  <1>4. QED BY <1>2, <1>3 DEF u

-----------------------------------------------------------------------------
(* Leads and what may follow them                                          *)

Lead(s) == utf8_lead_info(s[1])

\* Table 3-7 of the Unicode standard, 15.0.
LeadTable(c, lead) ==
  /\ lead.len = IF c \in 194 .. 223 THEN 2
                ELSE IF c \in 224 .. 239 THEN 3
                ELSE IF c \in 240 .. 244 THEN 4 ELSE 0
  /\ lead.lo = IF c = 224 THEN 160 ELSE IF c = 240 THEN 144 ELSE 128
  /\ lead.hi = IF c = 237 THEN 159 ELSE IF c = 244 THEN 143 ELSE 191

LEMMA LeadIs ==
  ASSUME NEW c \in Byte
  PROVE  LeadTable(c, utf8_lead_info(c))
  <1>1. c \in 0 .. 255
    BY DEF Byte
  <1>2. utf8_lead_info(c).len = IF c \in 194 .. 223 THEN 2
                                ELSE IF c \in 224 .. 239 THEN 3
                                ELSE IF c \in 240 .. 244 THEN 4 ELSE 0
    <2>1. CASE c \in 194 .. 223
      BY <1>1, <2>1 DEF utf8_lead_info
    <2>2. CASE c \in 224 .. 239
      BY <1>1, <2>2 DEF utf8_lead_info
    <2>3. CASE c \in 240 .. 244
      BY <1>1, <2>3 DEF utf8_lead_info
    <2>4. CASE c \notin 194 .. 223 /\ c \notin 224 .. 239 /\ c \notin 240 .. 244
      BY <1>1, <2>4 DEF utf8_lead_info
    <2>5. QED BY <2>1, <2>2, <2>3, <2>4
  <1>3. QED BY <1>2 DEF utf8_lead_info, LeadTable

LEMMA LeadFacts ==
  ASSUME NEW c \in Byte
  PROVE  LET lead == utf8_lead_info(c) IN
         /\ lead.len \in {0, 2, 3, 4}
         /\ lead.len > 0 => c > 193
         /\ lead.lo \in 128 .. 191 /\ lead.hi \in 128 .. 191
         /\ lead.lo = 128 \/ lead.hi = 191
  <1>1. c \in 0 .. 255
    BY DEF Byte
  <1>2. QED BY <1>1, LeadIs DEF LeadTable

LEMMA ContinuesIs ==
  ASSUME NEW c \in Byte, NEW k \in Nat, NEW cc, Continues(utf8_lead_info(c), k, cc)
  PROVE  IsContinuation(cc)
  <1> DEFINE lead == utf8_lead_info(c)
  <1>1. lead.lo \in 128 .. 191 /\ lead.hi \in 128 .. 191
    BY LeadFacts
  <1> HIDE DEF lead
  <1>2. QED BY <1>1 DEF Continues, IsContinuation, lead

\* The first k bytes of s belong together.
Together(s, k) ==
  \/ k = 1
  \/ k <= Lead(s).len /\ \A j \in 1 .. k - 1 : Continues(Lead(s), j, s[1 + j])

\* How many of the first bytes belong together, and whether they are all of a character.
Width(s) == Max({k \in 1 .. Len(s) : Together(s, k)})
Whole(s) == s[1] < 128 \/ Lead(s).len = Width(s)
Piece(s) == IF Whole(s) THEN SubSeq(s, 1, Width(s)) ELSE Replacement

LEMMA TogetherDown ==
  ASSUME NEW s \in Bytes, s # <<>>, NEW k \in Nat, NEW j \in 1 .. k, Together(s, k)
  PROVE  Together(s, j)
  <1>1. Lead(s).len \in Nat
    <2>1. s[1] \in Byte
      BY DEF Bytes
    <2>2. QED BY <2>1, LeadFacts DEF Lead
  <1> DEFINE n == Lead(s).len
             Follows(i) == Continues(Lead(s), i, s[1 + i])
  <1>2. Together(s, k) <=> k = 1 \/ (k <= n /\ \A i \in 1 .. k - 1 : Follows(i))
    BY DEF Together
  <1>3. Together(s, j) <=> j = 1 \/ (j <= n /\ \A i \in 1 .. j - 1 : Follows(i))
    BY DEF Together
  <1> HIDE DEF n, Follows
  <1>4. n \in Nat
    BY <1>1 DEF n
  <1>5. QED BY <1>2, <1>3, <1>4

LEMMA WidthIs ==
  ASSUME NEW s \in Bytes, s # <<>>
  PROVE  /\ Width(s) \in 1 .. Len(s) /\ Width(s) <= 4
         /\ \A k \in 1 .. Len(s) : Together(s, k) <=> k <= Width(s)
  <1> DEFINE S == {k \in 1 .. Len(s) : Together(s, k)}
  <1>1. Len(s) \in Nat /\ Len(s) > 0 /\ s[1] \in Byte
    BY DEF Bytes
  <1>2. 1 \in S /\ S \in SUBSET (0 .. Len(s))
    BY <1>1 DEF Together
  <1>3. PICK m \in S : \A k \in S : m >= k
    <2> HIDE DEF S
    <2>1. QED BY <1>1, <1>2, GreatestExists
  <1>4. Width(s) = m
    <2>1. S \in SUBSET Nat
      OBVIOUS
    <2>2. Max(S) = m
      <3> HIDE DEF S
      <3>1. QED BY <2>1, <1>3, MaxIsThat
    <2>3. QED BY <2>2 DEF Width
  <1>5. m \in 1 .. Len(s) /\ Together(s, m)
    OBVIOUS
  <1>6. m <= 4
    <2>1. Lead(s).len \in {0, 2, 3, 4}
      BY <1>1, LeadFacts DEF Lead
    <2>2. m = 1 \/ m <= Lead(s).len
      BY <1>5 DEF Together
    <2>3. QED BY <1>5, <2>1, <2>2
  <1>7. ASSUME NEW k \in 1 .. Len(s)
        PROVE  Together(s, k) <=> k <= m
    <2>1. Together(s, k) => k <= m
      BY <1>3
    <2>2. k <= m => Together(s, k)
      <3>1. k <= m => k \in 1 .. m /\ m \in Nat
        BY <1>5
      <3>2. QED BY <3>1, <1>5, TogetherDown
    <2>3. QED BY <2>1, <2>2
  <1>8. QED BY <1>4, <1>5, <1>6, <1>7

LEMMA WidthIsThat ==
  ASSUME NEW s \in Bytes, s # <<>>, NEW w \in 1 .. Len(s), Together(s, w),
         w = Len(s) \/ ~Together(s, w + 1)
  PROVE  Width(s) = w
  <1>1. Width(s) \in 1 .. Len(s) /\ w <= Width(s)
    BY WidthIs
  <1>2. w < Width(s) => Together(s, w + 1)
    <2>1. w < Width(s) => w + 1 \in 1 .. Len(s) /\ w + 1 <= Width(s)
      BY <1>1
    <2>2. QED BY <2>1, WidthIs
  <1>3. ~(w < Width(s))
    BY <1>1, <1>2
  <1>4. QED BY <1>1, <1>3

\* A number that six bits can follow, as IsContinuation says without naming each byte.
Within(c, low, high) == low <= c /\ c <= high

LEMMA WithinIs ==
  ASSUME NEW c \in Int
  PROVE  /\ \A low, high \in Int : c \in low .. high <=> Within(c, low, high)
         /\ IsContinuation(c) <=> Within(c, 128, 191)
  <1>1. \A low, high \in Int : c \in low .. high <=> Within(c, low, high)
    BY DEF Within
  <1>2. 128 \in Int /\ 191 \in Int /\ (IsContinuation(c) <=> c \in 128 .. 191)
    BY DEF IsContinuation
  <1>3. IsContinuation(c) <=> Within(c, 128, 191)
    BY <1>1, <1>2
  <1>4. QED BY <1>1, <1>3

TwoCode(a, b) == 64 * (a - 192) + (b - 128)
ThreeCode(a, b, c) == 64 * (64 * (a - 224) + (b - 128)) + (c - 128)
FourCode(a, b, c, d) == 64 * (64 * (64 * (a - 240) + (b - 128)) + (c - 128)) + (d - 128)

\* The least that six bits more make of a number.
LEMMA SextetIs ==
  ASSUME NEW v \in Int, NEW c \in Int, Within(c, 128, 191)
  PROVE  /\ 64 * v + (c - 128) \in Int
         /\ \A k \in Int : 64 * k \in Int /\ (64 * k <= 64 * v + (c - 128) <=> k <= v)
  BY DEF Within

LEMMA TwoSextets ==
  ASSUME NEW a \in Int, NEW b \in Int, Within(a, 192, 223), Within(b, 128, 191)
  PROVE  LET x == TwoCode(a, b) IN
         x \in Int /\ (128 <= x <=> 194 <= a) /\ x < 2048
  BY DEF TwoCode, Within

LEMMA ThreeSextets ==
  ASSUME NEW a \in Int, NEW b \in Int, NEW c \in Int,
         Within(a, 224, 239), Within(b, 128, 191), Within(c, 128, 191)
  PROVE  LET x == ThreeCode(a, b, c) IN
         /\ x \in Int
         /\ 2048 <= x <=> (a # 224 \/ 160 <= b)
         /\ x < 65536
         /\ 55296 <= x /\ x <= 57343 <=> a = 237 /\ 160 <= b
  <1> DEFINE v == 64 * (a - 224) + (b - 128)
             x == 64 * v + (c - 128)
  <1>1. v \in Int
    OBVIOUS
  <1>2. 32 <= v <=> (a # 224 \/ 160 <= b)
    BY DEF Within
  <1>3. 864 <= v <=> (a > 237 \/ (a = 237 /\ 160 <= b))
    BY DEF Within
  <1>4. 896 <= v <=> a > 237
    BY DEF Within
  <1>5. ~(1024 <= v)
    BY DEF Within
  <1> HIDE DEF v
  <1>6. x \in Int /\ \A k \in Int : 64 * k \in Int /\ (64 * k <= x <=> k <= v)
    BY <1>1, SextetIs
  <1>7. 64 * 32 <= x <=> 32 <= v
    BY <1>6
  <1>8. 64 * 864 <= x <=> 864 <= v
    BY <1>6
  <1>9. 64 * 896 <= x <=> 896 <= v
    BY <1>6
  <1>10. 64 * 1024 <= x <=> 1024 <= v
    BY <1>6
  <1> HIDE DEF x
  <1>11. 64 * 32 = 2048 /\ 64 * 864 = 55296 /\ 64 * 896 = 57344 /\ 64 * 1024 = 65536
    OBVIOUS
  <1>12. 2048 <= x <=> (a # 224 \/ 160 <= b)
    BY <1>2, <1>7, <1>11
  <1>13. x < 65536
    BY <1>5, <1>6, <1>10, <1>11
  <1>14. 55296 <= x /\ x <= 57343 <=> a = 237 /\ 160 <= b
    <2>1. x <= 57343 <=> ~(896 <= v)
      BY <1>6, <1>9, <1>11
    <2>2. 55296 <= x <=> 864 <= v
      BY <1>8, <1>11
    <2>3. QED BY <2>1, <2>2, <1>3, <1>4
  <1>15. QED BY <1>6, <1>12, <1>13, <1>14 DEF x, v, ThreeCode

FourLimits(a, b, x) ==
  /\ x \in Int
  /\ 65536 <= x <=> (a # 240 \/ 144 <= b)
  /\ x < 1114112 <=> (a < 244 \/ (a = 244 /\ b <= 143))

LEMMA FourSextets ==
  ASSUME NEW a \in Int, NEW b \in Int, NEW c \in Int, NEW d \in Int,
         Within(a, 240, 247), Within(b, 128, 191), Within(c, 128, 191), Within(d, 128, 191),
         NEW x, x = FourCode(a, b, c, d)
  PROVE  FourLimits(a, b, x)
  <1> DEFINE v == 64 * (a - 240) + (b - 128)
             w == 64 * v + (c - 128)
             y == 64 * w + (d - 128)
  <1>1. v \in Int
    OBVIOUS
  <1>2. 16 <= v <=> (a # 240 \/ 144 <= b)
    BY DEF Within
  <1>3. 272 <= v <=> (a > 244 \/ (a = 244 /\ 144 <= b))
    BY DEF Within
  <1> HIDE DEF v
  <1>4. w \in Int /\ \A k \in Int : 64 * k \in Int /\ (64 * k <= w <=> k <= v)
    BY <1>1, SextetIs
  <1>5. 64 * 16 <= w <=> 16 <= v
    BY <1>4
  <1>6. 64 * 272 <= w <=> 272 <= v
    BY <1>4
  <1> HIDE DEF w
  <1>7. 1024 <= w <=> 16 <= v
    BY <1>5
  <1>8. 17408 <= w <=> 272 <= v
    BY <1>6
  <1>9. y \in Int /\ \A k \in Int : 64 * k \in Int /\ (64 * k <= y <=> k <= w)
    BY <1>4, SextetIs
  <1>10. 64 * 1024 <= y <=> 1024 <= w
    BY <1>9
  <1>11. 64 * 17408 <= y <=> 17408 <= w
    BY <1>9
  <1> HIDE DEF y
  <1>12. 65536 <= y <=> 1024 <= w
    BY <1>10
  <1>13. 1114112 <= y <=> 17408 <= w
    BY <1>11
  <1>14. 65536 <= y <=> (a # 240 \/ 144 <= b)
    BY <1>2, <1>7, <1>12
  <1>15. y < 1114112 <=> ~(272 <= v)
    BY <1>8, <1>9, <1>13
  <1>16. ~(272 <= v) <=> (a < 244 \/ (a = 244 /\ b <= 143))
    BY <1>3
  <1>17. x = y
    BY DEF y, w, v, FourCode
  <1>18. QED BY <1>9, <1>14, <1>15, <1>16, <1>17 DEF FourLimits

\* The characters, as code points define them, are what the ranges of table 3-7 allow.
TwoCharacter(a, b, x) ==
  /\ Within(a, 192, 223) /\ Within(b, 128, 191)
  /\ 128 <= x /\ x < 2048 /\ ~(55296 <= x /\ x <= 57343)

LEMMA TwoBytes ==
  ASSUME NEW a \in Int, NEW b \in Int, NEW lead, LeadTable(a, lead),
         NEW x, x = TwoCode(a, b)
  PROVE  TwoCharacter(a, b, x) <=> lead.len = 2 /\ Within(b, lead.lo, lead.hi)
  <1> DEFINE Code == 128 <= x /\ x < 2048 /\ ~(55296 <= x /\ x <= 57343)
  <1>1. lead.len = 2 <=> 194 <= a /\ a <= 223
    BY DEF LeadTable
  <1>2. lead.len = 2 => lead.lo = 128 /\ lead.hi = 191
    BY DEF LeadTable
  <1>3. CASE Within(a, 192, 223) /\ Within(b, 128, 191)
    <2>1. x \in Int /\ (128 <= x <=> 194 <= a) /\ x < 2048
      BY <1>3, TwoSextets
    <2>2. Code <=> 194 <= a
      BY <2>1
    <2> HIDE DEF Code
    <2>3. lead.len = 2 /\ Within(b, lead.lo, lead.hi) <=> 194 <= a
      BY <1>1, <1>2, <1>3 DEF Within
    <2>4. Code <=> lead.len = 2 /\ Within(b, lead.lo, lead.hi)
      BY <2>2, <2>3
    <2>5. QED BY <2>4, <1>3 DEF Code, TwoCharacter
  <1>4. CASE ~(Within(a, 192, 223) /\ Within(b, 128, 191))
    <2> HIDE DEF Code
    <2>1. QED BY <1>1, <1>2, <1>4 DEF Within, TwoCharacter
  <1>5. QED BY <1>3, <1>4

ThreeCharacter(a, b, c, x) ==
  /\ Within(a, 224, 239) /\ Within(b, 128, 191) /\ Within(c, 128, 191)
  /\ 2048 <= x /\ x < 65536 /\ ~(55296 <= x /\ x <= 57343)

LEMMA ThreeBytes ==
  ASSUME NEW a \in Int, NEW b \in Int, NEW c \in Int, NEW lead, LeadTable(a, lead),
         NEW x, x = ThreeCode(a, b, c)
  PROVE  ThreeCharacter(a, b, c, x)
         <=> lead.len = 3 /\ Within(b, lead.lo, lead.hi) /\ Within(c, 128, 191)
  <1> DEFINE Code == 2048 <= x /\ x < 65536 /\ ~(55296 <= x /\ x <= 57343)
             Bits == Within(a, 224, 239) /\ Within(b, 128, 191) /\ Within(c, 128, 191)
  <1>1. lead.len = 3 <=> 224 <= a /\ a <= 239
    BY DEF LeadTable
  <1>2. /\ lead.lo = IF a = 224 THEN 160 ELSE IF a = 240 THEN 144 ELSE 128
        /\ lead.hi = IF a = 237 THEN 159 ELSE IF a = 244 THEN 143 ELSE 191
    BY DEF LeadTable
  <1>3. CASE Bits
    <2>1. /\ x \in Int
          /\ 2048 <= x <=> (a # 224 \/ 160 <= b)
          /\ x < 65536
          /\ 55296 <= x /\ x <= 57343 <=> a = 237 /\ 160 <= b
      BY <1>3, ThreeSextets
    <2>2. Code <=> (a # 224 \/ 160 <= b) /\ ~(a = 237 /\ 160 <= b)
      BY <2>1
    <2> HIDE DEF Code
    <2>3. Within(b, lead.lo, lead.hi) <=> (a # 224 \/ 160 <= b) /\ ~(a = 237 /\ 160 <= b)
      BY <1>2, <1>3 DEF Within
    <2>4. lead.len = 3
      BY <1>1, <1>3 DEF Within
    <2>5. Code <=> lead.len = 3 /\ Within(b, lead.lo, lead.hi)
      BY <2>2, <2>3, <2>4
    <2>6. QED BY <2>5, <1>3 DEF Code, ThreeCharacter
  <1>4. CASE ~Bits
    <2> HIDE DEF Code
    <2>1. lead.len = 3 /\ Within(b, lead.lo, lead.hi)
            => Within(a, 224, 239) /\ Within(b, 128, 191)
      BY <1>1, <1>2 DEF Within
    <2>2. QED BY <2>1, <1>4 DEF ThreeCharacter
  <1>5. QED BY <1>3, <1>4

FourCharacter(a, b, c, d, x) ==
  /\ Within(a, 240, 247) /\ Within(b, 128, 191) /\ Within(c, 128, 191) /\ Within(d, 128, 191)
  /\ 65536 <= x /\ x < 1114112 /\ ~(55296 <= x /\ x <= 57343)

LEMMA FourBytes ==
  ASSUME NEW a \in Int, NEW b \in Int, NEW c \in Int, NEW d \in Int,
         NEW lead, LeadTable(a, lead), NEW x, x = FourCode(a, b, c, d)
  PROVE  FourCharacter(a, b, c, d, x)
         <=> /\ lead.len = 4 /\ Within(b, lead.lo, lead.hi)
             /\ Within(c, 128, 191) /\ Within(d, 128, 191)
  <1> DEFINE Code == 65536 <= x /\ x < 1114112 /\ ~(55296 <= x /\ x <= 57343)
             Bits == /\ Within(a, 240, 247) /\ Within(b, 128, 191)
                     /\ Within(c, 128, 191) /\ Within(d, 128, 191)
  <1>1. lead.len = 4 <=> 240 <= a /\ a <= 244
    BY DEF LeadTable
  <1>2. /\ lead.lo = IF a = 224 THEN 160 ELSE IF a = 240 THEN 144 ELSE 128
        /\ lead.hi = IF a = 237 THEN 159 ELSE IF a = 244 THEN 143 ELSE 191
    BY DEF LeadTable
  <1>3. CASE Bits
    <2>1. /\ x \in Int
          /\ 65536 <= x <=> (a # 240 \/ 144 <= b)
          /\ x < 1114112 <=> (a < 244 \/ (a = 244 /\ b <= 143))
      <3>1. /\ Within(a, 240, 247) /\ Within(b, 128, 191)
            /\ Within(c, 128, 191) /\ Within(d, 128, 191)
        BY <1>3
      <3> HIDE DEF Bits
      <3>2. FourLimits(a, b, x)
        BY <3>1, FourSextets
      <3>3. QED BY <3>2 DEF FourLimits
    <2>2. Code <=> (a # 240 \/ 144 <= b) /\ (a < 244 \/ (a = 244 /\ b <= 143))
      BY <2>1
    <2> HIDE DEF Code
    <2>3. lead.len = 4 /\ Within(b, lead.lo, lead.hi)
            <=> (a # 240 \/ 144 <= b) /\ (a < 244 \/ (a = 244 /\ b <= 143))
      BY <1>1, <1>2, <1>3 DEF Within
    <2>4. Code <=> lead.len = 4 /\ Within(b, lead.lo, lead.hi)
      BY <2>2, <2>3
    <2>5. QED BY <2>4, <1>3 DEF Code, FourCharacter
  <1>4. CASE ~Bits
    <2> HIDE DEF Code
    <2>1. lead.len = 4 /\ Within(b, lead.lo, lead.hi)
            => Within(a, 240, 247) /\ Within(b, 128, 191)
      BY <1>1, <1>2 DEF Within
    <2>2. QED BY <2>1, <1>4 DEF FourCharacter
  <1>5. QED BY <1>3, <1>4

LEMMA CharacterIs ==
  ASSUME NEW s \in Bytes, s # <<>>
  PROVE  IsCharacter(s) <=> \/ Len(s) = 1 /\ s[1] < 128
                            \/ Len(s) = Lead(s).len /\ Together(s, Len(s))
  <1> DEFINE n == Len(s)
  <1>1. n \in Nat /\ n > 0 /\ s[1] \in Byte
    BY DEF Bytes
  <1>2. \A i \in 1 .. n : s[i] \in Int /\ s[i] >= 0
    <2>1. \A i \in 1 .. n : s[i] \in Byte
      BY DEF Bytes
    <2>2. \A c \in Byte : c \in Int /\ c >= 0
      BY DEF Byte
    <2>3. QED BY <2>1, <2>2
  <1>3. LeadTable(s[1], Lead(s))
    BY <1>1, LeadIs DEF Lead
  <1>4. Lead(s).len = 0 \/ Lead(s).len = 2 \/ Lead(s).len = 3 \/ Lead(s).len = 4
    BY <1>1, LeadFacts DEF Lead
  <1>5. Together(s, n) <=>
          \/ n = 1
          \/ n <= Lead(s).len /\ \A j \in 1 .. n - 1 : Continues(Lead(s), j, s[1 + j])
    BY DEF Together
  <1>6. \A j \in Nat, c \in Int :
          Continues(Lead(s), j, c) <=> IF j = 1 THEN Within(c, Lead(s).lo, Lead(s).hi)
                                       ELSE Within(c, 128, 191)
    <2>1. Lead(s).lo \in Int /\ Lead(s).hi \in Int
      BY <1>3 DEF LeadTable
    <2>2. QED BY <2>1, WithinIs DEF Continues
  <1>7. \A c \in Int : IsContinuation(c) <=> Within(c, 128, 191)
    BY WithinIs
  <1>8. IsCharacter(s) <=>
          /\ n \in 1 .. 4 /\ s[1] \in LeadBits[n]
          /\ \A i \in 2 .. n : IsContinuation(s[i])
          /\ First[n] <= CodePoint(s) /\ CodePoint(s) < First[n + 1]
          /\ ~(55296 <= CodePoint(s) /\ CodePoint(s) <= 57343)
    BY DEF IsCharacter
  <1>9. CASE n = 1
    <2>1. s[1] \in Int /\ s[1] >= 0
      BY <1>2, <1>9
    <2>2. CodePoint(s) = s[1]
      BY <1>9 DEF CodePoint
    <2>3. /\ \A c \in Int : c \in LeadBits[1] <=> 0 <= c /\ c <= 127
          /\ First[1] = 0 /\ First[1 + 1] = 128
      BY DEF LeadBits, First
    <2> HIDE DEF n
    <2>4. IsCharacter(s) <=> /\ 0 <= s[1] /\ s[1] <= 127 /\ 0 <= s[1] /\ s[1] < 128
                             /\ ~(55296 <= s[1] /\ s[1] <= 57343)
      BY <2>1, <2>2, <2>3, <1>8, <1>9
    <2>5. IsCharacter(s) <=> s[1] < 128
      BY <2>1, <2>4
    <2>6. n # Lead(s).len
      BY <1>4, <1>9
    <2>7. QED BY <2>5, <2>6, <1>9 DEF n
  <1>10. CASE n = 2
    <2>1. s[1] \in Int /\ s[2] \in Int
      BY <1>2, <1>10
    <2> DEFINE x == TwoCode(s[1], s[2])
    <2>2. CodePoint(s) = x
      BY <1>10 DEF CodePoint, TwoCode
    <2>3. /\ \A c \in Int : c \in LeadBits[2] <=> Within(c, 192, 223)
          /\ First[2] = 128 /\ First[2 + 1] = 2048
      BY DEF LeadBits, First, Within
    <2>4. TwoCharacter(s[1], s[2], x)
            <=> Lead(s).len = 2 /\ Within(s[2], Lead(s).lo, Lead(s).hi)
      BY <2>1, <1>3, TwoBytes
    <2> HIDE DEF n, x
    <2>5. (\A i \in 2 .. n : IsContinuation(s[i])) <=> Within(s[2], 128, 191)
      BY <2>1, <1>7, <1>10
    <2>6. IsCharacter(s) <=> TwoCharacter(s[1], s[2], x)
      BY <2>1, <2>2, <2>3, <2>5, <1>8, <1>10 DEF TwoCharacter
    <2>7. Together(s, n) <=> 2 <= Lead(s).len /\ Within(s[2], Lead(s).lo, Lead(s).hi)
      BY <2>1, <1>5, <1>6, <1>10
    <2>8. QED BY <2>4, <2>6, <2>7, <1>10 DEF n
  <1>11. CASE n = 3
    <2>1. s[1] \in Int /\ s[2] \in Int /\ s[3] \in Int
      BY <1>2, <1>11
    <2> DEFINE x == ThreeCode(s[1], s[2], s[3])
    <2>2. CodePoint(s) = x
      BY <1>11 DEF CodePoint, ThreeCode
    <2>3. /\ \A c \in Int : c \in LeadBits[3] <=> Within(c, 224, 239)
          /\ First[3] = 2048 /\ First[3 + 1] = 65536
      BY DEF LeadBits, First, Within
    <2>4. ThreeCharacter(s[1], s[2], s[3], x)
            <=> /\ Lead(s).len = 3 /\ Within(s[2], Lead(s).lo, Lead(s).hi)
                /\ Within(s[3], 128, 191)
      BY <2>1, <1>3, ThreeBytes
    <2> HIDE DEF n, x
    <2>5. (\A i \in 2 .. n : IsContinuation(s[i]))
            <=> Within(s[2], 128, 191) /\ Within(s[3], 128, 191)
      BY <2>1, <1>7, <1>11
    <2>6. IsCharacter(s) <=> ThreeCharacter(s[1], s[2], s[3], x)
      BY <2>1, <2>2, <2>3, <2>5, <1>8, <1>11 DEF ThreeCharacter
    <2>7. Together(s, n) <=> /\ 3 <= Lead(s).len /\ Within(s[2], Lead(s).lo, Lead(s).hi)
                             /\ Within(s[3], 128, 191)
      BY <2>1, <1>5, <1>6, <1>11
    <2>8. QED BY <2>4, <2>6, <2>7, <1>11 DEF n
  <1>12. CASE n = 4
    <2>1. s[1] \in Int /\ s[2] \in Int /\ s[3] \in Int /\ s[4] \in Int
      BY <1>2, <1>12
    <2> DEFINE x == FourCode(s[1], s[2], s[3], s[4])
    <2>2. CodePoint(s) = x
      BY <1>12 DEF CodePoint, FourCode
    <2>3. /\ \A c \in Int : c \in LeadBits[4] <=> Within(c, 240, 247)
          /\ First[4] = 65536 /\ First[4 + 1] = 1114112
      BY DEF LeadBits, First, Within
    <2>4. FourCharacter(s[1], s[2], s[3], s[4], x)
            <=> /\ Lead(s).len = 4 /\ Within(s[2], Lead(s).lo, Lead(s).hi)
                /\ Within(s[3], 128, 191) /\ Within(s[4], 128, 191)
      BY <2>1, <1>3, FourBytes
    <2> HIDE DEF n, x
    <2>5. (\A i \in 2 .. n : IsContinuation(s[i]))
            <=> /\ Within(s[2], 128, 191) /\ Within(s[3], 128, 191)
                /\ Within(s[4], 128, 191)
      BY <2>1, <1>7, <1>12
    <2>6. IsCharacter(s) <=> FourCharacter(s[1], s[2], s[3], s[4], x)
      BY <2>1, <2>2, <2>3, <2>5, <1>8, <1>12 DEF FourCharacter
    <2>7. Together(s, n) <=> /\ 4 <= Lead(s).len /\ Within(s[2], Lead(s).lo, Lead(s).hi)
                             /\ Within(s[3], 128, 191) /\ Within(s[4], 128, 191)
      BY <2>1, <1>5, <1>6, <1>12
    <2>8. QED BY <2>4, <2>6, <2>7, <1>4, <1>12 DEF n
  <1>13. CASE n > 4
    <2> HIDE DEF n
    <2>1. ~IsCharacter(s)
      BY <1>1, <1>8, <1>13
    <2>2. n # Lead(s).len /\ n # 1
      BY <1>1, <1>4, <1>13
    <2>3. QED BY <2>1, <2>2 DEF n
  <1>14. n = 1 \/ n = 2 \/ n = 3 \/ n = 4 \/ n > 4
    <2> HIDE DEF n
    <2>1. QED BY <1>1
  <1>15. QED BY <1>14, <1>9, <1>10, <1>11, <1>12, <1>13

\* What more bytes can complete: a lead whose character is longer, and bytes that continue it.
LEMMA CompletableIs ==
  ASSUME NEW s \in Bytes, s # <<>>
  PROVE  CanBeCompleted(s) <=> Len(s) < Lead(s).len /\ Together(s, Len(s))
  <1> DEFINE n == Len(s)
             Fill(m, c) == [i \in 1 .. m |-> c]
             All(m, c) == s \o Fill(m, c)
  <1>1. n \in Nat /\ n > 0 /\ s[1] \in Byte
    BY DEF Bytes
  <1>2. /\ Lead(s).len = 0 \/ Lead(s).len = 2 \/ Lead(s).len = 3 \/ Lead(s).len = 4
        /\ Lead(s).lo \in Int /\ Lead(s).hi \in Int
        /\ 128 <= Lead(s).lo /\ Lead(s).lo <= 191 /\ 128 <= Lead(s).hi /\ Lead(s).hi <= 191
        /\ Lead(s).lo = 128 \/ Lead(s).hi = 191
    <2>1. LeadTable(s[1], Lead(s))
      BY <1>1, LeadIs DEF Lead
    <2>2. QED BY <2>1, <1>1 DEF LeadTable, Byte
  <1>3. ASSUME NEW m \in 1 .. 3, NEW c \in {128, 191}
        PROVE  /\ All(m, c) \in Bytes /\ Len(All(m, c)) = n + m
               /\ \A i \in 1 .. n : All(m, c)[i] = s[i]
               /\ \A i \in n + 1 .. n + m : All(m, c)[i] = c
               /\ Lead(All(m, c)) = Lead(s)
    <2>1. c \in Byte
      BY DEF Byte
    <2>2. Fill(m, c) \in Bytes /\ Len(Fill(m, c)) = m /\ \A i \in 1 .. m : Fill(m, c)[i] = c
      BY <2>1 DEF Bytes
    <2> DEFINE f == Fill(m, c)
    <2> HIDE DEF f
    <2>3. /\ s \o f \in Bytes /\ Len(s \o f) = n + Len(f)
          /\ \A i \in 1 .. n + Len(f) : (s \o f)[i] = IF i <= n THEN s[i] ELSE f[i - n]
      BY <2>2, ConcatIs DEF Bytes, f
    <2>4. Len(f) = m /\ \A i \in 1 .. m : f[i] = c
      BY <2>2 DEF f
    <2>5. \A i \in 1 .. n : (s \o f)[i] = s[i]
      BY <2>3, <2>4, <1>1
    <2>6. ASSUME NEW i \in n + 1 .. n + m
          PROVE  (s \o f)[i] = c
      <3> HIDE DEF n
      <3>1. i \in 1 .. n + m /\ ~(i <= n) /\ i - n \in 1 .. m
        BY <1>1
      <3>2. QED BY <3>1, <2>3, <2>4
    <2>7. (s \o f)[1] = s[1]
      BY <2>5, <1>1
    <2>8. Lead(s \o f) = Lead(s)
      BY <2>7 DEF Lead
    <2>9. QED BY <2>3, <2>4, <2>5, <2>6, <2>8 DEF f
  <1> HIDE DEF All
  <1>4. CanBeCompleted(s) <=> \E m \in 1 .. 3, c \in {128, 191} : IsCharacter(All(m, c))
    BY DEF CanBeCompleted, All
  <1>5. ASSUME NEW m \in 1 .. 3, NEW c \in {128, 191}
        PROVE  IsCharacter(All(m, c)) <=>
                 /\ n + m = Lead(s).len
                 /\ \A j \in 1 .. n - 1 : Continues(Lead(s), j, s[1 + j])
                 /\ \A j \in n .. n + m - 1 : Continues(Lead(s), j, c)
    <2> DEFINE t == All(m, c)
    <2>1. /\ t \in Bytes /\ Len(t) = n + m
          /\ \A i \in 1 .. n : t[i] = s[i]
          /\ \A i \in n + 1 .. n + m : t[i] = c
          /\ Lead(t) = Lead(s)
      BY <1>3
    <2> HIDE DEF n, t
    <2>2. t # <<>>
      BY <2>1, <1>1
    <2>3. IsCharacter(t) <=> (Len(t) = 1 /\ t[1] < 128) \/ (Len(t) = Lead(t).len /\ Together(t, Len(t)))
      BY <2>1, <2>2, CharacterIs
    <2>4. IsCharacter(t) <=> n + m = Lead(s).len /\ Together(t, n + m)
      BY <2>1, <2>3, <1>1
    <2>5. Together(t, n + m) <=>
            n + m <= Lead(s).len /\ \A j \in 1 .. (n + m) - 1 : Continues(Lead(s), j, t[1 + j])
      <3>1. n + m # 1
        BY <1>1
      <3>2. ASSUME NEW k, k # 1
            PROVE  Together(t, k) <=>
                     k <= Lead(s).len /\ \A j \in 1 .. k - 1 : Continues(Lead(s), j, t[1 + j])
        BY <3>2, <2>1 DEF Together
      <3>3. QED BY <3>1, <3>2
    <2>6. \A j \in 1 .. n - 1 : t[1 + j] = s[1 + j]
      BY <2>1, <1>1
    <2>7. \A j \in n .. n + m - 1 : t[1 + j] = c
      BY <2>1, <1>1
    <2>8. \A j \in 1 .. (n + m) - 1 : j \in 1 .. n - 1 \/ j \in n .. n + m - 1
      BY <1>1
    <2>9. (\A j \in 1 .. n - 1 : j \in 1 .. (n + m) - 1)
            /\ \A j \in n .. n + m - 1 : j \in 1 .. (n + m) - 1
      BY <1>1
    <2>10. (\A j \in 1 .. (n + m) - 1 : Continues(Lead(s), j, t[1 + j]))
             <=> /\ \A j \in 1 .. n - 1 : Continues(Lead(s), j, s[1 + j])
                 /\ \A j \in n .. n + m - 1 : Continues(Lead(s), j, c)
      BY <2>6, <2>7, <2>8, <2>9
    <2>11. QED BY <2>4, <2>5, <2>10, <1>1, <1>2 DEF t
  <1>6. Together(s, n) <=>
          n = 1 \/ (n <= Lead(s).len /\ \A j \in 1 .. n - 1 : Continues(Lead(s), j, s[1 + j]))
    BY DEF Together
  <1> HIDE DEF n
  <1>7. ASSUME NEW m \in 1 .. 3, NEW c \in {128, 191}, IsCharacter(All(m, c))
        PROVE  n < Lead(s).len /\ Together(s, n)
    <2>1. n + m = Lead(s).len /\ \A j \in 1 .. n - 1 : Continues(Lead(s), j, s[1 + j])
      BY <1>5, <1>7
    <2>2. n < Lead(s).len
      BY <2>1, <1>1, <1>2
    <2>3. QED BY <2>1, <2>2, <1>1, <1>2, <1>6
  <1>8. ASSUME n < Lead(s).len, Together(s, n)
        PROVE  \E m \in 1 .. 3, c \in {128, 191} : IsCharacter(All(m, c))
    <2> DEFINE m == Lead(s).len - n
               c == IF Lead(s).lo = 128 THEN 128 ELSE 191
    <2>1. m \in 1 .. 3 /\ n + m = Lead(s).len
      BY <1>1, <1>2, <1>8
    <2>2. c \in {128, 191} /\ c \in Int
      OBVIOUS
    <2>3. \A j \in 1 .. n - 1 : Continues(Lead(s), j, s[1 + j])
      BY <1>1, <1>6, <1>8
    <2>4. Within(c, Lead(s).lo, Lead(s).hi) /\ Within(c, 128, 191)
      BY <1>2 DEF Within
    <2> HIDE DEF c, m
    <2>5. \A j \in Nat : Continues(Lead(s), j, c)
      <3>1. /\ \A low, high \in Int : c \in low .. high <=> Within(c, low, high)
            /\ IsContinuation(c) <=> Within(c, 128, 191)
        BY <2>2, WithinIs
      <3>2. c \in Lead(s).lo .. Lead(s).hi /\ IsContinuation(c)
        BY <3>1, <2>4, <1>2
      <3>3. QED BY <3>2 DEF Continues
    <2>6. \A j \in n .. n + m - 1 : j \in Nat
      BY <1>1
    <2>7. QED BY <2>1, <2>2, <2>3, <2>5, <2>6, <1>5
  <1>9. QED BY <1>4, <1>7, <1>8 DEF n

-----------------------------------------------------------------------------
(* A scan: what belongs together at the front, then the rest               *)

LEMMA FromTheEnd ==
  ASSUME NEW n \in Nat, NEW P, n + 1 \in P,
         \A i \in 1 .. n : (\A j \in i + 1 .. n + 1 : j \in P) => i \in P
  PROVE  \A i \in 1 .. n + 1 : i \in P
  <1> DEFINE Bad == {d \in 0 .. n : n + 1 - d \notin P}
  <1>1. SUFFICES ASSUME Bad # {} PROVE FALSE
    <2>1. \A i \in 1 .. n + 1 : n + 1 - i \in 0 .. n /\ n + 1 - (n + 1 - i) = i
      OBVIOUS
    <2>2. QED BY <2>1, <1>1
  <1>2. PICK d \in Bad : \A e \in Bad : d <= e
    <2>1. Bad \in SUBSET Nat
      OBVIOUS
    <2> HIDE DEF Bad
    <2>2. QED BY <1>1, <2>1, LeastExists
  <1>3. d # 0
    OBVIOUS
  <1>4. n + 1 - d \in 1 .. n
    BY <1>3
  <1>5. ASSUME NEW j \in n + 1 - d + 1 .. n + 1
        PROVE  j \in P
    <2>1. n + 1 - j \in 0 .. n /\ n + 1 - j < d /\ n + 1 - (n + 1 - j) = j
      BY <1>3
    <2>2. n + 1 - j \notin Bad
      BY <2>1, <1>2
    <2>3. QED BY <2>1, <2>2
  <1>6. QED BY <1>4, <1>5

LEMMA ByLength ==
  ASSUME NEW P,
         \A s \in Bytes : (\A r \in Bytes : Len(r) < Len(s) => r \in P) => s \in P
  PROVE  \A s \in Bytes : s \in P
  <1> DEFINE Bad == {Len(s) : s \in {t \in Bytes : t \notin P}}
  <1>1. SUFFICES ASSUME Bad # {} PROVE FALSE
    <2>1. \A s \in Bytes : s \notin P => Len(s) \in Bad
      OBVIOUS
    <2> HIDE DEF Bad
    <2>2. QED BY <2>1, <1>1
  <1>2. \A s \in Bytes : Len(s) \in Nat
    BY DEF Bytes
  <1>3. PICK d \in Bad : \A e \in Bad : d <= e
    <2>1. Bad \in SUBSET Nat
      BY <1>2
    <2> HIDE DEF Bad
    <2>2. QED BY <1>1, <2>1, LeastExists
  <1>4. PICK s \in Bytes : s \notin P /\ Len(s) = d
    OBVIOUS
  <1>5. ASSUME NEW r \in Bytes, Len(r) < Len(s), r \notin P
        PROVE  FALSE
    <2>1. Len(r) \in Bad
      BY <1>5
    <2> HIDE DEF Bad
    <2>2. d <= Len(r)
      BY <1>3, <2>1
    <2>3. QED BY <2>2, <1>2, <1>4, <1>5
  <1>6. QED BY <1>4, <1>5

\* f[i] is what a scan makes of t from position i.
Scan(f, t, S, start, step) ==
  /\ f \in [1 .. Len(t) + 1 -> S] /\ f[Len(t) + 1] = start
  /\ \A i \in 1 .. Len(t) : f[i] = step[Rest(t, i)][f[i + Width(Rest(t, i))]]

\* The scan goes on behind i and at most to the end.
LEMMA NextPosition ==
  ASSUME NEW t \in Bytes, NEW i \in 1 .. Len(t)
  PROVE  /\ Rest(t, i) \in Bytes /\ Rest(t, i) # <<>> /\ Len(Rest(t, i)) = Len(t) - i + 1
         /\ Rest(t, i)[1] = t[i]
         /\ Width(Rest(t, i)) \in 1 .. Len(t) - i + 1
         /\ i + Width(Rest(t, i)) \in i + 1 .. Len(t) + 1
  <1>1. Len(t) \in Nat
    BY DEF Bytes
  <1>2. /\ Rest(t, i) \in Bytes /\ Len(Rest(t, i)) = Len(t) - i + 1
        /\ \A j \in 1 .. Len(t) - i + 1 : Rest(t, i)[j] = t[i + j - 1]
    BY RestIs DEF Bytes
  <1> DEFINE r == Rest(t, i)
  <1> HIDE DEF r
  <1>3. 1 \in 1 .. Len(t) - i + 1 /\ i + 1 - 1 = i
    BY <1>1
  <1>4. r # <<>> /\ r[1] = t[i]
    BY <1>2, <1>3 DEF r
  <1>5. Width(r) \in 1 .. Len(r)
    BY <1>2, <1>4, WidthIs DEF r
  <1>6. Width(r) \in 1 .. Len(t) - i + 1
    BY <1>2, <1>5 DEF r
  <1>7. i + Width(r) \in i + 1 .. Len(t) + 1
    BY <1>1, <1>6
  <1>8. QED BY <1>2, <1>4, <1>6, <1>7 DEF r

LEMMA ScanExists ==
  ASSUME NEW t \in Bytes, NEW S, NEW start \in S, NEW step \in [Bytes -> [S -> S]]
  PROVE  \E f : Scan(f, t, S, start, step)
  <1> DEFINE n == Len(t)
             After(i) == i + Width(Rest(t, i))
             From(k, f) == /\ f \in [k .. n + 1 -> S] /\ f[n + 1] = start
                           /\ \A i \in k .. n : f[i] = step[Rest(t, i)][f[After(i)]]
             P == {k \in 1 .. n + 1 : \E f : From(k, f)}
  <1>1. n \in Nat
    BY DEF Bytes
  <1>2. \A i \in 1 .. n : Rest(t, i) \in Bytes /\ After(i) \in i + 1 .. n + 1
    BY NextPosition
  <1> HIDE DEF n, After
  <1>3. n + 1 \in P
    <2> DEFINE f == [i \in n + 1 .. n + 1 |-> start]
    <2>1. From(n + 1, f)
      BY <1>1
    <2> HIDE DEF f, From
    <2>2. QED BY <2>1, <1>1
  <1>4. ASSUME NEW k \in 1 .. n, \A j \in k + 1 .. n + 1 : j \in P
        PROVE  k \in P
    <2>1. PICK f : From(k + 1, f)
      <3>1. k + 1 \in k + 1 .. n + 1
        BY <1>1
      <3>2. k + 1 \in P
        BY <1>4, <3>1
      <3> HIDE DEF From
      <3>3. QED BY <3>2
    <2> DEFINE here == step[Rest(t, k)][f[After(k)]]
               g == [i \in k .. n + 1 |-> IF i = k THEN here ELSE f[i]]
    <2>2. f[After(k)] \in S
      BY <1>2, <2>1
    <2>3. here \in S
      <3>1. step[Rest(t, k)] \in [S -> S]
        BY <1>2
      <3>2. QED BY <2>2, <3>1
    <2> HIDE DEF here
    <2>4. \A i \in k + 1 .. n + 1 : g[i] = f[i] /\ f[i] \in S
      <3>1. \A i \in k + 1 .. n + 1 : i \in k .. n + 1 /\ i # k
        BY <1>1
      <3>2. QED BY <3>1, <2>1
    <2>5. g[k] = here
      BY <1>1
    <2>6. g \in [k .. n + 1 -> S]
      <3>1. \A i \in k .. n + 1 : i = k \/ i \in k + 1 .. n + 1
        BY <1>1
      <3>2. QED BY <3>1, <2>3, <2>4
    <2>7. g[n + 1] = start
      <3>1. n + 1 \in k + 1 .. n + 1
        BY <1>1
      <3> HIDE DEF g
      <3>2. QED BY <3>1, <2>1, <2>4
    <2>8. ASSUME NEW i \in k .. n
          PROVE  g[i] = step[Rest(t, i)][g[After(i)]]
      <3>1. i \in 1 .. n
        BY <1>1
      <3>2. After(i) \in k + 1 .. n + 1
        BY <1>1, <1>2, <3>1
      <3> HIDE DEF g
      <3>3. g[After(i)] = f[After(i)]
        BY <2>4, <3>2
      <3>4. CASE i = k
        BY <2>5, <3>3, <3>4 DEF here
      <3>5. CASE i # k
        <4>1. i \in k + 1 .. n /\ i \in k + 1 .. n + 1
          BY <3>5, <1>1
        <4>2. QED BY <4>1, <2>1, <2>4, <3>3
      <3>6. QED BY <3>4, <3>5
    <2> HIDE DEF g
    <2>9. From(k, g)
      BY <2>6, <2>7, <2>8
    <2> HIDE DEF From
    <2>10. k \in 1 .. n + 1
      BY <1>1
    <2>11. QED BY <2>9, <2>10
  <1>5. 1 \in P
    <2> HIDE DEF P
    <2>1. \A i \in 1 .. n + 1 : i \in P
      BY <1>1, <1>3, <1>4, FromTheEnd
    <2>2. QED BY <2>1, <1>1
  <1>6. PICK f : From(1, f)
    <2> HIDE DEF From
    <2>1. QED BY <1>5
  <1>7. QED BY <1>6 DEF Scan, n, After

\* What a scan makes of the rest of t is what it makes of the rest alone.
LEMMA ScanOfRest ==
  ASSUME NEW t \in Bytes, NEW S, NEW start, NEW step, NEW f, NEW g,
         NEW i \in 1 .. Len(t) + 1,
         Scan(f, t, S, start, step), Scan(g, Rest(t, i), S, start, step)
  PROVE  f[i] = g[1]
  <1> DEFINE n == Len(t)
             r == Rest(t, i)
             m == n - i + 1
             P == {j \in 1 .. m + 1 : f[i + j - 1] = g[j]}
  <1>1. n \in Nat /\ m \in Nat
    BY DEF Bytes
  <1>2. r \in Bytes /\ Len(r) = m
    BY RestIs DEF Bytes
  <1>3. \A j \in 1 .. m + 1 : Rest(r, j) = Rest(t, i + j - 1)
    <2>1. t \in Seq(Byte) /\ \A j \in 1 .. m + 1 : j \in 1 .. Len(t) - i + 2
      BY <1>1 DEF Bytes
    <2>2. QED BY <2>1, RestOfRest
  <1>4. g[m + 1] = start
    BY <1>2 DEF Scan
  <1>5. \A j \in 1 .. m : /\ g[j] = step[Rest(r, j)][g[j + Width(Rest(r, j))]]
                          /\ j + Width(Rest(r, j)) \in j + 1 .. m + 1
                          /\ Width(Rest(r, j)) \in Nat
    BY <1>2, NextPosition DEF Scan
  <1>6. f[n + 1] = start /\ \A j \in 1 .. n : f[j] = step[Rest(t, j)][f[j + Width(Rest(t, j))]]
    BY DEF Scan
  <1> HIDE DEF r
  <1>7. m + 1 \in P
    <2>1. i + (m + 1) - 1 = n + 1 /\ m + 1 \in 1 .. m + 1
      BY <1>1
    <2>2. QED BY <2>1, <1>4, <1>6
  <1>8. ASSUME NEW j \in 1 .. m, \A k \in j + 1 .. m + 1 : k \in P
        PROVE  j \in P
    <2> DEFINE w == Width(Rest(r, j))
    <2>1. j + w \in j + 1 .. m + 1 /\ w \in Nat /\ g[j] = step[Rest(r, j)][g[j + w]]
      BY <1>5
    <2>2. j \in 1 .. m + 1 /\ Rest(r, j) = Rest(t, i + j - 1) /\ i + j - 1 \in 1 .. n
      BY <1>1, <1>3
    <2>3. f[i + j - 1] = step[Rest(r, j)][f[i + j - 1 + w]]
      BY <2>2, <1>6
    <2>4. f[i + (j + w) - 1] = g[j + w]
      BY <2>1, <1>8
    <2> HIDE DEF w
    <2>5. i + (j + w) - 1 = i + j - 1 + w
      BY <2>1, <1>1
    <2>6. QED BY <2>1, <2>2, <2>3, <2>4, <2>5
  <1>9. 1 \in P
    <2> HIDE DEF P
    <2>1. \A j \in 1 .. m + 1 : j \in P
      <3> HIDE DEF m
      <3>1. QED BY <1>1, <1>7, <1>8, FromTheEnd
    <2>2. QED BY <2>1, <1>1
  <1>10. i + 1 - 1 = i
    BY <1>1
  <1>11. QED BY <1>9, <1>10

-----------------------------------------------------------------------------
(* What a scan makes of bytes as text, and whether all of them are whole   *)

ReadStep == [s \in Bytes |-> [r \in Bytes |-> IF s = <<>> THEN r ELSE Piece(s) \o r]]
CheckStep == [s \in Bytes |-> [b \in BOOLEAN |-> Whole(s) /\ b]]

ReadScan(t) == CHOOSE f : Scan(f, t, Bytes, <<>>, ReadStep)
CheckScan(t) == CHOOSE f : Scan(f, t, BOOLEAN, TRUE, CheckStep)

\* The text of t, and whether t is well-formed.
Reading(t) == ReadScan(t)[1]
Sound(t) == CheckScan(t)[1]

\* The first k bytes.
Upto(s, k) == SubSeq(s, 1, k)

LEMMA UptoIs ==
  ASSUME NEW s \in Bytes, NEW k \in 1 .. Len(s)
  PROVE  /\ Upto(s, k) \in Bytes /\ Upto(s, k) # <<>> /\ Len(Upto(s, k)) = k
         /\ \A i \in 1 .. k : Upto(s, k)[i] = s[i]
         /\ Lead(Upto(s, k)) = Lead(s)
         /\ \A j \in 1 .. k : Together(Upto(s, k), j) <=> Together(s, j)
  <1>1. Len(s) \in Nat /\ s \in Seq(Byte) /\ 1 \in 1 .. Len(s) + 1 /\ k \in 0 .. Len(s)
    BY DEF Bytes
  <1>2. /\ Upto(s, k) \in Bytes /\ Len(Upto(s, k)) = k - 1 + 1
        /\ \A i \in 1 .. k - 1 + 1 : Upto(s, k)[i] = s[1 + i - 1]
    BY <1>1, SubSeqIs DEF Upto, Bytes
  <1> DEFINE r == Upto(s, k)
  <1> HIDE DEF r
  <1>3. Len(r) = k /\ \A i \in 1 .. k : r[i] = s[i]
    BY <1>2 DEF r
  <1>4. r # <<>> /\ r[1] = s[1]
    BY <1>3
  <1>5. Lead(r) = Lead(s)
    BY <1>4 DEF Lead
  <1>6. ASSUME NEW j \in 1 .. k
        PROVE  Together(r, j) <=> Together(s, j)
    <2>1. \A i \in 1 .. j - 1 : r[1 + i] = s[1 + i]
      BY <1>3
    <2>2. QED BY <2>1, <1>5 DEF Together
  <1>7. QED BY <1>2, <1>3, <1>4, <1>5, <1>6 DEF r

LEMMA PieceIs ==
  ASSUME NEW s \in Bytes, s # <<>>
  PROVE  /\ Piece(s) = IF Whole(s) THEN Upto(s, Width(s)) ELSE Replacement
         /\ Piece(s) \in Bytes
  <1>1. Upto(s, Width(s)) \in Bytes
    BY WidthIs, UptoIs
  <1>2. Replacement \in Bytes
    <2>1. 239 \in Byte /\ 191 \in Byte /\ 189 \in Byte
      BY DEF Byte
    <2>2. QED BY <2>1 DEF Replacement, Bytes
  <1>3. QED BY <1>1, <1>2 DEF Piece, Upto

LEMMA ReadStepIs ==
  /\ ReadStep \in [Bytes -> [Bytes -> Bytes]]
  /\ \A s, r \in Bytes : s # <<>> => ReadStep[s][r] = Piece(s) \o r
  <1>1. ASSUME NEW s \in Bytes, NEW r \in Bytes
        PROVE  (IF s = <<>> THEN r ELSE Piece(s) \o r) \in Bytes
    <2>1. CASE s # <<>>
      <3>1. Piece(s) \in Bytes
        BY <2>1, PieceIs
      <3>2. Piece(s) \o r \in Bytes
        BY <3>1, ConcatIs DEF Bytes
      <3>3. QED BY <3>2
    <2>2. QED BY <2>1
  <1>2. QED BY <1>1 DEF ReadStep

LEMMA CheckStepIs ==
  /\ CheckStep \in [Bytes -> [BOOLEAN -> BOOLEAN]]
  /\ \A s \in Bytes, b \in BOOLEAN : CheckStep[s][b] = (Whole(s) /\ b)
  BY DEF CheckStep

LEMMA ReadScanIs ==
  ASSUME NEW t \in Bytes
  PROVE  LET f == ReadScan(t) IN
         /\ f \in [1 .. Len(t) + 1 -> Bytes] /\ f[Len(t) + 1] = <<>>
         /\ \A i \in 1 .. Len(t) : f[i] = Piece(Rest(t, i)) \o f[i + Width(Rest(t, i))]
         /\ \A i \in 1 .. Len(t) + 1 : f[i] = Reading(Rest(t, i))
  <1> DEFINE f == ReadScan(t)
  <1>1. <<>> \in Bytes
    BY DEF Bytes
  <1>2. \A u \in Bytes : Scan(ReadScan(u), u, Bytes, <<>>, ReadStep)
    <2> TAKE u \in Bytes
    <2>1. \E g : Scan(g, u, Bytes, <<>>, ReadStep)
      BY <1>1, ReadStepIs, ScanExists
    <2>2. QED BY <2>1 DEF ReadScan
  <1>3. Scan(f, t, Bytes, <<>>, ReadStep)
    BY <1>2
  <1> HIDE DEF f
  <1>4. f \in [1 .. Len(t) + 1 -> Bytes] /\ f[Len(t) + 1] = <<>>
    BY <1>3 DEF Scan
  <1>5. ASSUME NEW i \in 1 .. Len(t)
        PROVE  f[i] = Piece(Rest(t, i)) \o f[i + Width(Rest(t, i))]
    <2> DEFINE r == Rest(t, i)
               next == i + Width(r)
    <2>1. r \in Bytes /\ r # <<>> /\ next \in i + 1 .. Len(t) + 1
      BY NextPosition
    <2>2. next \in 1 .. Len(t) + 1
      BY <2>1
    <2>3. f[next] \in Bytes
      BY <2>2, <1>4
    <2>4. f[i] = ReadStep[r][f[next]]
      BY <1>3 DEF Scan
    <2> HIDE DEF r, next
    <2>5. f[i] = Piece(r) \o f[next]
      BY <2>1, <2>3, <2>4, ReadStepIs
    <2>6. QED BY <2>5 DEF next, r
  <1>6. ASSUME NEW i \in 1 .. Len(t) + 1
        PROVE  f[i] = Reading(Rest(t, i))
    <2>1. Rest(t, i) \in Bytes
      BY RestIs DEF Bytes
    <2>2. Scan(ReadScan(Rest(t, i)), Rest(t, i), Bytes, <<>>, ReadStep)
      BY <2>1, <1>2
    <2>3. QED BY <2>2, <1>3, ScanOfRest DEF Reading
  <1>7. QED BY <1>4, <1>5, <1>6 DEF f

LEMMA CheckScanIs ==
  ASSUME NEW t \in Bytes
  PROVE  LET f == CheckScan(t) IN
         /\ f \in [1 .. Len(t) + 1 -> BOOLEAN] /\ f[Len(t) + 1] = TRUE
         /\ \A i \in 1 .. Len(t) : f[i] = (Whole(Rest(t, i)) /\ f[i + Width(Rest(t, i))])
         /\ \A i \in 1 .. Len(t) + 1 : f[i] = Sound(Rest(t, i))
  <1> DEFINE f == CheckScan(t)
  <1>1. TRUE \in BOOLEAN
    OBVIOUS
  <1>2. \A u \in Bytes : Scan(CheckScan(u), u, BOOLEAN, TRUE, CheckStep)
    <2> TAKE u \in Bytes
    <2>1. \E g : Scan(g, u, BOOLEAN, TRUE, CheckStep)
      BY <1>1, CheckStepIs, ScanExists
    <2>2. QED BY <2>1 DEF CheckScan
  <1>3. Scan(f, t, BOOLEAN, TRUE, CheckStep)
    BY <1>2
  <1> HIDE DEF f
  <1>4. f \in [1 .. Len(t) + 1 -> BOOLEAN] /\ f[Len(t) + 1] = TRUE
    BY <1>3 DEF Scan
  <1>5. ASSUME NEW i \in 1 .. Len(t)
        PROVE  f[i] = (Whole(Rest(t, i)) /\ f[i + Width(Rest(t, i))])
    <2> DEFINE r == Rest(t, i)
               next == i + Width(r)
    <2>1. r \in Bytes /\ r # <<>> /\ next \in i + 1 .. Len(t) + 1
      BY NextPosition
    <2>2. next \in 1 .. Len(t) + 1
      BY <2>1
    <2>3. f[next] \in BOOLEAN
      BY <2>2, <1>4
    <2>4. f[i] = CheckStep[r][f[next]]
      BY <1>3 DEF Scan
    <2> HIDE DEF r, next
    <2>5. f[i] = (Whole(r) /\ f[next])
      BY <2>1, <2>3, <2>4, CheckStepIs
    <2>6. QED BY <2>5 DEF next, r
  <1>6. ASSUME NEW i \in 1 .. Len(t) + 1
        PROVE  f[i] = Sound(Rest(t, i))
    <2>1. Rest(t, i) \in Bytes
      BY RestIs DEF Bytes
    <2>2. Scan(CheckScan(Rest(t, i)), Rest(t, i), BOOLEAN, TRUE, CheckStep)
      BY <2>1, <1>2
    <2> DEFINE g == CheckScan(Rest(t, i))
    <2>3. Scan(g, Rest(t, i), BOOLEAN, TRUE, CheckStep)
      BY <2>2
    <2> HIDE DEF g
    <2>4. \A S, start, step :
            Scan(f, t, S, start, step) /\ Scan(g, Rest(t, i), S, start, step) => f[i] = g[1]
      BY ScanOfRest
    <2>5. f[i] = g[1]
      BY <2>3, <2>4, <1>3
    <2>6. QED BY <2>5 DEF Sound, g
  <1>7. QED BY <1>4, <1>5, <1>6 DEF f

\* A text is the piece at its front and the text of the rest.
LEMMA ReadingIs ==
  ASSUME NEW t \in Bytes
  PROVE  /\ Reading(t) \in Bytes
         /\ t = <<>> => Reading(t) = <<>>
         /\ t # <<>> => Reading(t) = Piece(t) \o Reading(Rest(t, 1 + Width(t)))
  <1> DEFINE f == ReadScan(t)
  <1>1. /\ f \in [1 .. Len(t) + 1 -> Bytes] /\ f[Len(t) + 1] = <<>>
        /\ \A i \in 1 .. Len(t) : f[i] = Piece(Rest(t, i)) \o f[i + Width(Rest(t, i))]
        /\ \A i \in 1 .. Len(t) + 1 : f[i] = Reading(Rest(t, i))
    BY ReadScanIs
  <1> HIDE DEF f
  <1>2. Len(t) \in Nat /\ Rest(t, 1) = t
    BY RestAll DEF Bytes
  <1>3. Reading(t) \in Bytes
    <2>1. 1 \in 1 .. Len(t) + 1
      BY <1>2
    <2>2. QED BY <2>1, <1>1, <1>2
  <1>4. t = <<>> => Reading(t) = <<>>
    <2>1. t = <<>> => Len(t) + 1 = 1 /\ 1 \in 1 .. Len(t) + 1
      OBVIOUS
    <2>2. QED BY <2>1, <1>1, <1>2
  <1>5. ASSUME t # <<>>
        PROVE  Reading(t) = Piece(t) \o Reading(Rest(t, 1 + Width(t)))
    <2>1. 1 \in 1 .. Len(t) /\ 1 \in 1 .. Len(t) + 1
      BY <1>2, <1>5 DEF Bytes
    <2>2. f[1] = Piece(t) \o f[1 + Width(t)]
      BY <2>1, <1>1, <1>2
    <2>3. 1 + Width(t) \in 1 .. Len(t) + 1
      <3>1. Width(t) \in 1 .. Len(t)
        BY <1>5, WidthIs
      <3>2. QED BY <3>1, <1>2
    <2>4. f[1 + Width(t)] = Reading(Rest(t, 1 + Width(t))) /\ f[1] = Reading(t)
      BY <2>1, <2>3, <1>1, <1>2
    <2>5. QED BY <2>2, <2>4
  <1>6. QED BY <1>3, <1>4, <1>5

LEMMA SoundIs ==
  ASSUME NEW t \in Bytes
  PROVE  /\ Sound(t) \in BOOLEAN
         /\ t = <<>> => Sound(t)
         /\ t # <<>> => (Sound(t) <=> Whole(t) /\ Sound(Rest(t, 1 + Width(t))))
  <1> DEFINE f == CheckScan(t)
  <1>1. /\ f \in [1 .. Len(t) + 1 -> BOOLEAN] /\ f[Len(t) + 1] = TRUE
        /\ \A i \in 1 .. Len(t) : f[i] = (Whole(Rest(t, i)) /\ f[i + Width(Rest(t, i))])
        /\ \A i \in 1 .. Len(t) + 1 : f[i] = Sound(Rest(t, i))
    BY CheckScanIs
  <1> HIDE DEF f
  <1>2. Len(t) \in Nat /\ Rest(t, 1) = t
    BY RestAll DEF Bytes
  <1>3. Sound(t) \in BOOLEAN
    <2>1. 1 \in 1 .. Len(t) + 1
      BY <1>2
    <2>2. f[1] \in BOOLEAN /\ f[1] = Sound(t)
      BY <2>1, <1>1, <1>2
    <2>3. QED BY <2>2
  <1>4. t = <<>> => Sound(t)
    <2>1. t = <<>> => Len(t) + 1 = 1 /\ 1 \in 1 .. Len(t) + 1
      OBVIOUS
    <2>2. QED BY <2>1, <1>1, <1>2
  <1>5. ASSUME t # <<>>
        PROVE  Sound(t) <=> Whole(t) /\ Sound(Rest(t, 1 + Width(t)))
    <2>1. 1 \in 1 .. Len(t) /\ 1 \in 1 .. Len(t) + 1
      BY <1>2, <1>5 DEF Bytes
    <2>2. f[1] = (Whole(t) /\ f[1 + Width(t)])
      BY <2>1, <1>1, <1>2
    <2>3. 1 + Width(t) \in 1 .. Len(t) + 1
      <3>1. Width(t) \in 1 .. Len(t)
        BY <1>5, WidthIs
      <3>2. QED BY <3>1, <1>2
    <2>4. f[1 + Width(t)] = Sound(Rest(t, 1 + Width(t))) /\ f[1] = Sound(t)
      BY <2>1, <2>3, <1>1, <1>2
    <2>5. QED BY <2>2, <2>4
  <1>6. QED BY <1>3, <1>4, <1>5

\* Whatever a scan is written as: a function that goes on like it is it.
LEMMA ReadingIsThat ==
  ASSUME NEW t \in Bytes, NEW f, f[Len(t) + 1] = <<>>,
         \A i \in 1 .. Len(t) : f[i] = Piece(Rest(t, i)) \o f[i + Width(Rest(t, i))]
  PROVE  f[1] = Reading(t)
  <1> DEFINE g == ReadScan(t)
             n == Len(t)
             P == {i \in 1 .. n + 1 : f[i] = g[i]}
  <1>1. /\ g[n + 1] = <<>> /\ g[1] = Reading(t)
        /\ \A i \in 1 .. n : g[i] = Piece(Rest(t, i)) \o g[i + Width(Rest(t, i))]
    BY ReadScanIs DEF Reading
  <1>2. n \in Nat
    BY DEF Bytes
  <1> HIDE DEF g
  <1>3. n + 1 \in P
    BY <1>1, <1>2
  <1>4. ASSUME NEW i \in 1 .. n, \A j \in i + 1 .. n + 1 : j \in P
        PROVE  i \in P
    <2>1. i + Width(Rest(t, i)) \in i + 1 .. n + 1
      BY NextPosition
    <2>2. f[i + Width(Rest(t, i))] = g[i + Width(Rest(t, i))]
      BY <2>1, <1>4
    <2>3. i \in 1 .. n + 1
      BY <1>2
    <2>4. QED BY <2>2, <2>3, <1>1
  <1>5. 1 \in P
    <2>1. 1 \in 1 .. n + 1
      BY <1>2
    <2> HIDE DEF P, n
    <2>2. QED BY <2>1, <1>2, <1>3, <1>4, FromTheEnd
  <1>6. QED BY <1>1, <1>5

LEMMA SoundIsThat ==
  ASSUME NEW t \in Bytes, NEW f, f[Len(t) + 1] = TRUE,
         \A i \in 1 .. Len(t) :
           (\A j \in i + 1 .. Len(t) + 1 : f[j] \in BOOLEAN)
             => f[i] = (Whole(Rest(t, i)) /\ f[i + Width(Rest(t, i))])
  PROVE  f[1] = Sound(t)
  <1> DEFINE g == CheckScan(t)
             n == Len(t)
             P == {i \in 1 .. n + 1 : f[i] = g[i] /\ g[i] \in BOOLEAN}
  <1>1. /\ g[n + 1] = TRUE /\ g[1] = Sound(t) /\ \A i \in 1 .. n + 1 : g[i] \in BOOLEAN
        /\ \A i \in 1 .. n : g[i] = (Whole(Rest(t, i)) /\ g[i + Width(Rest(t, i))])
    <2>1. /\ g \in [1 .. n + 1 -> BOOLEAN] /\ g[n + 1] = TRUE
          /\ \A i \in 1 .. n : g[i] = (Whole(Rest(t, i)) /\ g[i + Width(Rest(t, i))])
      BY CheckScanIs
    <2>2. g[1] = Sound(t)
      BY DEF Sound
    <2> HIDE DEF g, n
    <2>3. QED BY <2>1, <2>2
  <1>2. n \in Nat
    BY DEF Bytes
  <1> HIDE DEF g
  <1>3. n + 1 \in P
    <2>1. n + 1 \in 1 .. n + 1
      BY <1>2
    <2>2. f[n + 1] = TRUE
      OBVIOUS
    <2>3. f[n + 1] = g[n + 1] /\ g[n + 1] \in BOOLEAN
      BY <2>2, <1>1
    <2> HIDE DEF n
    <2>4. QED BY <2>1, <2>3
  <1>4. ASSUME NEW i \in 1 .. n, \A j \in i + 1 .. n + 1 : j \in P
        PROVE  i \in P
    <2>1. i + Width(Rest(t, i)) \in i + 1 .. n + 1
      BY NextPosition
    <2>2. f[i + Width(Rest(t, i))] = g[i + Width(Rest(t, i))]
      BY <2>1, <1>4
    <2>3. i \in 1 .. n + 1
      BY <1>2
    <2>4. \A j \in i + 1 .. n + 1 : f[j] \in BOOLEAN
      BY <1>4
    <2>5. f[i] = (Whole(Rest(t, i)) /\ f[i + Width(Rest(t, i))])
      BY <2>4
    <2>6. f[i] = g[i]
      BY <2>2, <2>5, <1>1
    <2>7. QED BY <2>3, <2>6, <1>1
  <1>5. 1 \in P
    <2>1. 1 \in 1 .. n + 1
      BY <1>2
    <2> HIDE DEF P, n
    <2>2. QED BY <2>1, <1>2, <1>3, <1>4, FromTheEnd
  <1>6. QED BY <1>1, <1>5

-----------------------------------------------------------------------------
(* The code's scans, and the meaning of the bytes, are that scan           *)

LEMMA ByteIs ==
  \A c \in Byte : c \in Nat
  BY DEF Byte

LEMMA WidthOne ==
  ASSUME NEW s \in Bytes, s # <<>>, s[1] < 128 \/ Lead(s).len = 0
  PROVE  Width(s) = 1 /\ (Whole(s) <=> s[1] < 128) /\ Lead(s).len = 0
  <1>1. Len(s) \in Nat /\ Len(s) > 0 /\ s[1] \in Byte
    BY DEF Bytes
  <1>2. Lead(s).len = 0
    <2>1. /\ Lead(s).len \in Nat /\ (Lead(s).len > 0 => s[1] > 193)
          /\ s[1] \in Nat
      BY <1>1, ByteIs, LeadFacts DEF Lead
    <2>2. QED BY <2>1
  <1>3. Together(s, 1) /\ ~Together(s, 1 + 1)
    BY <1>2 DEF Together
  <1>4. 1 \in 1 .. Len(s)
    BY <1>1
  <1>5. Width(s) = 1
    BY <1>3, <1>4, WidthIsThat
  <1>6. QED BY <1>2, <1>5 DEF Whole

LEMMA WidthOfLead ==
  ASSUME NEW s \in Bytes, s # <<>>, Lead(s).len # 0
  PROVE  /\ s[1] >= 128 /\ Lead(s).len \in 2 .. 4
         /\ Width(s) <= Lead(s).len
         /\ Width(s) = Max({k \in 1 .. Min({Lead(s).len, Len(s)}) :
                              \A j \in 1 .. k - 1 : Continues(Lead(s), j, s[1 + j])})
  <1> DEFINE n == Lead(s).len
             w == Width(s)
             Follow(k) == \A j \in 1 .. k - 1 : Continues(Lead(s), j, s[1 + j])
             most == Min({n, Len(s)})
             S == {k \in 1 .. most : Follow(k)}
  <1>1. Len(s) \in Nat /\ Len(s) > 0 /\ s[1] \in Byte
    BY DEF Bytes
  <1>2. n \in 2 .. 4 /\ s[1] >= 128
    <2>1. n \in {0, 2, 3, 4} /\ (n > 0 => s[1] > 193) /\ s[1] \in Nat
      BY <1>1, ByteIs, LeadFacts DEF Lead
    <2> HIDE DEF n
    <2>2. n # 0
      BY DEF n
    <2>3. QED BY <2>1, <2>2
  <1>3. w \in 1 .. Len(s) /\ \A k \in 1 .. Len(s) : Together(s, k) <=> k <= w
    BY WidthIs
  <1>4. \A k : Together(s, k) <=> k = 1 \/ (k <= n /\ Follow(k))
    BY DEF Together
  <1>5. Follow(1)
    OBVIOUS
  <1> HIDE DEF n, w, Follow
  <1>6. most \in Nat /\ most <= n /\ most <= Len(s) /\ (most = n \/ most = Len(s))
    <2>1. n \in Nat
      BY <1>2
    <2>2. QED BY <2>1, <1>1, MinOfTwo
  <1> HIDE DEF most
  <1>7. w <= n /\ Follow(w)
    <2>1. Together(s, w)
      BY <1>3
    <2>2. QED BY <2>1, <1>2, <1>3, <1>4, <1>5
  <1>8. w \in S
    BY <1>2, <1>3, <1>6, <1>7
  <1>9. \A k \in S : w >= k
    <2>1. ASSUME NEW k \in S PROVE w >= k
      <3>1. k \in 1 .. Len(s) /\ k <= n /\ Follow(k)
        BY <1>1, <1>2, <1>6
      <3>2. k <= w
        BY <3>1, <1>3, <1>4
      <3>3. QED BY <3>2
    <2>2. QED BY <2>1
  <1>10. S \in SUBSET Nat
    BY <1>6
  <1>11. Max(S) = w
    <2> HIDE DEF S
    <2>1. QED BY <1>8, <1>9, <1>10, MaxIsThat
  <1>12. QED BY <1>2, <1>7, <1>11 DEF S, most, n, w, Follow

\* One step of utf8_sanitize().
SanitizeAt(f, t, i) ==
  IF i > Len(t) THEN <<>>
  ELSE IF t[i] < 128 THEN <<t[i]>> \o f[i + 1]
  ELSE LET lead == utf8_lead_info(t[i])
           k == ValidPart(t, i, lead)
       IN IF lead.len = 0 THEN Replacement \o f[i + 1]
          ELSE (IF k = lead.len THEN SubSeq(t, i, i + k - 1) ELSE Replacement) \o f[i + k]

\* The bytes from i are those of the rest.
LEMMA AtIs ==
  ASSUME NEW t \in Bytes, NEW i \in 1 .. Len(t), NEW k \in 1 .. Len(t) - i + 1
  PROVE  SubSeq(t, i, i + k - 1) = Upto(Rest(t, i), k)
  <1> DEFINE r == Rest(t, i)
             a == SubSeq(t, i, i + k - 1)
             b == SubSeq(r, 1, k)
  <1>1. Len(t) \in Nat /\ t \in Seq(Byte)
    BY DEF Bytes
  <1>2. /\ r \in Seq(Byte) /\ Len(r) = Len(t) - i + 1
        /\ \A j \in 1 .. Len(t) - i + 1 : r[j] = t[i + j - 1]
    <2>1. i \in 1 .. Len(t) + 1
      BY <1>1
    <2>2. QED BY <2>1, <1>1, RestIs
  <1>3. /\ a \in Seq(Byte) /\ Len(a) = i + k - 1 - i + 1
        /\ \A j \in 1 .. i + k - 1 - i + 1 : a[j] = t[i + j - 1]
    <2>1. i + k - 1 \in 0 .. Len(t) /\ i \in 1 .. Len(t) + 1 /\ i <= i + k - 1 + 1
      BY <1>1
    <2>2. QED BY <2>1, <1>1, SubSeqIs
  <1> HIDE DEF a, r
  <1>4. /\ b \in Seq(Byte) /\ Len(b) = k - 1 + 1
        /\ \A j \in 1 .. k - 1 + 1 : b[j] = r[1 + j - 1]
    <2>1. k \in 0 .. Len(r) /\ 1 \in 1 .. Len(r) + 1 /\ 1 <= k + 1
      BY <1>1, <1>2
    <2>2. QED BY <2>1, <1>2, SubSeqIs
  <1> HIDE DEF b
  <1>5. Len(a) = Len(b) /\ Len(a) = k
    BY <1>3, <1>4
  <1>6. ASSUME NEW j \in 1 .. Len(a) PROVE a[j] = b[j]
    <2>1. j \in 1 .. i + k - 1 - i + 1 /\ j \in 1 .. k - 1 + 1 /\ 1 + j - 1 = j
          /\ j \in 1 .. Len(t) - i + 1
      BY <1>5, <1>1
    <2>2. QED BY <2>1, <1>2, <1>3, <1>4
  <1>7. a = b
    BY <1>3, <1>4, <1>5, <1>6, SeqEqual
  <1>8. QED BY <1>7 DEF a, b, r, Upto

LEMMA SanitizeAtIs ==
  ASSUME NEW t \in Bytes, NEW f, NEW i \in 1 .. Len(t)
  PROVE  SanitizeAt(f, t, i) = Piece(Rest(t, i)) \o f[i + Width(Rest(t, i))]
  <1> DEFINE r == Rest(t, i)
             lead == utf8_lead_info(t[i])
             w == Width(r)
  <1>1. Len(t) \in Nat /\ ~(i > Len(t))
    BY DEF Bytes
  <1>2. /\ r \in Bytes /\ r # <<>> /\ Len(r) = Len(t) - i + 1
        /\ r[1] = t[i] /\ w \in 1 .. Len(t) - i + 1
    BY NextPosition
  <1>3. Lead(r) = lead
    BY <1>2 DEF Lead
  <1>4. SubSeq(t, i, i + w - 1) = Upto(r, w)
    BY <1>2, AtIs
  <1>5. Piece(r) = IF Whole(r) THEN Upto(r, w) ELSE Replacement
    BY <1>2, PieceIs
  <1>6. CASE t[i] < 128
    <2>1. w = 1 /\ Whole(r)
      BY <1>2, <1>6, WidthOne
    <2>2. Upto(r, 1) = <<t[i]>>
      <3>1. 1 \in 1 .. Len(r)
        BY <1>1, <1>2
      <3>2. /\ Upto(r, 1) \in Bytes /\ Len(Upto(r, 1)) = 1
            /\ \A j \in 1 .. 1 : Upto(r, 1)[j] = r[j]
        BY <3>1, <1>2, UptoIs
      <3> HIDE DEF r
      <3>3. Upto(r, 1)[1] = t[i]
        BY <3>2, <1>2
      <3>4. QED BY <3>2, <3>3 DEF Bytes
    <2>3. SanitizeAt(f, t, i) = <<t[i]>> \o f[i + 1]
      BY <1>1, <1>6 DEF SanitizeAt
    <2> HIDE DEF r, w
    <2>4. QED BY <2>1, <2>2, <2>3, <1>5 DEF r, w
  <1>7. CASE ~(t[i] < 128) /\ lead.len = 0
    <2>1. w = 1 /\ ~Whole(r)
      BY <1>2, <1>3, <1>7, WidthOne
    <2>2. SanitizeAt(f, t, i) = Replacement \o f[i + 1]
      BY <1>1, <1>7 DEF SanitizeAt
    <2> HIDE DEF r, w
    <2>3. QED BY <2>1, <2>2, <1>5 DEF r, w
  <1>8. CASE ~(t[i] < 128) /\ lead.len # 0
    <2> DEFINE k == ValidPart(t, i, lead)
    <2>1. w = Max({j \in 1 .. Min({lead.len, Len(r)}) :
                     \A l \in 1 .. j - 1 : Continues(lead, l, r[1 + l])})
      BY <1>2, <1>3, <1>8, WidthOfLead
    <2>2. \A j \in 1 .. Min({lead.len, Len(r)}) :
            \A l \in 1 .. j - 1 : r[1 + l] = t[i + l]
      <3>1. lead.len \in Nat
        <4>1. t[i] \in Byte
          BY DEF Bytes
        <4>2. QED BY <4>1, LeadFacts
      <3>2. /\ Min({lead.len, Len(r)}) \in Nat
            /\ Min({lead.len, Len(r)}) <= Len(t) - i + 1
        <4> HIDE DEF lead, r
        <4>1. Len(r) \in Nat
          BY <1>1, <1>2
        <4>2. QED BY <3>1, <4>1, <1>2, MinOfTwo
      <3> DEFINE most == Min({lead.len, Len(r)})
      <3> HIDE DEF most, lead
      <3>3. \A j \in 1 .. Len(t) - i + 1 : r[j] = t[i + j - 1]
        <4>1. t \in Seq(Byte) /\ i \in 1 .. Len(t) + 1
          BY <1>1 DEF Bytes
        <4>2. QED BY <4>1, RestIs
      <3> HIDE DEF r
      <3>4. \A j \in 1 .. most : \A l \in 1 .. j - 1 :
              1 + l \in 1 .. Len(t) - i + 1 /\ i + (1 + l) - 1 = i + l
        BY <3>2, <1>1 DEF most
      <3>5. QED BY <3>3, <3>4 DEF most
    <2>3. Len(r) = Len(t) - i + 1
      BY <1>2
    <2> HIDE DEF r, w, lead
    <2>4. k = w
      <3>1. {j \in 1 .. Min({lead.len, Len(r)}) :
               \A l \in 1 .. j - 1 : Continues(lead, l, r[1 + l])}
            = {j \in 1 .. Min({lead.len, Len(r)}) :
                 \A l \in 1 .. j - 1 : Continues(lead, l, t[i + l])}
        BY <2>2
      <3>2. QED BY <3>1, <2>1, <2>3 DEF ValidPart
    <2>5. SanitizeAt(f, t, i)
            = (IF k = lead.len THEN SubSeq(t, i, i + k - 1) ELSE Replacement) \o f[i + k]
      <3> HIDE DEF k
      <3>1. QED BY <1>1, <1>8 DEF SanitizeAt, lead, k
    <2> HIDE DEF k
    <2>6. Whole(r) <=> w = lead.len
      BY <1>2, <1>3, <1>8 DEF Whole, w
    <2>7. SanitizeAt(f, t, i) = Piece(r) \o f[i + w]
      <3>1. CASE Whole(r)
        <4>1. SanitizeAt(f, t, i) = SubSeq(t, i, i + w - 1) \o f[i + w]
          BY <3>1, <2>4, <2>5, <2>6
        <4>2. QED BY <4>1, <3>1, <1>4, <1>5
      <3>2. CASE ~Whole(r)
        <4>1. SanitizeAt(f, t, i) = Replacement \o f[i + w]
          BY <3>2, <2>4, <2>5, <2>6
        <4>2. QED BY <4>1, <3>2, <1>5
      <3>3. QED BY <3>1, <3>2
    <2>8. QED BY <2>7 DEF r, w
  <1>9. QED BY <1>6, <1>7, <1>8

\* utf8_sanitize() yields the text of the bytes.
LEMMA SanitizeIsReading ==
  ASSUME NEW t \in Bytes
  PROVE  utf8_sanitize(t) = Reading(t)
  <1> DEFINE n == Len(t)
             Is(f) == f = [i \in 1 .. n + 1 |-> SanitizeAt(f, t, i)]
  <1>1. utf8_sanitize(t) = (CHOOSE f : Is(f))[1]
    BY DEF utf8_sanitize, SanitizeAt
  <1>2. n \in Nat
    BY DEF Bytes
  <1>3. SanitizeAt(ReadScan(t), t, n + 1) = <<>> /\ \A f : SanitizeAt(f, t, n + 1) = <<>>
    <2>1. n + 1 > Len(t)
      BY <1>2
    <2>2. QED BY <2>1 DEF SanitizeAt
  <1>4. \E f : Is(f)
    <2> DEFINE g == ReadScan(t)
    <2>1. /\ g \in [1 .. n + 1 -> Bytes] /\ g[n + 1] = <<>>
          /\ \A i \in 1 .. n : g[i] = Piece(Rest(t, i)) \o g[i + Width(Rest(t, i))]
      BY ReadScanIs
    <2>2. \A i \in 1 .. n : SanitizeAt(g, t, i) = Piece(Rest(t, i)) \o g[i + Width(Rest(t, i))]
      BY SanitizeAtIs
    <2>3. SanitizeAt(g, t, n + 1) = <<>>
      BY <1>3
    <2> HIDE DEF g, n
    <2>4. \A i \in 1 .. n + 1 : g[i] = SanitizeAt(g, t, i)
      <3>1. \A i \in 1 .. n + 1 : i = n + 1 \/ i \in 1 .. n
        BY <1>2
      <3>2. QED BY <3>1, <2>1, <2>2, <2>3
    <2>5. Is(g)
      BY <2>1, <2>4
    <2>6. QED BY <2>5
  <1>5. PICK f : f = (CHOOSE g : Is(g)) /\ Is(f)
    <2> HIDE DEF Is
    <2>1. QED BY <1>4
  <1>6. \A i \in 1 .. n + 1 : f[i] = SanitizeAt(f, t, i)
    <2> HIDE DEF n
    <2>1. QED BY <1>5
  <1>7. f[n + 1] = <<>>
    BY <1>2, <1>3, <1>6
  <1>8. \A i \in 1 .. n : f[i] = Piece(Rest(t, i)) \o f[i + Width(Rest(t, i))]
    <2>1. \A i \in 1 .. n : SanitizeAt(f, t, i) = Piece(Rest(t, i)) \o f[i + Width(Rest(t, i))]
      BY SanitizeAtIs
    <2>2. \A i \in 1 .. n : i \in 1 .. n + 1
      BY <1>2
    <2>3. QED BY <2>1, <2>2, <1>6
  <1>9. f[1] = Reading(t)
    BY <1>7, <1>8, ReadingIsThat
  <1>10. QED BY <1>1, <1>5, <1>9

\* One step of utf8_is_well_formed().
WellFormedAt(f, t, i) ==
  IF i > Len(t) THEN TRUE
  ELSE IF t[i] < 128 THEN f[i + 1]
  ELSE LET lead == utf8_lead_info(t[i])
       IN /\ lead.len > 0 /\ i + lead.len - 1 <= Len(t)
          /\ \A k \in 1 .. lead.len - 1 : Continues(lead, k, t[i + k])
          /\ f[i + lead.len]

LEMMA WellFormedAtIs ==
  ASSUME NEW t \in Bytes, NEW f, NEW i \in 1 .. Len(t),
         \A j \in i + 1 .. Len(t) + 1 : f[j] \in BOOLEAN
  PROVE  WellFormedAt(f, t, i) = (Whole(Rest(t, i)) /\ f[i + Width(Rest(t, i))])
  <1> DEFINE r == Rest(t, i)
             lead == utf8_lead_info(t[i])
             w == Width(r)
  <1>1. Len(t) \in Nat /\ ~(i > Len(t)) /\ t[i] \in Byte
    BY DEF Bytes
  <1>2. /\ r \in Bytes /\ r # <<>> /\ Len(r) = Len(t) - i + 1
        /\ r[1] = t[i] /\ w \in 1 .. Len(t) - i + 1
    BY NextPosition
  <1>3. Lead(r) = lead /\ lead.len \in Nat
    BY <1>1, <1>2, LeadFacts DEF Lead
  <1>4. CASE t[i] < 128
    <2>1. w = 1 /\ Whole(r)
      BY <1>2, <1>4, WidthOne
    <2>2. WellFormedAt(f, t, i) = f[i + 1]
      BY <1>1, <1>4 DEF WellFormedAt
    <2>3. f[i + 1] \in BOOLEAN
      BY <1>1
    <2> HIDE DEF r, w
    <2>4. f[i + w] = f[i + 1]
      BY <2>1
    <2>5. WellFormedAt(f, t, i) = (Whole(r) /\ f[i + w])
      BY <2>1, <2>2, <2>3, <2>4
    <2>6. QED BY <2>5 DEF r, w
  <1>5. CASE ~(t[i] < 128) /\ lead.len = 0
    <2>1. ~Whole(r)
      BY <1>2, <1>3, <1>5, WidthOne
    <2>2. WellFormedAt(f, t, i) = FALSE
      BY <1>1, <1>5 DEF WellFormedAt
    <2> HIDE DEF r, w
    <2>3. WellFormedAt(f, t, i) = (Whole(r) /\ f[i + w])
      BY <2>1, <2>2
    <2>4. QED BY <2>3 DEF r, w
  <1>6. CASE ~(t[i] < 128) /\ lead.len # 0
    <2>1. w <= lead.len /\ lead.len \in 2 .. 4
      BY <1>2, <1>3, <1>6, WidthOfLead
    <2>2. Whole(r) <=> w = lead.len
      BY <1>2, <1>3, <1>6 DEF Whole
    <2>3. \A k \in 1 .. Len(r) : Together(r, k) <=> k <= w
      BY <1>2, WidthIs
    <2>4. \A j \in 1 .. Len(t) - i + 1 : r[j] = t[i + j - 1]
      <3>1. t \in Seq(Byte) /\ i \in 1 .. Len(t) + 1
        BY <1>1 DEF Bytes
      <3>2. QED BY <3>1, RestIs
    <2> DEFINE Follow == \A k \in 1 .. lead.len - 1 : Continues(lead, k, t[i + k])
    <2>5. ASSUME lead.len <= Len(r)
          PROVE  Together(r, lead.len) <=> Follow
      <3>1. \A k \in 1 .. lead.len - 1 : r[1 + k] = t[i + k]
        <4>1. \A k \in 1 .. lead.len - 1 : 1 + k \in 1 .. Len(t) - i + 1
                                           /\ i + (1 + k) - 1 = i + k
          <5> HIDE DEF r, lead
          <5>1. QED BY <1>1, <1>2, <1>3, <2>5
        <4>2. QED BY <4>1, <2>4
      <3>2. Together(r, lead.len)
              <=> lead.len = 1 \/ (lead.len <= lead.len
                                   /\ \A k \in 1 .. lead.len - 1 : Continues(lead, k, r[1 + k]))
        BY <1>3 DEF Together
      <3> HIDE DEF r, lead
      <3>3. lead.len # 1 /\ lead.len <= lead.len
        BY <2>1
      <3>4. (\A k \in 1 .. lead.len - 1 : Continues(lead, k, r[1 + k])) <=> Follow
        BY <3>1
      <3>5. QED BY <3>2, <3>3, <3>4
    <2>6. WellFormedAt(f, t, i)
            = (lead.len > 0 /\ i + lead.len - 1 <= Len(t) /\ Follow /\ f[i + lead.len])
      <3> HIDE DEF r, w
      <3>1. QED BY <1>1, <1>6 DEF WellFormedAt
    <2> HIDE DEF r, w, lead, Follow
    <2>7. Whole(r) <=> lead.len <= Len(r) /\ Follow
      <3>1. CASE lead.len <= Len(r)
        <4>1. lead.len \in 1 .. Len(r)
          BY <2>1, <3>1, <1>1, <1>2
        <4>2. Together(r, lead.len) <=> lead.len <= w
          BY <2>3, <4>1
        <4>3. lead.len <= w <=> w = lead.len
          BY <2>1, <1>2
        <4>4. QED BY <2>2, <2>5, <3>1, <4>2, <4>3
      <3>2. CASE ~(lead.len <= Len(r))
        <4>1. w # lead.len
          BY <1>1, <1>2, <3>2
        <4>2. QED BY <4>1, <2>2, <3>2
      <3>3. QED BY <3>1, <3>2
    <2>8. lead.len <= Len(r) <=> i + lead.len - 1 <= Len(t)
      BY <1>1, <1>2, <2>1
    <2>9. CASE Whole(r)
      <3>1. WellFormedAt(f, t, i) = (TRUE /\ f[i + lead.len])
        BY <2>1, <2>6, <2>7, <2>8, <2>9
      <3>2. lead.len = w
        BY <2>2, <2>9
      <3>3. WellFormedAt(f, t, i) = (Whole(r) /\ f[i + w])
        BY <3>1, <3>2, <2>9
      <3>4. QED BY <3>3 DEF r, w
    <2>10. CASE ~Whole(r)
      <3>1. WellFormedAt(f, t, i) = FALSE
        BY <2>6, <2>7, <2>8, <2>10
      <3>2. WellFormedAt(f, t, i) = (Whole(r) /\ f[i + w])
        BY <3>1, <2>10
      <3>3. QED BY <3>2 DEF r, w
    <2>11. QED BY <2>9, <2>10
  <1>7. QED BY <1>4, <1>5, <1>6

LEMMA WellFormedIsSound ==
  ASSUME NEW t \in Bytes
  PROVE  utf8_is_well_formed(t) = Sound(t)
  <1> DEFINE n == Len(t)
             Is(f) == f = [i \in 1 .. n + 1 |-> WellFormedAt(f, t, i)]
  <1>1. utf8_is_well_formed(t) = (CHOOSE f : Is(f))[1]
    BY DEF utf8_is_well_formed, WellFormedAt
  <1>2. n \in Nat
    BY DEF Bytes
  <1>3. \A f : WellFormedAt(f, t, n + 1) = TRUE
    <2>1. n + 1 > Len(t)
      BY <1>2
    <2>2. QED BY <2>1 DEF WellFormedAt
  <1>4. \E f : Is(f)
    <2> DEFINE g == CheckScan(t)
    <2>1. /\ g \in [1 .. n + 1 -> BOOLEAN] /\ g[n + 1] = TRUE
          /\ \A i \in 1 .. n : g[i] = (Whole(Rest(t, i)) /\ g[i + Width(Rest(t, i))])
      BY CheckScanIs
    <2>2. ASSUME NEW i \in 1 .. n
          PROVE  WellFormedAt(g, t, i) = (Whole(Rest(t, i)) /\ g[i + Width(Rest(t, i))])
      <3>1. \A j \in i + 1 .. Len(t) + 1 : g[j] \in BOOLEAN
        <4> HIDE DEF g
        <4>1. \A j \in i + 1 .. Len(t) + 1 : j \in 1 .. n + 1
          BY <1>2
        <4>2. QED BY <4>1, <2>1
      <3> HIDE DEF g
      <3>2. QED BY <3>1, WellFormedAtIs
    <2>3. WellFormedAt(g, t, n + 1) = TRUE
      BY <1>3
    <2> HIDE DEF g, n
    <2>4. \A i \in 1 .. n + 1 : g[i] = WellFormedAt(g, t, i)
      <3>1. \A i \in 1 .. n + 1 : i = n + 1 \/ i \in 1 .. n
        BY <1>2
      <3>2. \A i \in 1 .. n : g[i] = WellFormedAt(g, t, i)
        BY <2>1, <2>2
      <3>3. g[n + 1] = WellFormedAt(g, t, n + 1)
        BY <2>1, <2>3
      <3>4. QED BY <3>1, <3>2, <3>3
    <2>5. Is(g)
      BY <2>1, <2>4
    <2>6. QED BY <2>5
  <1>5. PICK f : f = (CHOOSE g : Is(g)) /\ Is(f)
    <2> HIDE DEF Is
    <2>1. QED BY <1>4
  <1>6. \A i \in 1 .. n + 1 : f[i] = WellFormedAt(f, t, i)
    <2> HIDE DEF n
    <2>1. QED BY <1>5
  <1>7. f[n + 1] = TRUE
    <2>1. n + 1 \in 1 .. n + 1
      BY <1>2
    <2> HIDE DEF n
    <2>2. f[n + 1] = WellFormedAt(f, t, n + 1)
      BY <2>1, <1>6
    <2>3. QED BY <2>2, <1>3
  <1>8. ASSUME NEW i \in 1 .. n, \A j \in i + 1 .. n + 1 : f[j] \in BOOLEAN
        PROVE  f[i] = (Whole(Rest(t, i)) /\ f[i + Width(Rest(t, i))])
    <2>1. i \in 1 .. n + 1
      BY <1>2
    <2>2. f[i] = WellFormedAt(f, t, i)
      BY <2>1, <1>6
    <2>3. WellFormedAt(f, t, i) = (Whole(Rest(t, i)) /\ f[i + Width(Rest(t, i))])
      BY <1>8, WellFormedAtIs
    <2>4. QED BY <2>2, <2>3
  <1>9. f[1] = Sound(t)
    BY <1>7, <1>8, SoundIsThat
  <1>10. QED BY <1>1, <1>5, <1>9

\* One step of the meaning of the bytes.
TextAt(f, t, i) ==
  LET At(k) == SubSeq(t, i, i + k - 1)
      room == 1 .. Min({4, Len(t) - i + 1})
      characters == {k \in room : IsCharacter(At(k))}
      parts == {1} \cup {k \in room : CanBeCompleted(At(k))}
  IN IF i > Len(t) THEN <<>>
     ELSE IF characters # {} THEN At(Min(characters)) \o f[i + Min(characters)]
     ELSE Replacement \o f[i + Max(parts)]

\* The character at the front is what belongs together there if that is whole, and the
\* longest part of one if it is not.
LEMMA FrontMeans ==
  ASSUME NEW r \in Bytes, r # <<>>,
         NEW characters, NEW parts,
         characters = {k \in 1 .. Min({4, Len(r)}) : IsCharacter(Upto(r, k))},
         parts = {1} \cup {k \in 1 .. Min({4, Len(r)}) : CanBeCompleted(Upto(r, k))}
  PROVE  /\ Whole(r) <=> characters # {}
         /\ Whole(r) => Min(characters) = Width(r)
         /\ ~Whole(r) => Max(parts) = Width(r)
  <1> DEFINE w == Width(r)
             n == Lead(r).len
             most == Min({4, Len(r)})
  <1>1. Len(r) \in Nat /\ Len(r) > 0 /\ r[1] \in Byte
    BY DEF Bytes
  <1>2. most \in Nat /\ most <= 4 /\ most <= Len(r) /\ (most = 4 \/ most = Len(r))
    <2>1. 4 \in Nat
      OBVIOUS
    <2>2. QED BY <2>1, <1>1, MinOfTwo
  <1>3. w \in 1 .. Len(r) /\ w <= 4 /\ \A k \in 1 .. Len(r) : Together(r, k) <=> k <= w
    BY WidthIs
  <1>4. n \in Nat /\ r[1] \in Nat
    BY <1>1, ByteIs, LeadFacts DEF Lead
  <1>5. n # 0 => r[1] >= 128 /\ w <= n /\ n >= 2
    <2>1. n # 0 => r[1] >= 128 /\ w <= n /\ n \in 2 .. 4
      BY WidthOfLead
    <2> HIDE DEF n, w
    <2>2. QED BY <2>1
  <1>6. n = 0 => w = 1
    BY WidthOne
  <1>7. Whole(r) <=> r[1] < 128 \/ n = w
    BY DEF Whole
  <1> HIDE DEF most
  <1>8. ASSUME NEW k \in 1 .. most
        PROVE  /\ IsCharacter(Upto(r, k)) <=> (k = 1 /\ r[1] < 128) \/ (k = n /\ k <= w)
               /\ CanBeCompleted(Upto(r, k)) <=> k < n /\ k <= w
    <2> DEFINE s == Upto(r, k)
    <2>1. k \in 1 .. Len(r)
      BY <1>1, <1>2
    <2>2. /\ s \in Bytes /\ s # <<>> /\ Len(s) = k /\ s[1] = r[1] /\ Lead(s) = Lead(r)
          /\ Together(s, k) <=> Together(r, k)
      <3>1. 1 \in 1 .. k /\ k \in 1 .. k
        BY <1>2
      <3>2. QED BY <2>1, <3>1, UptoIs
    <2>3. Together(r, k) <=> k <= w
      BY <2>1, <1>3
    <2> HIDE DEF s
    <2>4. IsCharacter(s) <=> (Len(s) = 1 /\ s[1] < 128)
                             \/ (Len(s) = Lead(s).len /\ Together(s, Len(s)))
      BY <2>2, CharacterIs
    <2>5. CanBeCompleted(s) <=> Len(s) < Lead(s).len /\ Together(s, Len(s))
      BY <2>2, CompletableIs
    <2>6. QED BY <2>2, <2>3, <2>4, <2>5 DEF s
  <1> HIDE DEF w, n
  <1>9. w \in 1 .. most
    BY <1>1, <1>2, <1>3
  <1>10. \A k \in characters : k \in 1 .. most /\ ((k = 1 /\ r[1] < 128) \/ (k = n /\ k <= w))
    BY <1>8 DEF most
  <1>11. \A k \in 1 .. most : (k = 1 /\ r[1] < 128) \/ (k = n /\ k <= w) => k \in characters
    BY <1>8 DEF most
  <1>12. ASSUME Whole(r)
         PROVE  characters # {} /\ Min(characters) = w
    <2>1. w \in characters
      <3>1. (w = 1 /\ r[1] < 128) \/ (w = n /\ w <= w)
        BY <1>3, <1>4, <1>5, <1>6, <1>7, <1>12
      <3>2. QED BY <3>1, <1>9, <1>11
    <2>2. \A k \in characters : k \in Nat /\ w <= k
      <3>1. ASSUME NEW k \in characters PROVE k \in Nat /\ w <= k
        <4>1. k \in 1 .. most /\ ((k = 1 /\ r[1] < 128) \/ (k = n /\ k <= w))
          BY <1>10
        <4>2. k \in Nat
          BY <4>1
        <4>3. CASE n = 0
          BY <4>1, <4>2, <4>3, <1>3, <1>6
        <4>4. CASE n # 0
          <5>1. k = n /\ w <= n
            BY <4>1, <4>4, <1>4, <1>5
          <5>2. QED BY <5>1, <4>2
        <4>5. QED BY <4>3, <4>4
      <3>2. QED BY <3>1
    <2>3. characters \in SUBSET Nat
      BY <2>2
    <2>4. QED BY <2>1, <2>2, <2>3, MinIsThat
  <1>13. ASSUME ~Whole(r)
         PROVE  characters = {} /\ Max(parts) = w
    <2>1. characters = {}
      <3>1. ASSUME NEW k \in characters PROVE FALSE
        <4>1. k \in 1 .. most /\ ((k = 1 /\ r[1] < 128) \/ (k = n /\ k <= w))
          BY <1>10
        <4>2. k = n /\ k <= w /\ k >= 1
          BY <4>1, <1>7, <1>13
        <4>3. n # w /\ n # 0
          BY <4>2, <1>7, <1>13
        <4>4. w <= n
          BY <4>3, <1>5
        <4>5. QED BY <4>2, <4>3, <4>4, <1>3, <1>4
      <3>2. QED BY <3>1
    <2>2. w \in parts
      <3>1. w = 1 \/ w < n
        BY <1>3, <1>4, <1>5, <1>6, <1>7, <1>13
      <3>2. CASE w = 1
        BY <3>2
      <3>3. CASE w < n
        <4>1. CanBeCompleted(Upto(r, w))
          BY <3>3, <1>3, <1>8, <1>9
        <4>2. QED BY <4>1, <1>9 DEF most
      <3>4. QED BY <3>1, <3>2, <3>3
    <2>3. \A k \in parts : k \in Nat /\ w >= k
      <3>1. ASSUME NEW k \in parts PROVE k \in Nat /\ w >= k
        <4>1. k = 1 \/ (k \in 1 .. most /\ CanBeCompleted(Upto(r, k)))
          BY DEF most
        <4>2. CASE k = 1
          BY <4>2, <1>3
        <4>3. CASE k \in 1 .. most /\ CanBeCompleted(Upto(r, k))
          <5>1. k <= w
            BY <4>3, <1>8
          <5>2. QED BY <5>1, <4>3, <1>3
        <4>4. QED BY <4>1, <4>2, <4>3
      <3>2. QED BY <3>1
    <2>4. parts \in SUBSET Nat
      BY <2>3
    <2>5. QED BY <2>1, <2>2, <2>3, <2>4, MaxIsThat
  <1>14. QED BY <1>12, <1>13 DEF w

LEMMA TextAtIs ==
  ASSUME NEW t \in Bytes, NEW f, NEW i \in 1 .. Len(t)
  PROVE  TextAt(f, t, i) = Piece(Rest(t, i)) \o f[i + Width(Rest(t, i))]
  <1> DEFINE r == Rest(t, i)
             w == Width(r)
             At(k) == SubSeq(t, i, i + k - 1)
             room == 1 .. Min({4, Len(t) - i + 1})
             characters == {k \in room : IsCharacter(At(k))}
             parts == {1} \cup {k \in room : CanBeCompleted(At(k))}
  <1>1. Len(t) \in Nat /\ ~(i > Len(t))
    BY DEF Bytes
  <1>2. /\ r \in Bytes /\ r # <<>> /\ Len(r) = Len(t) - i + 1
        /\ w \in 1 .. Len(t) - i + 1
    BY NextPosition
  <1>3. \A k \in room : At(k) = Upto(r, k)
    <2>1. \A k \in room : k \in 1 .. Len(t) - i + 1
      <3>1. Len(t) - i + 1 \in Nat /\ 4 \in Nat
        BY <1>1
      <3>2. /\ Min({4, Len(t) - i + 1}) \in Nat
            /\ Min({4, Len(t) - i + 1}) <= Len(t) - i + 1
        BY <3>1, MinOfTwo
      <3>3. QED BY <3>1, <3>2
    <2>2. QED BY <2>1, AtIs
  <1>4. TextAt(f, t, i) = IF characters # {}
                          THEN At(Min(characters)) \o f[i + Min(characters)]
                          ELSE Replacement \o f[i + Max(parts)]
    BY <1>1 DEF TextAt
  <1>5. room = 1 .. Min({4, Len(r)})
    BY <1>2
  <1> HIDE DEF r, room, At
  <1>6. /\ characters = {k \in 1 .. Min({4, Len(r)}) : IsCharacter(Upto(r, k))}
        /\ parts = {1} \cup {k \in 1 .. Min({4, Len(r)}) : CanBeCompleted(Upto(r, k))}
    BY <1>3, <1>5
  <1> HIDE DEF characters, parts
  <1>7. /\ Whole(r) <=> characters # {}
        /\ Whole(r) => Min(characters) = w
        /\ ~Whole(r) => Max(parts) = w
    BY <1>2, <1>6, FrontMeans
  <1>8. At(w) = Upto(r, w)
    BY <1>2, AtIs DEF At, r
  <1>9. Piece(r) = IF Whole(r) THEN Upto(r, w) ELSE Replacement
    BY <1>2, PieceIs
  <1> HIDE DEF w
  <1>10. TextAt(f, t, i) = Piece(r) \o f[i + w]
    BY <1>4, <1>7, <1>8, <1>9
  <1>11. QED BY <1>10 DEF r, w

\* The meaning of the bytes is their text.
LEMMA TextIsReading ==
  ASSUME NEW t \in Bytes
  PROVE  Text(t) = Reading(t)
  <1> DEFINE n == Len(t)
             Is(f) == f = [i \in 1 .. n + 1 |-> TextAt(f, t, i)]
  <1>1. Text(t) = (CHOOSE f : Is(f))[1]
    BY DEF Text, TextAt
  <1>2. n \in Nat
    BY DEF Bytes
  <1>3. \A f : TextAt(f, t, n + 1) = <<>>
    <2>1. n + 1 > Len(t)
      BY <1>2
    <2>2. QED BY <2>1 DEF TextAt
  <1>4. \E f : Is(f)
    <2> DEFINE g == ReadScan(t)
    <2>1. /\ g \in [1 .. n + 1 -> Bytes] /\ g[n + 1] = <<>>
          /\ \A i \in 1 .. n : g[i] = Piece(Rest(t, i)) \o g[i + Width(Rest(t, i))]
      BY ReadScanIs
    <2>2. \A i \in 1 .. n : TextAt(g, t, i) = Piece(Rest(t, i)) \o g[i + Width(Rest(t, i))]
      BY TextAtIs
    <2>3. TextAt(g, t, n + 1) = <<>>
      BY <1>3
    <2> HIDE DEF g, n
    <2>4. \A i \in 1 .. n + 1 : g[i] = TextAt(g, t, i)
      <3>1. \A i \in 1 .. n + 1 : i = n + 1 \/ i \in 1 .. n
        BY <1>2
      <3>2. QED BY <3>1, <2>1, <2>2, <2>3
    <2>5. Is(g)
      BY <2>1, <2>4
    <2>6. QED BY <2>5
  <1>5. PICK f : f = (CHOOSE g : Is(g)) /\ Is(f)
    <2> HIDE DEF Is
    <2>1. QED BY <1>4
  <1>6. \A i \in 1 .. n + 1 : f[i] = TextAt(f, t, i)
    <2> HIDE DEF n
    <2>1. QED BY <1>5
  <1>7. f[n + 1] = <<>>
    BY <1>2, <1>3, <1>6
  <1>8. \A i \in 1 .. n : f[i] = Piece(Rest(t, i)) \o f[i + Width(Rest(t, i))]
    <2>1. \A i \in 1 .. n : TextAt(f, t, i) = Piece(Rest(t, i)) \o f[i + Width(Rest(t, i))]
      BY TextAtIs
    <2>2. \A i \in 1 .. n : i \in 1 .. n + 1
      BY <1>2
    <2>3. QED BY <2>1, <2>2, <1>6
  <1>9. f[1] = Reading(t)
    BY <1>7, <1>8, ReadingIsThat
  <1>10. QED BY <1>1, <1>5, <1>9

-----------------------------------------------------------------------------
(* Texts one after the other                                               *)

\* Nothing in c waits for more bytes.
Closed(c) == \A i \in 1 .. Len(c) : ~CanBeCompleted(Rest(c, i))

\* What follows c is not taken for the rest of a character that c begins.
Apart(c, x) == x = <<>> \/ ~IsContinuation(x[1]) \/ Closed(c)

LEMMA ContinuationIsNoLead ==
  ASSUME NEW s \in Bytes, s # <<>>, IsContinuation(s[1])
  PROVE  Lead(s).len = 0 /\ ~CanBeCompleted(s)
  <1>1. s[1] \in Byte /\ Len(s) \in Nat /\ Len(s) > 0
    BY DEF Bytes
  <1>2. s[1] \in Nat /\ Lead(s).len \in Nat /\ (Lead(s).len > 0 => s[1] > 193)
    BY <1>1, ByteIs, LeadFacts DEF Lead
  <1>3. s[1] <= 191
    BY WithinIs, <1>2 DEF Within
  <1>4. Lead(s).len = 0
    BY <1>2, <1>3
  <1>5. ~(Len(s) < Lead(s).len)
    BY <1>1, <1>4
  <1>6. QED BY <1>4, <1>5, CompletableIs

LEMMA FollowsIsContinuation ==
  ASSUME NEW s \in Bytes, NEW k \in 2 .. Len(s), NEW j \in 2 .. k, Together(s, k)
  PROVE  IsContinuation(s[j])
  <1>1. Len(s) \in Nat /\ s[1] \in Byte
    BY DEF Bytes
  <1>2. j - 1 \in 1 .. k - 1 /\ 1 + (j - 1) = j /\ k # 1 /\ j - 1 \in Nat
    BY <1>1
  <1>3. Continues(Lead(s), j - 1, s[1 + (j - 1)])
    BY <1>2 DEF Together
  <1>4. QED BY <1>1, <1>2, <1>3, ContinuesIs DEF Lead

\* The front of c is the front of what begins with c.
LEMMA FrontOfConcat ==
  ASSUME NEW c \in Bytes, NEW x \in Bytes, c # <<>>, Apart(c, x)
  PROVE  /\ c \o x \in Bytes /\ c \o x # <<>>
         /\ Width(c \o x) = Width(c) /\ (Whole(c \o x) <=> Whole(c))
         /\ Piece(c \o x) = Piece(c)
         /\ Rest(c \o x, 1 + Width(c)) = Rest(c, 1 + Width(c)) \o x
  <1> DEFINE s == c \o x
             w == Width(c)
  <1>1. Len(c) \in Nat /\ Len(x) \in Nat /\ Len(c) > 0 /\ c \in Seq(Byte) /\ x \in Seq(Byte)
    BY DEF Bytes
  <1>2. /\ s \in Bytes /\ Len(s) = Len(c) + Len(x)
        /\ \A i \in 1 .. Len(c) + Len(x) : s[i] = IF i <= Len(c) THEN c[i] ELSE x[i - Len(c)]
    BY <1>1, ConcatIs DEF Bytes
  <1>3. w \in 1 .. Len(c) /\ \A k \in 1 .. Len(c) : Together(c, k) <=> k <= w
    BY WidthIs
  <1>4. Rest(s, 1 + w) = Rest(c, 1 + w) \o x
    <2>1. 1 + w \in 1 .. Len(c) + 1
      BY <1>1, <1>3
    <2>2. QED BY <2>1, <1>1, RestOfConcat
  <1> HIDE DEF s, w
  <1>5. \A i \in 1 .. Len(c) : s[i] = c[i]
    BY <1>1, <1>2
  <1>6. s # <<>> /\ s[1] = c[1] /\ Lead(s) = Lead(c)
    <2>1. s[1] = c[1]
      BY <1>1, <1>5
    <2>2. s # <<>>
      BY <1>1, <1>2
    <2>3. QED BY <2>1, <2>2 DEF Lead
  <1>7. ASSUME NEW k \in 1 .. Len(c)
        PROVE  Together(s, k) <=> Together(c, k)
    <2>1. \A j \in 1 .. k - 1 : s[1 + j] = c[1 + j]
      BY <1>1, <1>5
    <2>2. QED BY <2>1, <1>6 DEF Together
  <1>8. w \in 1 .. Len(s) /\ Together(s, w)
    BY <1>1, <1>2, <1>3, <1>7
  <1>9. w = Len(s) \/ ~Together(s, w + 1)
    <2>1. CASE w < Len(c)
      <3>1. w + 1 \in 1 .. Len(c) /\ ~(w + 1 <= w)
        BY <2>1, <1>1, <1>3
      <3>2. QED BY <3>1, <1>3, <1>7
    <2>2. CASE w = Len(c) /\ x = <<>>
      BY <2>2, <1>2, <1>1
    <2>3. CASE w = Len(c) /\ x # <<>>
      <3>1. SUFFICES ASSUME Together(s, w + 1) PROVE FALSE
        OBVIOUS
      <3>2. w + 1 \in 2 .. Len(s) /\ w + 1 \in 2 .. w + 1 /\ w + 1 \in 1 .. Len(c) + Len(x)
        <4>1. Len(x) > 0
          BY <1>1, <2>3
        <4>2. QED BY <4>1, <1>1, <1>2, <2>3
      <3>3. IsContinuation(s[w + 1])
        BY <3>1, <3>2, <1>2, FollowsIsContinuation
      <3>4. s[w + 1] = x[1]
        <4>1. ~(w + 1 <= Len(c)) /\ (w + 1) - Len(c) = 1
          BY <1>1, <2>3
        <4> DEFINE k == w + 1
        <4> HIDE DEF k
        <4>2. k \in 1 .. Len(c) + Len(x) /\ ~(k <= Len(c)) /\ k - Len(c) = 1
          BY <3>2, <4>1 DEF k
        <4>3. s[k] = IF k <= Len(c) THEN c[k] ELSE x[k - Len(c)]
          BY <4>2, <1>2
        <4>4. QED BY <4>2, <4>3 DEF k
      <3>5. Closed(c)
        BY <3>3, <3>4, <2>3 DEF Apart
      <3>6. ~CanBeCompleted(c)
        <4>1. 1 \in 1 .. Len(c) /\ Rest(c, 1) = c
          BY <1>1, RestAll
        <4>2. QED BY <3>5, <4>1 DEF Closed
      <3>7. Together(c, Len(c))
        BY <1>1, <1>3, <2>3
      <3>8. w + 1 <= Lead(c).len
        <4>1. w + 1 # 1
          BY <1>1, <2>3
        <4>2. QED BY <4>1, <3>1, <1>6 DEF Together
      <3>9. Len(c) < Lead(c).len
        <4>1. Lead(c).len \in Nat
          <5>1. c[1] \in Byte
            BY <1>1
          <5>2. QED BY <5>1, LeadFacts DEF Lead
        <4>2. QED BY <4>1, <3>8, <1>1, <2>3
      <3>10. QED BY <3>6, <3>7, <3>9, CompletableIs
    <2>4. w < Len(c) \/ w = Len(c)
      BY <1>1, <1>3
    <2>5. QED BY <2>1, <2>2, <2>3, <2>4
  <1>10. Width(s) = w
    BY <1>2, <1>6, <1>8, <1>9, WidthIsThat
  <1>11. Whole(s) <=> Whole(c)
    BY <1>6, <1>10 DEF Whole, w
  <1>12. Upto(s, w) = Upto(c, w)
    <2>1. /\ Upto(s, w) \in Bytes /\ Len(Upto(s, w)) = w
          /\ \A i \in 1 .. w : Upto(s, w)[i] = s[i]
      BY <1>2, <1>8, UptoIs
    <2>2. /\ Upto(c, w) \in Bytes /\ Len(Upto(c, w)) = w
          /\ \A i \in 1 .. w : Upto(c, w)[i] = c[i]
      BY <1>3, UptoIs
    <2>3. \A i \in 1 .. w : i \in 1 .. Len(c)
      BY <1>1, <1>3
    <2> DEFINE a == Upto(s, w)
               b == Upto(c, w)
    <2> HIDE DEF a, b
    <2>4. Len(a) = Len(b) /\ a \in Seq(Byte) /\ b \in Seq(Byte)
      BY <2>1, <2>2 DEF a, b, Bytes
    <2>5. \A i \in 1 .. Len(a) : a[i] = b[i]
      BY <2>1, <2>2, <2>3, <1>5 DEF a, b
    <2>6. a = b
      BY <2>4, <2>5, SeqEqual
    <2>7. QED BY <2>6 DEF a, b
  <1>13. Piece(s) = Piece(c)
    <2>1. Piece(s) = IF Whole(s) THEN Upto(s, Width(s)) ELSE Replacement
      BY <1>2, <1>6, PieceIs
    <2>2. Piece(c) = IF Whole(c) THEN Upto(c, w) ELSE Replacement
      BY PieceIs DEF w
    <2>3. QED BY <2>1, <2>2, <1>10, <1>11, <1>12
  <1>14. QED BY <1>2, <1>4, <1>6, <1>10, <1>11, <1>13 DEF s, w

LEMMA ClosedRest ==
  ASSUME NEW c \in Bytes, NEW i \in 1 .. Len(c) + 1, Closed(c)
  PROVE  Closed(Rest(c, i))
  <1> DEFINE r == Rest(c, i)
  <1>1. Len(c) \in Nat /\ c \in Seq(Byte)
    BY DEF Bytes
  <1>2. r \in Seq(Byte) /\ Len(r) = Len(c) - i + 1
    BY <1>1, RestIs
  <1>3. ASSUME NEW j \in 1 .. Len(r) PROVE ~CanBeCompleted(Rest(r, j))
    <2>1. j \in 1 .. Len(c) - i + 2
      <3> HIDE DEF r
      <3>1. QED BY <1>1, <1>2
    <2>2. Rest(r, j) = Rest(c, i + j - 1)
      BY <1>1, <2>1, RestOfRest
    <2>3. i + j - 1 \in 1 .. Len(c)
      <3> HIDE DEF r
      <3>1. QED BY <1>1, <1>2
    <2>4. QED BY <2>2, <2>3 DEF Closed
  <1>4. QED BY <1>3 DEF Closed

\* The texts of two parts are the text of both, when no character begins in the first and
\* ends in the second.
LEMMA Joined ==
  ASSUME NEW c \in Bytes, NEW x \in Bytes, Apart(c, x)
  PROVE  /\ Reading(c \o x) = Reading(c) \o Reading(x)
         /\ Sound(c \o x) <=> Sound(c) /\ Sound(x)
  <1> DEFINE P == {s \in Bytes : Apart(s, x) =>
                     /\ Reading(s \o x) = Reading(s) \o Reading(x)
                     /\ Sound(s \o x) <=> Sound(s) /\ Sound(x)}
  <1>1. ASSUME NEW s \in Bytes, \A r \in Bytes : Len(r) < Len(s) => r \in P, Apart(s, x)
        PROVE  /\ Reading(s \o x) = Reading(s) \o Reading(x)
               /\ Sound(s \o x) <=> Sound(s) /\ Sound(x)
    <2>1. CASE s = <<>>
      <3>1. s \o x = x
        BY <2>1 DEF Bytes
      <3>2. Reading(s) = <<>> /\ Sound(s) /\ Reading(x) \in Bytes
        BY <2>1, ReadingIs, SoundIs
      <3>3. Reading(s) \o Reading(x) = Reading(x)
        BY <3>2 DEF Bytes
      <3>4. QED BY <3>1, <3>2, <3>3
    <2>2. CASE s # <<>>
      <3> DEFINE t == s \o x
                 w == Width(s)
                 r == Rest(s, 1 + w)
      <3>1. /\ t \in Bytes /\ t # <<>> /\ Width(t) = w /\ (Whole(t) <=> Whole(s))
            /\ Piece(t) = Piece(s) /\ Rest(t, 1 + w) = r \o x
        BY <1>1, <2>2, FrontOfConcat
      <3>2. w \in 1 .. Len(s) /\ Len(s) \in Nat
        BY <2>2, WidthIs DEF Bytes
      <3>3. 1 + w \in 1 .. Len(s) + 1
        <4> HIDE DEF w
        <4>1. QED BY <3>2
      <3>4. r \in Bytes /\ Len(r) = Len(s) - (1 + w) + 1
        BY <3>3, RestIs DEF Bytes
      <3>5. Len(r) < Len(s)
        <4> HIDE DEF w, r
        <4>1. QED BY <3>2, <3>4
      <3>6. Apart(r, x)
        <4>1. Closed(s) => Closed(r)
          BY <3>3, ClosedRest
        <4>2. QED BY <4>1, <1>1 DEF Apart
      <3> HIDE DEF r, w, t
      <3>7. Reading(r \o x) = Reading(r) \o Reading(x) /\ (Sound(r \o x) <=> Sound(r) /\ Sound(x))
        BY <1>1, <3>4, <3>5, <3>6
      <3>8. /\ Reading(t) = Piece(s) \o Reading(r \o x)
            /\ Sound(t) <=> Whole(s) /\ Sound(r \o x)
        <4>1. /\ Reading(t) = Piece(t) \o Reading(Rest(t, 1 + Width(t)))
              /\ Sound(t) <=> Whole(t) /\ Sound(Rest(t, 1 + Width(t)))
          BY <3>1, ReadingIs, SoundIs
        <4>2. Rest(t, 1 + Width(t)) = r \o x
          BY <3>1
        <4>3. QED BY <4>1, <4>2, <3>1
      <3>9. /\ Reading(s) = Piece(s) \o Reading(r)
            /\ Sound(s) <=> Whole(s) /\ Sound(r)
        BY <2>2, ReadingIs, SoundIs DEF r, w
      <3>10. /\ Piece(s) \in Bytes /\ Reading(r) \in Bytes /\ Reading(x) \in Bytes
        BY <2>2, <3>4, PieceIs, ReadingIs
      <3>11. Piece(s) \o (Reading(r) \o Reading(x)) = (Piece(s) \o Reading(r)) \o Reading(x)
        BY ONLY <3>10, BytesConcat
      <3>12. QED BY <3>7, <3>8, <3>9, <3>11 DEF t
    <2>3. QED BY <2>1, <2>2
  <1>2. \A s \in Bytes : (\A r \in Bytes : Len(r) < Len(s) => r \in P) => s \in P
    BY <1>1
  <1>3. \A s \in Bytes : s \in P
    <2> HIDE DEF P
    <2>1. QED BY <1>2, ByLength
  <1>4. QED BY <1>3

\* A sound text waits for nothing, and its first byte continues nothing.
LEMMA SoundIsClosed ==
  ASSUME NEW c \in Bytes, Sound(c)
  PROVE  Closed(c) /\ (c # <<>> => ~IsContinuation(c[1]))
  <1> DEFINE P == {s \in Bytes : Sound(s) => Closed(s)}
  <1>1. ASSUME NEW s \in Bytes, s # <<>>, Sound(s)
        PROVE  /\ ~IsContinuation(s[1]) /\ ~CanBeCompleted(s)
               /\ Sound(Rest(s, 1 + Width(s)))
    <2>1. Whole(s) /\ Sound(Rest(s, 1 + Width(s)))
      BY <1>1, SoundIs
    <2>2. Width(s) \in 1 .. Len(s) /\ Len(s) \in Nat /\ s[1] \in Byte
      BY <1>1, WidthIs DEF Bytes
    <2>3. s[1] \in Nat /\ Lead(s).len \in Nat
      BY <2>2, ByteIs, LeadFacts DEF Lead
    <2>4. s[1] < 128 => Lead(s).len = 0
      BY <1>1, WidthOne
    <2>5. ~CanBeCompleted(s)
      <3>1. ~(Len(s) < Lead(s).len)
        <4>1. Lead(s).len = 0 \/ Lead(s).len = Width(s)
          BY <2>1, <2>4 DEF Whole
        <4> DEFINE w == Width(s)
                   n == Lead(s).len
        <4> HIDE DEF w, n
        <4>2. (n = 0 \/ n = w) /\ w \in 1 .. Len(s)
          BY <4>1, <2>2 DEF n, w
        <4>3. ~(Len(s) < n)
          BY <4>2, <2>2
        <4>4. QED BY <4>3 DEF n
      <3>2. QED BY <1>1, <3>1, CompletableIs
    <2>6. ~IsContinuation(s[1])
      <3>1. SUFFICES ASSUME IsContinuation(s[1]) PROVE FALSE
        OBVIOUS
      <3>2. Lead(s).len = 0
        BY <1>1, <3>1, ContinuationIsNoLead
      <3>3. s[1] >= 128
        BY <3>1, <2>3, WithinIs DEF Within
      <3>4. Lead(s).len # Width(s)
        BY <3>2, <2>2
      <3>5. QED BY <2>1, <2>3, <3>3, <3>4 DEF Whole
    <2>7. QED BY <2>1, <2>5, <2>6
  <1>2. ASSUME NEW s \in Bytes, \A r \in Bytes : Len(r) < Len(s) => r \in P, Sound(s)
        PROVE  Closed(s)
    <2> SUFFICES ASSUME NEW i \in 1 .. Len(s) PROVE ~CanBeCompleted(Rest(s, i))
      BY DEF Closed
    <2>1. Len(s) \in Nat /\ s # <<>> /\ s \in Seq(Byte)
      BY DEF Bytes
    <2> DEFINE w == Width(s)
               r == Rest(s, 1 + w)
    <2>2. w \in 1 .. Len(s) /\ Together(s, w)
      BY <2>1, WidthIs
    <2>3. CASE i = 1
      BY <2>1, <2>3, <1>1, <1>2, RestAll
    <2>4. CASE i > 1 /\ i <= w
      <3>1. w \in 2 .. Len(s) /\ i \in 2 .. w
        <4> HIDE DEF w
        <4>1. QED BY <2>1, <2>2, <2>4
      <3>2. IsContinuation(s[i])
        BY <3>1, <2>2, FollowsIsContinuation
      <3>3. Rest(s, i) \in Bytes /\ Rest(s, i) # <<>> /\ Rest(s, i)[1] = s[i]
        BY NextPosition
      <3>4. QED BY <3>2, <3>3, ContinuationIsNoLead
    <2>5. CASE i > w
      <3>1. 1 + w \in 1 .. Len(s) + 1
        <4> HIDE DEF w
        <4>1. QED BY <2>1, <2>2
      <3>2. r \in Bytes /\ Len(r) = Len(s) - (1 + w) + 1
        BY <3>1, RestIs DEF Bytes
      <3>3. Len(r) < Len(s)
        <4> HIDE DEF w, r
        <4>1. QED BY <2>1, <2>2, <3>2
      <3>4. Sound(r)
        BY <1>1, <1>2, <2>1
      <3>5. Closed(r)
        <4> HIDE DEF r
        <4>1. QED BY <1>2, <3>2, <3>3, <3>4
      <3> DEFINE j == i - w
      <3>6. j \in 1 .. Len(s) - (1 + w) + 2 /\ j \in 1 .. Len(r) /\ (1 + w) + j - 1 = i
        <4> HIDE DEF w, r
        <4>1. QED BY <2>1, <2>2, <2>5, <3>2
      <3> HIDE DEF j
      <3>7. Rest(r, j) = Rest(s, i)
        <4>1. Rest(r, j) = Rest(s, (1 + w) + j - 1)
          BY <3>1, <3>6, <2>1, RestOfRest
        <4>2. QED BY <4>1, <3>6
      <3>8. QED BY <3>5, <3>6, <3>7 DEF Closed
    <2>6. i = 1 \/ (i > 1 /\ i <= w) \/ i > w
      <3> HIDE DEF w
      <3>1. QED BY <2>1, <2>2
    <2>7. QED BY <2>3, <2>4, <2>5, <2>6
  <1>3. \A s \in Bytes : (\A r \in Bytes : Len(r) < Len(s) => r \in P) => s \in P
    BY <1>2
  <1>4. \A s \in Bytes : s \in P
    <2> HIDE DEF P
    <2>1. QED BY <1>3, ByLength
  <1>5. QED BY <1>1, <1>4

LEMMA ReplacementIs ==
  /\ Replacement \in Bytes /\ Len(Replacement) = 3 /\ Replacement # <<>>
  /\ Width(Replacement) = 3 /\ Whole(Replacement)
  <1> DEFINE r == Replacement
  <1>1. r[1] = 239 /\ r[2] = 191 /\ r[3] = 189 /\ Len(r) = 3 /\ r # <<>>
    BY DEF Replacement
  <1>2. 239 \in Byte /\ 191 \in Byte /\ 189 \in Byte
    BY DEF Byte
  <1>3. r \in Bytes
    BY <1>2 DEF Replacement, Bytes
  <1> HIDE DEF r
  <1>4. Lead(r).len = 3 /\ Lead(r).lo = 128 /\ Lead(r).hi = 191
    <2>1. LeadTable(239, Lead(r))
      BY <1>1, <1>2, LeadIs DEF Lead
    <2>2. QED BY <2>1 DEF LeadTable
  <1>5. Continues(Lead(r), 1, r[1 + 1]) /\ Continues(Lead(r), 2, r[1 + 2])
    BY <1>1, <1>4 DEF Continues, IsContinuation
  <1>6. Together(r, 3)
    <2>1. \A j \in 1 .. 3 - 1 : j = 1 \/ j = 2
      OBVIOUS
    <2>2. QED BY <2>1, <1>4, <1>5 DEF Together
  <1>7. Width(r) = 3
    <2>1. Len(r) \in 1 .. Len(r) /\ Together(r, Len(r)) /\ r # <<>>
      BY <1>1, <1>6
    <2>2. Width(r) = Len(r)
      BY <2>1, <1>3, WidthIsThat
    <2>3. QED BY <2>2, <1>1
  <1>8. Whole(r)
    BY <1>4, <1>7 DEF Whole
  <1>9. QED BY <1>1, <1>3, <1>7, <1>8 DEF r

\* A piece is a sound text.
LEMMA PieceIsSound ==
  ASSUME NEW s \in Bytes, s # <<>>
  PROVE  Sound(Piece(s))
  <1>1. ASSUME NEW u \in Bytes, u # <<>>, Width(u) = Len(u), Whole(u)
        PROVE  Sound(u)
    <2>1. Rest(u, 1 + Width(u)) = <<>>
      <3>1. Len(u) \in Nat /\ 1 + Len(u) \in 1 .. Len(u) + 1
        BY DEF Bytes
      <3>2. Rest(u, 1 + Len(u)) \in Bytes /\ Len(Rest(u, 1 + Len(u))) = Len(u) - (1 + Len(u)) + 1
        BY <3>1, RestIs DEF Bytes
      <3> DEFINE e == Rest(u, 1 + Len(u))
      <3> HIDE DEF e
      <3>3. e \in Bytes /\ Len(e) = 0
        BY <3>1, <3>2 DEF e
      <3>4. e = <<>>
        BY <3>3 DEF Bytes
      <3>5. QED BY <3>4, <1>1 DEF e
    <2>2. <<>> \in Bytes
      BY DEF Bytes
    <2>3. Sound(<<>>)
      BY <2>2, SoundIs
    <2>4. QED BY <1>1, <2>1, <2>3, SoundIs
  <1> DEFINE w == Width(s)
             u == Upto(s, w)
  <1>2. w \in 1 .. Len(s) /\ Together(s, w)
    <2>1. /\ w \in 1 .. Len(s)
          /\ \A k \in 1 .. Len(s) : Together(s, k) <=> k <= Width(s)
      BY WidthIs
    <2>2. w <= Width(s)
      BY <2>1
    <2> HIDE DEF w
    <2>3. QED BY <2>1, <2>2
  <1>3. CASE Whole(s)
    <2>1. /\ u \in Bytes /\ u # <<>> /\ Len(u) = w /\ Lead(u) = Lead(s)
          /\ \A i \in 1 .. w : u[i] = s[i]
          /\ \A j \in 1 .. w : Together(u, j) <=> Together(s, j)
      BY <1>2, UptoIs
    <2> HIDE DEF u
    <2>2. w \in 1 .. Len(u) /\ w \in 1 .. w /\ 1 \in 1 .. w
      BY <1>2, <2>1
    <2>3. Width(u) = w
      <3>1. Together(u, w) /\ w = Len(u)
        BY <2>1, <2>2, <1>2
      <3> HIDE DEF w
      <3>2. QED BY <2>1, <2>2, <3>1, WidthIsThat
    <2>4. u[1] = s[1]
      BY <2>1, <2>2
    <2>5. Whole(u)
      BY <1>3, <2>1, <2>3, <2>4 DEF Whole
    <2>6. Sound(u)
      BY <1>1, <2>1, <2>3, <2>5
    <2>7. Piece(s) = u
      BY <1>3, PieceIs DEF u
    <2>8. QED BY <2>6, <2>7
  <1>4. CASE ~Whole(s)
    BY <1>1, <1>4, PieceIs, ReplacementIs
  <1>5. QED BY <1>3, <1>4

\* The text of any bytes is well-formed.
LEMMA ReadingIsSound ==
  ASSUME NEW t \in Bytes
  PROVE  Sound(Reading(t))
  <1> DEFINE P == {s \in Bytes : Sound(Reading(s))}
  <1>1. ASSUME NEW s \in Bytes, \A r \in Bytes : Len(r) < Len(s) => r \in P
        PROVE  s \in P
    <2>1. CASE s = <<>>
      BY <2>1, ReadingIs, SoundIs
    <2>2. CASE s # <<>>
      <3> DEFINE w == Width(s)
                 r == Rest(s, 1 + w)
      <3>1. w \in 1 .. Len(s) /\ Len(s) \in Nat
        BY <2>2, WidthIs DEF Bytes
      <3>2. 1 + w \in 1 .. Len(s) + 1
        <4> HIDE DEF w
        <4>1. QED BY <3>1
      <3>3. r \in Bytes /\ Len(r) = Len(s) - (1 + w) + 1
        BY <3>2, RestIs DEF Bytes
      <3>4. Len(r) < Len(s)
        <4> HIDE DEF w, r
        <4>1. QED BY <3>1, <3>3
      <3>5. Reading(s) = Piece(s) \o Reading(r)
        BY <2>2, ReadingIs
      <3> HIDE DEF r, w
      <3>6. Sound(Reading(r)) /\ Reading(r) \in Bytes
        BY <1>1, <3>3, <3>4, ReadingIs
      <3>7. Sound(Piece(s)) /\ Piece(s) \in Bytes
        BY <2>2, PieceIsSound, PieceIs
      <3>8. Apart(Piece(s), Reading(r))
        BY <3>7, SoundIsClosed DEF Apart
      <3>9. Sound(Piece(s) \o Reading(r))
        BY <3>6, <3>7, <3>8, Joined
      <3>10. QED BY <3>5, <3>9
    <2>3. QED BY <2>1, <2>2
  <1>2. \A s \in Bytes : s \in P
    <2> HIDE DEF P
    <2>1. QED BY <1>1, ByLength
  <1>3. QED BY <1>2

\* What waits for nothing does so behind what is apart from it.
LEMMA ClosedConcat ==
  ASSUME NEW c \in Bytes, NEW x \in Bytes, x # <<>>, Apart(c, x), Closed(x)
  PROVE  Closed(c \o x)
  <1> DEFINE s == c \o x
  <1>1. Len(c) \in Nat /\ Len(x) \in Nat /\ Len(x) > 0 /\ c \in Seq(Byte) /\ x \in Seq(Byte)
    BY DEF Bytes
  <1>2. s \in Bytes /\ Len(s) = Len(c) + Len(x)
    BY <1>1, ConcatIs DEF Bytes
  <1>3. ASSUME NEW i \in 1 .. Len(s) PROVE ~CanBeCompleted(Rest(s, i))
    <2>1. CASE i > Len(c)
      <3> DEFINE j == i - Len(c)
      <3>1. j \in 1 .. Len(x) /\ Len(c) + 1 \in 1 .. Len(s) + 1
            /\ j \in 1 .. Len(s) - (Len(c) + 1) + 2 /\ (Len(c) + 1) + j - 1 = i
        <4> HIDE DEF s
        <4>1. QED BY <1>1, <1>2, <2>1
      <3>2. Rest(s, Len(c) + 1) = x
        BY <1>1, RestOfConcat
      <3> HIDE DEF s, j
      <3>3. Rest(Rest(s, Len(c) + 1), j) = Rest(s, (Len(c) + 1) + j - 1)
        BY <1>2, <3>1, RestOfRest DEF Bytes
      <3>4. Rest(x, j) = Rest(s, i)
        BY <3>1, <3>2, <3>3
      <3>5. QED BY <3>1, <3>4 DEF Closed
    <2>2. CASE i <= Len(c)
      <3> DEFINE r == Rest(c, i)
      <3>1. i \in 1 .. Len(c) + 1 /\ i \in 1 .. Len(c)
        BY <1>1, <2>2
      <3>2. r \in Bytes /\ r # <<>>
        BY <3>1, NextPosition
      <3>3. Rest(s, i) = r \o x
        BY <1>1, <3>1, RestOfConcat
      <3>4. Apart(r, x)
        BY <3>1, ClosedRest DEF Apart
      <3> HIDE DEF r, s
      <3>5. r \o x \in Bytes /\ r \o x # <<>> /\ Width(r \o x) = Width(r)
        BY <3>2, <3>4, FrontOfConcat
      <3>6. Width(r) \in 1 .. Len(r) /\ Len(r) \in Nat /\ Len(r \o x) = Len(r) + Len(x)
        BY <3>2, WidthIs, ConcatIs DEF Bytes
      <3>7. Len(r \o x) \in 1 .. Len(r \o x) /\ ~(Len(r \o x) <= Width(r \o x))
        <4> DEFINE w == Width(r)
                   u == r \o x
        <4>1. w \in 1 .. Len(r) /\ Len(u) = Len(r) + Len(x) /\ Width(u) = w
          BY <3>5, <3>6
        <4> HIDE DEF w, u
        <4>2. Len(u) \in 1 .. Len(u) /\ ~(Len(u) <= Width(u))
          BY <4>1, <1>1, <3>6
        <4>3. QED BY <4>2 DEF u
      <3>8. ~Together(r \o x, Len(r \o x))
        BY <3>5, <3>7, WidthIs
      <3>9. ~CanBeCompleted(r \o x)
        BY <3>5, <3>8, CompletableIs
      <3>10. QED BY <3>3, <3>9
    <2>3. i > Len(c) \/ i <= Len(c)
      BY <1>1
    <2>4. QED BY <2>1, <2>2, <2>3
  <1>4. QED BY <1>3 DEF Closed

-----------------------------------------------------------------------------
(* The gate                                                                *)

\* The gate keeps what later bytes can complete, and keeps something whenever there is.
LEMMA SuffixIs ==
  ASSUME NEW t \in Bytes, NEW k, k = utf8_incomplete_suffix_length(t)
  PROVE  /\ k \in 0 .. Len(t)
         /\ k = 0 => Closed(t)
         /\ k # 0 => CanBeCompleted(Rest(t, Len(t) - k + 1))
  <1> DEFINE n == Len(t)
             leads == {b \in 1 .. Min({3, n}) : ~IsContinuation(t[n - b + 1])}
             back == Min(leads)
             lead == utf8_lead_info(t[n - back + 1])
             Fits == /\ leads # {} /\ lead.len > back
                     /\ \A i \in 1 .. back - 1 : Continues(lead, i, t[n - back + 1 + i])
  <1>1. k = IF Fits THEN back ELSE 0
    BY DEF utf8_incomplete_suffix_length
  <1>2. n \in Nat
    BY DEF Bytes
  <1>3. \A b \in leads : /\ b \in 1 .. n /\ b <= 3 /\ ~IsContinuation(t[n - b + 1])
    <2>1. Min({3, n}) \in Nat /\ Min({3, n}) <= 3 /\ Min({3, n}) <= n
      <3>1. 3 \in Nat
        OBVIOUS
      <3> HIDE DEF n
      <3>2. QED BY <3>1, <1>2, MinOfTwo
    <2> DEFINE most == Min({3, n})
    <2> HIDE DEF most, n
    <2>2. \A b \in 1 .. most : b \in 1 .. n /\ b <= 3
      BY <2>1, <1>2 DEF most
    <2>3. QED BY <2>2 DEF most
  <1>4. \A b \in 1 .. n : b <= 3 /\ ~IsContinuation(t[n - b + 1]) => b \in leads
    <2>1. Min({3, n}) = 3 \/ Min({3, n}) = n
      <3>1. 3 \in Nat
        OBVIOUS
      <3> HIDE DEF n
      <3>2. QED BY <3>1, <1>2, MinOfTwo
    <2> DEFINE most == Min({3, n})
    <2>2. most = 3 \/ most = n
      BY <2>1
    <2> HIDE DEF most, n
    <2>3. \A b \in 1 .. n : b <= 3 => b \in 1 .. most
      BY <2>2, <1>2
    <2>4. QED BY <2>3 DEF most
  <1>5. leads \in SUBSET Nat
    <2> HIDE DEF leads, n
    <2>1. QED BY <1>3
  <1>6. leads # {} => back \in leads /\ \A b \in leads : back <= b
    <2> HIDE DEF leads
    <2>1. QED BY <1>5, MinIs
  <1>7. ASSUME NEW m \in 1 .. n
        PROVE  LET r == Rest(t, n - m + 1) IN
               /\ r \in Bytes /\ r # <<>> /\ Len(r) = m
               /\ \A j \in 1 .. m : r[j] = t[n - m + j]
               /\ Lead(r) = utf8_lead_info(t[n - m + 1])
               /\ Together(r, m) <=>
                    \/ m = 1
                    \/ /\ m <= Lead(r).len
                       /\ \A i \in 1 .. m - 1 : Continues(Lead(r), i, t[n - m + 1 + i])
    <2> DEFINE i0 == n - m + 1
               r == Rest(t, i0)
    <2>1. i0 \in 1 .. n + 1 /\ n - i0 + 1 = m /\ t \in Seq(Byte)
      BY <1>2 DEF Bytes
    <2> HIDE DEF i0
    <2>2. /\ r \in Seq(Byte) /\ Len(r) = n - i0 + 1
          /\ \A j \in 1 .. n - i0 + 1 : r[j] = t[i0 + j - 1]
      BY <2>1, RestIs
    <2> HIDE DEF r
    <2>3. r \in Bytes /\ Len(r) = m /\ r # <<>>
      <3>1. Len(r) = m /\ r \in Bytes
        BY <2>1, <2>2 DEF Bytes
      <3>2. QED BY <3>1, <1>2
    <2>4. ASSUME NEW j \in 1 .. m PROVE r[j] = t[n - m + j]
      <3>1. j \in 1 .. n - i0 + 1 /\ i0 + j - 1 = n - m + j
        BY <2>1, <1>2 DEF i0
      <3>2. r[j] = t[i0 + j - 1]
        BY <3>1, <2>2
      <3>3. QED BY <3>1, <3>2
    <2>5. Lead(r) = utf8_lead_info(t[n - m + 1])
      <3>1. 1 \in 1 .. m
        BY <1>2
      <3>2. r[1] = t[n - m + 1]
        BY <3>1, <2>4
      <3>3. QED BY <3>2 DEF Lead
    <2>6. \A i \in 1 .. m - 1 : r[1 + i] = t[n - m + 1 + i]
      <3>1. \A i \in 1 .. m - 1 : 1 + i \in 1 .. m /\ n - m + (1 + i) = n - m + 1 + i
        BY <1>2
      <3>2. QED BY <3>1, <2>4
    <2>7. Together(r, m) <=>
            \/ m = 1
            \/ /\ m <= Lead(r).len
               /\ \A i \in 1 .. m - 1 : Continues(Lead(r), i, t[n - m + 1 + i])
      BY <2>6 DEF Together
    <2>8. QED BY <2>3, <2>4, <2>5, <2>7 DEF r, i0
  <1>8. \A b \in 1 .. n : utf8_lead_info(t[n - b + 1]).len \in {0, 2, 3, 4}
    <2>1. \A b \in 1 .. n : n - b + 1 \in 1 .. n
      BY <1>2
    <2>2. \A b \in 1 .. n : t[n - b + 1] \in Byte
      BY <2>1 DEF Bytes
    <2>3. QED BY <2>2, LeadFacts
  <1>9. CASE Fits
    <2>1. back \in 1 .. n
      BY <1>3, <1>6, <1>9
    <2> DEFINE r == Rest(t, n - back + 1)
    <2> HIDE DEF n, leads, back
    <2>2. /\ r \in Bytes /\ r # <<>> /\ Len(r) = back /\ Lead(r) = lead
          /\ Together(r, back) <=>
               \/ back = 1
               \/ /\ back <= Lead(r).len
                  /\ \A i \in 1 .. back - 1 : Continues(Lead(r), i, t[n - back + 1 + i])
      BY <1>7, <2>1
    <2> HIDE DEF r
    <2>3. lead.len > back /\ lead.len \in Nat
      BY <1>8, <1>9, <2>1
    <2>4. Len(r) < Lead(r).len /\ back <= Lead(r).len
      <3> HIDE DEF lead
      <3>1. QED BY <2>1, <2>2, <2>3, <1>2
    <2>5. Together(r, Len(r))
      BY <2>2, <2>4, <1>9
    <2>6. CanBeCompleted(r)
      BY <2>2, <2>4, <2>5, CompletableIs
    <2>7. k = back /\ back # 0 /\ back \in 0 .. n
      <3> HIDE DEF Fits
      <3>1. QED BY <1>1, <1>2, <1>9, <2>1
    <2>8. QED BY <2>6, <2>7 DEF r, n
  <1>10. CASE ~Fits
    <2>1. k = 0
      <3> HIDE DEF Fits
      <3>1. QED BY <1>1, <1>10
    <2>2. ASSUME NEW i \in 1 .. n, CanBeCompleted(Rest(t, i)) PROVE FALSE
      <3> DEFINE m == n - i + 1
                 r == Rest(t, n - m + 1)
      <3>1. m \in 1 .. n /\ n - m + 1 = i
        BY <1>2
      <3>2. CanBeCompleted(r)
        BY <2>2, <3>1
      <3> HIDE DEF m
      <3>3. /\ r \in Bytes /\ r # <<>> /\ Len(r) = m
            /\ \A j \in 1 .. m : r[j] = t[n - m + j]
            /\ Lead(r) = utf8_lead_info(t[n - m + 1])
            /\ Together(r, m) <=>
                 \/ m = 1
                 \/ /\ m <= Lead(r).len
                    /\ \A l \in 1 .. m - 1 : Continues(Lead(r), l, t[n - m + 1 + l])
        BY <1>7, <3>1
      <3> HIDE DEF r
      <3>4. m < Lead(r).len /\ Together(r, m)
        BY <3>2, <3>3, CompletableIs
      <3>5. Lead(r).len \in {0, 2, 3, 4}
        BY <3>1, <3>3, <1>8
      <3>6. m <= 3
        <4> DEFINE l == Lead(r).len
        <4>1. m < l /\ l \in {0, 2, 3, 4}
          BY <3>4, <3>5
        <4> HIDE DEF l
        <4>2. QED BY <4>1, <3>1
      <3>7. ~IsContinuation(t[n - m + 1])
        <4>1. ~IsContinuation(r[1])
          BY <3>2, <3>3, ContinuationIsNoLead
        <4>2. 1 \in 1 .. m
          BY <3>1, <1>2
        <4>3. QED BY <4>1, <4>2, <3>3
      <3>8. m \in leads
        <4> HIDE DEF leads, n
        <4>1. QED BY <3>1, <3>6, <3>7, <1>4
      <3>9. back \in leads /\ back <= m
        <4> HIDE DEF leads, back
        <4>1. QED BY <1>6, <3>8
      <3>10. back = m
        <4>1. back \in 1 .. n /\ ~IsContinuation(t[n - back + 1])
          BY <1>3, <3>9
        <4> HIDE DEF back, leads
        <4>2. CASE back < m
          <5>1. m - back + 1 \in 2 .. m /\ m \in 2 .. Len(r) /\ m - back + 1 \in 1 .. m
                /\ n - m + (m - back + 1) = n - back + 1
            BY <1>2, <3>1, <3>3, <4>1, <4>2
          <5>2. IsContinuation(r[m - back + 1])
            BY <3>3, <3>4, <5>1, FollowsIsContinuation
          <5>3. r[m - back + 1] = t[n - m + (m - back + 1)]
            BY <3>3, <5>1
          <5>4. QED BY <4>1, <5>1, <5>2, <5>3
        <4>3. QED BY <4>1, <4>2, <3>1, <3>9, <1>2
      <3>11. Fits
        <4>1. lead = Lead(r) /\ leads # {}
          BY <3>3, <3>8, <3>10
        <4> HIDE DEF back, leads
        <4>2. lead.len > back
          <5> DEFINE l == Lead(r).len
          <5>1. m < l /\ lead.len = l /\ l \in {0, 2, 3, 4}
            BY <3>4, <3>5, <4>1
          <5> HIDE DEF l, lead
          <5>2. QED BY <5>1, <3>1, <3>10
        <4>3. \A l \in 1 .. back - 1 : Continues(lead, l, t[n - back + 1 + l])
          <5>1. CASE m = 1
            <6>1. 1 .. back - 1 = {}
              BY <3>10, <5>1
            <6>2. QED BY <6>1
          <5>2. CASE m # 1
            <6>1. \A l \in 1 .. m - 1 : Continues(Lead(r), l, t[n - m + 1 + l])
              BY <5>2, <3>3, <3>4
            <6> HIDE DEF lead
            <6>2. QED BY <6>1, <3>10, <4>1
          <5>3. QED BY <5>1, <5>2
        <4>4. QED BY <4>1, <4>2, <4>3
      <3>12. QED BY <3>11, <1>10
    <2>3. Closed(t)
      BY <2>2 DEF Closed
    <2>4. 0 \in 0 .. n
      BY <1>2
    <2>5. QED BY <2>1, <2>3, <2>4
  <1>11. QED BY <1>9, <1>10

LEMMA SplitIs ==
  ASSUME NEW s \in Bytes, NEW k \in 0 .. Len(s)
  PROVE  /\ SubSeq(s, 1, k) \in Bytes /\ Len(SubSeq(s, 1, k)) = k
         /\ SubSeq(s, k + 1, Len(s)) \in Bytes
         /\ Len(SubSeq(s, k + 1, Len(s))) = Len(s) - k
         /\ s = SubSeq(s, 1, k) \o SubSeq(s, k + 1, Len(s))
         /\ \A i \in 1 .. k : SubSeq(s, 1, k)[i] = s[i]
         /\ \A i \in 1 .. Len(s) - k : SubSeq(s, k + 1, Len(s))[i] = s[k + i]
  <1> DEFINE a == SubSeq(s, 1, k)
             b == SubSeq(s, k + 1, Len(s))
  <1>1. Len(s) \in Nat /\ s \in Seq(Byte)
    BY DEF Bytes
  <1>2. a \in Seq(Byte) /\ Len(a) = k - 1 + 1 /\ \A i \in 1 .. k - 1 + 1 : a[i] = s[1 + i - 1]
    <2>1. 1 \in 1 .. Len(s) + 1 /\ k \in 0 .. Len(s) /\ 1 <= k + 1
      BY <1>1
    <2>2. QED BY <1>1, <2>1, SubSeqIs
  <1>3. /\ b \in Seq(Byte) /\ Len(b) = Len(s) - (k + 1) + 1
        /\ \A i \in 1 .. Len(s) - (k + 1) + 1 : b[i] = s[(k + 1) + i - 1]
    <2>1. k + 1 \in 1 .. Len(s) + 1 /\ Len(s) \in 0 .. Len(s) /\ k + 1 <= Len(s) + 1
      BY <1>1
    <2>2. QED BY <1>1, <2>1, SubSeqIs
  <1> HIDE DEF a, b
  <1>4. Len(a) = k /\ Len(b) = Len(s) - k
    BY <1>1, <1>2, <1>3
  <1>5. \A i \in 1 .. k : a[i] = s[i]
    <2>1. \A i \in 1 .. k : i \in 1 .. k - 1 + 1 /\ 1 + i - 1 = i
      OBVIOUS
    <2>2. QED BY <2>1, <1>2
  <1>6. \A i \in 1 .. Len(s) - k : b[i] = s[k + i]
    <2>1. \A i \in 1 .. Len(s) - k : i \in 1 .. Len(s) - (k + 1) + 1 /\ (k + 1) + i - 1 = k + i
      BY <1>1
    <2>2. QED BY <2>1, <1>3
  <1>7. /\ a \o b \in Seq(Byte) /\ Len(a \o b) = Len(a) + Len(b)
        /\ \A i \in 1 .. Len(a) + Len(b) :
             (a \o b)[i] = IF i <= Len(a) THEN a[i] ELSE b[i - Len(a)]
    BY <1>2, <1>3, ConcatIs
  <1> DEFINE c == a \o b
  <1> HIDE DEF c
  <1>8. Len(s) = Len(c) /\ c \in Seq(Byte)
    BY <1>1, <1>4, <1>7 DEF c
  <1>9. ASSUME NEW i \in 1 .. Len(s) PROVE s[i] = c[i]
    <2>1. i \in 1 .. Len(a) + Len(b)
      BY <1>4, <1>1
    <2>2. c[i] = IF i <= Len(a) THEN a[i] ELSE b[i - Len(a)]
      BY <2>1, <1>7 DEF c
    <2>3. CASE i <= k
      <3>1. i \in 1 .. k
        BY <2>3
      <3>2. QED BY <2>2, <2>3, <3>1, <1>4, <1>5
    <2>4. CASE i > k
      <3>1. i - k \in 1 .. Len(s) - k /\ k + (i - k) = i /\ ~(i <= k)
        BY <2>4, <1>1
      <3>2. QED BY <2>2, <3>1, <1>4, <1>6
    <2>5. QED BY <2>3, <2>4
  <1>10. s = c
    BY <1>1, <1>8, <1>9, SeqEqual
  <1>11. QED BY <1>2, <1>3, <1>4, <1>5, <1>6, <1>10 DEF a, b, c, Bytes

\* The beginning of what begins with s.
LEMMA BeginningOfConcat ==
  ASSUME NEW s \in Bytes, NEW x \in Bytes, NEW k \in 0 .. Len(s)
  PROVE  SubSeq(s \o x, 1, k) = SubSeq(s, 1, k)
  <1> DEFINE t == s \o x
  <1>1. /\ t \in Bytes /\ Len(t) = Len(s) + Len(x) /\ Len(s) \in Nat /\ Len(x) \in Nat
        /\ \A i \in 1 .. Len(s) + Len(x) : t[i] = IF i <= Len(s) THEN s[i] ELSE x[i - Len(s)]
    BY ConcatIs DEF Bytes
  <1> HIDE DEF t
  <1>2. k \in 0 .. Len(t)
    BY <1>1
  <1> DEFINE a == SubSeq(t, 1, k)
             b == SubSeq(s, 1, k)
  <1>3. a \in Bytes /\ Len(a) = k /\ \A i \in 1 .. k : a[i] = t[i]
    BY <1>1, <1>2, SplitIs
  <1>4. b \in Bytes /\ Len(b) = k /\ \A i \in 1 .. k : b[i] = s[i]
    BY SplitIs
  <1> HIDE DEF a, b
  <1>5. \A i \in 1 .. k : t[i] = s[i]
    <2>1. \A i \in 1 .. k : i \in 1 .. Len(s) + Len(x) /\ i <= Len(s)
      BY <1>1
    <2>2. QED BY <2>1, <1>1
  <1>6. a = b
    <2>1. a \in Seq(Byte) /\ b \in Seq(Byte) /\ Len(a) = Len(b)
      BY <1>3, <1>4 DEF Bytes
    <2>2. \A i \in 1 .. Len(a) : a[i] = b[i]
      BY <1>3, <1>4, <1>5
    <2>3. QED BY <2>1, <2>2, SeqEqual
  <1>7. QED BY <1>6 DEF a, b, t

LEMMA WholeBeginning ==
  ASSUME NEW s \in Bytes
  PROVE  SubSeq(s, 1, Len(s)) = s
  BY RestAll DEF Bytes, Rest

\* t begins with s.
Begins(s, t) == \E x \in Bytes : t = s \o x

LEMMA BeginsIs ==
  ASSUME NEW s \in Bytes, NEW t, Begins(s, t)
  PROVE  IsPrefix(s, t)
  <1>1. PICK x \in Bytes : t = s \o x
    BY DEF Begins
  <1>2. Len(s) \in Nat /\ Len(x) \in Nat /\ Len(t) = Len(s) + Len(x)
    BY <1>1, ConcatIs DEF Bytes
  <1>3. Len(s) \in 0 .. Len(s) /\ Len(s) <= Len(t)
    BY <1>2
  <1>4. SubSeq(t, 1, Len(s)) = SubSeq(s, 1, Len(s))
    BY <1>1, <1>3, BeginningOfConcat
  <1>5. QED BY <1>3, <1>4 DEF IsPrefix

LEMMA BeginsMore ==
  ASSUME NEW s \in Bytes, NEW t \in Bytes, NEW x \in Bytes, Begins(s, t)
  PROVE  Begins(s, t \o x)
  <1>1. PICK y \in Bytes : t = s \o y
    BY DEF Begins
  <1>2. t \o x = s \o (y \o x) /\ y \o x \in Bytes
    BY ONLY <1>1, BytesConcat, s \in Bytes, x \in Bytes
  <1>3. QED BY <1>2 DEF Begins

-----------------------------------------------------------------------------
(* What a token and the end add to the text                                *)

\* c: the bytes that were let through, p: a token.
LEMMA TokenRead ==
  ASSUME pending \in Bytes, pending # <<>> => CanBeCompleted(pending),
         NEW p \in Bytes, p # <<>>,
         NEW c \in Bytes, pending = <<>> => Closed(c)
  PROVE  LET passed == feed(p) IN
         /\ passed.pending \in Bytes /\ passed.text \in Bytes
         /\ passed.pending # <<>> => CanBeCompleted(passed.pending)
         /\ passed.pending = <<>> => Closed((c \o pending) \o p)
         /\ \E d \in Bytes : /\ d \o passed.pending = (c \o pending) \o p
                             /\ Reading(d) = Reading(c) \o passed.text
  <1> DEFINE all == pending \o p
             k == utf8_incomplete_suffix_length(all)
             ready == Len(all) - k
             front == SubSeq(all, 1, ready)
             held == SubSeq(all, ready + 1, Len(all))
             passed == feed(p)
  <1>1. /\ all \in Bytes /\ Len(all) = Len(pending) + Len(p)
        /\ Len(pending) \in Nat /\ Len(p) \in Nat /\ Len(p) > 0
    BY BytesConcat
  <1>2. passed.text = utf8_sanitize(front) /\ passed.pending = held
    BY DEF feed
  <1> HIDE DEF passed
  <1>3. /\ k \in 0 .. Len(all) /\ (k = 0 => Closed(all))
        /\ k # 0 => CanBeCompleted(Rest(all, Len(all) - k + 1))
    <2> HIDE DEF all
    <2>1. QED BY <1>1, SuffixIs
  <1> HIDE DEF k
  <1>4. ready \in 0 .. Len(all) /\ Len(all) - ready = k
    <2> HIDE DEF all
    <2>1. QED BY <1>1, <1>3
  <1>5. held = Rest(all, Len(all) - k + 1)
    BY DEF Rest
  <1>6. /\ front \in Bytes /\ Len(front) = ready /\ held \in Bytes
        /\ Len(held) = Len(all) - ready /\ all = front \o held
        /\ \A i \in 1 .. ready : front[i] = all[i]
    <2> HIDE DEF all, ready
    <2>1. QED BY <1>1, <1>4, SplitIs
  <1>7. held = <<>> <=> k = 0
    <2>1. Len(held) = k /\ held \in Seq(Byte)
      BY <1>4, <1>6 DEF Bytes
    <2> HIDE DEF held
    <2>2. QED BY <2>1
  <1>8. all # <<>> /\ (all[1] = IF pending = <<>> THEN p[1] ELSE pending[1])
    <2>1. CASE pending = <<>>
      BY <2>1, BytesConcat
    <2>2. CASE pending # <<>>
      <3>1. Len(pending) > 0
        BY <2>2, BytesConcat
      <3>2. 1 \in 1 .. Len(pending) + Len(p) /\ 1 <= Len(pending)
        BY <3>1, <1>1
      <3>3. all[1] = IF 1 <= Len(pending) THEN pending[1] ELSE p[1 - Len(pending)]
        BY <3>2, ConcatIs DEF Bytes
      <3>4. Len(all) > 0
        <4> HIDE DEF all
        <4>1. QED BY <1>1
      <3>5. QED BY <2>2, <3>2, <3>3, <3>4
    <2>3. QED BY <2>1, <2>2
  <1>9. pending # <<>> => ~IsContinuation(all[1])
    BY <1>8, ContinuationIsNoLead
  <1> HIDE DEF all
  <1>10. Apart(c, front) /\ Apart(c, all)
    <2>1. CASE pending = <<>>
      BY <2>1 DEF Apart
    <2>2. CASE pending # <<>>
      <3>1. front # <<>> => front[1] = all[1]
        <4> HIDE DEF ready, front
        <4>1. front # <<>> => Len(front) > 0
          BY <1>6, BytesConcat
        <4>2. front # <<>> => 1 \in 1 .. ready
          BY <4>1, <1>4, <1>6
        <4>3. QED BY <4>2, <1>6
      <3>2. QED BY <2>2, <3>1, <1>9 DEF Apart
    <2>3. QED BY <2>1, <2>2
  <1> HIDE DEF front, held, ready
  <1>11. passed.text = Reading(front) /\ passed.text \in Bytes
    BY <1>2, <1>6, SanitizeIsReading, ReadingIs
  <1>12. Reading(c \o front) = Reading(c) \o passed.text
    BY <1>6, <1>10, <1>11, Joined
  <1>13. (c \o front) \o held = (c \o pending) \o p
    <2>1. (c \o front) \o held = c \o all
      <3>1. front \in Bytes /\ held \in Bytes /\ all = front \o held
        BY <1>6
      <3> HIDE DEF all
      <3>2. QED BY ONLY c \in Bytes, <3>1, BytesConcat
    <2>2. (c \o pending) \o p = c \o all
      BY BytesConcat DEF all
    <2>3. QED BY <2>1, <2>2
  <1>14. held = <<>> => Closed((c \o pending) \o p)
    <2>1. (c \o pending) \o p = c \o all
      BY BytesConcat DEF all
    <2>2. held = <<>> => Closed(all)
      BY <1>3, <1>7
    <2>3. QED BY <2>1, <2>2, <1>1, <1>8, <1>10, ClosedConcat
  <1>15. held # <<>> => CanBeCompleted(held)
    BY <1>3, <1>5, <1>7
  <1>16. c \o front \in Bytes
    BY <1>6, BytesConcat
  <1>17. QED BY <1>2, <1>6, <1>11, <1>12, <1>13, <1>14, <1>15, <1>16 DEF passed

\* The end of a text, with what the gate holds.
LEMMA FinishedIs ==
  ASSUME NEW c \in Bytes, NEW h \in Bytes, h # <<>> => CanBeCompleted(h)
  PROVE  Finished(Reading(c), h) = Reading(c \o h)
  <1>1. Apart(c, h)
    BY ContinuationIsNoLead DEF Apart
  <1>2. QED BY <1>1, Joined, SanitizeIsReading DEF Finished

-----------------------------------------------------------------------------
(* Stop words                                                              *)

\* w is in s behind the first o bytes.
Occurs(w, s, o) == \A j \in 1 .. Len(w) : s[o + j] = w[j]

\* None of the words ends within the first n bytes of s.
Clear(words, s, n) == \A w \in words, o \in Nat : o + Len(w) <= n => ~Occurs(w, s, o)

\* None of the words begins within the first n bytes of s and goes on at their end.
NoneBegun(words, s, n) ==
  \A w \in words : \A j \in 1 .. Len(w) : j <= n => \E l \in 1 .. j : s[n - j + l] # w[l]

LEMMA FoundIs ==
  ASSUME NEW w \in Bytes, NEW s \in Bytes, w # <<>>, NEW from \in Nat, NEW o
  PROVE  o \in Found(w, s, from)
         <=> o \in Nat /\ from <= o /\ o + Len(w) <= Len(s) /\ Occurs(w, s, o)
  <1>1. Len(w) \in Nat /\ Len(w) > 0 /\ Len(s) \in Nat
    BY BytesConcat
  <1>2. ASSUME NEW q \in Nat, q + Len(w) <= Len(s)
        PROVE  SubSeq(s, q + 1, q + Len(w)) = w <=> Occurs(w, s, q)
    <2> DEFINE a == SubSeq(s, q + 1, q + Len(w))
    <2>1. /\ a \in Seq(Byte) /\ Len(a) = (q + Len(w)) - (q + 1) + 1
          /\ \A i \in 1 .. (q + Len(w)) - (q + 1) + 1 : a[i] = s[(q + 1) + i - 1]
      <3>1. /\ q + 1 \in 1 .. Len(s) + 1 /\ q + Len(w) \in 0 .. Len(s)
            /\ q + 1 <= (q + Len(w)) + 1 /\ s \in Seq(Byte)
        BY <1>1, <1>2 DEF Bytes
      <3>2. QED BY <3>1, SubSeqIs
    <2> HIDE DEF a
    <2>2. Len(a) = Len(w)
      BY <2>1, <1>1
    <2>3. \A i \in 1 .. Len(w) : a[i] = s[q + i]
      <3>1. \A i \in 1 .. Len(w) : /\ i \in 1 .. (q + Len(w)) - (q + 1) + 1
                                   /\ (q + 1) + i - 1 = q + i
        BY <1>1
      <3>2. QED BY <3>1, <2>1
    <2>4. Occurs(w, s, q) => a = w
      <3> SUFFICES ASSUME Occurs(w, s, q) PROVE a = w
        OBVIOUS
      <3>1. \A i \in 1 .. Len(a) : a[i] = w[i]
        BY <2>2, <2>3 DEF Occurs
      <3>2. w \in Seq(Byte)
        BY DEF Bytes
      <3>3. QED BY <3>1, <3>2, <2>1, <2>2, SeqEqual
    <2>5. a = w => Occurs(w, s, q)
      BY <2>3 DEF Occurs
    <2>6. QED BY <2>4, <2>5 DEF a
  <1>3. o \in Found(w, s, from)
        <=> o \in from .. Len(s) /\ o + Len(w) <= Len(s) /\ SubSeq(s, o + 1, o + Len(w)) = w
    BY DEF Found
  <1>4. o \in Nat /\ from <= o /\ o + Len(w) <= Len(s) => o \in from .. Len(s)
    BY <1>1
  <1>5. o \in from .. Len(s) => o \in Nat /\ from <= o
    BY <1>1
  <1>6. QED BY <1>2, <1>3, <1>4, <1>5

LEMMA SearchFromIs ==
  ASSUME NEW w \in Bytes, NEW s \in Bytes, NEW size \in Nat
  PROVE  /\ SearchFrom(w, s, size) \in Nat
         /\ \A o \in Nat : o + Len(w) + size >= Len(s) => SearchFrom(w, s, size) <= o
  BY BytesConcat DEF SearchFrom

LEMMA NoneFound ==
  ASSUME NEW words, NEW s \in Bytes, \A w \in words : w \in Bytes /\ w # <<>>,
         Clear(words, s, Len(s))
  PROVE  \A w \in words : Found(w, s, 0) = {}
  <1> SUFFICES ASSUME NEW w \in words, NEW o \in Found(w, s, 0) PROVE FALSE
    OBVIOUS
  <1>1. w \in Bytes /\ w # <<>> /\ 0 \in Nat
    OBVIOUS
  <1>2. o \in Nat /\ o + Len(w) <= Len(s) /\ Occurs(w, s, o)
    BY <1>1, FoundIs
  <1>3. QED BY <1>2 DEF Clear

\* Whether a word ends within the first n bytes depends on these bytes.
LEMMA ClearSame ==
  ASSUME NEW words, NEW s, NEW t, NEW n \in Nat, \A i \in 1 .. n : s[i] = t[i],
         \A w \in words : w \in Bytes, Clear(words, s, n)
  PROVE  Clear(words, t, n)
  <1> SUFFICES ASSUME NEW w \in words, NEW o \in Nat, o + Len(w) <= n, Occurs(w, t, o)
               PROVE  FALSE
    BY DEF Clear
  <1>1. Len(w) \in Nat
    BY BytesConcat
  <1>2. \A j \in 1 .. Len(w) : o + j \in 1 .. n
    BY <1>1
  <1>3. Occurs(w, s, o)
    BY <1>2 DEF Occurs
  <1>4. QED BY <1>3 DEF Clear

LEMMA BegunSame ==
  ASSUME NEW words, NEW s, NEW t, NEW n \in Nat, \A i \in 1 .. n : s[i] = t[i],
         NoneBegun(words, s, n)
  PROVE  NoneBegun(words, t, n)
  <1> SUFFICES ASSUME NEW w \in words, NEW j \in 1 .. Len(w), j <= n
               PROVE  \E l \in 1 .. j : t[n - j + l] # w[l]
    BY DEF NoneBegun
  <1>1. PICK l \in 1 .. j : s[n - j + l] # w[l]
    BY DEF NoneBegun
  <1>2. n - j + l \in 1 .. n
    OBVIOUS
  <1>3. QED BY <1>1, <1>2

\* A search that goes back by a word and the bytes that were added since the last one
\* finds every word, unless it began before the bytes that are searched.
LEMMA SearchFinds ==
  ASSUME NEW s \in Bytes, NEW x \in Bytes, NEW t, t = s \o x,
         NEW sent \in Nat, NEW n \in Nat, sent <= n, n <= Len(s),
         \A w \in case.stop_words : w \in Bytes /\ w # <<>>,
         Clear(case.stop_words, s, n), NoneBegun(case.stop_words, s, sent),
         NEW size \in Nat, Len(t) - n <= size,
         NEW w \in case.stop_words, NEW o \in Nat, o + Len(w) <= Len(t), Occurs(w, t, o)
  PROVE  o - sent \in FullStops(SubSeq(t, sent + 1, Len(t)), size)
  <1>1. /\ t \in Bytes /\ Len(t) = Len(s) + Len(x) /\ Len(s) \in Nat /\ Len(x) \in Nat
        /\ \A i \in 1 .. Len(s) + Len(x) : t[i] = IF i <= Len(s) THEN s[i] ELSE x[i - Len(s)]
    BY ConcatIs DEF Bytes
  <1>2. w \in Bytes /\ Len(w) \in Nat /\ Len(w) > 0
    BY BytesConcat
  <1>3. \A i \in 1 .. Len(s) : t[i] = s[i]
    <2>1. \A i \in 1 .. Len(s) : i \in 1 .. Len(s) + Len(x) /\ i <= Len(s)
      BY <1>1
    <2>2. QED BY <2>1, <1>1
  <1>4. n < o + Len(w)
    <2>1. Clear(case.stop_words, t, n)
      <3>1. \A i \in 1 .. n : s[i] = t[i]
        BY <1>1, <1>3
      <3>2. \A v \in case.stop_words : v \in Bytes
        OBVIOUS
      <3>3. QED BY <3>1, <3>2, ClearSame
    <2>2. ~(o + Len(w) <= n)
      BY <2>1 DEF Clear
    <2>3. QED BY <2>2, <1>2
  <1>5. sent <= o
    <2> SUFFICES ASSUME o < sent PROVE FALSE
      OBVIOUS
    <2> DEFINE j == sent - o
    <2>1. j \in 1 .. Len(w) /\ j <= sent
      BY <1>2, <1>4
    <2>2. PICK l \in 1 .. j : s[sent - j + l] # w[l]
      <3> HIDE DEF j
      <3>1. QED BY <2>1 DEF NoneBegun
    <2>3. sent - j + l = o + l /\ l \in 1 .. Len(w) /\ o + l \in 1 .. Len(s)
      BY <1>1, <1>2, <2>1
    <2>4. t[o + l] = w[l]
      BY <2>3 DEF Occurs
    <2> HIDE DEF j
    <2>5. QED BY <2>2, <2>3, <2>4, <1>3
  <1> DEFINE u == SubSeq(t, sent + 1, Len(t))
             q == o - sent
  <1>6. /\ u \in Bytes /\ Len(u) = Len(t) - sent
        /\ \A i \in 1 .. Len(t) - sent : u[i] = t[sent + i]
    <2>1. sent \in 0 .. Len(t)
      BY <1>1
    <2>2. QED BY <2>1, <1>1, SplitIs
  <1>7. q \in Nat /\ q + Len(w) <= Len(u) /\ q + Len(w) + size >= Len(u) /\ sent + q = o
    <2> HIDE DEF u
    <2>1. QED BY <1>1, <1>2, <1>4, <1>5, <1>6
  <1> HIDE DEF u, q
  <1>8. Occurs(w, u, q)
    <2>1. \A j \in 1 .. Len(w) : q + j \in 1 .. Len(t) - sent /\ sent + (q + j) = o + j
      BY <1>1, <1>2, <1>6, <1>7
    <2>2. \A j \in 1 .. Len(w) : u[q + j] = t[o + j]
      BY <2>1, <1>6
    <2>3. QED BY <2>2 DEF Occurs
  <1>9. SearchFrom(w, u, size) \in Nat /\ SearchFrom(w, u, size) <= q
    BY <1>2, <1>6, <1>7, SearchFromIs
  <1>10. q \in Found(w, u, SearchFrom(w, u, size))
    BY <1>2, <1>6, <1>7, <1>8, <1>9, FoundIs
  <1>11. q \in FullStops(u, size)
    BY <1>10 DEF FullStops
  <1>12. QED BY <1>11 DEF q, u

\* Where a stop word is found, it is.
LEMMA StopIsThere ==
  ASSUME NEW u \in Bytes, NEW size \in Nat,
         \A w \in case.stop_words : w \in Bytes /\ w # <<>>,
         NEW o \in FullStops(u, size)
  PROVE  /\ o \in Nat
         /\ \E w \in case.stop_words : o + Len(w) <= Len(u) /\ Occurs(w, u, o)
  <1>1. PICK w \in case.stop_words : o \in Found(w, u, SearchFrom(w, u, size))
    BY DEF FullStops
  <1>2. w \in Bytes /\ w # <<>> /\ SearchFrom(w, u, size) \in Nat
    BY SearchFromIs
  <1>3. o \in Nat /\ o + Len(w) <= Len(u) /\ Occurs(w, u, o)
    BY <1>1, <1>2, FoundIs
  <1>4. QED BY <1>3

LEMMA SuffixThere ==
  ASSUME NEW w \in Bytes, NEW s \in Bytes, NEW j \in 1 .. Len(w), j <= Len(s),
         \A l \in 1 .. j : s[Len(s) - j + l] = w[l]
  PROVE  IsSuffix(SubSeq(w, 1, j), s)
  <1>1. Len(w) \in Nat /\ Len(s) \in Nat
    BY BytesConcat
  <1> DEFINE a == SubSeq(w, 1, j)
             n == Len(s)
             ra == [i \in 1 .. j |-> a[(j - i) + 1]]
             rs == [i \in 1 .. n |-> s[(n - i) + 1]]
  <1>2. a \in Bytes /\ Len(a) = j /\ \A l \in 1 .. j : a[l] = w[l]
    <2>1. j \in 0 .. Len(w)
      BY <1>1
    <2>2. QED BY <2>1, SplitIs
  <1>3. Reverse(a) = ra /\ Reverse(s) = rs
    <2> HIDE DEF a
    <2>1. QED BY <1>2 DEF Reverse
  <1> HIDE DEF a
  <1>4. ra \in Seq(Byte) /\ Len(ra) = j /\ \A i \in 1 .. j : ra[i] = w[(j - i) + 1]
    <2>1. \A i \in 1 .. j : (j - i) + 1 \in 1 .. j
      OBVIOUS
    <2>2. \A i \in 1 .. j : a[(j - i) + 1] \in Byte
      BY <2>1, <1>2 DEF Bytes
    <2>3. QED BY <2>1, <2>2, <1>2
  <1>5. rs \in Seq(Byte) /\ Len(rs) = n /\ \A i \in 1 .. n : rs[i] = s[(n - i) + 1]
    <2>1. \A i \in 1 .. n : (n - i) + 1 \in 1 .. n
      BY <1>1
    <2>2. \A i \in 1 .. n : s[(n - i) + 1] \in Byte
      <3> HIDE DEF n
      <3>1. s \in Seq(Byte) /\ n = Len(s)
        BY DEF Bytes, n
      <3>2. QED BY <2>1, <3>1
    <2>3. QED BY <2>2, <1>1
  <1> HIDE DEF ra, rs
  <1>6. j \in 0 .. Len(rs) /\ j \in 0 .. Len(ra) /\ rs \in Bytes /\ ra \in Bytes
    BY <1>1, <1>4, <1>5 DEF Bytes
  <1> DEFINE x == SubSeq(ra, 1, j)
             y == SubSeq(rs, 1, j)
  <1>7. x \in Bytes /\ Len(x) = j /\ \A i \in 1 .. j : x[i] = ra[i]
    BY <1>6, SplitIs
  <1>8. y \in Bytes /\ Len(y) = j /\ \A i \in 1 .. j : y[i] = rs[i]
    BY <1>6, SplitIs
  <1> HIDE DEF x, y
  <1>9. ASSUME NEW i \in 1 .. j PROVE ra[i] = rs[i]
    <2>1. (j - i) + 1 \in 1 .. j /\ n - j + ((j - i) + 1) = (n - i) + 1 /\ i \in 1 .. n
      BY <1>1
    <2>2. s[n - j + ((j - i) + 1)] = w[(j - i) + 1]
      BY <2>1
    <2>3. QED BY <2>1, <2>2, <1>4, <1>5
  <1>10. x = y
    <2>1. x \in Seq(Byte) /\ y \in Seq(Byte) /\ Len(x) = Len(y)
      BY <1>7, <1>8 DEF Bytes
    <2>2. \A i \in 1 .. Len(x) : x[i] = y[i]
      BY <1>7, <1>8, <1>9
    <2>3. QED BY <2>1, <2>2, SeqEqual
  <1>11. IsPrefix(ra, rs)
    BY <1>4, <1>5, <1>10 DEF IsPrefix, x, y
  <1>12. QED BY <1>3, <1>11 DEF IsSuffix, a

\* What is sent when nothing of it can turn into a stop word ends with no part of one.
LEMMA NoneBegunWhenSent ==
  ASSUME NEW t \in Bytes, NEW sent \in 0 .. Len(t),
         \A w \in case.stop_words : w \in Bytes /\ w # <<>>,
         NoneBegun(case.stop_words, t, sent),
         PartialStops(SubSeq(t, sent + 1, Len(t))) = {}
  PROVE  NoneBegun(case.stop_words, t, Len(t))
  <1> SUFFICES ASSUME NEW w \in case.stop_words, NEW j \in 1 .. Len(w), j <= Len(t),
                      \A l \in 1 .. j : t[Len(t) - j + l] = w[l]
               PROVE  FALSE
    BY DEF NoneBegun
  <1> DEFINE u == SubSeq(t, sent + 1, Len(t))
             n == Len(t)
             Ends == {k \in 1 .. Min({Len(w), Len(u)}) : IsSuffix(SubSeq(w, 1, k), u)}
  <1>1. n \in Nat /\ w \in Bytes /\ Len(w) \in Nat
    BY BytesConcat
  <1>2. u \in Bytes /\ Len(u) = n - sent /\ \A i \in 1 .. n - sent : u[i] = t[sent + i]
    BY SplitIs
  <1>3. Ends = {}
    <2> DEFINE os == {Len(u) - k : k \in Ends}
    <2>1. SUFFICES ASSUME Ends # {} PROVE FALSE
      OBVIOUS
    <2>2. os # {}
      <3> HIDE DEF Ends
      <3>1. QED BY <2>1
    <2>3. Min(os) \in PartialStops(u)
      <3> HIDE DEF u
      <3>1. QED BY <2>2 DEF PartialStops
    <2>4. QED BY <2>3
  <1> HIDE DEF u
  <1>4. CASE j <= Len(u)
    <2>1. \A l \in 1 .. j : u[Len(u) - j + l] = w[l]
      <3>1. \A l \in 1 .. j : /\ Len(u) - j + l \in 1 .. n - sent
                              /\ sent + (Len(u) - j + l) = n - j + l
        BY <1>1, <1>2, <1>4
      <3>2. QED BY <3>1, <1>2
    <2>2. IsSuffix(SubSeq(w, 1, j), u)
      BY <2>1, <1>1, <1>2, <1>4, SuffixThere
    <2>3. j \in 1 .. Min({Len(w), Len(u)})
      <3>1. Min({Len(w), Len(u)}) = IF Len(w) <= Len(u) THEN Len(w) ELSE Len(u)
        <4>1. Len(u) \in Nat /\ Len(w) \in Nat
          BY <1>1, <1>2, BytesConcat
        <4>2. QED BY <4>1, MinOfTwo
      <3>2. QED BY <3>1, <1>1, <1>2, <1>4
    <2>4. QED BY <2>2, <2>3, <1>3
  <1>5. CASE j > Len(u)
    <2> DEFINE k == j - Len(u)
    <2>1. k \in 1 .. Len(w) /\ k <= sent /\ k \in Nat
      BY <1>1, <1>2, <1>5
    <2>2. PICK l \in 1 .. k : t[sent - k + l] # w[l]
      <3> HIDE DEF k
      <3>1. QED BY <2>1 DEF NoneBegun
    <2>3. sent - k + l = n - j + l /\ l \in 1 .. j
      BY <1>1, <1>2, <1>5
    <2> HIDE DEF k
    <2>4. QED BY <2>2, <2>3
  <1>6. j <= Len(u) \/ j > Len(u)
    BY <1>1, <1>2
  <1>7. QED BY <1>4, <1>5, <1>6

-----------------------------------------------------------------------------
(* The invariant                                                           *)

TypeInv ==
  /\ case \in Cases
  /\ pending \in Bytes /\ generated_text \in Bytes /\ fed \in Bytes /\ delivered \in Bytes
  /\ sent_count \in Nat /\ checked \in Nat
  /\ has_next_token \in BOOLEAN /\ running \in BOOLEAN
  /\ stopped_word \in BOOLEAN /\ unseen \in BOOLEAN

\* The gate holds back nothing but the beginning of a character, and all of it.
GateInv ==
  /\ pending # <<>> => CanBeCompleted(pending)
  /\ running /\ pending = <<>> => Closed(fed)
  /\ ~running => pending = <<>>

\* The text is that of the bytes before what the gate holds back.
ReadInv ==
  IF Cut THEN /\ pending = <<>> /\ ~has_next_token
              /\ Sound(generated_text) /\ Begins(generated_text, Reading(fed))
  ELSE \E c \in Bytes : fed = c \o pending /\ generated_text = Reading(c)

DeliveredInv ==
  /\ Sound(delivered)
  /\ case.consumer = "completion" =>
       sent_count <= Len(generated_text) /\ delivered = SubSeq(generated_text, 1, sent_count)
  /\ case.consumer = "slot" =>
       Begins(delivered, generated_text) /\ (running => delivered = generated_text)

\* A completion has looked for stop words up to `checked', unless `unseen'.
CompletionSearch ==
  /\ sent_count <= checked
  /\ running /\ has_next_token => NoneBegun(case.stop_words, generated_text, sent_count)
  /\ ~Cut => /\ checked <= Len(generated_text)
             /\ ~unseen => Clear(case.stop_words, generated_text, checked)
             /\ ~unseen /\ pending = <<>> => checked = Len(generated_text)
  /\ Cut /\ ~unseen => Clear(case.stop_words, generated_text, Len(generated_text))

SearchInv ==
  /\ case.consumer = "completion" => CompletionSearch
  /\ case.consumer = "slot" /\ running =>
       Clear(case.stop_words, generated_text, Len(generated_text))

TokenInv == TypeInv /\ GateInv /\ ReadInv /\ DeliveredInv /\ SearchInv

LEMMA CaseIs ==
  ASSUME NEW c \in Cases
  PROVE  /\ c.consumer \in {"completion", "slot"}
         /\ \A p \in c.pieces : p \in Bytes /\ p # <<>>
         /\ \A w \in c.stop_words : w \in Bytes /\ w # <<>>
         /\ \A w \in c.stop_words : ~IsContinuation(w[1])
  <1>1. /\ c.consumer \in {"completion", "slot"}
        /\ \A p \in c.pieces \cup c.stop_words : p \in Seq(Byte) /\ p # <<>>
    BY CasesAssumption
  <1>2. \A w \in c.stop_words : w \in Bytes /\ w # <<>>
    BY <1>1 DEF Bytes
  <1>3. ASSUME NEW w \in c.stop_words PROVE ~IsContinuation(w[1])
    <2>1. utf8_is_well_formed(w)
      BY StopWordsAssumption
    <2>2. Sound(w)
      BY <1>2, <2>1, WellFormedIsSound
    <2>3. QED BY <1>2, <2>2, SoundIsClosed
  <1>4. QED BY <1>1, <1>2, <1>3 DEF Bytes

LEMMA InitToken == Init => TokenInv
  <1> SUFFICES ASSUME Init PROVE TokenInv
    OBVIOUS
  <1> USE DEF Init
  <1>1. <<>> \in Bytes /\ Len(<<>>) = 0
    BY BytesConcat
  <1>2. Reading(<<>>) = <<>> /\ Sound(<<>>)
    BY <1>1, ReadingIs, SoundIs
  <1>3. TypeInv
    BY <1>1 DEF TypeInv
  <1>4. GateInv
    BY <1>1 DEF GateInv, Closed
  <1>5. <<>> \o <<>> = <<>>
    BY BytesConcat
  <1>6. ReadInv
    <2>1. ~Cut
      BY DEF Cut
    <2>2. fed = <<>> \o pending /\ generated_text = Reading(<<>>)
      BY <1>2, <1>5
    <2>3. QED BY <1>1, <2>1, <2>2 DEF ReadInv
  <1>7. DeliveredInv
    <2>1. Begins(<<>>, <<>>)
      BY <1>1, <1>5 DEF Begins
    <2>2. SubSeq(<<>>, 1, 0) = <<>>
      BY <1>1, WholeBeginning
    <2>3. QED BY <1>1, <1>2, <2>1, <2>2 DEF DeliveredInv
  <1>8. Clear(case.stop_words, <<>>, 0)
    <2> SUFFICES ASSUME NEW w \in case.stop_words, NEW o \in Nat, o + Len(w) <= 0 PROVE FALSE
      BY DEF Clear
    <2>1. Len(w) \in Nat /\ Len(w) > 0
      BY CaseIs, BytesConcat
    <2>2. QED BY <2>1
  <1>9. NoneBegun(case.stop_words, <<>>, 0)
    BY DEF NoneBegun
  <1>10. SearchInv
    <2>1. ~Cut
      BY DEF Cut
    <2>2. QED BY <1>1, <1>8, <1>9, <2>1 DEF SearchInv, CompletionSearch
  <1>11. QED BY <1>3, <1>4, <1>6, <1>7, <1>10 DEF TokenInv

\* What a token adds, as a step of a running text.
LEMMA TokenAdds ==
  ASSUME TokenInv, running, ~Cut, NEW p \in case.pieces
  PROVE  LET passed == feed(p)
             text == generated_text \o passed.text IN
         /\ p \in Bytes /\ p # <<>>
         /\ passed.pending \in Bytes /\ passed.text \in Bytes /\ fed \o p \in Bytes
         /\ text \in Bytes /\ Len(text) = Len(generated_text) + Len(passed.text) /\ Sound(text)
         /\ passed.pending # <<>> => CanBeCompleted(passed.pending)
         /\ passed.pending = <<>> => Closed(fed \o p)
         /\ \E d \in Bytes : fed \o p = d \o passed.pending /\ text = Reading(d)
  <1> DEFINE passed == feed(p)
             text == generated_text \o passed.text
  <1>1. /\ case \in Cases /\ pending \in Bytes /\ generated_text \in Bytes /\ fed \in Bytes
        /\ pending # <<>> => CanBeCompleted(pending)
        /\ pending = <<>> => Closed(fed)
    BY DEF TokenInv, TypeInv, GateInv
  <1>2. PICK c \in Bytes : fed = c \o pending /\ generated_text = Reading(c)
    BY DEF TokenInv, ReadInv
  <1>3. p \in Bytes /\ p # <<>>
    BY <1>1, CaseIs
  <1>4. pending = <<>> => Closed(c)
    BY <1>1, <1>2, BytesConcat
  <1>5. /\ passed.pending \in Bytes /\ passed.text \in Bytes
        /\ passed.pending # <<>> => CanBeCompleted(passed.pending)
        /\ passed.pending = <<>> => Closed((c \o pending) \o p)
        /\ \E d \in Bytes : /\ d \o passed.pending = (c \o pending) \o p
                            /\ Reading(d) = Reading(c) \o passed.text
    BY <1>1, <1>3, <1>4, TokenRead
  <1> HIDE DEF passed
  <1>6. PICK d \in Bytes : fed \o p = d \o passed.pending /\ text = Reading(d)
    BY <1>2, <1>5
  <1>7. Sound(text)
    BY <1>6, ReadingIsSound
  <1>8. fed \o p \in Bytes /\ text \in Bytes
        /\ Len(text) = Len(generated_text) + Len(passed.text)
    BY <1>1, <1>3, <1>5, BytesConcat
  <1>9. passed.pending = <<>> => Closed(fed \o p)
    BY <1>2, <1>5
  <1>10. QED BY <1>3, <1>5, <1>6, <1>7, <1>8, <1>9 DEF passed

LEMMA IncompleteTokenKeeps ==
  ASSUME TokenInv, IncompleteToken
  PROVE  TokenInv'
  <1>1. /\ case.consumer = "completion" /\ running /\ has_next_token /\ case \in Cases
        /\ ~Cut
    BY DEF IncompleteToken, InCompletion, TokenInv, TypeInv, ReadInv
  <1>2. PICK p \in case.pieces :
          /\ feed(p).pending # <<>> /\ pending' = feed(p).pending
          /\ generated_text' = generated_text \o feed(p).text
          /\ fed' = fed \o p
    BY DEF IncompleteToken
  <1>3. /\ has_next_token' = TRUE
        /\ UNCHANGED <<case, sent_count, running, stopped_word, delivered, checked, unseen>>
    BY DEF IncompleteToken
  <1> DEFINE x == feed(p).text
  <1>4. /\ p \in Bytes /\ pending' \in Bytes /\ x \in Bytes /\ fed' \in Bytes
        /\ generated_text' \in Bytes
        /\ Len(generated_text') = Len(generated_text) + Len(x)
        /\ CanBeCompleted(pending')
        /\ \E d \in Bytes : fed' = d \o pending' /\ generated_text' = Reading(d)
    BY <1>1, <1>2, TokenAdds
  <1>5. generated_text' = generated_text \o x
    BY <1>2
  <1> HIDE DEF x
  <1>6. /\ generated_text \in Bytes /\ sent_count \in Nat /\ checked \in Nat
        /\ Len(generated_text) \in Nat /\ Len(x) \in Nat
    BY <1>4, BytesConcat DEF TokenInv, TypeInv
  <1>7. pending' # <<>>
    BY <1>2
  <1>8. TypeInv'
    BY <1>3, <1>4, <1>6 DEF TokenInv, TypeInv
  <1>9. GateInv'
    BY <1>1, <1>3, <1>4, <1>7 DEF GateInv
  <1>10. ~Cut'
    BY <1>1, <1>3 DEF Cut
  <1>11. ReadInv'
    BY <1>4, <1>10 DEF ReadInv
  <1>12. DeliveredInv'
    <2>1. /\ Sound(delivered) /\ sent_count <= Len(generated_text)
          /\ delivered = SubSeq(generated_text, 1, sent_count)
      BY <1>1 DEF TokenInv, DeliveredInv
    <2>2. sent_count <= Len(generated_text') /\ sent_count \in 0 .. Len(generated_text)
      BY <2>1, <1>4, <1>6
    <2>3. SubSeq(generated_text', 1, sent_count) = SubSeq(generated_text, 1, sent_count)
      BY <2>2, <1>4, <1>5, <1>6, BeginningOfConcat
    <2>4. QED BY <2>1, <2>2, <2>3, <1>1, <1>3 DEF DeliveredInv
  <1>13. \A i \in 1 .. Len(generated_text) : generated_text[i] = generated_text'[i]
    <2>1. \A i \in 1 .. Len(generated_text) :
            i \in 1 .. Len(generated_text) + Len(x) /\ i <= Len(generated_text)
      BY <1>6
    <2>2. \A i \in 1 .. Len(generated_text) + Len(x) :
            (generated_text \o x)[i] = IF i <= Len(generated_text) THEN generated_text[i]
                                       ELSE x[i - Len(generated_text)]
      BY <1>4, <1>6, ConcatIs DEF Bytes
    <2>3. QED BY <2>1, <2>2, <1>5
  <1>14. SearchInv'
    <2>1. CompletionSearch /\ \A w \in case.stop_words : w \in Bytes
      BY <1>1, CaseIs DEF TokenInv, SearchInv
    <2>2. sent_count <= checked /\ checked <= Len(generated_text)
      BY <2>1, <1>1 DEF CompletionSearch
    <2>3. NoneBegun(case.stop_words, generated_text', sent_count)
      <3>1. NoneBegun(case.stop_words, generated_text, sent_count)
        BY <2>1, <1>1 DEF CompletionSearch
      <3>2. \A i \in 1 .. sent_count : generated_text[i] = generated_text'[i]
        BY <2>2, <1>6, <1>13
      <3>3. QED BY <3>1, <3>2, <1>6, BegunSame
    <2>4. ~unseen => Clear(case.stop_words, generated_text', checked)
      <3>1. ~unseen => Clear(case.stop_words, generated_text, checked)
        BY <2>1, <1>1 DEF CompletionSearch
      <3>2. \A i \in 1 .. checked : generated_text[i] = generated_text'[i]
        BY <2>2, <1>6, <1>13
      <3>3. QED BY <3>1, <3>2, <2>1, <1>6, ClearSame
    <2>5. checked <= Len(generated_text')
      BY <2>2, <1>4, <1>6
    <2>6. CompletionSearch'
      BY <2>2, <2>3, <2>4, <2>5, <1>3, <1>7, <1>10 DEF CompletionSearch
    <2>7. case'.consumer # "slot"
      BY <1>1, <1>3
    <2>8. QED BY <2>6, <2>7 DEF SearchInv
  <1>15. QED BY <1>8, <1>9, <1>11, <1>12, <1>14 DEF TokenInv

\* What CompleteToken finds of the text before it cuts or sends.
LEMMA CompleteTokenFinds ==
  ASSUME TokenInv, InCompletion, NEW p \in case.pieces, feed(p).pending = <<>>,
         NEW text, text = generated_text \o feed(p).text
  PROVE  /\ case \in Cases /\ ~Cut /\ fed \o p \in Bytes /\ Closed(fed \o p)
         /\ text \in Bytes /\ Sound(text) /\ text = Reading(fed \o p)
         /\ Len(p) \in Nat /\ Len(generated_text) \in Nat
         /\ Len(generated_text) <= Len(text)
         /\ sent_count \in Nat /\ checked \in Nat
         /\ sent_count <= checked /\ checked <= Len(generated_text)
         /\ Sound(delivered) /\ delivered = SubSeq(text, 1, sent_count)
         /\ NoneBegun(case.stop_words, text, sent_count)
         /\ ~(unseen \/ Len(text) - checked > Len(p)) =>
              \A w \in case.stop_words, o \in Nat :
                o + Len(w) <= Len(text) /\ Occurs(w, text, o) =>
                  o - sent_count \in FullStops(SubSeq(text, sent_count + 1, Len(text)), Len(p))
  <1> DEFINE x == feed(p).text
  <1>1. /\ case.consumer = "completion" /\ running /\ has_next_token /\ case \in Cases
        /\ ~Cut /\ sent_count \in Nat /\ checked \in Nat /\ generated_text \in Bytes
    BY DEF InCompletion, TokenInv, TypeInv, ReadInv
  <1>2. /\ p \in Bytes /\ x \in Bytes /\ fed \o p \in Bytes
        /\ text \in Bytes /\ Len(text) = Len(generated_text) + Len(x) /\ Sound(text)
        /\ Closed(fed \o p)
        /\ \E d \in Bytes : fed \o p = d \o feed(p).pending /\ text = Reading(d)
    BY <1>1, TokenAdds
  <1>3. text = generated_text \o x
    OBVIOUS
  <1>4. text = Reading(fed \o p)
    <2>1. PICK d \in Bytes : fed \o p = d \o <<>> /\ text = Reading(d)
      BY <1>2
    <2>2. d \o <<>> = d
      BY BytesConcat
    <2>3. QED BY <2>1, <2>2
  <1> HIDE DEF x
  <1>5. Len(p) \in Nat /\ Len(generated_text) \in Nat /\ Len(x) \in Nat
    BY <1>1, <1>2, BytesConcat
  <1>6. CompletionSearch
    BY <1>1 DEF TokenInv, SearchInv
  <1>7. /\ sent_count <= checked /\ checked <= Len(generated_text)
        /\ NoneBegun(case.stop_words, generated_text, sent_count)
        /\ ~unseen => Clear(case.stop_words, generated_text, checked)
    BY <1>1, <1>6 DEF CompletionSearch
  <1>8. Len(generated_text) <= Len(text)
    BY <1>2, <1>5
  <1>9. Sound(delivered) /\ delivered = SubSeq(text, 1, sent_count)
    <2>1. Sound(delivered) /\ delivered = SubSeq(generated_text, 1, sent_count)
      BY <1>1 DEF TokenInv, DeliveredInv
    <2>2. sent_count \in 0 .. Len(generated_text)
      BY <1>1, <1>5, <1>7
    <2>3. QED BY <2>1, <2>2, <1>1, <1>2, <1>3, BeginningOfConcat
  <1>10. \A w \in case.stop_words : w \in Bytes /\ w # <<>>
    BY <1>1, CaseIs
  <1>11. NoneBegun(case.stop_words, text, sent_count)
    <2>1. \A i \in 1 .. sent_count : generated_text[i] = text[i]
      <3>1. \A i \in 1 .. sent_count :
              i \in 1 .. Len(generated_text) + Len(x) /\ i <= Len(generated_text)
        BY <1>1, <1>5, <1>7
      <3>2. \A i \in 1 .. Len(generated_text) + Len(x) :
              text[i] = IF i <= Len(generated_text) THEN generated_text[i]
                        ELSE x[i - Len(generated_text)]
        BY <1>1, <1>2, <1>3, ConcatIs DEF Bytes
      <3>3. QED BY <3>1, <3>2
    <2>2. sent_count \in Nat
      BY <1>1 DEF TokenInv, TypeInv
    <2>3. NoneBegun(case.stop_words, generated_text, sent_count)
      BY <1>7
    <2>4. QED BY ONLY <2>1, <2>2, <2>3, BegunSame
  <1>12. ASSUME ~(unseen \/ Len(text) - checked > Len(p)),
                NEW w \in case.stop_words, NEW o \in Nat,
                o + Len(w) <= Len(text), Occurs(w, text, o)
         PROVE  o - sent_count \in FullStops(SubSeq(text, sent_count + 1, Len(text)), Len(p))
    <2>1. Clear(case.stop_words, generated_text, checked)
      BY <1>7, <1>12
    <2>2. Len(text) - checked <= Len(p)
      <3>1. Len(text) \in Nat
        BY <1>2, BytesConcat
      <3>2. QED BY <3>1, <1>1, <1>5, <1>12
    <2>3. QED BY <2>1, <2>2, <1>1, <1>2, <1>3, <1>5, <1>7, <1>10, <1>12, SearchFinds
  <1>13. QED BY <1>1, <1>2, <1>4, <1>5, <1>7, <1>8, <1>9, <1>11, <1>12

LEMMA CompleteTokenKeeps ==
  ASSUME TokenInv, CompleteToken
  PROVE  TokenInv'
  <1> DEFINE Sent(text) == SubSeq(text, sent_count + 1, Len(text))
  <1>1. InCompletion /\ UNCHANGED <<case, running>>
    BY DEF CompleteToken
  <1>2. PICK p \in case.pieces, more \in BOOLEAN :
          LET passed == feed(p)
              text == generated_text \o passed.text
              unsent == Sent(text)
              stops == FullStops(unsent, Len(p))
              partial == PartialStops(unsent)
          IN
          /\ passed.pending = <<>> /\ pending' = <<>> /\ fed' = fed \o p
          /\ unseen' = (unseen \/ Len(text) - checked > Len(p))
          /\ checked' = Len(text)
          /\ \/ /\ stops # {}
                /\ generated_text' = SubSeq(text, 1, sent_count + Min(stops))
                /\ has_next_token' = FALSE /\ stopped_word' = TRUE
                /\ UNCHANGED <<sent_count, delivered>>
             \/ /\ stops = {}
                /\ generated_text' = text /\ has_next_token' = more
                /\ IF partial = {} \/ (~more /\ Min(partial) > 0)
                   THEN sent_count' = Len(text) /\ delivered' = delivered \o unsent
                   ELSE UNCHANGED <<sent_count, delivered>>
                /\ UNCHANGED stopped_word
    BY DEF CompleteToken
  <1> DEFINE text == generated_text \o feed(p).text
             unsent == Sent(text)
             stops == FullStops(unsent, Len(p))
             partial == PartialStops(unsent)
  <1>3. /\ feed(p).pending = <<>> /\ pending' = <<>> /\ fed' = fed \o p
        /\ unseen' = (unseen \/ Len(text) - checked > Len(p))
        /\ checked' = Len(text)
    BY <1>2
  <1>4. /\ case \in Cases /\ ~Cut /\ fed \o p \in Bytes /\ Closed(fed \o p)
        /\ text \in Bytes /\ Sound(text) /\ text = Reading(fed \o p)
        /\ Len(p) \in Nat /\ Len(generated_text) \in Nat
        /\ Len(generated_text) <= Len(text)
        /\ sent_count \in Nat /\ checked \in Nat
        /\ sent_count <= checked /\ checked <= Len(generated_text)
        /\ Sound(delivered) /\ delivered = SubSeq(text, 1, sent_count)
        /\ NoneBegun(case.stop_words, text, sent_count)
        /\ ~(unseen \/ Len(text) - checked > Len(p)) =>
             \A w \in case.stop_words, o \in Nat :
               o + Len(w) <= Len(text) /\ Occurs(w, text, o) => o - sent_count \in stops
    BY <1>1, <1>3, CompleteTokenFinds
  <1>5. \/ /\ stops # {}
           /\ generated_text' = SubSeq(text, 1, sent_count + Min(stops))
           /\ has_next_token' = FALSE /\ stopped_word' = TRUE
           /\ UNCHANGED <<sent_count, delivered>>
        \/ /\ stops = {}
           /\ generated_text' = text /\ has_next_token' = more
           /\ IF partial = {} \/ (~more /\ Min(partial) > 0)
              THEN sent_count' = Len(text) /\ delivered' = delivered \o unsent
              ELSE UNCHANGED <<sent_count, delivered>>
           /\ UNCHANGED stopped_word
    BY <1>2
  <1> HIDE DEF text
  <1>6. /\ case.consumer = "completion" /\ running
        /\ \A w \in case.stop_words : /\ w \in Bytes /\ w # <<>> /\ ~IsContinuation(w[1])
                                      /\ Len(w) \in Nat /\ Len(w) > 0
        /\ unseen \in BOOLEAN /\ stopped_word \in BOOLEAN /\ delivered \in Bytes
    BY <1>1, <1>4, CaseIs, BytesConcat DEF InCompletion, TokenInv, TypeInv
  <1>7. Len(text) \in Nat /\ sent_count \in 0 .. Len(text) /\ sent_count <= Len(text)
    BY <1>4, BytesConcat
  <1>8. /\ unsent \in Bytes /\ Len(unsent) = Len(text) - sent_count
        /\ text = SubSeq(text, 1, sent_count) \o unsent
        /\ \A i \in 1 .. Len(text) - sent_count : unsent[i] = text[sent_count + i]
    BY <1>4, <1>7, SplitIs
  <1>9. GateInv'
    BY <1>1, <1>3, <1>4 DEF GateInv
  <1>10. unseen' \in BOOLEAN /\ (~unseen' => ~(unseen \/ Len(text) - checked > Len(p)))
    BY <1>3
  <1> HIDE DEF Sent, unsent, stops, partial
  <1>11. CASE /\ stops # {}
              /\ generated_text' = SubSeq(text, 1, sent_count + Min(stops))
              /\ has_next_token' = FALSE /\ stopped_word' = TRUE
              /\ UNCHANGED <<sent_count, delivered>>
    <2> DEFINE o == Min(stops)
               k == sent_count + o
               rest == SubSeq(text, k + 1, Len(text))
    <2>1. \A q \in stops : q \in Nat /\ \E w \in case.stop_words :
                                          q + Len(w) <= Len(unsent) /\ Occurs(w, unsent, q)
      BY <1>4, <1>6, <1>8, StopIsThere DEF stops
    <2>2. o \in stops /\ \A q \in stops : o <= q
      <3>1. stops \in SUBSET Nat
        BY <2>1
      <3>2. QED BY <3>1, <1>11, MinIs
    <2> HIDE DEF o
    <2>3. PICK w \in case.stop_words : o + Len(w) <= Len(unsent) /\ Occurs(w, unsent, o)
      BY <2>1, <2>2
    <2>4. o \in Nat /\ Len(w) \in Nat /\ Len(w) > 0 /\ w \in Bytes
      BY <2>1, <2>2, <1>6
    <2>5. k \in 0 .. Len(text) /\ k + 1 \in 1 .. Len(text) /\ sent_count <= k /\ k \in Nat
      BY <2>3, <2>4, <1>4, <1>7, <1>8
    <2>6. /\ generated_text' \in Bytes /\ Len(generated_text') = k
          /\ rest \in Bytes /\ Len(rest) = Len(text) - k
          /\ text = generated_text' \o rest
          /\ \A i \in 1 .. k : generated_text'[i] = text[i]
          /\ \A i \in 1 .. Len(text) - k : rest[i] = text[k + i]
      <3>1. generated_text' = SubSeq(text, 1, k)
        BY <1>11 DEF o
      <3> HIDE DEF k
      <3>2. QED BY <3>1, <2>5, <1>4, SplitIs
    <2> HIDE DEF rest
    <2>7. rest[1] = w[1]
      <3>1. 1 \in 1 .. Len(w) /\ 1 \in 1 .. Len(text) - k
        BY <2>4, <2>5, <1>7
      <3>2. unsent[o + 1] = w[1]
        BY <3>1, <2>3 DEF Occurs
      <3>3. o + 1 \in 1 .. Len(text) - sent_count /\ sent_count + (o + 1) = k + 1
        BY <2>3, <2>4, <1>4, <1>7, <1>8
      <3>4. rest[1] = text[k + 1]
        BY <3>1, <2>6
      <3> HIDE DEF k
      <3>5. QED BY <3>2, <3>3, <3>4, <1>8
    <2> HIDE DEF k
    <2>8. Sound(generated_text')
      <3>1. Apart(generated_text', rest)
        BY <2>7, <1>6 DEF Apart
      <3>2. Sound(generated_text' \o rest)
        BY <2>6, <1>4
      <3>3. generated_text' \in Bytes /\ rest \in Bytes
        BY <2>6
      <3>4. QED BY <3>1, <3>2, <3>3, Joined
    <2>9. Cut'
      BY <1>1, <1>6, <1>11 DEF Cut
    <2>10. TypeInv'
      BY <1>1, <1>3, <1>4, <1>6, <1>7, <1>10, <1>11, <2>6, BytesConcat DEF TypeInv
    <2>11. ReadInv'
      <3>1. Begins(generated_text', text)
        BY <2>6 DEF Begins
      <3>2. Reading(fed') = text
        BY <1>3, <1>4
      <3>3. QED BY <3>1, <3>2, <2>8, <2>9, <1>3, <1>11 DEF ReadInv
    <2>12. DeliveredInv'
      <3>1. sent_count \in 0 .. Len(generated_text') /\ sent_count <= Len(generated_text')
        BY <2>5, <2>6, <1>4
      <3>2. SubSeq(text, 1, sent_count) = SubSeq(generated_text', 1, sent_count)
        BY <3>1, <2>6, BeginningOfConcat
      <3>3. QED BY <3>1, <3>2, <1>1, <1>4, <1>6, <1>11 DEF DeliveredInv
    <2>13. ~unseen' => Clear(case.stop_words, generated_text', Len(generated_text'))
      <3> SUFFICES ASSUME ~unseen', NEW v \in case.stop_words, NEW q \in Nat,
                          q + Len(v) <= k, Occurs(v, generated_text', q)
                   PROVE  FALSE
        BY <2>6 DEF Clear
      <3>1. Len(v) \in Nat /\ Len(v) > 0
        BY <1>6
      <3>2. Occurs(v, text, q)
        <4>1. \A j \in 1 .. Len(v) : q + j \in 1 .. k
          BY <3>1, <2>5
        <4>2. QED BY <4>1, <2>6 DEF Occurs
      <3>3. q + Len(v) <= Len(text)
        BY <3>1, <2>5, <1>7
      <3>4. q - sent_count \in stops
        BY <3>2, <3>3, <1>4, <1>10
      <3>5. o <= q - sent_count
        BY <3>4, <2>2
      <3>6. QED BY <3>1, <3>5, <2>4, <2>5, <1>4 DEF k
    <2>14. SearchInv'
      <3>1. sent_count' <= checked'
        BY <1>3, <1>7, <1>11
      <3>2. CompletionSearch'
        BY <3>1, <2>9, <2>13, <1>1, <1>11 DEF CompletionSearch
      <3>3. case'.consumer # "slot"
        BY <1>1, <1>6
      <3>4. QED BY <3>2, <3>3 DEF SearchInv
    <2>15. QED BY <1>9, <2>10, <2>11, <2>12, <2>14 DEF TokenInv
  <1>12. CASE /\ stops = {}
              /\ generated_text' = text /\ has_next_token' = more
              /\ IF partial = {} \/ (~more /\ Min(partial) > 0)
                 THEN sent_count' = Len(text) /\ delivered' = delivered \o unsent
                 ELSE UNCHANGED <<sent_count, delivered>>
              /\ UNCHANGED stopped_word
    <2>1. ~Cut'
      BY <1>1, <1>4, <1>12 DEF Cut
    <2>2. \/ /\ partial = {} \/ ~more
             /\ sent_count' = Len(text) /\ delivered' = delivered \o unsent
          \/ UNCHANGED <<sent_count, delivered>>
      BY <1>12
    <2>3. delivered \o unsent = text /\ SubSeq(text, 1, Len(text)) = text
      BY <1>4, <1>8, WholeBeginning
    <2>4. /\ sent_count' \in Nat /\ sent_count' <= Len(text)
          /\ delivered' = SubSeq(text, 1, sent_count') /\ Sound(delivered')
          /\ delivered' \in Bytes
      <3>1. CASE sent_count' = Len(text) /\ delivered' = delivered \o unsent
        BY <3>1, <2>3, <1>4, <1>7
      <3>2. CASE UNCHANGED <<sent_count, delivered>>
        <4>1. sent_count' = sent_count /\ delivered' = delivered
          BY <3>2
        <4>2. QED BY <4>1, <1>4, <1>6, <1>7
      <3>3. QED BY <3>1, <3>2, <2>2
    <2>5. TypeInv'
      BY <2>4, <1>1, <1>3, <1>4, <1>6, <1>7, <1>10, <1>12, BytesConcat DEF TypeInv
    <2>6. ReadInv'
      <3>1. fed' = fed' \o pending'
        BY <1>3, <1>4, BytesConcat
      <3>2. generated_text' = Reading(fed') /\ fed' \in Bytes
        BY <1>3, <1>4, <1>12
      <3>3. QED BY <3>1, <3>2, <2>1 DEF ReadInv
    <2>7. DeliveredInv'
      <3>1. case'.consumer # "slot"
        BY <1>1, <1>6
      <3>2. QED BY <3>1, <2>4, <1>12 DEF DeliveredInv
    <2>8. has_next_token' => NoneBegun(case.stop_words, text, sent_count')
      <3>1. CASE partial = {} /\ sent_count' = Len(text)
        <4>1. PartialStops(SubSeq(text, sent_count + 1, Len(text))) = {}
          BY <3>1 DEF partial, unsent, Sent
        <4>2. \A w \in case.stop_words : w \in Bytes /\ w # <<>>
          BY <1>6
        <4>3. NoneBegun(case.stop_words, text, Len(text))
          BY <4>1, <4>2, <1>4, <1>7, NoneBegunWhenSent
        <4>4. QED BY <4>3, <3>1
      <3>2. CASE ~more
        BY <3>2, <1>12
      <3>3. CASE sent_count' = sent_count
        BY <3>3, <1>4
      <3>4. QED BY <3>1, <3>2, <3>3, <2>2
    <2>9. ~unseen' => Clear(case.stop_words, text, Len(text))
      <3> SUFFICES ASSUME ~unseen', NEW w \in case.stop_words, NEW o \in Nat,
                          o + Len(w) <= Len(text), Occurs(w, text, o)
                   PROVE  FALSE
        BY DEF Clear
      <3>1. o - sent_count \in stops
        BY <1>4, <1>10
      <3>2. QED BY <3>1, <1>12
    <2>10. SearchInv'
      <3>1. checked' = Len(generated_text') /\ sent_count' <= checked'
            /\ checked' <= Len(generated_text')
        BY <2>4, <1>3, <1>7, <1>12
      <3>2. CompletionSearch'
        BY <3>1, <2>1, <2>8, <2>9, <1>1, <1>3, <1>12 DEF CompletionSearch
      <3>3. case'.consumer # "slot"
        BY <1>1, <1>6
      <3>4. QED BY <3>2, <3>3 DEF SearchInv
    <2>11. QED BY <1>9, <2>5, <2>6, <2>7, <2>10 DEF TokenInv
  <1>13. QED BY <1>5, <1>11, <1>12

LEMMA EndTokenKeeps ==
  ASSUME TokenInv, EndToken
  PROVE  TokenInv'
  <1>1. /\ case.consumer = "completion" /\ running /\ has_next_token
        /\ has_next_token' = (pending # <<>>)
        /\ UNCHANGED <<case, pending, generated_text, sent_count, running, stopped_word, fed,
                       delivered, checked, unseen>>
    BY DEF EndToken, InCompletion
  <1>2. ~Cut /\ ~Cut'
    BY <1>1 DEF TokenInv, ReadInv, Cut
  <1>3. TypeInv' /\ GateInv'
    BY <1>1 DEF TokenInv, TypeInv, GateInv
  <1>4. ReadInv'
    BY <1>1, <1>2 DEF TokenInv, ReadInv
  <1>5. DeliveredInv'
    BY <1>1 DEF TokenInv, DeliveredInv
  <1>6. SearchInv'
    <2>1. CompletionSearch
      BY <1>1 DEF TokenInv, SearchInv
    <2>2. CompletionSearch'
      BY <2>1, <1>1, <1>2 DEF CompletionSearch
    <2>3. case'.consumer # "slot"
      BY <1>1
    <2>4. QED BY <2>2, <2>3 DEF SearchInv
  <1>7. QED BY <1>3, <1>4, <1>5, <1>6 DEF TokenInv

\* The end adds to the text what the gate holds, and the text is that of all bytes.
LEMMA FinishAdds ==
  ASSUME NEW c \in Bytes, NEW h \in Bytes, h # <<>> => CanBeCompleted(h),
         NEW text, text = Reading(c)
  PROVE  /\ Finished(text, h) = Reading(c \o h) /\ Finished(text, h) \in Bytes
         /\ Begins(text, Finished(text, h))
  <1>1. Finished(text, h) = Reading(c \o h)
    BY FinishedIs
  <1>2. c \o h \in Bytes
    BY BytesConcat
  <1>3. Finished(text, h) \in Bytes
    BY <1>1, <1>2, ReadingIs
  <1>4. Finished(text, h) = text \o Reading(h) /\ Reading(h) \in Bytes
    BY SanitizeIsReading, ReadingIs DEF Finished
  <1>5. QED BY <1>1, <1>3, <1>4 DEF Begins

LEMMA FinishedNothing ==
  ASSUME NEW text \in Bytes
  PROVE  Finished(text, <<>>) = text
  <1>1. utf8_sanitize(<<>>) = <<>>
    BY BytesConcat, SanitizeIsReading, ReadingIs
  <1>2. QED BY <1>1, BytesConcat DEF Finished

LEMMA EndCompletionKeeps ==
  ASSUME TokenInv, EndCompletion
  PROVE  TokenInv'
  <1>1. /\ case.consumer = "completion" /\ running
        /\ generated_text' = Finished(generated_text, pending) /\ pending' = <<>>
        /\ running' = FALSE /\ has_next_token' = FALSE
        /\ unseen' = (unseen \/ (Len(generated_text') > checked /\ ~stopped_word))
        /\ UNCHANGED <<case, sent_count, stopped_word, fed, delivered, checked>>
    BY DEF EndCompletion
  <1>2. /\ case \in Cases /\ pending \in Bytes /\ generated_text \in Bytes /\ fed \in Bytes
        /\ sent_count \in Nat /\ checked \in Nat /\ stopped_word \in BOOLEAN
        /\ unseen \in BOOLEAN /\ delivered \in Bytes
        /\ pending # <<>> => CanBeCompleted(pending)
    BY DEF TokenInv, TypeInv, GateInv
  <1>3. Cut' <=> Cut
    BY <1>1 DEF Cut
  <1>4. /\ CompletionSearch /\ Sound(delivered) /\ sent_count <= Len(generated_text)
        /\ delivered = SubSeq(generated_text, 1, sent_count)
    BY <1>1 DEF TokenInv, SearchInv, DeliveredInv
  <1>5. GateInv'
    BY <1>1 DEF GateInv
  <1>6. <<>> \in Bytes
    BY BytesConcat
  <1>7. unseen' \in BOOLEAN /\ (~unseen' => ~unseen /\ (stopped_word \/ ~(Len(generated_text') > checked)))
    BY <1>1, <1>2
  <1>8. case'.consumer # "slot"
    BY <1>1
  <1>9. CASE Cut
    <2>1. /\ pending = <<>> /\ Sound(generated_text)
          /\ Begins(generated_text, Reading(fed))
      BY <1>9 DEF TokenInv, ReadInv
    <2>2. generated_text' = generated_text
      BY <2>1, <1>1, <1>2, FinishedNothing
    <2>3. TypeInv'
      BY <2>2, <1>1, <1>2, <1>6, <1>7 DEF TypeInv
    <2>4. ReadInv'
      BY <2>1, <2>2, <1>1, <1>3, <1>9 DEF ReadInv
    <2>5. DeliveredInv'
      BY <2>2, <1>1, <1>4, <1>8 DEF DeliveredInv
    <2>6. CompletionSearch'
      <3>1. Cut /\ ~unseen => Clear(case.stop_words, generated_text, Len(generated_text))
        BY <1>4 DEF CompletionSearch
      <3>2. sent_count <= checked
        BY <1>4 DEF CompletionSearch
      <3>3. QED BY <3>1, <3>2, <2>2, <1>1, <1>3, <1>7, <1>9 DEF CompletionSearch
    <2>7. SearchInv'
      BY <2>6, <1>8 DEF SearchInv
    <2>8. QED BY <2>3, <2>4, <2>5, <2>7, <1>5 DEF TokenInv
  <1>10. CASE ~Cut
    <2>1. PICK c \in Bytes : fed = c \o pending /\ generated_text = Reading(c)
      BY <1>10 DEF TokenInv, ReadInv
    <2>2. /\ generated_text' = Reading(fed) /\ generated_text' \in Bytes
          /\ Begins(generated_text, generated_text')
      BY <2>1, <1>1, <1>2, FinishAdds
    <2>3. PICK y \in Bytes : generated_text' = generated_text \o y
      BY <2>2 DEF Begins
    <2>4. /\ Len(generated_text') = Len(generated_text) + Len(y)
          /\ Len(generated_text) \in Nat /\ Len(y) \in Nat
      BY <2>3, <1>2, BytesConcat
    <2>5. TypeInv'
      BY <2>2, <1>1, <1>2, <1>6, <1>7 DEF TypeInv
    <2>6. ReadInv'
      <3>1. fed' = fed' \o pending'
        BY <1>1, <1>2, BytesConcat
      <3>2. generated_text' = Reading(fed') /\ fed' \in Bytes
        BY <2>2, <1>1, <1>2
      <3>3. QED BY <3>1, <3>2, <1>3, <1>10 DEF ReadInv
    <2>7. DeliveredInv'
      <3>1. sent_count \in 0 .. Len(generated_text) /\ sent_count <= Len(generated_text')
        BY <2>4, <1>2, <1>4
      <3>2. SubSeq(generated_text', 1, sent_count) = SubSeq(generated_text, 1, sent_count)
        BY <3>1, <2>3, <1>2, BeginningOfConcat
      <3>3. QED BY <3>1, <3>2, <1>1, <1>4, <1>8 DEF DeliveredInv
    <2>8. CompletionSearch'
      <3>1. /\ sent_count <= checked /\ checked <= Len(generated_text)
            /\ ~unseen => Clear(case.stop_words, generated_text, checked)
        BY <1>4, <1>10 DEF CompletionSearch
      <3>2. checked <= Len(generated_text')
        BY <3>1, <2>4, <1>2
      <3>3. ~stopped_word
        BY <1>1, <1>10 DEF Cut
      <3>4. ~unseen' => checked = Len(generated_text')
        BY <3>2, <3>3, <2>4, <1>2, <1>7
      <3>5. ~unseen' => Clear(case.stop_words, generated_text', checked)
        <4>1. \A i \in 1 .. checked : generated_text[i] = generated_text'[i]
          <5>1. \A i \in 1 .. checked :
                  i \in 1 .. Len(generated_text) + Len(y) /\ i <= Len(generated_text)
            BY <3>1, <2>4, <1>2
          <5>2. \A i \in 1 .. Len(generated_text) + Len(y) :
                  generated_text'[i] = IF i <= Len(generated_text) THEN generated_text[i]
                                       ELSE y[i - Len(generated_text)]
            BY <2>3, <1>2, ConcatIs DEF Bytes
          <5>3. QED BY <5>1, <5>2
        <4>2. \A w \in case.stop_words : w \in Bytes
          BY <1>2, CaseIs
        <4>3. QED BY <4>1, <4>2, <3>1, <1>2, <1>7, ClearSame
      <3>6. QED BY <3>1, <3>2, <3>4, <3>5, <1>1, <1>3, <1>10 DEF CompletionSearch
    <2>9. SearchInv'
      BY <2>8, <1>8 DEF SearchInv
    <2>10. QED BY <2>5, <2>6, <2>7, <2>9, <1>5 DEF TokenInv
  <1>11. QED BY <1>9, <1>10

LEMMA SlotTokenKeeps ==
  ASSUME TokenInv, SlotToken
  PROVE  TokenInv'
  <1>1. /\ case.consumer = "slot" /\ running
        /\ UNCHANGED <<case, sent_count, has_next_token, unseen>>
    BY DEF SlotToken, InSlot
  <1>2. PICK p \in case.pieces, limit \in BOOLEAN :
          LET passed == feed(p)
              text == generated_text \o passed.text
              stops == text # <<>> /\ FullStops(text, Len(passed.text)) # {}
          IN
          /\ fed' = fed \o p /\ delivered' = delivered \o passed.text
          /\ stopped_word' = stops /\ checked' = Len(text)
          /\ running' = ~(stops \/ limit)
          /\ IF running'
             THEN generated_text' = text /\ pending' = passed.pending
             ELSE generated_text' = Finished(text, passed.pending) /\ pending' = <<>>
    BY DEF SlotToken
  <1> DEFINE x == feed(p).text
             held == feed(p).pending
             text == generated_text \o x
             stops == text # <<>> /\ FullStops(text, Len(x)) # {}
  <1>3. /\ fed' = fed \o p /\ delivered' = delivered \o x
        /\ stopped_word' = stops /\ checked' = Len(text)
        /\ running' = ~(stops \/ limit)
        /\ IF running' THEN generated_text' = text /\ pending' = held
           ELSE generated_text' = Finished(text, held) /\ pending' = <<>>
    BY <1>2
  <1>4. ~Cut /\ ~Cut'
    BY <1>1 DEF Cut
  <1>5. /\ case \in Cases /\ generated_text \in Bytes /\ sent_count \in Nat
        /\ has_next_token \in BOOLEAN /\ unseen \in BOOLEAN
        /\ delivered = generated_text
        /\ Clear(case.stop_words, generated_text, Len(generated_text))
    BY <1>1 DEF TokenInv, TypeInv, DeliveredInv, SearchInv
  <1>6. /\ p \in Bytes /\ p # <<>>
        /\ held \in Bytes /\ x \in Bytes /\ fed \o p \in Bytes
        /\ text \in Bytes /\ Len(text) = Len(generated_text) + Len(x) /\ Sound(text)
        /\ held # <<>> => CanBeCompleted(held)
        /\ held = <<>> => Closed(fed \o p)
        /\ \E d \in Bytes : fed \o p = d \o held /\ text = Reading(d)
    BY <1>1, <1>4, TokenAdds
  <1>7. running' \in BOOLEAN /\ stopped_word' \in BOOLEAN /\ (running' => ~stops)
    BY <1>3
  <1>8. delivered' = text /\ checked' \in Nat /\ Len(x) \in Nat /\ Len(generated_text) \in Nat
    BY <1>3, <1>5, <1>6, BytesConcat
  <1>9. running' => Clear(case.stop_words, text, Len(text))
    <2> SUFFICES ASSUME running', NEW w \in case.stop_words, NEW o \in Nat,
                        o + Len(w) <= Len(text), Occurs(w, text, o)
                 PROVE  FALSE
      BY DEF Clear
    <2>1. w \in Bytes /\ w # <<>> /\ Len(w) \in Nat /\ Len(w) > 0
      BY <1>5, CaseIs, BytesConcat
    <2> HIDE DEF x
    <2>2. Len(generated_text) < o + Len(w)
      <3>1. Clear(case.stop_words, text, Len(generated_text))
        <4>1. \A i \in 1 .. Len(generated_text) : generated_text[i] = text[i]
          <5>1. \A i \in 1 .. Len(generated_text) :
                  i \in 1 .. Len(generated_text) + Len(x) /\ i <= Len(generated_text)
            BY <1>8
          <5>2. \A i \in 1 .. Len(generated_text) + Len(x) :
                  text[i] = IF i <= Len(generated_text) THEN generated_text[i]
                            ELSE x[i - Len(generated_text)]
            BY <1>5, <1>6, ConcatIs DEF Bytes
          <5> HIDE DEF text
          <5>3. QED BY <5>1, <5>2
        <4>2. \A v \in case.stop_words : v \in Bytes
          BY <1>5, CaseIs
        <4> HIDE DEF text
        <4>3. QED BY <4>1, <4>2, <1>5, <1>8, ClearSame
      <3> HIDE DEF text
      <3>2. ~(o + Len(w) <= Len(generated_text))
        BY <3>1 DEF Clear
      <3>3. QED BY <3>2, <2>1, <1>8
    <2> HIDE DEF text
    <2>3. o + Len(w) + Len(x) >= Len(text)
      BY <2>1, <2>2, <1>6, <1>8
    <2>4. SearchFrom(w, text, Len(x)) \in Nat /\ SearchFrom(w, text, Len(x)) <= o
      BY <2>1, <2>3, <1>6, <1>8, SearchFromIs
    <2>5. o \in Found(w, text, SearchFrom(w, text, Len(x)))
      BY <2>1, <2>4, <1>6, FoundIs
    <2>6. FullStops(text, Len(x)) # {}
      BY <2>5 DEF FullStops
    <2>7. text # <<>>
      <3>1. Len(text) > 0
        BY <2>1, <1>6, <1>8
      <3>2. QED BY <3>1
    <2>8. QED BY <2>6, <2>7, <1>7
  <1> HIDE DEF x, held, text, stops
  <1>10. PICK d \in Bytes : fed \o p = d \o held /\ text = Reading(d)
    BY <1>6
  <1>11. case'.consumer # "completion" /\ case' = case
    BY <1>1
  <1>12. CASE running'
    <2>1. generated_text' = text /\ pending' = held
      BY <1>3, <1>12
    <2>2. TypeInv'
      BY <2>1, <1>1, <1>3, <1>5, <1>6, <1>7, <1>8 DEF TypeInv
    <2>3. GateInv'
      BY <2>1, <1>3, <1>6, <1>12 DEF GateInv
    <2>4. ReadInv'
      BY <2>1, <1>3, <1>4, <1>10 DEF ReadInv
    <2>5. DeliveredInv'
      <3>1. Begins(text, text)
        BY <1>6, BytesConcat DEF Begins
      <3>2. QED BY <3>1, <2>1, <1>6, <1>8, <1>11 DEF DeliveredInv
    <2>6. SearchInv'
      BY <2>1, <1>9, <1>11, <1>12 DEF SearchInv
    <2>7. QED BY <2>2, <2>3, <2>4, <2>5, <2>6 DEF TokenInv
  <1>13. CASE ~running'
    <2>1. generated_text' = Finished(text, held) /\ pending' = <<>>
      BY <1>3, <1>13
    <2>2. /\ generated_text' = Reading(fed') /\ generated_text' \in Bytes
          /\ Begins(text, generated_text')
      BY <2>1, <1>3, <1>6, <1>10, FinishAdds
    <2>3. <<>> \in Bytes /\ fed' \in Bytes /\ fed' = fed' \o pending'
      BY <2>1, <1>3, <1>6, BytesConcat
    <2>4. TypeInv'
      BY <2>1, <2>2, <2>3, <1>1, <1>3, <1>5, <1>6, <1>7, <1>8 DEF TypeInv
    <2>5. GateInv'
      BY <2>1, <1>13 DEF GateInv
    <2>6. ReadInv'
      BY <2>2, <2>3, <1>4 DEF ReadInv
    <2>7. DeliveredInv'
      BY <2>2, <1>6, <1>8, <1>11, <1>13 DEF DeliveredInv
    <2>8. SearchInv'
      BY <1>11, <1>13 DEF SearchInv
    <2>9. QED BY <2>4, <2>5, <2>6, <2>7, <2>8 DEF TokenInv
  <1>14. QED BY <1>12, <1>13

LEMMA CompleteSlotKeeps ==
  ASSUME TokenInv, CompleteSlot
  PROVE  TokenInv'
  <1>1. /\ case.consumer = "slot" /\ running
        /\ generated_text' = Finished(generated_text, pending) /\ pending' = <<>>
        /\ running' = FALSE
        /\ UNCHANGED <<case, sent_count, has_next_token, stopped_word, fed, delivered, checked,
                       unseen>>
    BY DEF CompleteSlot, InSlot
  <1>2. ~Cut /\ ~Cut'
    BY <1>1 DEF Cut
  <1>3. /\ pending \in Bytes /\ fed \in Bytes /\ generated_text \in Bytes
        /\ pending # <<>> => CanBeCompleted(pending)
        /\ Sound(delivered) /\ delivered = generated_text
    BY <1>1 DEF TokenInv, TypeInv, GateInv, DeliveredInv
  <1>4. PICK c \in Bytes : fed = c \o pending /\ generated_text = Reading(c)
    BY <1>2 DEF TokenInv, ReadInv
  <1>5. /\ generated_text' = Reading(fed) /\ generated_text' \in Bytes
        /\ Begins(generated_text, generated_text')
    BY <1>1, <1>3, <1>4, FinishAdds
  <1>6. <<>> \in Bytes /\ fed' = fed' \o pending'
    BY <1>1, <1>3, BytesConcat
  <1>7. TypeInv'
    BY <1>1, <1>5, <1>6 DEF TokenInv, TypeInv
  <1>8. GateInv'
    BY <1>1 DEF GateInv
  <1>9. ReadInv'
    BY <1>1, <1>2, <1>3, <1>5, <1>6 DEF ReadInv
  <1>10. DeliveredInv'
    BY <1>1, <1>3, <1>5 DEF DeliveredInv
  <1>11. SearchInv'
    BY <1>1 DEF SearchInv
  <1>12. QED BY <1>7, <1>8, <1>9, <1>10, <1>11 DEF TokenInv

LEMMA NextToken ==
  ASSUME TokenInv, [Next]_vars
  PROVE  TokenInv'
  <1>1. CASE IncompleteToken
    BY <1>1, IncompleteTokenKeeps
  <1>2. CASE CompleteToken
    BY <1>2, CompleteTokenKeeps
  <1>3. CASE EndToken
    BY <1>3, EndTokenKeeps
  <1>4. CASE EndCompletion
    BY <1>4, EndCompletionKeeps
  <1>5. CASE SlotToken
    BY <1>5, SlotTokenKeeps
  <1>6. CASE CompleteSlot
    BY <1>6, CompleteSlotKeeps
  <1>7. CASE UNCHANGED vars
    BY <1>7 DEF vars, TokenInv, TypeInv, GateInv, ReadInv, DeliveredInv, SearchInv,
                CompletionSearch, Cut
  <1>8. QED BY <1>1, <1>2, <1>3, <1>4, <1>5, <1>6, <1>7 DEF Next

\* The gate, the text, the deltas and the search for stop words agree at every step of both
\* consumers: the inductive invariant.
THEOREM TokenInvariant == Spec => []TokenInv
  <1>1. Init => TokenInv
    BY InitToken
  <1>2. TokenInv /\ [Next]_vars => TokenInv'
    BY NextToken
  <1>3. QED BY <1>1, <1>2, PTL DEF Spec

-----------------------------------------------------------------------------
(* What it means                                                           *)

\* Whatever bytes the tokens are and however characters are split over them, a completion and
\* a slot turn them into exactly their meaning as UTF-8, and give the application a
\* beginning of it in which no character is torn: utf8_stream_gate, utf8_sanitize() and
\* the cut at a stop word.
THEOREM TextIsExact == Spec => []TextExact
  <1>1. ASSUME TokenInv PROVE TextExact
    <2>1. /\ pending \in Bytes /\ generated_text \in Bytes /\ fed \in Bytes
          /\ delivered \in Bytes /\ sent_count \in Nat /\ case \in Cases
          /\ pending # <<>> => CanBeCompleted(pending)
      BY <1>1 DEF TokenInv, TypeInv, GateInv
    <2>2. Text(fed) = Reading(fed) /\ Reading(fed) \in Bytes
      BY <2>1, TextIsReading, ReadingIs
    <2>3. Sound(generated_text)
      <3>1. CASE Cut
        BY <3>1, <1>1 DEF TokenInv, ReadInv
      <3>2. CASE ~Cut
        BY <3>2, <1>1, ReadingIsSound DEF TokenInv, ReadInv
      <3>3. QED BY <3>1, <3>2
    <2>4. utf8_is_well_formed(generated_text) /\ utf8_is_well_formed(delivered)
      <3>1. Sound(delivered)
        BY <1>1 DEF TokenInv, DeliveredInv
      <3>2. QED BY <2>1, <2>3, <3>1, WellFormedIsSound
    <2>5. IsPrefix(delivered, generated_text)
      <3>1. CASE case.consumer = "completion"
        <4>1. /\ sent_count <= Len(generated_text)
              /\ delivered = SubSeq(generated_text, 1, sent_count)
          BY <3>1, <1>1 DEF TokenInv, DeliveredInv
        <4>2. sent_count \in 0 .. Len(generated_text)
          BY <4>1, <2>1, BytesConcat
        <4>3. Begins(delivered, generated_text)
          BY <4>1, <4>2, <2>1, SplitIs DEF Begins
        <4>4. QED BY <4>3, <2>1, BeginsIs
      <3>2. CASE case.consumer = "slot"
        <4>1. Begins(delivered, generated_text)
          BY <3>2, <1>1 DEF TokenInv, DeliveredInv
        <4>2. QED BY <4>1, <2>1, BeginsIs
      <3>3. QED BY <3>1, <3>2, <2>1, CaseIs
    <2>6. IF Cut THEN IsPrefix(generated_text, Text(fed))
          ELSE generated_text \o Text(pending) = Text(fed)
      <3>1. CASE Cut
        <4>1. Begins(generated_text, Reading(fed))
          BY <3>1, <1>1 DEF TokenInv, ReadInv
        <4>2. IsPrefix(generated_text, Reading(fed))
          BY <4>1, <2>1, BeginsIs
        <4>3. QED BY <4>2, <3>1, <2>2
      <3>2. CASE ~Cut
        <4>1. PICK c \in Bytes : fed = c \o pending /\ generated_text = Reading(c)
          BY <3>2, <1>1 DEF TokenInv, ReadInv
        <4>2. Apart(c, pending)
          BY <2>1, ContinuationIsNoLead DEF Apart
        <4>3. Reading(fed) = generated_text \o Reading(pending)
          BY <4>1, <4>2, <2>1, Joined
        <4>4. Text(pending) = Reading(pending)
          BY <2>1, TextIsReading
        <4>5. QED BY <4>3, <4>4, <3>2, <2>2
      <3>3. QED BY <3>1, <3>2
    <2>7. QED BY <2>1, <2>4, <2>5, <2>6 DEF TextExact
  <1>2. QED BY <1>1, TokenInvariant, PTL

\* The bounded searches of findStoppingStrings() find every stop word as soon as it is in
\* the text, over how many tokens ever it is spread: none is in the text of a slot that
\* goes on, and none in that of a completion whose tokens' bytes were all looked at.
THEOREM StopWordEnds == Spec => []StopWordEndsGeneration
  <1>1. ASSUME TokenInv PROVE StopWordEndsGeneration
    <2>1. generated_text \in Bytes /\ case \in Cases /\ checked \in Nat
      BY <1>1 DEF TokenInv, TypeInv
    <2>2. /\ case.consumer \in {"completion", "slot"}
          /\ \A w \in case.stop_words : w \in Bytes /\ w # <<>>
      BY <2>1, CaseIs
    <2>3. ASSUME IF case.consumer = "slot" THEN running ELSE pending = <<>> /\ ~unseen
          PROVE  Clear(case.stop_words, generated_text, Len(generated_text))
      <3>1. CASE case.consumer = "slot"
        BY <3>1, <2>3, <1>1 DEF TokenInv, SearchInv
      <3>2. CASE case.consumer = "completion"
        <4>1. CompletionSearch /\ pending = <<>> /\ ~unseen
          BY <3>2, <2>3, <1>1 DEF TokenInv, SearchInv
        <4>2. QED BY <4>1 DEF CompletionSearch
      <3>3. QED BY <3>1, <3>2, <2>2
    <2>4. QED BY <2>1, <2>2, <2>3, NoneFound DEF StopWordEndsGeneration
  <1>2. QED BY <1>1, TokenInvariant, PTL
=============================================================================
