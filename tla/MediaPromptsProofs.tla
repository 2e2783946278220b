------------------------- MODULE MediaPromptsProofs -------------------------
(***************************************************************************)
(* Lemmas about prompts, their chunks and the memory of a sequence, on     *)
(* which the proofs about SlotState and PromptCache rest.                  *)
(***************************************************************************)
EXTENDS MediaPrompts, FiniteSetTheorems, TLAPS

-----------------------------------------------------------------------------
(* Least and greatest numbers                                              *)

LEMMA LeastExists ==
  ASSUME NEW S \in SUBSET Nat, S # {}
  PROVE  \E x \in S : \A y \in S : x <= y
  <1>1. PICK s \in S : TRUE
    OBVIOUS
  <1> DEFINE Below == {k \in 0 .. s : \A y \in S : k <= y}
             c == Cardinality(Below)
  <1>2. IsFiniteSet(Below) /\ c \in Nat
    <2>1. IsFiniteSet(0 .. s)
      BY FS_Interval
    <2>2. QED BY <2>1, FS_Subset, FS_CardinalityType
  <1>3. \A k \in Below : k + 1 <= c
    <2> TAKE k \in Below
    <2>1. 0 .. k \subseteq Below
      OBVIOUS
    <2>2. Cardinality(0 .. k) = k + 1
      BY FS_Interval
    <2>3. QED BY <2>1, <2>2, <1>2, FS_Subset
  <1>4. 0 \in Below /\ Below \subseteq Nat
    OBVIOUS
  <1>5. \A k \in Below : \A y \in S : k <= y
    OBVIOUS
  <1>6. \A k \in 0 .. s : k \notin Below => \E y \in S : y < k
    OBVIOUS
  <1>7. \A d \in Nat : IsFiniteSet(0 .. d - 1) /\ Cardinality(0 .. d - 1) = d
    BY FS_Interval
  <1>8. Below = 0 .. c - 1
    <2> HIDE DEF c
    <2>1. Below \subseteq 0 .. c - 1
      <3> HIDE DEF Below
      <3>1. QED BY <1>2, <1>3, <1>4
    <2>2. QED BY <2>1, <1>2, <1>7, FS_Subset DEF c
  <1>9. c <= s + 1 /\ c > 0
    <2> HIDE DEF Below, c
    <2>1. 0 \in 0 .. c - 1
      BY <1>4, <1>8
    <2>2. c - 1 \in Below
      BY <2>1, <1>2, <1>8
    <2>3. QED BY <2>1, <2>2, <1>1, <1>2, <1>5
  <1>10. \E y \in S : y < c
    <2> HIDE DEF Below, c
    <2>1. c \notin Below
      BY <1>2, <1>8
    <2>2. CASE c <= s
      BY <2>1, <2>2, <1>2, <1>6
    <2>3. CASE c = s + 1
      BY <2>3, <1>1
    <2>4. QED BY <2>2, <2>3, <1>1, <1>2, <1>9
  <1>11. QED
    <2> HIDE DEF Below, c
    <2>1. PICK y \in S : y < c
      BY <1>10
    <2>2. c - 1 \in Below
      BY <1>2, <1>8, <1>9
    <2>3. QED BY <2>1, <2>2, <1>2, <1>5

LEMMA GreatestExists ==
  ASSUME NEW n \in Nat, NEW S \in SUBSET (0 .. n), S # {}
  PROVE  \E x \in S : \A y \in S : x >= y
  <1> DEFINE T == {n - x : x \in S}
  <1>1. T \in SUBSET Nat /\ T # {}
    <2>1. \A x \in S : n - x \in Nat
      OBVIOUS
    <2>2. QED BY <2>1
  <1>2. PICK t \in T : \A u \in T : t <= u
    BY <1>1, LeastExists
  <1>3. PICK x \in S : t = n - x
    OBVIOUS
  <1>4. \A y \in S : n - y \in T
    OBVIOUS
  <1>5. QED BY <1>2, <1>3, <1>4

LEMMA MinIs ==
  ASSUME NEW S \in SUBSET Nat, S # {}
  PROVE  Min(S) \in S /\ \A y \in S : Min(S) <= y
  BY LeastExists DEF Min

LEMMA MaxIs ==
  ASSUME NEW n \in Nat, NEW S \in SUBSET (0 .. n), S # {}
  PROVE  Max(S) \in S /\ \A y \in S : Max(S) >= y
  BY GreatestExists DEF Max

LEMMA MinOfTwo ==
  ASSUME NEW a \in Nat, NEW b \in Nat
  PROVE  Min({a, b}) = IF a <= b THEN a ELSE b
  BY MinIs

\* A function that is defined by recursion from 0 to n exists.
ByRecursion(f, n, start, step) ==
  f[0] = start /\ \A i \in 1 .. n : f[i] = step[i][f[i - 1]]

LEMMA Recursion ==
  ASSUME NEW n \in Nat, NEW S, NEW start \in S, NEW step \in [1 .. n -> [S -> S]]
  PROVE  \E f \in [0 .. n -> S] : ByRecursion(f, n, start, step)
  <1> DEFINE Upto(k, f) == ByRecursion(f, k, start, step)
             Missing == {k \in 0 .. n : ~ \E f \in [0 .. k -> S] : Upto(k, f)}
  <1>1. SUFFICES ASSUME Missing # {} PROVE FALSE
    <2>1. n \notin Missing
      BY <1>1
    <2>2. QED BY <2>1
  <1>2. PICK k \in Missing : \A j \in Missing : k <= j
    <2>1. Missing \in SUBSET Nat
      OBVIOUS
    <2> HIDE DEF Missing
    <2>2. QED BY <1>1, <2>1, LeastExists
  <1>3. k \in 0 .. n /\ \A f \in [0 .. k -> S] : ~Upto(k, f)
    BY <1>2
  <1>4. CASE k = 0
    <2>1. [i \in 0 .. 0 |-> start] \in [0 .. 0 -> S] /\ Upto(0, [i \in 0 .. 0 |-> start])
      BY DEF ByRecursion
    <2>2. QED BY <1>3, <1>4, <2>1
  <1>5. CASE k > 0
    <2>1. k - 1 \in 0 .. n /\ k - 1 \notin Missing
      BY <1>2, <1>3, <1>5
    <2>2. PICK f \in [0 .. k - 1 -> S] : Upto(k - 1, f)
      <3> HIDE DEF Upto
      <3>1. QED BY <2>1
    <2> DEFINE last == step[k][f[k - 1]]
               g == [i \in 0 .. k |-> IF i = k THEN last ELSE f[i]]
    <2>3. f[k - 1] \in S /\ k \in 1 .. n
      BY <1>3, <1>5
    <2>4. last \in S
      <3>1. step[k] \in [S -> S]
        BY <2>3
      <3>2. QED BY <2>3, <3>1
    <2> HIDE DEF last
    <2>5. g \in [0 .. k -> S]
      BY <1>3, <2>2, <2>4
    <2>6. g[0] = start
      BY <1>3, <1>5, <2>2 DEF ByRecursion
    <2>7. ASSUME NEW i \in 1 .. k
          PROVE  g[i] = step[i][g[i - 1]]
      <3>1. g[i - 1] = f[i - 1]
        BY <1>3
      <3>2. CASE i = k
        BY <1>3, <3>1, <3>2 DEF last
      <3>3. CASE i # k
        <4>1. i \in 1 .. k - 1 /\ g[i] = f[i]
          BY <1>3, <3>3
        <4>2. QED BY <2>2, <3>1, <4>1 DEF ByRecursion
      <3>4. QED BY <3>2, <3>3
    <2>8. QED BY <1>3, <2>5, <2>6, <2>7 DEF ByRecursion
  <1>6. QED BY <1>3, <1>4, <1>5

-----------------------------------------------------------------------------
(* Sequences                                                               *)

LEMMA SeqEqual ==
  ASSUME NEW S, NEW s \in Seq(S), NEW t \in Seq(S), Len(s) = Len(t),
         \A i \in 1 .. Len(s) : s[i] = t[i]
  PROVE  s = t
  OBVIOUS

LEMMA FirstItemsAre ==
  ASSUME NEW S, NEW s \in Seq(S), NEW n \in Nat
  PROVE  /\ FirstItems(s, n) \in Seq(S)
         /\ Len(FirstItems(s, n)) = IF n <= Len(s) THEN n ELSE Len(s)
         /\ \A i \in 1 .. Len(FirstItems(s, n)) : FirstItems(s, n)[i] = s[i]
  <1>1. Min({n, Len(s)}) = IF n <= Len(s) THEN n ELSE Len(s)
    BY MinOfTwo
  <1>2. ASSUME NEW m \in Nat, m <= Len(s)
        PROVE  /\ SubSeq(s, 1, m) \in Seq(S) /\ Len(SubSeq(s, 1, m)) = m
               /\ \A i \in 1 .. m : SubSeq(s, 1, m)[i] = s[i]
    BY <1>2
  <1> DEFINE m == Min({n, Len(s)})
  <1>3. m \in Nat /\ m <= Len(s)
    BY <1>1
  <1>4. FirstItems(s, n) = SubSeq(s, 1, m)
    BY DEF FirstItems
  <1>5. m = IF n <= Len(s) THEN n ELSE Len(s)
    BY <1>1
  <1> HIDE DEF m
  <1>6. QED BY <1>2, <1>3, <1>4, <1>5

LEMMA ConcatIs ==
  ASSUME NEW S, NEW s \in Seq(S), NEW t \in Seq(S)
  PROVE  /\ s \o t \in Seq(S) /\ Len(s \o t) = Len(s) + Len(t)
         /\ \A i \in 1 .. Len(s) + Len(t) :
              (s \o t)[i] = IF i <= Len(s) THEN s[i] ELSE t[i - Len(s)]
  OBVIOUS

LEMMA FirstItemsAll ==
  ASSUME NEW S, NEW s \in Seq(S), NEW n \in Nat, n >= Len(s)
  PROVE  FirstItems(s, n) = s
  BY FirstItemsAre, SeqEqual

LEMMA FirstItemsNone ==
  ASSUME NEW S, NEW s \in Seq(S)
  PROVE  FirstItems(s, 0) = <<>>
  BY FirstItemsAre, SeqEqual

LEMMA FirstOfFirst ==
  ASSUME NEW S, NEW s \in Seq(S), NEW n \in Nat, NEW k \in Nat, k <= n
  PROVE  FirstItems(FirstItems(s, n), k) = FirstItems(s, k)
  <1>1. FirstItems(s, n) \in Seq(S) /\ FirstItems(s, k) \in Seq(S)
    BY FirstItemsAre
  <1>2. FirstItems(FirstItems(s, n), k) \in Seq(S)
    BY <1>1, FirstItemsAre
  <1>3. Len(FirstItems(FirstItems(s, n), k)) = Len(FirstItems(s, k))
    BY <1>1, FirstItemsAre
  <1>4. \A i \in 1 .. Len(FirstItems(s, k)) :
          FirstItems(FirstItems(s, n), k)[i] = FirstItems(s, k)[i]
    BY <1>1, <1>3, FirstItemsAre
  <1>5. QED BY <1>1, <1>2, <1>3, <1>4, SeqEqual

LEMMA FirstExtended ==
  ASSUME NEW S, NEW s \in Seq(S), NEW n \in Nat, NEW e \in Nat, n <= e, e <= Len(s)
  PROVE  /\ SubSeq(s, n + 1, e) \in Seq(S)
         /\ FirstItems(s, n) \o SubSeq(s, n + 1, e) = FirstItems(s, e)
  <1>1. /\ SubSeq(s, n + 1, e) \in Seq(S) /\ Len(SubSeq(s, n + 1, e)) = e - n
        /\ \A i \in 1 .. e - n : SubSeq(s, n + 1, e)[i] = s[n + i]
    OBVIOUS
  <1>2. /\ FirstItems(s, n) \in Seq(S) /\ Len(FirstItems(s, n)) = n
        /\ \A i \in 1 .. n : FirstItems(s, n)[i] = s[i]
    BY FirstItemsAre
  <1>3. /\ FirstItems(s, e) \in Seq(S) /\ Len(FirstItems(s, e)) = e
        /\ \A i \in 1 .. e : FirstItems(s, e)[i] = s[i]
    BY FirstItemsAre
  <1> DEFINE t == FirstItems(s, n) \o SubSeq(s, n + 1, e)
  <1>4. /\ t \in Seq(S) /\ Len(t) = e
        /\ \A i \in 1 .. e : t[i] = IF i <= n THEN FirstItems(s, n)[i]
                                    ELSE SubSeq(s, n + 1, e)[i - n]
    <2>1. Len(FirstItems(s, n)) + Len(SubSeq(s, n + 1, e)) = e
      BY <1>1, <1>2
    <2> DEFINE a == FirstItems(s, n)
               b == SubSeq(s, n + 1, e)
    <2>2. a \in Seq(S) /\ b \in Seq(S) /\ Len(a) = n
      BY <1>1, <1>2
    <2>3. Len(a) + Len(b) = e
      BY <2>1
    <2>4. /\ a \o b \in Seq(S) /\ Len(a \o b) = e
          /\ \A i \in 1 .. e : (a \o b)[i] = IF i <= n THEN a[i] ELSE b[i - n]
      <3> HIDE DEF a, b
      <3>1. QED BY <2>2, <2>3, ConcatIs
    <2>5. QED BY <2>4
  <1>5. \A i \in 1 .. e : t[i] = s[i]
    <2> HIDE DEF t
    <2> TAKE i \in 1 .. e
    <2>1. CASE i <= n
      BY <2>1, <1>2, <1>4
    <2>2. CASE i > n
      <3>1. i - n \in 1 .. e - n /\ n + (i - n) = i
        BY <2>2
      <3>2. QED BY <2>2, <3>1, <1>1, <1>4
    <2>3. QED BY <2>1, <2>2
  <1>6. QED
    <2> HIDE DEF t
    <2>1. t = FirstItems(s, e)
      BY <1>3, <1>4, <1>5, SeqEqual
    <2>2. QED BY <2>1, <1>1 DEF t

LEMMA PrefixIs ==
  ASSUME NEW S, NEW s \in Seq(S), NEW t \in Seq(S)
  PROVE  IsPrefix(s, t) <=> Len(s) <= Len(t) /\ s = FirstItems(t, Len(s))
  <1>1. SubSeq(s, 1, Len(s)) = s
    OBVIOUS
  <1>2. Len(s) <= Len(t) => FirstItems(t, Len(s)) = SubSeq(t, 1, Len(s))
    BY MinOfTwo DEF FirstItems
  <1>3. QED BY <1>1, <1>2 DEF IsPrefix

LEMMA FirstIsPrefix ==
  ASSUME NEW S, NEW s \in Seq(S), NEW n \in Nat
  PROVE  IsPrefix(FirstItems(s, n), s)
  <1>1. FirstItems(s, n) \in Seq(S) /\ Len(FirstItems(s, n)) <= Len(s)
    BY FirstItemsAre
  <1>2. FirstItems(s, n) = FirstItems(s, Len(FirstItems(s, n)))
    BY <1>1, FirstItemsAre, FirstItemsAll
  <1>3. QED BY <1>1, <1>2, PrefixIs

\* What two sequences have in common, as the code counts it.
LEMMA CommonPrefixIs ==
  ASSUME NEW S, NEW s \in Seq(S), NEW t \in Seq(S)
  PROVE  /\ CommonPrefix(s, t) \in Nat
         /\ CommonPrefix(s, t) <= Len(s) /\ CommonPrefix(s, t) <= Len(t)
         /\ FirstItems(s, CommonPrefix(s, t)) = FirstItems(t, CommonPrefix(s, t))
  <1> DEFINE C == CommonPrefixes({s, t})
             L == {Len(u) : u \in C}
             lcp == LongestCommonPrefix({s, t})
  <1>1. \A u \in C : /\ u \in Seq(S) /\ IsPrefix(u, s) /\ IsPrefix(u, t)
    BY DEF CommonPrefixes, Prefixes
  <1>2. <<>> \in C
    BY DEF CommonPrefixes, Prefixes, IsPrefix
  <1>3. \A u \in C : Len(u) \in 0 .. Len(s)
    BY <1>1 DEF IsPrefix
  <1>4. L \in SUBSET (0 .. Len(s)) /\ L # {}
    BY <1>2, <1>3
  <1>5. PICK m \in L : \A k \in L : m >= k
    <2> HIDE DEF L
    <2>1. Len(s) \in Nat
      OBVIOUS
    <2>2. QED BY <1>4, <2>1, GreatestExists
  <1>6. \E u \in C : \A v \in C : Len(v) <= Len(u)
    BY <1>5, <1>3
  <1>7. lcp \in C
    BY <1>6 DEF LongestCommonPrefix
  <1>8. /\ lcp \in Seq(S) /\ Len(lcp) <= Len(s) /\ Len(lcp) <= Len(t)
        /\ lcp = FirstItems(s, Len(lcp)) /\ lcp = FirstItems(t, Len(lcp))
    <2> HIDE DEF lcp, C
    <2>1. QED BY <1>1, <1>7, PrefixIs
  <1>9. QED BY <1>8 DEF CommonPrefix

-----------------------------------------------------------------------------
(* Items and tokens                                                        *)

LEMMA ItemsAre ==
  ASSUME NEW S, NEW t \in Seq(S), NEW p \in S
  PROVE  /\ Items(t, p) \in Seq(S) /\ Len(Items(t, p)) = Len(t)
         /\ \A i \in 1 .. Len(t) : Items(t, p)[i] = IF t[i] = Null THEN p ELSE t[i]
  BY DEF Items

LEMMA TokensAre ==
  ASSUME NEW S, Null \in S, NEW x \in Seq(S)
  PROVE  /\ Tokens(x) \in Seq(S) /\ Len(Tokens(x)) = Len(x)
         /\ \A i \in 1 .. Len(x) :
              Tokens(x)[i] = IF x[i] \in Pictures THEN Null ELSE x[i]
  BY DEF Tokens, Token

LEMMA FirstOfItems ==
  ASSUME NEW S, NEW t \in Seq(S), NEW p \in S, NEW n \in Nat
  PROVE  Items(FirstItems(t, n), p) = FirstItems(Items(t, p), n)
  <1>1. /\ FirstItems(t, n) \in Seq(S) /\ Items(t, p) \in Seq(S)
        /\ Len(Items(t, p)) = Len(t)
    BY FirstItemsAre, ItemsAre
  <1>2. /\ Items(FirstItems(t, n), p) \in Seq(S) /\ FirstItems(Items(t, p), n) \in Seq(S)
        /\ Len(Items(FirstItems(t, n), p)) = Len(FirstItems(Items(t, p), n))
        /\ Len(Items(FirstItems(t, n), p)) = Len(FirstItems(t, n))
    <2>1. /\ Items(FirstItems(t, n), p) \in Seq(S)
          /\ Len(Items(FirstItems(t, n), p)) = Len(FirstItems(t, n))
      BY <1>1, ItemsAre
    <2>2. /\ FirstItems(Items(t, p), n) \in Seq(S)
          /\ Len(FirstItems(Items(t, p), n)) = Len(FirstItems(t, n))
      BY <1>1, FirstItemsAre
    <2>3. QED BY <2>1, <2>2
  <1>3. ASSUME NEW i \in 1 .. Len(FirstItems(t, n))
        PROVE  Items(FirstItems(t, n), p)[i] = FirstItems(Items(t, p), n)[i]
    <2>1. i \in 1 .. Len(t)
      BY FirstItemsAre
    <2>2. FirstItems(t, n)[i] = t[i] /\ FirstItems(Items(t, p), n)[i] = Items(t, p)[i]
      BY <1>1, <1>2, FirstItemsAre
    <2> DEFINE u == FirstItems(t, n)
    <2>3. Items(u, p)[i] = IF u[i] = Null THEN p ELSE u[i]
      <3>1. u \in Seq(S) /\ i \in 1 .. Len(u)
        BY <1>1
      <3> HIDE DEF u
      <3>2. QED BY <3>1, ItemsAre
    <2>4. Items(t, p)[i] = IF t[i] = Null THEN p ELSE t[i]
      BY <2>1, ItemsAre
    <2>5. QED BY <2>2, <2>3, <2>4
  <1>4. QED BY <1>2, <1>3, SeqEqual

LEMMA ItemsOfSub ==
  ASSUME NEW S, NEW t \in Seq(S), NEW p \in S, NEW n \in Nat, NEW e \in Nat, e <= Len(t)
  PROVE  /\ Items(SubSeq(t, n + 1, e), p) = SubSeq(Items(t, p), n + 1, e)
         /\ SubSeq(Items(t, p), n + 1, e) \in Seq(S)
  <1>1. /\ SubSeq(t, n + 1, e) \in Seq(S)
        /\ Len(SubSeq(t, n + 1, e)) = IF n <= e THEN e - n ELSE 0
        /\ \A i \in 1 .. e - n : SubSeq(t, n + 1, e)[i] = t[n + i]
    OBVIOUS
  <1>2. Items(t, p) \in Seq(S) /\ Len(Items(t, p)) = Len(t)
    BY ItemsAre
  <1>3. /\ SubSeq(Items(t, p), n + 1, e) \in Seq(S)
        /\ Len(SubSeq(Items(t, p), n + 1, e)) = IF n <= e THEN e - n ELSE 0
        /\ \A i \in 1 .. e - n : SubSeq(Items(t, p), n + 1, e)[i] = Items(t, p)[n + i]
    BY <1>2
  <1>4. /\ Items(SubSeq(t, n + 1, e), p) \in Seq(S)
        /\ Len(Items(SubSeq(t, n + 1, e), p)) = Len(SubSeq(t, n + 1, e))
    BY <1>1, ItemsAre
  <1>5. ASSUME NEW i \in 1 .. e - n
        PROVE  Items(SubSeq(t, n + 1, e), p)[i] = SubSeq(Items(t, p), n + 1, e)[i]
    <2>1. i \in 1 .. Len(SubSeq(t, n + 1, e)) /\ n + i \in 1 .. Len(t)
      BY <1>1
    <2> DEFINE u == SubSeq(t, n + 1, e)
    <2>2. Items(u, p)[i] = IF t[n + i] = Null THEN p ELSE t[n + i]
      <3>1. u \in Seq(S) /\ i \in 1 .. Len(u) /\ u[i] = t[n + i]
        BY <1>1, <2>1
      <3>2. Items(u, p)[i] = IF u[i] = Null THEN p ELSE u[i]
        <4> HIDE DEF u
        <4>1. QED BY <3>1, ItemsAre
      <3>3. QED BY <3>1, <3>2
    <2>3. Items(t, p)[n + i] = IF t[n + i] = Null THEN p ELSE t[n + i]
      BY <2>1, ItemsAre
    <2>4. SubSeq(Items(t, p), n + 1, e)[i] = Items(t, p)[n + i]
      BY <1>3
    <2>5. QED BY <2>2, <2>3, <2>4
  <1>6. QED BY <1>1, <1>3, <1>4, <1>5, SeqEqual

LEMMA ItemsOfAppend ==
  ASSUME NEW S, NEW t \in Seq(S), NEW p \in S, NEW x \in S, x # Null
  PROVE  Items(Append(t, x), p) = Append(Items(t, p), x)
  <1>1. Append(t, x) \in Seq(S) /\ Len(Append(t, x)) = Len(t) + 1
    OBVIOUS
  <1>2. Items(t, p) \in Seq(S) /\ Len(Items(t, p)) = Len(t)
    BY ItemsAre
  <1>3. /\ Append(Items(t, p), x) \in Seq(S) /\ Len(Append(Items(t, p), x)) = Len(t) + 1
        /\ Append(Items(t, p), x)[Len(t) + 1] = x
        /\ \A i \in 1 .. Len(t) : Append(Items(t, p), x)[i] = Items(t, p)[i]
    BY <1>2
  <1>4. /\ Items(Append(t, x), p) \in Seq(S) /\ Len(Items(Append(t, x), p)) = Len(t) + 1
    BY <1>1, ItemsAre
  <1>5. ASSUME NEW i \in 1 .. Len(t) + 1
        PROVE  Items(Append(t, x), p)[i] = Append(Items(t, p), x)[i]
    <2>1. Items(Append(t, x), p)[i] =
            IF Append(t, x)[i] = Null THEN p ELSE Append(t, x)[i]
      BY <1>1, ItemsAre
    <2>2. CASE i = Len(t) + 1
      BY <2>1, <2>2, <1>3
    <2>3. CASE i \in 1 .. Len(t)
      BY <2>1, <2>3, <1>3, ItemsAre
    <2>4. i = Len(t) + 1 \/ i \in 1 .. Len(t)
      <3>1. Len(t) \in Nat
        OBVIOUS
      <3>2. QED BY <3>1
    <2>5. QED BY <2>2, <2>3, <2>4
  <1>6. QED BY <1>3, <1>4, <1>5, SeqEqual

LEMMA FirstOfTokens ==
  ASSUME NEW S, Null \in S, NEW x \in Seq(S), NEW n \in Nat
  PROVE  Tokens(FirstItems(x, n)) = FirstItems(Tokens(x), n)
  <1>1. /\ FirstItems(x, n) \in Seq(S) /\ Tokens(x) \in Seq(S)
        /\ Len(Tokens(x)) = Len(x)
    BY FirstItemsAre, TokensAre
  <1>2. /\ Tokens(FirstItems(x, n)) \in Seq(S) /\ FirstItems(Tokens(x), n) \in Seq(S)
        /\ Len(Tokens(FirstItems(x, n))) = Len(FirstItems(Tokens(x), n))
        /\ Len(Tokens(FirstItems(x, n))) = Len(FirstItems(x, n))
    BY <1>1, FirstItemsAre, TokensAre
  <1>3. ASSUME NEW i \in 1 .. Len(FirstItems(x, n))
        PROVE  Tokens(FirstItems(x, n))[i] = FirstItems(Tokens(x), n)[i]
    <2>1. i \in 1 .. Len(x)
      BY FirstItemsAre
    <2>2. FirstItems(x, n)[i] = x[i] /\ FirstItems(Tokens(x), n)[i] = Tokens(x)[i]
      BY <1>1, <1>2, FirstItemsAre
    <2>3. QED BY <1>1, <2>1, <2>2, TokensAre
  <1>4. QED BY <1>2, <1>3, SeqEqual

\* At most one picture.
OnePicture(x) ==
  \A i, j \in DOMAIN x : x[i] \in Pictures /\ x[j] \in Pictures => x[i] = x[j]

LEMMA PictureIs ==
  ASSUME NEW S, NEW x \in Seq(S), OnePicture(x)
  PROVE  /\ \A i \in 1 .. Len(x) : x[i] \in Pictures => Picture(x) = x[i]
         /\ Picture(x) # NoPicture => \E i \in 1 .. Len(x) : x[i] \in Pictures
         /\ Picture(x) \in Pictures \cup {NoPicture}
  <1>1. DOMAIN x = 1 .. Len(x)
    OBVIOUS
  <1>2. ToSet(x) = {x[i] : i \in 1 .. Len(x)}
    BY <1>1 DEF ToSet
  <1>3. CASE ToSet(x) \cap Pictures = {}
    BY <1>2, <1>3 DEF Picture
  <1>4. CASE ToSet(x) \cap Pictures # {}
    <2>1. PICK i \in 1 .. Len(x) : x[i] \in Pictures
      BY <1>2, <1>4
    <2>2. \A q \in Pictures : q \in ToSet(x) => q = x[i]
      BY <1>1, <1>2, <2>1 DEF OnePicture
    <2>3. x[i] \in ToSet(x)
      BY <1>2
    <2>4. Picture(x) = CHOOSE q \in Pictures : q \in ToSet(x)
      BY <1>4 DEF Picture
    <2>5. Picture(x) = x[i]
      BY <2>1, <2>2, <2>3, <2>4
    <2>6. QED BY <2>1, <2>5, <1>1 DEF OnePicture
  <1>5. QED BY <1>3, <1>4

LEMMA PromptIs ==
  ASSUME NEW S, Null \in S, NEW x \in Seq(S), IsPrompt(x)
  PROVE  /\ Len(x) \in Nat /\ Len(x) > 0 /\ OnePicture(x)
         /\ \A i \in 1 .. Len(x) : x[i] # Null
  <1>1. DOMAIN x = 1 .. Len(x)
    OBVIOUS
  <1>2. QED BY <1>1 DEF IsPrompt, OnePicture, ToSet

\* A prompt is recovered from its tokens and its picture.
LEMMA PromptRecovered ==
  ASSUME NEW S, Null \in S, NoPicture \in S, Pictures \subseteq S, NEW x \in Seq(S),
         IsPrompt(x)
  PROVE  Items(Tokens(x), Picture(x)) = x /\ Picture(x) \in S
  <1>1. Picture(x) \in S
    BY PromptIs, PictureIs
  <1>2. /\ Items(Tokens(x), Picture(x)) \in Seq(S)
        /\ Len(Items(Tokens(x), Picture(x))) = Len(x)
    BY <1>1, TokensAre, ItemsAre, SMTT(30)
  <1>3. ASSUME NEW i \in 1 .. Len(x)
        PROVE  Items(Tokens(x), Picture(x))[i] = x[i]
    <2>1. Items(Tokens(x), Picture(x))[i] =
            IF Tokens(x)[i] = Null THEN Picture(x) ELSE Tokens(x)[i]
      BY <1>1, TokensAre, ItemsAre
    <2>2. Tokens(x)[i] = IF x[i] \in Pictures THEN Null ELSE x[i]
      BY TokensAre
    <2>3. x[i] # Null /\ (x[i] \in Pictures => Picture(x) = x[i])
      BY PromptIs, PictureIs
    <2>4. QED BY <2>1, <2>2, <2>3
  <1>4. QED BY <1>1, <1>2, <1>3, SeqEqual

-----------------------------------------------------------------------------
(* Memories                                                                *)

\* A memory whose parts agree, of items from S.
Sound(m, S) ==
  /\ m \in [kind : Kinds, attn : Seq(S), rec : Seq(S), pos : Nat]
  /\ m.pos = Len(m.rec)
  /\ m.kind = "attention" => m.rec = <<>>
  /\ m.kind = "recurrent" => m.attn = <<>>
  /\ m.kind = "hybrid" => m.rec = m.attn

\* All that is to know of a sound memory are its kind and its contents.
LEMMA ContentsAre ==
  ASSUME NEW S, NEW m, Sound(m, S)
  PROVE  /\ m.kind \in Kinds /\ Contents(m) \in Seq(S)
         /\ Frontier(m) = Len(Contents(m))
         /\ \A items \in Seq(S) : Holds(m, items) <=> Contents(m) = items
  <1>1. /\ m.kind \in {"attention", "recurrent", "hybrid"}
        /\ m.attn \in Seq(S) /\ m.rec \in Seq(S) /\ m.pos \in Nat
        /\ m.pos = Len(m.rec)
    BY DEF Sound, Kinds
  <1>2. Len(m.attn) \in Nat /\ Len(m.rec) \in Nat
    BY <1>1
  <1>3. CASE m.kind = "attention"
    <2>1. Contents(m) = m.attn /\ Frontier(m) = Len(m.attn)
      BY <1>3 DEF Contents, Frontier, HasAttention, HasRecurrent
    <2>2. \A items \in Seq(S) : Holds(m, items) <=> m.attn = items
      BY <1>3 DEF Holds, HasAttention, HasRecurrent
    <2>3. QED BY <1>1, <2>1, <2>2 DEF Kinds
  <1>4. CASE m.kind = "recurrent"
    <2>1. Contents(m) = m.rec /\ Frontier(m) = m.pos
      BY <1>4 DEF Contents, Frontier, HasAttention, HasRecurrent
    <2>2. \A items \in Seq(S) : Holds(m, items) <=> m.rec = items
      BY <1>1, <1>4 DEF Holds, HasAttention, HasRecurrent
    <2>3. QED BY <1>1, <2>1, <2>2 DEF Kinds
  <1>5. CASE m.kind = "hybrid"
    <2>1. m.rec = m.attn
      BY <1>5 DEF Sound
    <2>2. Contents(m) = m.attn
      BY <1>5, <2>1 DEF Contents, HasAttention, HasRecurrent
    <2>3. Frontier(m) = Min({Len(m.attn), Len(m.attn)})
      BY <1>1, <1>5, <2>1 DEF Frontier
    <2>4. Frontier(m) = Len(m.attn)
      BY <1>2, <2>3, MinOfTwo
    <2>5. \A items \in Seq(S) : Holds(m, items) <=> m.attn = items
      BY <1>1, <1>5, <2>1 DEF Holds, HasAttention, HasRecurrent
    <2>6. QED BY <1>1, <2>2, <2>4, <2>5 DEF Kinds
  <1>6. QED BY <1>1, <1>3, <1>4, <1>5

LEMMA ClearedSound ==
  ASSUME NEW S, NEW kind \in Kinds
  PROVE  /\ Sound(Cleared(kind), S) /\ Cleared(kind).kind = kind
         /\ Contents(Cleared(kind)) = <<>>
  BY DEF Cleared, Sound, Contents, Kinds, HasAttention, HasRecurrent

LEMMA TruncatedSound ==
  ASSUME NEW S, NEW m, Sound(m, S), NEW p \in Nat
  PROVE  /\ Sound(Truncated(m, p), S) /\ Truncated(m, p).kind = m.kind
         /\ CanTruncate(m, p) => Contents(Truncated(m, p)) = FirstItems(Contents(m), p)
  <1> DEFINE u == [m EXCEPT !.attn = FirstItems(@, p)]
  <1>1. /\ m \in [kind : Kinds, attn : Seq(S), rec : Seq(S), pos : Nat]
        /\ m.pos = Len(m.rec) /\ m.kind \in {"attention", "recurrent", "hybrid"}
    BY DEF Sound, Kinds
  <1>2. CASE ~CanTruncate(m, p)
    BY <1>2 DEF Truncated
  <1>3. CASE p = 0
    <2>1. CanTruncate(m, p) /\ Truncated(m, p) = Cleared(m.kind)
      BY <1>3 DEF Truncated, CanTruncate
    <2>2. FirstItems(Contents(m), 0) = <<>>
      BY ContentsAre, FirstItemsNone
    <2>3. QED BY <1>1, <1>3, <2>1, <2>2, ClearedSound
  <1>4. CASE CanTruncate(m, p) /\ p # 0
    <2>1. Truncated(m, p) = u
      BY <1>4 DEF Truncated
    <2>2. FirstItems(m.attn, p) \in Seq(S)
      BY <1>1, FirstItemsAre
    <2>3. /\ u \in [kind : Kinds, attn : Seq(S), rec : Seq(S), pos : Nat]
          /\ u.kind = m.kind /\ u.rec = m.rec /\ u.pos = m.pos
          /\ u.attn = FirstItems(m.attn, p)
      BY <1>1, <2>2
    <2>4. CASE m.kind = "attention"
      BY <1>1, <2>1, <2>3, <2>4 DEF Sound, Contents, HasAttention, HasRecurrent
    <2>5. CASE m.kind # "attention"
      <3>1. p >= Len(m.rec)
        BY <1>1, <1>4, <2>5 DEF CanTruncate, HasRecurrent
      <3>2. FirstItems(m.rec, p) = m.rec
        BY <1>1, <3>1, FirstItemsAll
      <3>3. m.attn = <<>> \/ m.attn = m.rec
        BY <1>1, <2>5 DEF Sound
      <3>4. FirstItems(m.attn, p) = m.attn
        BY <1>1, <3>1, <3>3, FirstItemsAll
      <3>5. u = m
        BY <1>1, <2>3, <3>4
      <3>6. Contents(m) = m.rec
        BY <1>1, <2>5 DEF Sound, Contents, HasAttention, HasRecurrent
      <3>7. QED BY <2>1, <3>2, <3>5, <3>6
    <2>6. QED BY <2>4, <2>5
  <1>5. QED BY <1>2, <1>3, <1>4

LEMMA ExtendedSound ==
  ASSUME NEW S, NEW m, Sound(m, S), NEW items \in Seq(S)
  PROVE  /\ Sound(Extended(m, items), S) /\ Extended(m, items).kind = m.kind
         /\ Contents(Extended(m, items)) = Contents(m) \o items
  <1> DEFINE u == Extended(m, items)
  <1>1. /\ m \in [kind : Kinds, attn : Seq(S), rec : Seq(S), pos : Nat]
        /\ m.pos = Len(m.rec) /\ m.kind \in {"attention", "recurrent", "hybrid"}
    BY DEF Sound, Kinds
  <1>2. /\ m.attn \o items \in Seq(S) /\ m.rec \o items \in Seq(S)
        /\ m.pos + Len(items) \in Nat /\ m.pos + Len(items) = Len(m.rec \o items)
    BY <1>1
  <1>3. /\ u \in [kind : Kinds, attn : Seq(S), rec : Seq(S), pos : Nat]
        /\ u.kind = m.kind
        /\ u.attn = IF HasAttention(m) THEN m.attn \o items ELSE m.attn
        /\ u.rec = IF HasRecurrent(m) THEN m.rec \o items ELSE m.rec
        /\ u.pos = IF HasRecurrent(m) THEN m.pos + Len(items) ELSE m.pos
    BY <1>1, <1>2 DEF Extended
  <1>4. Sound(u, S)
    BY <1>1, <1>2, <1>3 DEF Sound, HasAttention, HasRecurrent
  <1>5. Contents(u) = Contents(m) \o items
    BY <1>1, <1>3 DEF Sound, Contents, HasAttention, HasRecurrent
  <1>6. QED BY <1>3, <1>4, <1>5

-----------------------------------------------------------------------------
(* Chunks                                                                  *)

LEMMA StartsAre ==
  ASSUME NEW S, NEW x \in Seq(S), x # <<>>
  PROVE  /\ Len(x) \in Nat /\ Len(x) > 0
         /\ ChunkStarts(x) \in SUBSET (0 .. Len(x) - 1) /\ 0 \in ChunkStarts(x)
  <1>1. Len(x) \in Nat /\ Len(x) > 0
    OBVIOUS
  <1>2. QED BY <1>1 DEF ChunkStarts

LEMMA LastStartIs ==
  ASSUME NEW S, NEW x \in Seq(S), x # <<>>
  PROVE  /\ Max(ChunkStarts(x)) \in ChunkStarts(x)
         /\ \A c \in ChunkStarts(x) : c <= Max(ChunkStarts(x))
  <1>1. Len(x) - 1 \in Nat /\ ChunkStarts(x) # {}
    BY StartsAre
  <1>2. QED BY <1>1, StartsAre, MaxIs

LEMMA ChunkOfIs ==
  ASSUME NEW S, NEW x \in Seq(S), x # <<>>, NEW n \in Nat
  PROVE  /\ ChunkOf(x, n) \in ChunkStarts(x) /\ ChunkOf(x, n) <= n
         /\ \A c \in ChunkStarts(x) : c <= n => c <= ChunkOf(x, n)
  <1> DEFINE C == {c \in ChunkStarts(x) : c <= n}
  <1>1. Len(x) - 1 \in Nat /\ C \in SUBSET (0 .. Len(x) - 1) /\ 0 \in C
    BY StartsAre
  <1>2. Max(C) \in C /\ \A c \in C : Max(C) >= c
    <2> HIDE DEF C
    <2>1. QED BY <1>1, MaxIs
  <1>3. QED BY <1>2 DEF ChunkOf

LEMMA ChunkEndIs ==
  ASSUME NEW S, NEW x \in Seq(S), x # <<>>, NEW c \in ChunkStarts(x)
  PROVE  /\ ChunkEnd(x, c) \in Nat /\ c < ChunkEnd(x, c) /\ ChunkEnd(x, c) <= Len(x)
         /\ \A e \in ChunkStarts(x) : e <= c \/ ChunkEnd(x, c) <= e
  <1> DEFINE E == {e \in ChunkStarts(x) : e > c} \cup {Len(x)}
  <1>1. E \in SUBSET Nat /\ E # {} /\ \A e \in E : c < e
    BY StartsAre
  <1>2. Min(E) \in E /\ \A e \in E : Min(E) <= e
    <2> HIDE DEF E
    <2>1. QED BY <1>1, MinIs
  <1>3. \A e \in ChunkStarts(x) : e \in Nat /\ (e <= c \/ e \in E)
    BY StartsAre
  <1>4. c \in Nat /\ Len(x) \in E /\ ChunkEnd(x, c) = Min(E)
    BY StartsAre DEF ChunkEnd
  <1>5. QED
    <2> HIDE DEF E
    <2>1. QED BY <1>1, <1>2, <1>3, <1>4

\* The first picture begins a chunk, and there is none before it.
LEMMA FirstPictureIs ==
  ASSUME NEW S, NEW x \in Seq(S), x # <<>>, Picture(x) # NoPicture
  PROVE  /\ FirstPicture(x) \in ChunkStarts(x) /\ x[FirstPicture(x) + 1] \in Pictures
         /\ \A i \in 1 .. FirstPicture(x) : x[i] \notin Pictures
         /\ MediaBoundary(x) = ChunkEnd(x, FirstPicture(x))
  <1> DEFINE P == {i \in DOMAIN x : x[i] \in Pictures}
             f == Min(P)
  <1>1. DOMAIN x = 1 .. Len(x) /\ Len(x) \in Nat
    OBVIOUS
  <1>2. P \in SUBSET Nat /\ P # {}
    <2>1. ToSet(x) \cap Pictures # {}
      BY DEF Picture
    <2>2. QED BY <1>1, <2>1 DEF ToSet
  <1>3. f \in P /\ \A i \in P : f <= i
    <2> HIDE DEF P
    <2>1. QED BY <1>2, MinIs
  <1>4. FirstPicture(x) = f - 1
    BY DEF FirstPicture
  <1>5. /\ f \in 1 .. Len(x) /\ x[f] \in Pictures
        /\ \A i \in 1 .. Len(x) : x[i] \in Pictures => f <= i
    BY <1>1, <1>3
  <1> HIDE DEF f
  <1>6. f - 1 \in ChunkStarts(x)
    <2>1. f - 1 \in 0 .. Len(x) - 1
      BY <1>1, <1>5
    <2>2. CASE f = 1
      BY <2>1, <2>2 DEF ChunkStarts
    <2>3. CASE f # 1
      <3>1. f - 1 \in 1 .. Len(x) /\ x[f - 1] \notin Pictures
        BY <1>1, <1>5, <2>3
      <3>2. (f - 1) + 1 = f
        BY <1>5
      <3>3. x[f - 1] # x[(f - 1) + 1] /\ {x[f - 1], x[(f - 1) + 1]} \cap Pictures # {}
        BY <1>5, <3>1, <3>2
      <3>4. QED BY <2>1, <3>3 DEF ChunkStarts
    <2>4. QED BY <2>2, <2>3
  <1>7. \A i \in 1 .. f - 1 : x[i] \notin Pictures
    BY <1>1, <1>5
  <1>8. f - 1 \in Nat /\ ChunkOf(x, f - 1) = f - 1
    <2>1. f - 1 \in Nat
      BY <1>5
    <2>2. /\ ChunkOf(x, f - 1) \in ChunkStarts(x) /\ ChunkOf(x, f - 1) <= f - 1
          /\ f - 1 <= ChunkOf(x, f - 1)
      BY <2>1, <1>6, ChunkOfIs
    <2>3. ChunkOf(x, f - 1) \in Nat
      BY <2>2, StartsAre
    <2>4. QED BY <2>1, <2>2, <2>3
  <1>9. QED BY <1>4, <1>5, <1>6, <1>7, <1>8 DEF MediaBoundary

LEMMA LeavingSomethingIs ==
  ASSUME NEW S, NEW x \in Seq(S), x # <<>>, NEW n \in Nat, n <= Len(x)
  PROVE  /\ LeavingSomething(x, n) \in Nat /\ LeavingSomething(x, n) <= n
         /\ LeavingSomething(x, n) < Len(x)
  <1>1. /\ Len(x) \in Nat /\ Len(x) > 0
        /\ Max(ChunkStarts(x)) \in Nat /\ Max(ChunkStarts(x)) < Len(x)
    BY StartsAre, LastStartIs
  <1>2. QED BY <1>1 DEF LeavingSomething

\* What processMedia() keeps of embd is a common beginning of it and the prompt, less than
\* the whole prompt, and none of its picture if that is another one.
THEOREM KeptPrefixIs ==
  ASSUME NEW S, Null \in S, NEW x \in Seq(S), IsPrompt(x), Picture(x) # NoPicture,
         NEW embd \in Seq(S), NEW stable \in BOOLEAN
  PROVE  LET n == KeptPrefix(embd, x, stable)
         IN /\ n \in Nat /\ n < Len(x) /\ n <= Len(embd)
            /\ FirstItems(embd, n) = FirstItems(Tokens(x), n)
            /\ ~stable => n <= FirstPicture(x)
  <1> DEFINE common == CommonPrefix(embd, Tokens(x))
             aligned == AlignedDown(x, common)
             m == IF stable THEN aligned ELSE Min({aligned, FirstPicture(x)})
             n == LeavingSomething(x, m)
  <1>1. x # <<>> /\ Tokens(x) \in Seq(S) /\ Len(Tokens(x)) = Len(x)
    BY TokensAre DEF IsPrompt
  <1>2. /\ common \in Nat /\ common <= Len(embd) /\ common <= Len(x)
        /\ FirstItems(embd, common) = FirstItems(Tokens(x), common)
    <2>1. /\ CommonPrefix(embd, Tokens(x)) \in Nat
          /\ CommonPrefix(embd, Tokens(x)) <= Len(embd)
          /\ CommonPrefix(embd, Tokens(x)) <= Len(Tokens(x))
          /\ FirstItems(embd, CommonPrefix(embd, Tokens(x)))
               = FirstItems(Tokens(x), CommonPrefix(embd, Tokens(x)))
      BY <1>1, CommonPrefixIs
    <2>2. QED BY <1>1, <2>1
  <1> HIDE DEF common
  <1>3. aligned \in Nat /\ aligned <= common
    <2>1. ChunkOf(x, common) \in Nat /\ ChunkOf(x, common) <= common
      BY <1>1, <1>2, ChunkOfIs, StartsAre
    <2>2. QED BY <1>2, <2>1 DEF AlignedDown
  <1> HIDE DEF aligned
  <1>4. FirstPicture(x) \in Nat
    BY <1>1, FirstPictureIs, StartsAre
  <1>5. m \in Nat /\ m <= aligned /\ (~stable => m <= FirstPicture(x))
    BY <1>3, <1>4, MinOfTwo
  <1> HIDE DEF m
  <1>6. m <= Len(x)
    <2>1. Len(x) \in Nat
      OBVIOUS
    <2>2. QED BY <1>2, <1>3, <1>5, <2>1
  <1>7. n \in Nat /\ n <= m /\ n < Len(x)
    BY <1>1, <1>5, <1>6, LeavingSomethingIs
  <1>8. n = KeptPrefix(embd, x, stable)
    BY DEF KeptPrefix, n, m, aligned, common
  <1> HIDE DEF n
  <1>9. n <= common /\ n <= Len(embd) /\ (~stable => n <= FirstPicture(x))
    <2>1. Len(embd) \in Nat
      OBVIOUS
    <2>2. QED BY <1>2, <1>3, <1>4, <1>5, <1>7, <2>1
  <1>10. FirstItems(embd, n) = FirstItems(Tokens(x), n)
    <2>1. FirstItems(FirstItems(embd, common), n) = FirstItems(embd, n)
      BY <1>2, <1>7, <1>9, FirstOfFirst
    <2>2. FirstItems(FirstItems(Tokens(x), common), n) = FirstItems(Tokens(x), n)
      BY <1>1, <1>2, <1>7, <1>9, FirstOfFirst
    <2>3. QED BY <1>2, <2>1, <2>2
  <1>11. QED BY <1>7, <1>8, <1>9, <1>10
=============================================================================
