---------------------------- MODULE TextsProofs -----------------------------
(***************************************************************************)
(* Proofs about Texts, for all values of its constants: any alphabet, any  *)
(* set of texts, any size of the buffers.                                  *)
(***************************************************************************)
EXTENDS Texts, FiniteSetTheorems, SequenceTheorems, WellFoundedInduction, TLAPS

(* A set of natural numbers that is not empty has a least element: the NUL *)
(* that leer_cadena stops at is the first.                                 *)
LEMMA FirstOfNaturals ==
  ASSUME NEW S \in SUBSET Nat, S # {}
  PROVE  Min(S) \in S /\ \A n \in S : Min(S) <= n
<1>1. PICK x \in S : \A y \in S : ~(<<y, x>> \in OpToRel(<, Nat))
  BY NatLessThanWellFounded, WFMin
<1>2. ASSUME NEW y \in S, y < x PROVE FALSE
  <2>1. <<y, x>> \in Nat \X Nat /\ <<y, x>>[1] < <<y, x>>[2]
    BY <1>2
  <2> QED
    BY <1>1, <2>1 DEF OpToRel
<1>3. \E x1 \in S : \A y \in S : x1 <= y
  BY <1>2
<1> QED
  BY <1>3 DEF Min

-----------------------------------------------------------------------------
(* Ranks.  A set of positions of a text is one of 1..n. *)

LEMMA PositionsFinite ==
  ASSUME NEW n \in Nat, NEW S \in SUBSET (1..n), NEW T \in SUBSET S
  PROVE  /\ IsFiniteSet(T) /\ Cardinality(T) \in Nat
         /\ Cardinality(T) <= Cardinality(S) /\ Cardinality(S) \in Nat
         /\ Cardinality(T) = Cardinality(S) => T = S
<1>1. IsFiniteSet(S)
  <2>1. IsFiniteSet(1..n)
    BY FS_Interval
  <2> QED
    BY <2>1, FS_Subset
<1> QED
  BY <1>1, FS_Subset, FS_CardinalityType

LEMMA RankType ==
  ASSUME NEW n \in Nat, NEW S \in SUBSET (1..n), NEW i
  PROVE  Rank(S, i) \in Nat /\ Rank(S, i) <= Cardinality(S) /\ Cardinality(S) \in Nat
<1> DEFINE T == {j \in S : j <= i}
<1>1. T \in SUBSET S
  OBVIOUS
<1> HIDE DEF T
<1> QED
  BY <1>1, PositionsFinite DEF T, Rank

(* The rank counts the elements one by one. *)
LEMMA RankStep ==
  ASSUME NEW n \in Nat, NEW S \in SUBSET (1..n), NEW i \in Nat
  PROVE  Rank(S, i + 1) = IF i + 1 \in S THEN Rank(S, i) + 1 ELSE Rank(S, i)
<1> DEFINE T == {j \in S : j <= i}
<1>1. IsFiniteSet(T)
  <2>1. T \in SUBSET S
    OBVIOUS
  <2> QED
    BY <2>1, PositionsFinite
<1>0. \A j \in S : j \in Nat /\ (j <= i + 1 <=> j <= i \/ j = i + 1)
  OBVIOUS
<1>2. CASE i + 1 \in S
  <2>1. {j \in S : j <= i + 1} = T \cup {i + 1}
    BY <1>0, <1>2
  <2>2. i + 1 \notin T
    OBVIOUS
  <2> QED
    BY <1>1, <1>2, <2>1, <2>2, FS_AddElement DEF Rank
<1>3. CASE i + 1 \notin S
  <2>1. {j \in S : j <= i + 1} = T
    BY <1>0, <1>3
  <2> QED
    BY <1>3, <2>1 DEF Rank
<1> QED
  BY <1>2, <1>3

LEMMA RankGrows ==
  ASSUME NEW n \in Nat, NEW S \in SUBSET (1..n), NEW i \in Nat, NEW j \in S, i < j
  PROVE  Rank(S, i) < Rank(S, j)
<1> DEFINE T == {h \in S : h <= i}
           U == {h \in S : h <= j}
<1>1. j <= j /\ ~(j <= i) /\ \A h \in S : h <= i => h <= j
  OBVIOUS
<1>2. T \subseteq U /\ j \in U /\ j \notin T
  BY <1>1
<1>3. U \in SUBSET (1..n)
  OBVIOUS
<1>4. Rank(S, i) = Cardinality(T) /\ Rank(S, j) = Cardinality(U)
  BY DEF Rank
<1> HIDE DEF T, U
<1>5. /\ Cardinality(T) \in Nat /\ Cardinality(U) \in Nat
      /\ Cardinality(T) <= Cardinality(U)
      /\ Cardinality(T) = Cardinality(U) => T = U
  BY <1>2, <1>3, PositionsFinite
<1> QED
  BY <1>2, <1>4, <1>5

LEMMA RankOnto ==
  ASSUME NEW n \in Nat, NEW S \in SUBSET (1..n), NEW k \in 1..Cardinality(S)
  PROVE  \E i \in S : Rank(S, i) = k
<1> DEFINE T == {i \in 0..n : k <= Rank(S, i)}
<1>1. Cardinality(S) \in Nat
  BY RankType
<1>2. n \in T
  <2>1. \A j \in S : j <= n
    OBVIOUS
  <2>2. {j \in S : j <= n} = S
    BY <2>1
  <2> QED
    BY <1>1, <2>2 DEF Rank
<1>3. Rank(S, 0) = 0
  <2>1. \A j \in S : ~(j <= 0)
    OBVIOUS
  <2>2. {j \in S : j <= 0} = {}
    BY <2>1
  <2> QED
    BY <2>2, FS_EmptySet DEF Rank
<1> DEFINE i == Min(T)
<1>4. i \in T /\ \A h \in T : i <= h
  <2>1. T \in SUBSET Nat
    OBVIOUS
  <2> HIDE DEF T
  <2> QED
    BY <1>2, <2>1, FirstOfNaturals
<1> HIDE DEF i
<1>5. i \in 1..n /\ i - 1 \in 0..n /\ i - 1 \notin T /\ i = (i - 1) + 1
  BY <1>1, <1>3, <1>4
<1>6. Rank(S, i - 1) < k
  <2>1. Rank(S, i - 1) \in Nat
    BY <1>1, <1>5, RankType
  <2> QED
    BY <1>1, <1>5, <2>1
<1>7. Rank(S, i) = IF i \in S THEN Rank(S, i - 1) + 1 ELSE Rank(S, i - 1)
  <2>1. \A h \in Nat : Rank(S, h + 1) = IF h + 1 \in S THEN Rank(S, h) + 1 ELSE Rank(S, h)
    BY RankStep
  <2> QED
    BY <1>5, <2>1
<1>8. Rank(S, i - 1) \in Nat /\ k <= Rank(S, i)
  BY <1>1, <1>4, <1>5, RankType
<1>9. k \in Nat
  BY <1>1
<1>10. i \in S /\ Rank(S, i) = k
  BY <1>6, <1>7, <1>8, <1>9
<1> QED
  BY <1>10

(* Nth(S, .) and Rank(S, .) are inverse to each other. *)
LEMMA NthRank ==
  ASSUME NEW n \in Nat, NEW S \in SUBSET (1..n)
  PROVE  /\ \A k \in 1..Cardinality(S) : Nth(S, k) \in S /\ Rank(S, Nth(S, k)) = k
         /\ \A i \in S : Rank(S, i) \in 1..Cardinality(S) /\ Nth(S, Rank(S, i)) = i
         /\ \A i, j \in S : i < j <=> Rank(S, i) < Rank(S, j)
<1>1. \A k \in 1..Cardinality(S) : Nth(S, k) \in S /\ Rank(S, Nth(S, k)) = k
  BY RankOnto DEF Nth
<1>2. \A i \in S : Rank(S, i) \in Nat /\ Rank(S, i) <= Cardinality(S)
  BY RankType
<1>3. \A i, j \in S : i < j => Rank(S, i) < Rank(S, j)
  BY RankGrows
<1>4. Rank(S, 0) \in Nat
  BY RankType
<1>5. \A i \in S : Rank(S, 0) < Rank(S, i)
  BY RankGrows
<1>6. \A i \in S : Rank(S, i) \in 1..Cardinality(S)
  BY <1>2, <1>4, <1>5, RankType
<1>7. \A i, j \in S : Rank(S, i) = Rank(S, j) => i = j
  BY <1>2, <1>3
<1>8. \A i \in S : Nth(S, Rank(S, i)) = i
  BY <1>1, <1>6, <1>7
<1>9. \A i, j \in S : i < j <=> Rank(S, i) < Rank(S, j)
  <2>1. \A i \in S : i \in Nat
    OBVIOUS
  <2> QED
    BY <1>2, <1>3, <2>1
<1> QED
  BY <1>1, <1>6, <1>8, <1>9

-----------------------------------------------------------------------------
(* Normalize. *)

LEMMA LettersOf ==
  ASSUME NEW C, NEW t \in Seq(C)
  PROVE  /\ Len(t) \in Nat /\ DOMAIN t = 1..Len(t)
         /\ Letters(t) \in SUBSET (1..Len(t))
         /\ \A i : i \in Letters(t) <=> i \in 1..Len(t) /\ t[i] # "blank"
BY DEF Letters

LEMMA KeptText ==
  ASSUME NEW C, NEW t \in Seq(C), NEW K \in SUBSET (1..Len(t))
  PROVE  /\ Kept(t, K) \in Seq(C) /\ Len(Kept(t, K)) = Cardinality(K)
         /\ Cardinality(K) \in Nat
         /\ \A k \in 1..Cardinality(K) : Kept(t, K)[k] = t[Nth(K, k)]
<1>1. Len(t) \in Nat
  OBVIOUS
<1>2. Cardinality(K) \in Nat /\ \A k \in 1..Cardinality(K) : Nth(K, k) \in K
  BY <1>1, RankType, NthRank
<1>3. \A k \in 1..Cardinality(K) : t[Nth(K, k)] \in C
  <2>1. \A i \in K : t[i] \in C
    OBVIOUS
  <2> QED
    BY <1>2, <2>1
<1> QED
  BY <1>2, <1>3 DEF Kept

(* Keeping every letter, and what follows a letter that is not the last,   *)
(* keeps the words.                                                        *)
LEMMA KeptWords ==
  ASSUME NEW C, NEW t \in Seq(C), NEW K \in SUBSET (1..Len(t)),
         Letters(t) \subseteq K,
         \A p, q \in Letters(t) : p < q => p + 1 \in K
  PROVE  SameWords(Kept(t, K), t)
<1> DEFINE a == Kept(t, K)
           L == Letters(t)
           M == Letters(a)
           f == [k \in M |-> Nth(K, k)]
<1>1. /\ a \in Seq(C) /\ Len(a) = Cardinality(K) /\ Cardinality(K) \in Nat
      /\ \A k \in 1..Cardinality(K) : a[k] = t[Nth(K, k)]
  BY KeptText
<1>2. /\ Len(t) \in Nat /\ L \in SUBSET (1..Len(t))
      /\ \A i : i \in L <=> i \in 1..Len(t) /\ t[i] # "blank"
  BY LettersOf
<1>3. /\ M \in SUBSET (1..Cardinality(K))
      /\ \A i : i \in M <=> i \in 1..Cardinality(K) /\ a[i] # "blank"
  BY <1>1, LettersOf
<1> HIDE DEF a, L, M
<1>4. /\ \A k \in 1..Cardinality(K) : Nth(K, k) \in K /\ Rank(K, Nth(K, k)) = k
      /\ \A i \in K : Rank(K, i) \in 1..Cardinality(K) /\ Nth(K, Rank(K, i)) = i
      /\ \A i, j \in K : i < j <=> Rank(K, i) < Rank(K, j)
  BY <1>2, NthRank
<1>5. /\ \A k \in M : Nth(K, k) \in L /\ a[k] = t[Nth(K, k)]
      /\ \A i \in L : Rank(K, i) \in M
  BY <1>1, <1>2, <1>3, <1>4 DEF L
<1>6. ASSUME NEW S \in SUBSET M, NEW T \in SUBSET L,
             \A k \in M : k \in S <=> Nth(K, k) \in T
      PROVE  Cardinality(S) = Cardinality(T)
  <2> DEFINE g == [k \in S |-> Nth(K, k)]
  <2>1. g \in [S -> T]
    BY <1>5, <1>6
  <2>2. \A k, l \in S : g[k] = g[l] => k = l
    BY <1>3, <1>4
  <2>3. \A i \in T : \E k \in S : g[k] = i
    BY <1>3, <1>4, <1>5, <1>6 DEF L
  <2> HIDE DEF g
  <2>4. g \in Bijection(S, T)
    BY <2>1, <2>2, <2>3 DEF Bijection, Injection, Surjection, IsInjective
  <2>5. IsFiniteSet(S)
    BY <1>1, <1>3, PositionsFinite
  <2> QED
    BY <2>4, <2>5, FS_Bijection DEF ExistsBijection
<1>7. Cardinality(M) = Cardinality(L)
  BY <1>5, <1>6
<1>8. ASSUME NEW k \in M PROVE Rank(M, k) = Rank(L, Nth(K, k))
  <2> DEFINE S == {j \in M : j <= k}
             T == {j \in L : j <= Nth(K, k)}
  <2>1. \A j \in M : j <= k <=> Nth(K, j) <= Nth(K, k)
    <3>1. \A j \in M : j \in Nat /\ Nth(K, j) \in Nat
      BY <1>2, <1>3, <1>5
    <3>2. \A i, j \in M : Nth(K, i) < Nth(K, j) <=> i < j
      <4>1. \A j \in M : Nth(K, j) \in K /\ Rank(K, Nth(K, j)) = j
        BY <1>3, <1>4
      <4>2. ASSUME NEW i \in M, NEW j \in M, NEW p \in K, NEW q \in K,
                   Rank(K, p) = i, Rank(K, q) = j
            PROVE  p < q <=> i < j
        BY <1>4, <4>2
      <4> QED
        BY <4>1, <4>2
    <3> QED
      BY <3>1, <3>2
  <2>2. S \in SUBSET M /\ T \in SUBSET L /\ \A j \in M : j \in S <=> Nth(K, j) \in T
    BY <1>5, <2>1
  <2> HIDE DEF S, T
  <2>3. Cardinality(S) = Cardinality(T)
    BY <1>6, <2>2
  <2> QED
    BY <2>3 DEF S, T, Rank
<1>9. ASSUME NEW i \in M, NEW j \in L, Rank(M, i) = Rank(L, j)
      PROVE  a[i] = t[j] /\ (i + 1 \in M <=> j + 1 \in L)
  <2>1. Nth(K, i) = j
    <3>1. \A h \in L : Nth(L, Rank(L, h)) = h
      BY <1>2, NthRank
    <3> QED
      BY <1>5, <1>8, <1>9, <3>1
  <2>2. j \in Nat /\ i \in Nat /\ Rank(K, j) = i
    BY <1>2, <1>3, <1>4, <2>1
  <2>3. j + 1 \in K => Rank(K, j + 1) = i + 1
    BY <1>2, <2>2, RankStep
  <2>4. ASSUME j + 1 \in L PROVE i + 1 \in M
    BY <1>5, <2>3, <2>4 DEF L
  <2>5. ASSUME i + 1 \in M PROVE j + 1 \in L
    <3>1. Nth(K, i + 1) \in L /\ j < Nth(K, i + 1)
      <4>1. Rank(K, j) < Rank(K, Nth(K, i + 1)) /\ Nth(K, i + 1) \in K /\ j \in K
        BY <1>3, <1>4, <2>1, <2>2, <2>5
      <4> QED
        BY <1>4, <1>5, <2>5, <4>1
    <3>2. j + 1 \in K
      BY <3>1 DEF L
    <3> QED
      BY <1>4, <2>3, <3>1, <3>2
  <2> QED
    BY <1>5, <2>1, <2>4, <2>5
<1> QED
  BY <1>7, <1>9 DEF SameWords, a, L, M

LEMMA SameWordsTransitive ==
  ASSUME NEW C, NEW a \in Seq(C), NEW b \in Seq(C), NEW c \in Seq(C),
         SameWords(a, b), SameWords(b, c)
  PROVE  SameWords(a, c)
<1> DEFINE L == Letters(a)
           M == Letters(b)
           N == Letters(c)
<1>1. Cardinality(L) = Cardinality(M) /\ Cardinality(M) = Cardinality(N)
  BY DEF SameWords
<1>2. ASSUME NEW i \in L, NEW k \in N, Rank(L, i) = Rank(N, k)
      PROVE  a[i] = c[k] /\ (i + 1 \in L <=> k + 1 \in N)
  <2>1. Rank(L, i) \in 1..Cardinality(L)
    <3>1. L \in SUBSET (1..Len(a)) /\ Len(a) \in Nat
      BY LettersOf
    <3> HIDE DEF L
    <3> QED
      BY <3>1, NthRank
  <2>2. PICK j \in M : Rank(M, j) = Rank(L, i)
    <3>1. M \in SUBSET (1..Len(b)) /\ Len(b) \in Nat
      BY LettersOf
    <3> HIDE DEF L, M
    <3> QED
      BY <1>1, <2>1, <3>1, RankOnto
  <2> QED
    BY <1>2, <2>2 DEF SameWords
<1> QED
  BY <1>1, <1>2 DEF SameWords

LEMMA CollapseText ==
  ASSUME NEW C, NEW t \in Seq(C)
  PROVE  Collapse(t) \in Seq(C) /\ SameWords(Collapse(t), t)
<1> DEFINE K == {i \in DOMAIN t : t[i] = "blank" => i = 1 \/ t[i - 1] # "blank"}
<1>1. K \in SUBSET (1..Len(t)) /\ Letters(t) \subseteq K
  BY LettersOf
<1>2. \A p, q \in Letters(t) : p < q => p + 1 \in K
  <2> SUFFICES ASSUME NEW p \in Letters(t), NEW q \in Letters(t), p < q PROVE p + 1 \in K
    OBVIOUS
  <2>1. p \in 1..Len(t) /\ q \in 1..Len(t) /\ t[p] # "blank" /\ Len(t) \in Nat
    BY LettersOf
  <2>2. p + 1 \in 1..Len(t) /\ (p + 1) - 1 = p
    BY <2>1
  <2> QED
    BY <2>1, <2>2
<1> HIDE DEF K
<1>3. Kept(t, K) \in Seq(C) /\ SameWords(Kept(t, K), t)
  BY <1>1, <1>2, KeptText, KeptWords
<1> QED
  BY <1>3 DEF Collapse, K

LEMMA StripText ==
  ASSUME NEW C, NEW t \in Seq(C)
  PROVE  Strip(t) \in Seq(C) /\ SameWords(Strip(t), t)
<1> DEFINE K == {i \in DOMAIN t : \E h, j \in Letters(t) : h <= i /\ i <= j}
<1>1. K \in SUBSET (1..Len(t)) /\ Letters(t) \subseteq K
  BY LettersOf
<1>2. \A p, q \in Letters(t) : p < q => p + 1 \in K
  <2> SUFFICES ASSUME NEW p \in Letters(t), NEW q \in Letters(t), p < q PROVE p + 1 \in K
    OBVIOUS
  <2>1. p \in 1..Len(t) /\ q \in 1..Len(t) /\ Len(t) \in Nat
    BY LettersOf
  <2>2. p + 1 \in 1..Len(t) /\ p <= p + 1 /\ p + 1 <= q
    BY <2>1
  <2> QED
    BY <2>1, <2>2
<1> HIDE DEF K
<1>3. Kept(t, K) \in Seq(C) /\ SameWords(Kept(t, K), t)
  BY <1>1, <1>2, KeptText, KeptWords
<1> QED
  BY <1>3 DEF Strip, K

(* ws_normalize.py keeps the words of a message, for any alphabet and any  *)
(* text.                                                                   *)
THEOREM NormalizeKeepsWords ==
  ASSUME NEW C, NEW t \in Seq(C)
  PROVE  Normalize(t) \in Seq(C) /\ SameWords(Normalize(t), t)
<1>1. Collapse(t) \in Seq(C) /\ SameWords(Collapse(t), t)
  BY CollapseText
<1>2. Strip(Collapse(t)) \in Seq(C) /\ SameWords(Strip(Collapse(t)), Collapse(t))
  BY <1>1, StripText
<1> QED
  BY <1>1, <1>2, SameWordsTransitive DEF Normalize

(* re.sub leaves no blank after a blank.                                   *)
LEMMA CollapseTidies ==
  ASSUME NEW C, NEW t \in Seq(C), NEW k \in 1..Len(Collapse(t)),
         Collapse(t)[k] = "blank", k + 1 \in 1..Len(Collapse(t))
  PROVE  Collapse(t)[k + 1] # "blank"
<1> DEFINE K == {i \in DOMAIN t : t[i] = "blank" => i = 1 \/ t[i - 1] # "blank"}
<1>1. K \in SUBSET (1..Len(t)) /\ Letters(t) \subseteq K /\ Len(t) \in Nat
  BY LettersOf
<1>2. \A i \in K : t[i] = "blank" /\ i # 1 => i - 1 \in K /\ t[i - 1] # "blank"
  <2> SUFFICES ASSUME NEW i \in K, t[i] = "blank", i # 1 PROVE i - 1 \in K /\ t[i - 1] # "blank"
    OBVIOUS
  <2>1. t[i - 1] # "blank"
    OBVIOUS
  <2>2. i - 1 \in 1..Len(t)
    <3> HIDE DEF K
    <3> QED
      BY <1>1
  <2> QED
    BY <2>1, <2>2, LettersOf, <1>1
<1> HIDE DEF K
<1> DEFINE p == Nth(K, k)
           q == Nth(K, k + 1)
<1>3. /\ k \in 1..Cardinality(K) /\ k + 1 \in 1..Cardinality(K) /\ Cardinality(K) \in Nat
      /\ Collapse(t)[k] = t[p] /\ Collapse(t)[k + 1] = t[q]
  BY <1>1, KeptText DEF Collapse, K
<1>4. /\ p \in K /\ Rank(K, p) = k /\ q \in K /\ Rank(K, q) = k + 1
      /\ \A i, j \in K : i < j <=> Rank(K, i) < Rank(K, j)
      /\ \A i \in K : Rank(K, i) \in 1..Cardinality(K)
  BY <1>1, <1>3, NthRank
<1> HIDE DEF p, q
<1>5. ASSUME t[q] = "blank" PROVE FALSE
  <2>1. p \in Nat /\ q \in Nat /\ p < q /\ 1 <= p
    BY <1>1, <1>3, <1>4
  <2>2. q - 1 \in K /\ t[q - 1] # "blank"
    BY <1>2, <1>4, <1>5, <2>1
  <2>3. p # q - 1
    BY <1>3, <2>2
  <2>4. p < q - 1 /\ q - 1 < q
    BY <2>1, <2>3
  <2>5. k < Rank(K, q - 1) /\ Rank(K, q - 1) < k + 1 /\ Rank(K, q - 1) \in Nat
    BY <1>4, <2>2, <2>4
  <2> QED
    BY <1>3, <2>5
<1> QED
  BY <1>3, <1>5

(* In what ws_normalize.py returns every blank is between two letters:     *)
(* none is at an end and none follows another.                             *)
THEOREM NormalizeTidies ==
  ASSUME NEW C, NEW t \in Seq(C),
         NEW k \in 1..Len(Normalize(t)), Normalize(t)[k] = "blank"
  PROVE  k - 1 \in Letters(Normalize(t)) /\ k + 1 \in Letters(Normalize(t))
<1> DEFINE c == Collapse(t)
           K == {i \in DOMAIN c : \E h, j \in Letters(c) : h <= i /\ i <= j}
           p == Nth(K, k)
<1>1. /\ c \in Seq(C) /\ Len(c) \in Nat
      /\ \A i \in 1..Len(c) : c[i] = "blank" /\ i + 1 \in 1..Len(c) => c[i + 1] # "blank"
  <2>1. c \in Seq(C)
    BY CollapseText
  <2> QED
    BY <2>1, CollapseTidies
<1> HIDE DEF c
<1>2. /\ K \in SUBSET (1..Len(c))
      /\ \A i : i \in Letters(c) <=> i \in 1..Len(c) /\ c[i] # "blank"
      /\ \A i \in K : \E h, j \in Letters(c) : h <= i /\ i <= j
      /\ \A i \in 1..Len(c) : (\E h, j \in Letters(c) : h <= i /\ i <= j) => i \in K
  BY <1>1, LettersOf
<1>3. Normalize(t) = Kept(c, K)
  BY DEF Normalize, Strip, c
<1> HIDE DEF K
<1>4. /\ Len(Normalize(t)) = Cardinality(K) /\ Cardinality(K) \in Nat
      /\ Normalize(t) \in Seq(C)
      /\ \A i \in 1..Cardinality(K) : Normalize(t)[i] = c[Nth(K, i)]
  BY <1>1, <1>2, <1>3, KeptText
<1>5. /\ p \in K /\ Rank(K, p) = k
      /\ \A i \in K : Rank(K, i) \in 1..Cardinality(K) /\ Nth(K, Rank(K, i)) = i
  BY <1>1, <1>2, <1>4, NthRank
<1>6. c[p] = "blank" /\ k \in Nat
  BY <1>4
<1> HIDE DEF p
<1>7. p \in 1..Len(c)
  BY <1>2, <1>5
<1>8. p - 1 \in K /\ p + 1 \in K /\ c[p - 1] # "blank" /\ c[p + 1] # "blank"
  <2>1. PICK h \in Letters(c), j \in Letters(c) : h <= p /\ p <= j
    BY <1>2, <1>5
  <2>2. h \in 1..Len(c) /\ j \in 1..Len(c) /\ h # p /\ j # p
    BY <1>2, <1>6, <1>7, <2>1
  <2>3. /\ p - 1 \in 1..Len(c) /\ p + 1 \in 1..Len(c) /\ (p - 1) + 1 = p
        /\ h <= p - 1 /\ p - 1 <= j /\ h <= p + 1 /\ p + 1 <= j
    BY <1>1, <1>6, <1>7, <2>1, <2>2
  <2>4. p - 1 \in K /\ p + 1 \in K
    BY <1>2, <2>3
  <2>5. c[p + 1] # "blank"
    BY <1>1, <1>6, <1>7, <2>3
  <2>6. c[p - 1] # "blank"
    BY <1>1, <1>6, <1>7, <2>3
  <2> QED
    BY <2>4, <2>5, <2>6
<1>9. Rank(K, p + 1) = k + 1 /\ Rank(K, p - 1) = k - 1
  <2>1. p \in Nat /\ p - 1 \in Nat /\ (p - 1) + 1 = p
    BY <1>1, <1>2, <1>6, <1>7, <1>8
  <2>2. Rank(K, p + 1) = Rank(K, p) + 1
    BY <1>1, <1>2, <1>8, <2>1, RankStep
  <2>3. Rank(K, (p - 1) + 1) = Rank(K, p - 1) + 1
    <3>1. \A i \in Nat : i + 1 \in K => Rank(K, i + 1) = Rank(K, i) + 1
      BY <1>1, <1>2, RankStep
    <3> QED
      BY <1>5, <2>1, <3>1
  <2>4. Rank(K, p - 1) \in Nat
    BY <1>1, <1>2, RankType
  <2> QED
    BY <1>5, <1>6, <1>7, <2>1, <2>2, <2>3, <2>4
<1>10. /\ k + 1 \in 1..Cardinality(K) /\ Normalize(t)[k + 1] = c[p + 1]
      /\ k - 1 \in 1..Cardinality(K) /\ Normalize(t)[k - 1] = c[p - 1]
  <2>1. /\ k + 1 \in 1..Cardinality(K) /\ Nth(K, k + 1) = p + 1
        /\ k - 1 \in 1..Cardinality(K) /\ Nth(K, k - 1) = p - 1
    BY <1>5, <1>8, <1>9
  <2> QED
    BY <1>4, <2>1
<1> QED
  BY <1>4, <1>8, <1>10, LettersOf

-----------------------------------------------------------------------------
(* The wire. *)

(* The recursive function in FlattenSeq, which exists: it appends one      *)
(* after another.                                                          *)
Appends(g, s, n) == g = [i \in 1..n |-> IF i = 1 THEN s[i] ELSE g[i - 1] \o s[i]]

LEMMA Flattened ==
  ASSUME NEW s, NEW n \in Nat \ {0}, DOMAIN s = 1..n, Len(s) = n
  PROVE  \E g : Appends(g, s, n) /\ FlattenSeq(s) = g[n]
<1> DEFINE P == {m \in 1..n : ~ \E g : Appends(g, s, m)}
<1>1. P = {}
  <2> SUFFICES ASSUME P # {} PROVE FALSE
    OBVIOUS
  <2> DEFINE k == Min(P)
  <2>1. k \in P /\ \A m \in P : k <= m
    <3>1. P \subseteq 1..n
      OBVIOUS
    <3> HIDE DEF P
    <3>2. P \in SUBSET Nat
      BY <3>1
    <3> QED
      BY <3>2, FirstOfNaturals
  <2> HIDE DEF k
  <2>2. k \in 1..n
    BY <2>1
  <2>3. CASE k = 1
    <3> DEFINE g == [i \in 1..1 |-> s[1]]
    <3>1. Appends(g, s, 1)
      BY DEF Appends
    <3> HIDE DEF g
    <3> QED
      BY <2>1, <2>3, <3>1
  <2>4. CASE k # 1
    <3>1. k - 1 \in 1..n /\ k - 1 \notin P
      <4> HIDE DEF P
      <4> QED
        BY <2>1, <2>2, <2>4
    <3>2. PICK g : Appends(g, s, k - 1)
      BY <3>1
    <3> DEFINE h == [i \in 1..k |-> IF i = k THEN g[k - 1] \o s[k] ELSE g[i]]
    <3>3. ASSUME NEW i \in 1..k
          PROVE  h[i] = IF i = 1 THEN s[i] ELSE h[i - 1] \o s[i]
      <4>1. CASE i = k
        <5>1. k - 1 \in 1..k /\ k - 1 # k
          BY <2>2, <3>1
        <5> QED
          BY <2>4, <4>1, <5>1
      <4>2. CASE i # k
        <5>1. i \in 1..k - 1 /\ (i # 1 => i - 1 \in 1..k /\ i - 1 # k)
          BY <2>2, <4>2
        <5>2. g[i] = IF i = 1 THEN s[i] ELSE g[i - 1] \o s[i]
          BY <3>2, <5>1 DEF Appends
        <5> QED
          BY <4>2, <5>1, <5>2
      <4> QED
        BY <4>1, <4>2
    <3>4. Appends(h, s, k)
      BY <3>3 DEF Appends
    <3> HIDE DEF h
    <3> QED
      BY <2>1, <3>4
  <2> QED
    BY <2>3, <2>4
<1> DEFINE flatten[i \in 1..n] == IF i = 1 THEN s[i] ELSE flatten[i - 1] \o s[i]
<1>2. PICK g : Appends(g, s, n)
  BY <1>1
<1>3. flatten = [i \in 1..n |-> IF i = 1 THEN s[i] ELSE flatten[i - 1] \o s[i]]
  BY <1>2 DEF Appends
<1>4. FlattenSeq(s) = flatten[n]
  BY DEF FlattenSeq
<1> HIDE DEF flatten
<1> QED
  BY <1>3, <1>4 DEF Appends

LEMMA AppendsSteps ==
  ASSUME NEW g, NEW s, NEW n \in Nat \ {0}, Appends(g, s, n)
  PROVE  g[1] = s[1] /\ \A i \in 2..n : g[i] = g[i - 1] \o s[i]
<1>1. \A i \in 1..n : g[i] = IF i = 1 THEN s[i] ELSE g[i - 1] \o s[i]
  BY DEF Appends
<1>2. 1 \in 1..n /\ \A i \in 2..n : i \in 1..n /\ i # 1
  OBVIOUS
<1> QED
  BY <1>1, <1>2

(* UTF-8 writes a text without letters of two bytes as it is.              *)
LEMMA BytesOf ==
  ASSUME NEW t \in Seq(Characters), \A i \in 1..Len(t) : t[i] \notin Wide
  PROVE  Bytes(t) = t
<1> DEFINE s == [i \in DOMAIN t |-> IF t[i] \in Wide THEN <<"lead", "trail">> ELSE <<t[i]>>]
           n == Len(t)
<1>1. n \in Nat /\ DOMAIN s = 1..n /\ Len(s) = n /\ \A i \in 1..n : s[i] = <<t[i]>>
  OBVIOUS
<1> HIDE DEF s
<1>2. CASE n = 0
  <2>1. s = <<>> /\ t = <<>>
    BY <1>1, <1>2
  <2> QED
    BY <2>1 DEF Bytes, FlattenSeq, s
<1>3. CASE n # 0
  <2>0. PICK g : Appends(g, s, n) /\ FlattenSeq(s) = g[n]
    BY <1>1, <1>3, Flattened
  <2>1. g[1] = s[1] /\ \A i \in 2..n : g[i] = g[i - 1] \o s[i]
    <3>1. n \in Nat \ {0}
      BY <1>1, <1>3
    <3> HIDE DEF n
    <3> QED
      BY <2>0, <3>1, AppendsSteps
  <2> DEFINE P == {i \in 1..n : g[i] # SubSeq(t, 1, i)}
  <2>2. P = {}
    <3> SUFFICES ASSUME P # {} PROVE FALSE
      OBVIOUS
    <3> DEFINE k == Min(P)
    <3>1. k \in P /\ \A m \in P : k <= m
      <4>1. P \subseteq 1..n
        OBVIOUS
      <4> HIDE DEF P
      <4>2. P \in SUBSET Nat
        BY <4>1
      <4> QED
        BY <4>2, FirstOfNaturals
    <3> HIDE DEF k
    <3>2. k \in 1..n
      BY <3>1
    <3>3. k # 1
      <4>1. SubSeq(t, 1, 1) = <<t[1]>>
        <5>1. /\ SubSeq(t, 1, 1) \in Seq(Characters) /\ <<t[1]>> \in Seq(Characters)
              /\ Len(SubSeq(t, 1, 1)) = 1 /\ SubSeq(t, 1, 1)[1] = t[1]
          BY <1>1, <1>3
        <5>2. ASSUME NEW u \in Seq(Characters), NEW v \in Seq(Characters),
                     Len(u) = 1, Len(v) = 1, u[1] = v[1]
              PROVE  u = v
          BY <5>2, SeqEqual
        <5>3. Len(<<t[1]>>) = 1 /\ <<t[1]>>[1] = t[1]
          OBVIOUS
        <5> QED
          BY <5>1, <5>2, <5>3
      <4> QED
        BY <1>1, <2>1, <3>1, <3>2, <4>1
    <3>4. k - 1 \in 1..n /\ k - 1 \notin P
      <4> HIDE DEF P
      <4> QED
        BY <3>1, <3>2, <3>3
    <3>5. g[k] = SubSeq(t, 1, k - 1) \o <<t[k]>>
      <4>1. k \in 2..n
        BY <3>2, <3>3
      <4>2. g[k - 1] = SubSeq(t, 1, k - 1)
        BY <3>4
      <4>3. s[k] = <<t[k]>>
        BY <1>1, <3>2
      <4>4. g[k] = g[k - 1] \o s[k]
        BY <2>1, <4>1
      <4> QED
        BY <4>2, <4>3, <4>4
    <3>6. SubSeq(t, 1, k - 1) \o <<t[k]>> = SubSeq(t, 1, k)
      BY <1>1, <3>2, <3>3
    <3> QED
      BY <3>1, <3>5, <3>6
  <2>3. g[n] = SubSeq(t, 1, n)
    BY <1>1, <1>3, <2>2
  <2> QED
    BY <1>1, <2>0, <2>3 DEF Bytes, s
<1> QED
  BY <1>2, <1>3

(* A field that the final NUL of its buffer leaves room for is read whole, *)
(* with its NUL: what is left begins with the next one.                    *)
LEMMA FieldEndType ==
  ASSUME NEW s
  PROVE  /\ FieldEnd(s) \in 1..SHORT_MSG_SIZE - 1
         /\ \A i \in 1..SHORT_MSG_SIZE - 1 :
              i \in DOMAIN s /\ s[i] = Nul => FieldEnd(s) <= i /\ s[FieldEnd(s)] = Nul
         /\ (\A i \in 1..SHORT_MSG_SIZE - 1 : s[i] # Nul) => FieldEnd(s) = SHORT_MSG_SIZE - 1
<1> DEFINE nuls == {i \in 1..SHORT_MSG_SIZE - 1 : i \in DOMAIN s /\ s[i] = Nul}
<1>1. SHORT_MSG_SIZE \in Nat /\ SHORT_MSG_SIZE - 1 \in 1..SHORT_MSG_SIZE - 1
  BY TextsAssumption
<1>2. FieldEnd(s) = IF nuls # {} THEN Min(nuls) ELSE SHORT_MSG_SIZE - 1
  BY DEF FieldEnd
<1>3. nuls # {} => Min(nuls) \in nuls /\ \A i \in nuls : Min(nuls) <= i
  <2>1. nuls \subseteq 1..SHORT_MSG_SIZE - 1
    OBVIOUS
  <2> HIDE DEF nuls
  <2>2. nuls \in SUBSET Nat
    BY <1>1, <2>1
  <2> QED
    BY <2>2, FirstOfNaturals
<1> QED
  BY <1>1, <1>2, <1>3

(* No buffer overflows, whatever the bytes are.                            *)
LEMMA FieldFits ==
  ASSUME NEW s
  PROVE  Len(leer_cadena(s).campo) < SHORT_MSG_SIZE
<1> DEFINE n == IF s[FieldEnd(s)] = Nul THEN FieldEnd(s) - 1 ELSE FieldEnd(s)
<1>1. SHORT_MSG_SIZE \in Nat /\ n \in Nat /\ n < SHORT_MSG_SIZE
  BY TextsAssumption, FieldEndType
<1>2. leer_cadena(s).campo = SubSeq(s, 1, n)
  BY DEF leer_cadena
<1> HIDE DEF n
<1> QED
  BY <1>1, <1>2

LEMMA FieldRead ==
  ASSUME NEW B, NEW t \in Seq(B), NEW r \in Seq(B), Nul \in B,
         \A i \in 1..Len(t) : t[i] # Nul, Len(t) < SHORT_MSG_SIZE - 1
  PROVE  leer_cadena(Append(t, Nul) \o r) = [campo |-> t, resto |-> r]
<1> DEFINE s == Append(t, Nul) \o r
           n == Len(t) + 1
<1>1. /\ SHORT_MSG_SIZE \in Nat /\ n \in 1..SHORT_MSG_SIZE - 1 /\ Len(t) \in Nat /\ Len(r) \in Nat
      /\ s \in Seq(B) /\ Len(s) = n + Len(r)
      /\ n \in DOMAIN s /\ s[n] = Nul /\ \A i \in 1..Len(t) : s[i] = t[i]
      /\ \A i \in 1..Len(r) : s[n + i] = r[i]
  BY TextsAssumption
<1> HIDE DEF s
<1>2. FieldEnd(s) = n
  <2>1. FieldEnd(s) \in 1..n /\ s[FieldEnd(s)] = Nul
    BY <1>1, FieldEndType
  <2>2. \A i \in 1..n : i # n => i \in 1..Len(t)
    <3>1. Len(t) \in Nat
      OBVIOUS
    <3> HIDE DEF s
    <3> QED
      BY <3>1
  <2> QED
    BY <1>1, <2>1, <2>2
<1>3. SubSeq(s, 1, n - 1) = t
  <2>1. /\ SubSeq(s, 1, n - 1) \in Seq(B) /\ Len(SubSeq(s, 1, n - 1)) = Len(t)
        /\ \A i \in 1..Len(t) : SubSeq(s, 1, n - 1)[i] = t[i]
    BY <1>1
  <2> QED
    BY <2>1, SeqEqual
<1>4. SubSeq(s, n + 1, Len(s)) = r
  <2>1. /\ SubSeq(s, n + 1, Len(s)) \in Seq(B) /\ Len(SubSeq(s, n + 1, Len(s))) = Len(r)
        /\ \A i \in 1..Len(r) : SubSeq(s, n + 1, Len(s))[i] = r[i]
    BY <1>1
  <2> QED
    BY <2>1, SeqEqual
<1> QED
  BY <1>1, <1>2, <1>3, <1>4 DEF leer_cadena, s

(* The last field may fill its buffer: nothing is read after it.           *)
LEMMA LastFieldRead ==
  ASSUME NEW B, NEW t \in Seq(B), Nul \in B,
         \A i \in 1..Len(t) : t[i] # Nul, Len(t) < SHORT_MSG_SIZE
  PROVE  leer_cadena(Append(t, Nul)).campo = t
<1> DEFINE s == Append(t, Nul)
           n == Len(t)
<1>1. /\ SHORT_MSG_SIZE \in Nat /\ n \in Nat /\ s \in Seq(B) /\ Len(s) = n + 1
      /\ s[n + 1] = Nul /\ \A i \in 1..n : s[i] = t[i]
  BY TextsAssumption
<1> HIDE DEF s
<1>2. SubSeq(s, 1, n) = t
  <2>1. /\ SubSeq(s, 1, n) \in Seq(B) /\ Len(SubSeq(s, 1, n)) = n
        /\ \A i \in 1..n : SubSeq(s, 1, n)[i] = t[i]
    BY <1>1
  <2> QED
    BY <2>1, SeqEqual
<1>3. CASE n < SHORT_MSG_SIZE - 1
  <2>1. FieldEnd(s) = n + 1
    BY <1>1, <1>3, FieldEndType
  <2> QED
    BY <1>1, <1>2, <2>1 DEF leer_cadena, s
<1>4. CASE n = SHORT_MSG_SIZE - 1
  <2>1. FieldEnd(s) = n /\ s[n] # Nul
    BY <1>1, <1>4, FieldEndType, TextsAssumption
  <2> QED
    BY <1>1, <1>2, <2>1 DEF leer_cadena, s
<1> QED
  BY <1>1, <1>3, <1>4

(* The recursive function in Received exists, for the one field of SEND    *)
(* and the two of SENDATTACH.                                              *)
LEMMA ReceivedFields ==
  ASSUME NEW fields
  PROVE  LET first  == leer_cadena(Wire(fields))
             second == leer_cadena(first.resto)
         IN  /\ Len(fields) = 1 => Received(fields) = <<first.campo>>
             /\ Len(fields) = 2 => Received(fields) = <<first.campo, second.campo>>
<1> DEFINE After(r) == [campos |-> Append(r.campos, leer_cadena(r.resto).campo),
                        resto  |-> leer_cadena(r.resto).resto]
           start == [campos |-> <<>>, resto |-> Wire(fields)]
           read[i \in 0..Len(fields)] == IF i = 0 THEN start ELSE After(read[i - 1])
<1>1. Received(fields) = read[Len(fields)].campos
  BY DEF Received
<1> HIDE DEF After, start
<1>2. ASSUME Len(fields) \in {1, 2}
      PROVE  read = [i \in 0..Len(fields) |-> IF i = 0 THEN start ELSE After(read[i - 1])]
  <2> DEFINE g == [i \in 0..Len(fields) |-> IF i = 0 THEN start
                                            ELSE IF i = 1 THEN After(start)
                                            ELSE After(After(start))]
  <2>1. g = [i \in 0..Len(fields) |-> IF i = 0 THEN start ELSE After(g[i - 1])]
    BY <1>2
  <2> HIDE DEF g
  <2> QED
    BY <2>1
<1> HIDE DEF read
<1>3. ASSUME Len(fields) = 1 PROVE read[1] = After(start)
  BY <1>2, <1>3
<1>4. ASSUME Len(fields) = 2 PROVE read[2] = After(After(start))
  BY <1>2, <1>4
<1>5. /\ After(start).campos = <<leer_cadena(Wire(fields)).campo>>
      /\ After(start).resto = leer_cadena(Wire(fields)).resto
  BY DEF After, start
<1>6. After(After(start)).campos =
        <<leer_cadena(Wire(fields)).campo, leer_cadena(leer_cadena(Wire(fields)).resto).campo>>
  <2> DEFINE r == After(start)
  <2>1. After(r).campos = Append(r.campos, leer_cadena(r.resto).campo)
    BY DEF After
  <2> HIDE DEF r
  <2>2. r.campos = <<leer_cadena(Wire(fields)).campo>> /\ r.resto = leer_cadena(Wire(fields)).resto
    BY <1>5 DEF r
  <2>3. ASSUME NEW x, NEW y PROVE Append(<<x>>, y) = <<x, y>>
    <3> DEFINE a == Append(<<x>>, y)
               b == <<x, y>>
    <3>1. a \in Seq({x, y}) /\ Len(a) = 2 /\ a[1] = x /\ a[2] = y
      OBVIOUS
    <3>2. b \in Seq({x, y}) /\ Len(b) = 2 /\ b[1] = x /\ b[2] = y
      OBVIOUS
    <3> HIDE DEF a, b
    <3>3. \A i \in 1..2 : a[i] = b[i]
      BY <3>1, <3>2
    <3>4. a = b
      BY <3>1, <3>2, <3>3, SeqEqual
    <3> QED
      BY <3>4 DEF a, b
  <2>4. After(r).campos = <<leer_cadena(Wire(fields)).campo, leer_cadena(r.resto).campo>>
    BY <2>1, <2>2, <2>3, Zenon
  <2> QED
    BY <2>2, <2>4 DEF r
<1> QED
  BY <1>1, <1>3, <1>4, <1>5, <1>6

(* The fields of one message on the wire.                                  *)
LEMMA WireOf ==
  ASSUME NEW t, NEW u
  PROVE  /\ Wire(<<t>>) = Append(Bytes(t), Nul)
         /\ Wire(<<t, u>>) = Append(Bytes(t), Nul) \o Append(Bytes(u), Nul)
<1> DEFINE Fields(f) == [i \in DOMAIN f |-> Append(Bytes(f[i]), Nul)]
<1>1. Wire(<<t>>) = Append(Bytes(t), Nul)
  <2> DEFINE s == Fields(<<t>>)
  <2>1. DOMAIN s = 1..1 /\ Len(s) = 1 /\ s[1] = Append(Bytes(t), Nul)
    OBVIOUS
  <2>2. Wire(<<t>>) = FlattenSeq(s)
    BY DEF Wire
  <2> HIDE DEF s
  <2>3. 1 \in Nat \ {0}
    OBVIOUS
  <2>4. PICK g : Appends(g, s, 1) /\ FlattenSeq(s) = g[1]
    BY <2>1, <2>3, Flattened, Zenon
  <2>5. g[1] = s[1]
    BY <2>3, <2>4, AppendsSteps, Zenon
  <2> QED
    BY <2>1, <2>2, <2>4, <2>5, Zenon
<1>2. Wire(<<t, u>>) = Append(Bytes(t), Nul) \o Append(Bytes(u), Nul)
  <2> DEFINE s == Fields(<<t, u>>)
  <2>1. /\ DOMAIN s = 1..2 /\ Len(s) = 2
        /\ s[1] = Append(Bytes(t), Nul) /\ s[2] = Append(Bytes(u), Nul)
    OBVIOUS
  <2>2. Wire(<<t, u>>) = FlattenSeq(s)
    BY DEF Wire
  <2> HIDE DEF s
  <2>3. 2 \in Nat \ {0} /\ 2 \in 2..2 /\ 2 - 1 = 1
    OBVIOUS
  <2>4. PICK g : Appends(g, s, 2) /\ FlattenSeq(s) = g[2]
    BY <2>1, <2>3, Flattened, Zenon
  <2>5. g[1] = s[1] /\ \A i \in 2..2 : g[i] = g[i - 1] \o s[i]
    BY <2>3, <2>4, AppendsSteps, Zenon
  <2>6. g[2] = g[2 - 1] \o s[2]
    BY <2>3, <2>5, Zenon
  <2> QED
    BY <2>1, <2>2, <2>3, <2>4, <2>5, <2>6, Zenon
<1> QED
  BY <1>1, <1>2

(* A text of one-byte characters is its own bytes, and decodes.            *)
LEMMA OneByteText ==
  ASSUME NEW t \in Seq(Narrow \cup {"blank"})
  PROVE  /\ t \in Seq(Characters \cup {Nul}) /\ Bytes(t) = t
         /\ \A i \in 1..Len(t) : t[i] # Nul
         /\ Decodes(t)
<1>1. \A i \in 1..Len(t) : t[i] \in Narrow \cup {"blank"}
  OBVIOUS
<1>2. \A i \in 1..Len(t) : t[i] \notin Wide /\ t[i] \notin {Nul, "lead", "trail"}
  BY <1>1, TextsAssumption DEF Nul
<1>3. t \in Seq(Characters) /\ t \in Seq(Characters \cup {Nul})
  BY SeqMonotonic DEF Characters
<1>4. DOMAIN t = 1..Len(t)
  OBVIOUS
<1> QED
  BY <1>2, <1>3, <1>4, BytesOf DEF Decodes

(* What the client writes is what tratar_peticion reads: a text of         *)
(* one-byte characters is read whole and the next after it, if it leaves   *)
(* room for its NUL; the last may fill its buffer.                         *)
THEOREM FieldsArrive ==
  ASSUME NEW t \in Seq(Narrow \cup {"blank"}), NEW u \in Seq(Narrow \cup {"blank"}),
         Len(t) < SHORT_MSG_SIZE, Len(u) < SHORT_MSG_SIZE
  PROVE  /\ Received(<<t>>) = <<t>>
         /\ Len(t) < SHORT_MSG_SIZE - 1 => Received(<<t, u>>) = <<t, u>>
<1> DEFINE B == Characters \cup {Nul}
<1>1. /\ t \in Seq(B) /\ Bytes(t) = t /\ \A i \in 1..Len(t) : t[i] # Nul
      /\ u \in Seq(B) /\ Bytes(u) = u /\ \A i \in 1..Len(u) : u[i] # Nul
      /\ Nul \in B
  BY OneByteText
<1> HIDE DEF B
<1>2. Received(<<t>>) = <<t>>
  <2>1. leer_cadena(Wire(<<t>>)).campo = t
    BY <1>1, WireOf, LastFieldRead
  <2>2. Len(<<t>>) = 1
    OBVIOUS
  <2> QED
    BY <2>1, <2>2, ReceivedFields
<1>3. ASSUME Len(t) < SHORT_MSG_SIZE - 1 PROVE Received(<<t, u>>) = <<t, u>>
  <2>1. Append(u, Nul) \in Seq(B)
    BY <1>1
  <2>2. leer_cadena(Append(t, Nul) \o Append(u, Nul)) = [campo |-> t, resto |-> Append(u, Nul)]
    BY <1>1, <1>3, <2>1, FieldRead
  <2>3. leer_cadena(Append(u, Nul)).campo = u
    BY <1>1, LastFieldRead
  <2>4. Wire(<<t, u>>) = Append(t, Nul) \o Append(u, Nul)
    BY <1>1, WireOf
  <2>5. /\ leer_cadena(Wire(<<t, u>>)).campo = t
        /\ leer_cadena(leer_cadena(Wire(<<t, u>>)).resto).campo = u
    <3>1. leer_cadena(Wire(<<t, u>>)) = [campo |-> t, resto |-> Append(u, Nul)]
      BY <2>2, <2>4, Zenon
    <3>2. leer_cadena(Wire(<<t, u>>)).campo = t /\ leer_cadena(Wire(<<t, u>>)).resto = Append(u, Nul)
      <4>1. ASSUME NEW x, x = [campo |-> t, resto |-> Append(u, Nul)]
            PROVE  x.campo = t /\ x.resto = Append(u, Nul)
        BY <4>1
      <4> QED
        BY <3>1, <4>1, Zenon
    <3> QED
      BY <2>3, <3>2, Zenon
  <2>6. Len(<<t, u>>) = 2
    OBVIOUS
  <2> QED
    BY <2>5, <2>6, ReceivedFields
<1> QED
  BY <1>2, <1>3

-----------------------------------------------------------------------------
(* The invariant.  What a plain message holds is known at every place: the *)
(* text as it was typed or as the web service made it, and the file name   *)
(* if there is one.  Only the length test keeps a text that comes alone in *)
(* one field, and only that a plain text does not fill its field keeps the *)
(* name that follows it.                                                   *)
Holds(t) == /\ ~TooLong(t)
            /\ adjunto => ~TooLong(archivo)
            /\ campos = IF adjunto THEN <<t, archivo>> ELSE <<t>>

Named == operacion = IF adjunto THEN "SEND_MESSAGE_ATTACH" ELSE "SEND_MESSAGE"

Whole == \E t \in {tecleado, Normalize(tecleado)} : Holds(t)

TextsInv ==
  /\ TextsTypeOK
  /\ paso = "sent" => Whole
  /\ paso = "server" =>
       campos = IF adjunto THEN <<campos[1], campos[2]>> ELSE <<campos[1]>>
  /\ paso \in {"server", "pushed", "printed", "dropped"} /\ Plain => Whole
  /\ paso \in {"pushed", "printed", "dropped"} /\ Plain => Named
  /\ paso = "dropped" => ~Plain

LEMMA TextsInitInv == TextsInit => TextsInv
BY DEF TextsInit, TextsInv, TextsTypeOK

LEMMA Chosen ==
  ASSUME NEW up \in BOOLEAN
  PROVE  normalize_message(up) \in {tecleado, Normalize(tecleado)}
BY DEF normalize_message

LEMMA SentInv ==
  ASSUME TextsInv, NEW up \in BOOLEAN, send(up) \/ sendAttach(up)
  PROVE  TextsInv'
<1> DEFINE t == normalize_message(up)
<1>1. t \in {tecleado, Normalize(tecleado)}
  BY Chosen
<1> HIDE DEF t
<1>2. /\ paso' = "sent" /\ UNCHANGED <<adjunto, tecleado, archivo, operacion>>
      /\ ~TooLong(t) /\ (adjunto => ~TooLong(archivo))
      /\ campos' = IF adjunto THEN <<t, archivo>> ELSE <<t>>
  BY DEF send, sendAttach, Reaches, t
<1>3. Whole'
  BY <1>1, <1>2 DEF Whole, Holds
<1>4. TextsTypeOK'
  BY <1>2 DEF TextsInv, TextsTypeOK
<1> QED
  BY <1>2, <1>3, <1>4 DEF TextsInv

LEMMA RefusedInv ==
  ASSUME TextsInv, NEW up \in BOOLEAN, Refused(up)
  PROVE  TextsInv'
BY DEF TextsInv, TextsTypeOK, Refused, Reaches

(* The characters of a plain message are of one byte.                      *)
LEMMA PlainTexts ==
  ASSUME TextsTypeOK, Plain
  PROVE  /\ archivo \in Seq(Narrow \cup {"blank"})
         /\ \A t \in {tecleado, Normalize(tecleado)} :
              /\ t \in Seq(Narrow \cup {"blank"})
              /\ adjunto => t # <<>> /\ Len(t) < SHORT_MSG_SIZE - 1
<1>1. tecleado \in Seq(Characters) /\ archivo \in Seq(Characters)
  BY TextsAssumption DEF TextsTypeOK
<1>2. ASSUME NEW t \in Seq(Characters), Wide \cap ToSet(t) = {}
      PROVE  t \in Seq(Narrow \cup {"blank"})
  <2>1. \A i \in 1..Len(t) : t[i] \in ToSet(t)
    BY DEF ToSet
  <2>2. \A i \in 1..Len(t) : t[i] \in Narrow \cup {"blank"}
    BY <1>2, <2>1 DEF Characters
  <2> QED
    BY <2>2
<1>3. tecleado \in Seq(Narrow \cup {"blank"}) /\ archivo \in Seq(Narrow \cup {"blank"})
  BY <1>1, <1>2 DEF Plain
<1>4. Normalize(tecleado) \in Seq(Narrow \cup {"blank"})
  BY <1>3, NormalizeKeepsWords
<1> QED
  BY <1>3, <1>4 DEF Plain

LEMMA TratarInv ==
  ASSUME TextsInv, tratar_peticion
  PROVE  TextsInv'
<1>1. /\ paso = "sent" /\ paso' = "server" /\ UNCHANGED <<adjunto, tecleado, archivo, operacion>>
      /\ campos' = Received(campos)
  BY DEF tratar_peticion, Reaches
<1>2. PICK t \in {tecleado, Normalize(tecleado)} : Holds(t)
  BY <1>1 DEF TextsInv, Whole
<1>3. PICK a, b : /\ Len(a) < SHORT_MSG_SIZE /\ Len(b) < SHORT_MSG_SIZE
                  /\ Received(campos) = IF adjunto THEN <<a, b>> ELSE <<a>>
  <2> DEFINE first == leer_cadena(Wire(campos))
             second == leer_cadena(first.resto)
  <2>1. Len(first.campo) < SHORT_MSG_SIZE /\ Len(second.campo) < SHORT_MSG_SIZE
    BY FieldFits
  <2>2. Len(campos) = IF adjunto THEN 2 ELSE 1
    BY <1>2 DEF Holds
  <2>3. Received(campos) = IF adjunto THEN <<first.campo, second.campo>> ELSE <<first.campo>>
    BY <2>2, ReceivedFields
  <2> HIDE DEF first, second
  <2> QED
    BY <2>1, <2>3
<1>4. campos' = <<a, b>> \/ campos' = <<a>>
  BY <1>1, <1>3
<1>5. TextsTypeOK'
  <2>1. \A i \in DOMAIN campos' : campos'[i] \in {a, b}
    <3>1. CASE campos' = <<a, b>>
      BY <3>1
    <3>2. CASE campos' = <<a>>
      BY <3>2
    <3> QED
      BY <1>4, <3>1, <3>2
  <2>2. \A i \in DOMAIN campos' : Len(campos'[i]) < SHORT_MSG_SIZE
    BY <1>3, <2>1
  <2> QED
    BY <1>1, <2>2 DEF TextsInv, TextsTypeOK
<1>6. campos' = IF adjunto' THEN <<campos'[1], campos'[2]>> ELSE <<campos'[1]>>
  <2>1. CASE adjunto
    BY <1>1, <1>3, <2>1
  <2>2. CASE ~adjunto
    BY <1>1, <1>3, <2>2
  <2> QED
    BY <2>1, <2>2, <1>1
<1>7. ASSUME Plain' PROVE Whole'
  <2>1. Plain
    BY <1>1, <1>7 DEF Plain
  <2>2. /\ archivo \in Seq(Narrow \cup {"blank"}) /\ t \in Seq(Narrow \cup {"blank"})
        /\ adjunto => Len(t) < SHORT_MSG_SIZE - 1
    BY <2>1, PlainTexts DEF TextsInv
  <2>3. Len(t) < SHORT_MSG_SIZE /\ (adjunto => Len(archivo) < SHORT_MSG_SIZE)
    BY <1>2, <2>2, TextsAssumption DEF Holds, TooLong
  <2>4. campos' = campos
    <3>1. CASE adjunto
      BY <1>1, <1>2, <2>2, <2>3, <3>1, FieldsArrive DEF Holds
    <3>2. CASE ~adjunto
      BY <1>1, <1>2, <2>2, <2>3, <3>2, FieldsArrive DEF Holds
    <3> QED
      BY <3>1, <3>2
  <2>5. Holds(t)'
    BY <1>1, <1>2, <2>4 DEF Holds, TooLong
  <2> QED
    BY <1>1, <1>2, <2>5 DEF Whole, Holds
<1> QED
  BY <1>1, <1>5, <1>6, <1>7 DEF TextsInv

(* Where the message is goes on, and what it holds is as before.           *)
LEMMA MovedOn ==
  ASSUME TextsInv, paso \in {"server", "pushed"},
         paso' \in {"pushed", "printed", "dropped"},
         UNCHANGED <<adjunto, tecleado, archivo>>,
         operacion' \in {"", "SEND_MESSAGE", "SEND_MESSAGE_ATTACH"},
         \A i \in DOMAIN campos' : Len(campos'[i]) < SHORT_MSG_SIZE,
         Plain => campos' = campos /\ Named' /\ paso' # "dropped"
  PROVE  TextsInv'
<1>1. Plain' = Plain
  BY DEF Plain
<1>2. TextsTypeOK'
  BY DEF TextsInv, TextsTypeOK
<1>3. Plain => Whole'
  <2>1. ASSUME Plain PROVE Whole'
    <3>1. PICK t \in {tecleado, Normalize(tecleado)} : Holds(t)
      BY <2>1 DEF TextsInv, Whole
    <3>2. Holds(t)'
      BY <2>1, <3>1 DEF Holds, TooLong
    <3> QED
      BY <3>1, <3>2 DEF Whole
  <2> QED
    BY <2>1
<1> QED
  BY <1>1, <1>2, <1>3 DEF TextsInv

LEMMA AtOnceInv ==
  ASSUME TextsInv, AtOnce
  PROVE  TextsInv'
<1>1. /\ paso = "server" /\ paso' = "pushed" /\ UNCHANGED <<adjunto, tecleado, archivo, campos>>
      /\ operacion' = IF adjunto THEN "SEND_MESSAGE_ATTACH" ELSE "SEND_MESSAGE"
  BY DEF AtOnce, Reaches
<1>2. Named' /\ \A i \in DOMAIN campos' : Len(campos'[i]) < SHORT_MSG_SIZE
  BY <1>1 DEF Named, TextsInv, TextsTypeOK
<1> QED
  BY <1>1, <1>2, MovedOn

LEMMA FromMailboxInv ==
  ASSUME TextsInv, FromMailbox
  PROVE  TextsInv'
<1> DEFINE has_attach == adjunto /\ campos[2] # <<>>
<1>1. /\ paso = "server" /\ paso' = "pushed" /\ UNCHANGED <<adjunto, tecleado, archivo>>
      /\ operacion' = IF has_attach THEN "SEND_MESSAGE_ATTACH" ELSE "SEND_MESSAGE"
      /\ campos' = IF has_attach THEN campos ELSE <<campos[1]>>
  BY DEF FromMailbox, Reaches
<1>2. \A i \in DOMAIN campos' : Len(campos'[i]) < SHORT_MSG_SIZE
  <2>1. \A i \in DOMAIN campos : Len(campos[i]) < SHORT_MSG_SIZE
    BY <1>1 DEF TextsInv, TextsTypeOK
  <2>2. 1 \in DOMAIN campos
    BY <1>1 DEF TextsInv
  <2>3. CASE has_attach
    BY <1>1, <2>1, <2>3
  <2>4. CASE ~has_attach
    <3>1. campos' = <<campos[1]>>
      BY <1>1, <2>4
    <3> QED
      BY <2>1, <2>2, <3>1
  <2> QED
    BY <2>3, <2>4
<1>3. ASSUME Plain PROVE campos' = campos /\ Named'
  <2>1. PICK t \in {tecleado, Normalize(tecleado)} : Holds(t)
    BY <1>1, <1>3 DEF TextsInv, Whole
  <2>2. has_attach <=> adjunto
    BY <1>1, <2>1, TextsAssumption DEF Holds, TextsInv, TextsTypeOK
  <2>3. ~adjunto => campos = <<campos[1]>>
    BY <1>1 DEF TextsInv
  <2> QED
    BY <1>1, <2>2, <2>3 DEF Named, TextsInv, TextsTypeOK
<1> QED
  BY <1>1, <1>2, <1>3, MovedOn

(* What decides between printing and dropping: a plain message decodes,    *)
(* and no field of one with a file is empty.                               *)
LEMMA PlainReads ==
  ASSUME TextsInv, paso = "pushed", Plain
  PROVE  \A i \in DOMAIN campos :
           Decodes(campos[i]) /\ (operacion = "SEND_MESSAGE_ATTACH" => campos[i] # <<>>)
<1>1. PICK t \in {tecleado, Normalize(tecleado)} : Holds(t)
  BY DEF TextsInv, Whole
<1>2. /\ archivo \in Seq(Narrow \cup {"blank"}) /\ t \in Seq(Narrow \cup {"blank"})
      /\ adjunto => t # <<>>
  BY PlainTexts DEF TextsInv
<1>3. Decodes(t) /\ Decodes(archivo) /\ archivo # <<>>
  BY <1>2, OneByteText, TextsAssumption DEF TextsInv, TextsTypeOK
<1>4. CASE adjunto
  <2>1. campos = <<t, archivo>>
    BY <1>1, <1>4 DEF Holds
  <2>2. \A i \in DOMAIN campos : campos[i] \in {t, archivo}
    BY <2>1
  <2> QED
    BY <1>2, <1>3, <1>4, <2>2
<1>5. CASE ~adjunto
  <2>1. campos = <<t>> /\ operacion # "SEND_MESSAGE_ATTACH"
    BY <1>1, <1>5 DEF Holds, TextsInv, Named
  <2>2. \A i \in DOMAIN campos : campos[i] = t
    BY <2>1
  <2> QED
    BY <1>3, <2>1, <2>2
<1> QED
  BY <1>4, <1>5

LEMMA PrintsInv ==
  ASSUME TextsInv, Prints \/ Dropped
  PROVE  TextsInv'
<1>1. /\ paso = "pushed" /\ paso' \in {"printed", "dropped"}
      /\ UNCHANGED <<adjunto, tecleado, archivo, operacion, campos>>
  BY DEF Prints, Dropped, Reaches
<1>2. Plain => paso' # "dropped"
  BY <1>1, PlainReads DEF Prints, Dropped, Reaches
<1>3. \A i \in DOMAIN campos' : Len(campos'[i]) < SHORT_MSG_SIZE
  BY <1>1 DEF TextsInv, TextsTypeOK
<1>4. Plain => Named'
  BY <1>1 DEF TextsInv, Named
<1>5. operacion' \in {"", "SEND_MESSAGE", "SEND_MESSAGE_ATTACH"}
  BY <1>1 DEF TextsInv, TextsTypeOK
<1>6. Plain => campos' = campos /\ Named' /\ paso' # "dropped"
  BY <1>1, <1>2, <1>4
<1> QED
  BY <1>1, <1>3, <1>5, <1>6, MovedOn

LEMMA TextsNextInv == TextsInv /\ [TextsNext]_textVars => TextsInv'
<1>1. ASSUME TextsInv, UNCHANGED textVars PROVE TextsInv'
  BY <1>1 DEF textVars, TextsInv, TextsTypeOK, Whole, Holds, TooLong, Named, Plain
<1>2. ASSUME TextsInv, TextsNext PROVE TextsInv'
  BY <1>2, SentInv, RefusedInv, TratarInv, AtOnceInv, FromMailboxInv, PrintsInv DEF TextsNext
<1> QED
  BY <1>1, <1>2

(* The alphabet, the texts and the size of the buffers may be any: the     *)
(* program is at one of its places and no field overflows its buffer.      *)
THEOREM TextsTypeCorrect == TextsSpec => []TextsTypeOK
<1>1. TextsInv => TextsTypeOK
  BY DEF TextsInv
<1> QED
  BY <1>1, TextsInitInv, TextsNextInv, PTL DEF TextsSpec

LEMMA SameWordsReflexive ==
  ASSUME NEW C, NEW t \in Seq(C)
  PROVE  SameWords(t, t)
<1>1. Letters(t) \in SUBSET (1..Len(t)) /\ Len(t) \in Nat
  BY LettersOf
<1>2. \A i, j \in Letters(t) : Rank(Letters(t), i) = Rank(Letters(t), j) => i = j
  <2> DEFINE L == Letters(t)
  <2> HIDE DEF L
  <2>1. \A i \in L : Nth(L, Rank(L, i)) = i
    BY <1>1, NthRank DEF L
  <2> QED
    BY <2>1 DEF L
<1> QED
  BY <1>2 DEF SameWords

(* A plain message is printed by either way, with the words that were      *)
(* typed and the name of its file.                                         *)
THEOREM PlainMessagesArePrinted == TextsSpec => []PlainIsPrinted
<1>1. TextsInv => PlainIsPrinted
  <2> SUFFICES ASSUME TextsInv, paso = "printed", Plain
               PROVE  /\ SameWords(campos[1], tecleado)
                      /\ adjunto => operacion = "SEND_MESSAGE_ATTACH" /\ campos[2] = archivo
    BY DEF TextsInv, PlainIsPrinted
  <2>1. PICK t \in {tecleado, Normalize(tecleado)} : Holds(t)
    BY DEF TextsInv, Whole
  <2>2. campos[1] = t /\ (adjunto => campos[2] = archivo)
    BY <2>1 DEF Holds
  <2>3. SameWords(t, tecleado)
    <3>1. tecleado \in Seq(Characters)
      BY TextsAssumption DEF TextsInv, TextsTypeOK
    <3> QED
      BY <3>1, SameWordsReflexive, NormalizeKeepsWords
  <2> QED
    BY <2>2, <2>3 DEF TextsInv, Named
<1> QED
  BY <1>1, TextsInitInv, TextsNextInv, PTL DEF TextsSpec

=============================================================================
