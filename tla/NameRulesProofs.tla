-------------------------- MODULE NameRulesProofs ---------------------------
(* What the filter of NameRules keeps, and which changes of a name the fold  *)
(* of look-alikes does not see, for names of any length. The filter is given *)
(* by ranks, so all of this is about the sizes of finite sets.               *)
EXTENDS NameRules, Integers, FiniteSetTheorems, SequenceTheorems, TLAPS

-----------------------------------------------------------------------------
(* Ranks *)

(* The positions that are kept, all or those up to one, are finitely many.   *)
LEMMA KeptFinite ==
    ASSUME NEW S, NEW s \in Seq(S), NEW drop
    PROVE  /\ Kept(s, drop) \subseteq 1 .. Len(s)
           /\ IsFiniteSet(Kept(s, drop))
           /\ Cardinality(Kept(s, drop)) \in Nat
           /\ \A i : /\ IsFiniteSet({k \in Kept(s, drop) : k <= i})
                     /\ Rank(s, drop, i) \in Nat
                     /\ Rank(s, drop, i) <= Cardinality(Kept(s, drop))
<1>1. Len(s) \in Nat /\ DOMAIN s = 1 .. Len(s) BY LenProperties
<1>2. Kept(s, drop) \subseteq 1 .. Len(s) BY <1>1 DEF Kept
<1>3. IsFiniteSet(1 .. Len(s)) BY <1>1, FS_Interval
<1>4. IsFiniteSet(Kept(s, drop)) BY <1>2, <1>3, FS_Subset
<1>5. ASSUME NEW i
      PROVE  /\ IsFiniteSet({k \in Kept(s, drop) : k <= i})
             /\ Cardinality({k \in Kept(s, drop) : k <= i}) <= Cardinality(Kept(s, drop))
  <2> DEFINE T == {k \in Kept(s, drop) : k <= i}
  <2>1. T \in SUBSET Kept(s, drop) OBVIOUS
  <2> QED BY <2>1, <1>4, FS_Subset
<1> QED BY <1>2, <1>4, <1>5, FS_CardinalityType DEF Rank

(* A later element has a higher rank.                                        *)
LEMMA RankIncreases ==
    ASSUME NEW S, NEW s \in Seq(S), NEW drop,
           NEW i \in Kept(s, drop), NEW k \in Kept(s, drop), i < k
    PROVE  Rank(s, drop, i) < Rank(s, drop, k)
<1> DEFINE A == {m \in Kept(s, drop) : m <= i}
           B == {m \in Kept(s, drop) : m <= k}
<1>1. i \in Int /\ k \in Int /\ Kept(s, drop) \subseteq Int BY KeptFinite
<1>2. A \in SUBSET B /\ k \in B /\ k \notin A BY <1>1
<1>3. IsFiniteSet(B) /\ Cardinality(A) \in Nat /\ Cardinality(B) \in Nat
  BY KeptFinite DEF Rank
<1>4. Cardinality(A) <= Cardinality(B) /\ (Cardinality(B) = Cardinality(A) => B = A)
  <2> HIDE DEF A, B
  <2> QED BY <1>2, <1>3, FS_Subset
<1>5. Cardinality(A) < Cardinality(B)
  <2> HIDE DEF A, B
  <2> QED BY <1>2, <1>3, <1>4
<1> QED BY <1>5 DEF Rank

(* Ranks count the elements that are kept from 1 up.                         *)
LEMMA RankRange ==
    ASSUME NEW S, NEW s \in Seq(S), NEW drop, NEW i \in Kept(s, drop)
    PROVE  Rank(s, drop, i) \in 1 .. Cardinality(Kept(s, drop))
<1> DEFINE A == {m \in Kept(s, drop) : m <= i}
<1>1. i \in Int BY KeptFinite
<1>2. i \in A BY <1>1
<1>3. IsFiniteSet(A) BY KeptFinite
<1>4. Cardinality(A) # 0
  <2> HIDE DEF A
  <2> QED BY <1>2, <1>3, FS_EmptySet
<1>5. Rank(s, drop, i) # 0 BY <1>4 DEF Rank
<1>6. /\ Rank(s, drop, i) \in Nat /\ Cardinality(Kept(s, drop)) \in Nat
      /\ Rank(s, drop, i) <= Cardinality(Kept(s, drop))
  BY KeptFinite
<1> QED BY <1>5, <1>6

(* Every number in that range is the rank of one of them: an injection       *)
(* between finite sets of one size is onto.                                  *)
LEMMA RankOnto ==
    ASSUME NEW S, NEW s \in Seq(S), NEW drop, NEW j \in 1 .. Cardinality(Kept(s, drop))
    PROVE  \E i \in Kept(s, drop) : Rank(s, drop, i) = j
<1> DEFINE K == Kept(s, drop)
           R == 1 .. Cardinality(K)
           rank == [i \in K |-> Rank(s, drop, i)]
<1>1. K \subseteq Int /\ IsFiniteSet(K) /\ Cardinality(K) \in Nat BY KeptFinite
<1>2. \A i \in K : Rank(s, drop, i) \in R BY RankRange
<1>3. \A i, k \in K : i # k => Rank(s, drop, i) # Rank(s, drop, k)
  <2> SUFFICES ASSUME NEW i \in K, NEW k \in K, i < k
               PROVE  Rank(s, drop, i) # Rank(s, drop, k)
    BY <1>1
  <2> QED BY RankIncreases, RankRange
<1>4. IsFiniteSet(R) /\ Cardinality(R) = Cardinality(K) BY <1>1, FS_Interval
<1>5. rank \in Surjection(K, R)
  <2>1. rank \in Injection(K, R) BY <1>2, <1>3 DEF Injection, IsInjective
  <2> HIDE DEF rank, R, K
  <2> QED BY <2>1, <1>4, FS_Injection
<1> QED BY <1>5 DEF Surjection

(* What is kept is found again at its rank.                                  *)
LEMMA WithoutAt ==
    ASSUME NEW S, NEW s \in Seq(S), NEW drop, NEW i \in Kept(s, drop)
    PROVE  Without(s, drop)[Rank(s, drop, i)] = s[i]
<1>1. \A k \in Kept(s, drop) : Rank(s, drop, k) = Rank(s, drop, i) => k = i
  <2> SUFFICES ASSUME NEW k \in Kept(s, drop), Rank(s, drop, k) = Rank(s, drop, i), k # i
               PROVE  FALSE
    OBVIOUS
  <2>1. k < i \/ i < k BY KeptFinite
  <2>2. Rank(s, drop, k) \in Nat /\ Rank(s, drop, i) \in Nat BY KeptFinite
  <2> QED BY <2>1, <2>2, RankIncreases
<1>2. (CHOOSE k \in Kept(s, drop) : Rank(s, drop, k) = Rank(s, drop, i)) = i BY <1>1
<1> QED BY <1>2, RankRange DEF Without

-----------------------------------------------------------------------------
(* Changes that the fold does not see *)

(* A map of the kept elements that respects their order keeps their ranks.   *)
LEMMA RankMoved ==
    ASSUME NEW S, NEW s \in Seq(S), NEW t \in Seq(S), NEW drop,
           NEW phi \in Bijection(Kept(s, drop), Kept(t, drop)),
           \A i, k \in Kept(s, drop) : i <= k <=> phi[i] <= phi[k]
    PROVE  /\ Cardinality(Kept(t, drop)) = Cardinality(Kept(s, drop))
           /\ \A i \in Kept(s, drop) : /\ phi[i] \in Kept(t, drop)
                                       /\ Rank(t, drop, phi[i]) = Rank(s, drop, i)
<1>1. IsFiniteSet(Kept(s, drop)) BY KeptFinite
<1>2. ExistsBijection(Kept(s, drop), Kept(t, drop)) BY DEF ExistsBijection
<1>3. Cardinality(Kept(t, drop)) = Cardinality(Kept(s, drop))
  BY <1>1, <1>2, FS_Bijection
<1>4. /\ phi \in [Kept(s, drop) -> Kept(t, drop)]
      /\ \A i, k \in Kept(s, drop) : phi[i] = phi[k] => i = k
      /\ \A m \in Kept(t, drop) : \E i \in Kept(s, drop) : phi[i] = m
  BY DEF Bijection, Injection, IsInjective, Surjection
<1>5. ASSUME NEW i \in Kept(s, drop)
      PROVE  Rank(t, drop, phi[i]) = Rank(s, drop, i)
  <2> DEFINE A == {k \in Kept(s, drop) : k <= i}
             B == {k \in Kept(t, drop) : k <= phi[i]}
             g == [k \in A |-> phi[k]]
  <2>1. IsFiniteSet(A)
    <3>1. A \in SUBSET Kept(s, drop) OBVIOUS
    <3> QED BY <3>1, <1>1, FS_Subset
  <2>2. g \in [A -> B] BY <1>4
  <2>3. \A k, m \in A : g[k] = g[m] => k = m BY <1>4
  <2>4. \A m \in B : \E k \in A : g[k] = m BY <1>4
  <2>5. Cardinality(B) = Cardinality(A)
    <3> HIDE DEF A, B, g
    <3>1. g \in Bijection(A, B)
      BY <2>2, <2>3, <2>4 DEF Bijection, Injection, IsInjective, Surjection
    <3>2. ExistsBijection(A, B) BY <3>1 DEF ExistsBijection
    <3> QED BY <2>1, <3>2, FS_Bijection
  <2> QED BY <2>5 DEF Rank
<1> QED BY <1>3, <1>4, <1>5

(* If it also takes each letter to the same letter, the fold is the same.    *)
LEMMA SameFold ==
    ASSUME NEW S, NEW s \in Seq(S), NEW t \in Seq(S),
           NEW phi \in Bijection(Kept(s, Separators), Kept(t, Separators)),
           \A i, k \in Kept(s, Separators) : i <= k <=> phi[i] <= phi[k],
           \A i \in Kept(s, Separators) : Letter(t[phi[i]]) = Letter(s[i])
    PROVE  FoldLookalike(t) = FoldLookalike(s)
<1> DEFINE a == Without(s, Separators)
           b == Without(t, Separators)
           n == Cardinality(Kept(s, Separators))
<1>1. DOMAIN a = 1 .. n BY DEF Without
<1>2. DOMAIN b = 1 .. n
  <2>1. Cardinality(Kept(t, Separators)) = n BY RankMoved
  <2> QED BY <2>1 DEF Without
<1>3. ASSUME NEW j \in 1 .. n
      PROVE  Letter(b[j]) = Letter(a[j])
  <2>1. PICK i \in Kept(s, Separators) : Rank(s, Separators, i) = j BY RankOnto
  <2>2. a[j] = s[i] BY <2>1, WithoutAt
  <2>3. phi[i] \in Kept(t, Separators) /\ Rank(t, Separators, phi[i]) = j
    BY <2>1, RankMoved
  <2>4. b[j] = t[phi[i]] BY <2>3, WithoutAt
  <2> QED BY <2>2, <2>4
<1> HIDE DEF a, b, n
<1>4. [j \in DOMAIN b |-> Letter(b[j])] = [j \in DOMAIN a |-> Letter(a[j])]
  BY <1>1, <1>2, <1>3
<1> QED BY <1>4 DEF FoldLookalike, a, b

(* A digit and its twin are letters of a name, and one letter to the fold.   *)
LEMMA TwinLetters ==
    ASSUME NEW d \in DOMAIN Twins
    PROVE  /\ d \notin Separators /\ Twins[d] \notin Separators
           /\ Letter(d) = Twins[d] /\ Letter(Twins[d]) = Twins[d]
<1>1. DOMAIN Twins = {"0", "1", "3", "4", "5", "7", "8", "9"} BY DEF Twins
<1>2. Twins[d] \in {"o", "i", "e", "a", "s", "t", "b", "g"} BY <1>1 DEF Twins
<1>3. Twins[d] \notin DOMAIN Twins BY <1>1, <1>2
<1> QED BY <1>1, <1>2, <1>3 DEF Letter, Separators

(* A letter may be written as its twin.                                      *)
LEMMA SwapUnseen ==
    ASSUME NEW S, NEW s \in Seq(S), NEW i \in DOMAIN s, NEW c \in S,
           s[i] \notin Separators, c \notin Separators, Letter(c) = Letter(s[i])
    PROVE  /\ [s EXCEPT ![i] = c] \in Seq(S)
           /\ FoldLookalike([s EXCEPT ![i] = c]) = FoldLookalike(s)
<1> DEFINE t == [s EXCEPT ![i] = c]
           phi == [k \in Kept(s, Separators) |-> k]
<1>1. t \in Seq(S) /\ DOMAIN t = DOMAIN s
  BY ExceptSeq, LenProperties
<1>2. /\ t[i] = c
      /\ \A k \in DOMAIN s : k # i => t[k] = s[k]
  OBVIOUS
<1>3. Kept(t, Separators) = Kept(s, Separators)
  BY <1>1, <1>2 DEF Kept
<1>4. phi \in Bijection(Kept(s, Separators), Kept(t, Separators))
  BY <1>3 DEF Bijection, Injection, IsInjective, Surjection
<1>5. \A k \in Kept(s, Separators) : Letter(t[phi[k]]) = Letter(s[k])
  BY <1>2 DEF Kept
<1>6. \A k, m \in Kept(s, Separators) : k <= m <=> phi[k] <= phi[m]
  OBVIOUS
<1> HIDE DEF t, phi
<1>7. FoldLookalike(t) = FoldLookalike(s)
  BY <1>1, <1>4, <1>5, <1>6, SameFold
<1> QED BY <1>1, <1>7 DEF t

(* A separator may be left out.                                              *)
LEMMA GapUnseen ==
    ASSUME NEW S, NEW s \in Seq(S), NEW t \in Seq(S),
           NEW p \in 1 .. Len(s), s[p] \in Separators, Len(s) = Len(t) + 1,
           \A k \in 1 .. Len(t) : t[k] = s[IF k < p THEN k ELSE k + 1]
    PROVE  FoldLookalike(s) = FoldLookalike(t)
<1> DEFINE past(k) == IF k < p THEN k ELSE k + 1
           phi == [k \in Kept(t, Separators) |-> past(k)]
<1>1. /\ Len(s) \in Nat /\ DOMAIN s = 1 .. Len(s)
      /\ Len(t) \in Nat /\ DOMAIN t = 1 .. Len(t)
  BY LenProperties
<1>2. \A k \in Kept(t, Separators) : k \in 1 .. Len(t) /\ t[k] \notin Separators
  BY <1>1 DEF Kept
<1>3. \A k \in Kept(t, Separators) : past(k) \in Kept(s, Separators)
  BY <1>1, <1>2 DEF Kept
<1>4. \A k, m \in Kept(t, Separators) : k <= m <=> past(k) <= past(m)
  BY <1>1, <1>2
<1>5. \A k, m \in Kept(t, Separators) : past(k) = past(m) => k = m
  BY <1>1, <1>2
<1>6. ASSUME NEW m \in Kept(s, Separators)
      PROVE  \E k \in Kept(t, Separators) : past(k) = m
  <2>1. m \in 1 .. Len(s) /\ s[m] \notin Separators /\ m # p
    BY <1>1 DEF Kept
  <2>2. CASE m < p
    <3>1. m \in 1 .. Len(t) /\ past(m) = m BY <1>1, <2>1, <2>2
    <3>2. m \in Kept(t, Separators) BY <1>1, <2>1, <3>1 DEF Kept
    <3> QED BY <3>1, <3>2
  <2>3. CASE p < m
    <3>1. m - 1 \in 1 .. Len(t) /\ past(m - 1) = m BY <1>1, <2>1, <2>3
    <3>2. m - 1 \in Kept(t, Separators) BY <1>1, <2>1, <3>1 DEF Kept
    <3> QED BY <3>1, <3>2
  <2> QED BY <1>1, <2>1, <2>2, <2>3
<1>7. phi \in Bijection(Kept(t, Separators), Kept(s, Separators))
  <2> HIDE DEF past
  <2> QED BY <1>3, <1>5, <1>6 DEF Bijection, Injection, IsInjective, Surjection
<1>8. \A k \in Kept(t, Separators) : Letter(s[phi[k]]) = Letter(t[k])
  BY <1>2
<1>9. \A k, m \in Kept(t, Separators) : k <= m <=> phi[k] <= phi[m]
  BY <1>4
<1> HIDE DEF phi
<1> QED BY <1>7, <1>8, <1>9, SameFold
-----------------------------------------------------------------------------
(* Labels of a domain, and names without a letter *)

(* What is left is as long as the elements kept are many.                    *)
LEMMA WithoutLength ==
    ASSUME NEW S, NEW s \in Seq(S), NEW drop
    PROVE  Len(Without(s, drop)) = Cardinality(Kept(s, drop))
<1> DEFINE n == Cardinality(Kept(s, drop))
           w == Without(s, drop)
<1>1. n \in Nat BY KeptFinite
<1>2. DOMAIN w = 1 .. n BY DEF Without
<1>3. w = [j \in 1 .. n |-> w[j]] BY <1>2 DEF Without
<1>4. \A j \in 1 .. n : w[j] \in S
  <2> SUFFICES ASSUME NEW j \in 1 .. n PROVE w[j] \in S
    OBVIOUS
  <2>1. PICK i \in Kept(s, drop) : Rank(s, drop, i) = j BY RankOnto
  <2>2. i \in 1 .. Len(s) BY KeptFinite
  <2>3. w[j] = s[i] BY <2>1, WithoutAt
  <2> QED BY <2>2, <2>3, ElementOfSeq
<1> HIDE DEF n, w
<1>5. w \in Seq(S) BY <1>1, <1>3, <1>4, IsASeq
<1>6. Len(w) \in Nat /\ DOMAIN w = 1 .. Len(w) BY <1>5, LenProperties
<1>7. Len(w) = n BY <1>1, <1>2, <1>6
<1> QED BY <1>7 DEF n, w

(* A label of the domain is reserved unless it is empty or no other follows  *)
(* it.                                                                       *)
LEMMA LabelKept ==
    ASSUME NEW S, NEW domain \in Seq(S), NEW i \in DOMAIN domain,
           NEW j \in DOMAIN domain, i < j, domain[i] # <<>>, domain[j] # <<>>
    PROVE  domain[i] \in KeptLabels(domain)
<1> DEFINE drop == {<<>>}
           labels == Without(domain, drop)
           q == Rank(domain, drop, i)
<1>1. i \in Kept(domain, drop) /\ j \in Kept(domain, drop) BY DEF Kept
<1>2. q < Rank(domain, drop, j) BY <1>1, RankIncreases
<1>3. /\ q \in 1 .. Len(labels)
      /\ Rank(domain, drop, j) \in 1 .. Len(labels)
      /\ Len(labels) \in Nat
  BY <1>1, RankRange, WithoutLength, KeptFinite
<1>4. labels[q] = domain[i] BY <1>1, WithoutAt
<1> HIDE DEF q
<1>5. Len(labels) > 1 /\ q \in 1 .. Len(labels) - 1 BY <1>2, <1>3
<1> HIDE DEF labels
<1>6. domain[i] \in {labels[m] : m \in 1 .. (IF Len(labels) > 1 THEN Len(labels) - 1
                                               ELSE Len(labels))}
  BY <1>4, <1>5
<1> QED BY <1>6 DEF KeptLabels, labels

(* A name with a letter is not folded to what the empty name is folded to.   *)
LEMMA LetterLeft ==
    ASSUME NEW S, NEW s \in Seq(S), NEW i \in DOMAIN s, s[i] \notin Separators
    PROVE  FoldLookalike(s) # FoldLookalike(<<>>)
<1>1. i \in Kept(s, Separators) BY DEF Kept
<1>2. /\ Cardinality(Kept(s, Separators)) \in Nat
      /\ 1 \in 1 .. Cardinality(Kept(s, Separators))
  BY <1>1, RankRange, KeptFinite
<1>3. DOMAIN FoldLookalike(s) = 1 .. Cardinality(Kept(s, Separators))
  BY DEF FoldLookalike, Without
<1>4. Kept(<<>>, Separators) = {} BY DEF Kept
<1>5. DOMAIN FoldLookalike(<<>>) = 1 .. 0
  BY <1>4, FS_EmptySet DEF FoldLookalike, Without
<1> QED BY <1>2, <1>3, <1>5

(* The fold of a reserved name is the fold of a term.                        *)
LEMMA ReservedByFold ==
    ASSUME NEW extra, NEW s
    PROVE  IsReserved(s, extra)
             <=> \E r \in Reserved \cup extra : FoldLookalike(r) = FoldLookalike(s)
BY DEF IsReserved
=============================================================================
