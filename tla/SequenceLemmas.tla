--------------------------- MODULE SequenceLemmas ---------------------------
(***************************************************************************)
(* What deleting entries from a sequence, cutting, joining and reversing   *)
(* it preserve, for the proofs about the modules that do so.               *)
(***************************************************************************)
EXTENDS Subsequence, SequencesExt, SequenceTheorems, FiniteSetTheorems, TLAPS

-----------------------------------------------------------------------------
(* Deletion *)

\* Ranks grow with the places: from 1 to the number of places.
LEMMA RankProperties ==
    ASSUME NEW P \in SUBSET Int, IsFiniteSet(P)
    PROVE  /\ \A j \in P : Rank(P, j) \in 1 .. Cardinality(P)
           /\ \A i, j \in P : i < j => Rank(P, i) < Rank(P, j)
  <1> DEFINE upTo(j) == {k \in P : k <= j}
  <1>0. \A k \in P : k \in Int
    OBVIOUS
  <1>1. \A j \in P : /\ IsFiniteSet(upTo(j)) /\ Cardinality(upTo(j)) \in Nat
                     /\ Cardinality(upTo(j)) <= Cardinality(P)
    <2> TAKE j \in P
    <2>1. upTo(j) \in SUBSET P
      OBVIOUS
    <2> HIDE DEF upTo
    <2> QED
      BY <2>1, FS_Subset, FS_CardinalityType
  <1>2. ASSUME NEW j \in P
        PROVE  Rank(P, j) \in 1 .. Cardinality(P)
    <2>1. upTo(j) # {}
      OBVIOUS
    <2>2. Cardinality(upTo(j)) # 0
      BY <1>1, <2>1, FS_EmptySet
    <2>3. Cardinality(P) \in Nat
      BY FS_CardinalityType
    <2>4. Rank(P, j) = Cardinality(upTo(j))
      BY DEF Rank
    <2> QED
      BY <1>1, <2>2, <2>3, <2>4
  <1>3. ASSUME NEW i \in P, NEW j \in P, i < j
        PROVE  Rank(P, i) < Rank(P, j)
    <2>1. upTo(i) \in SUBSET upTo(j) /\ upTo(i) # upTo(j)
      <3>1. ASSUME NEW k \in upTo(i) PROVE k \in upTo(j)
        BY <1>0, <1>3
      <3>2. j \in upTo(j) /\ j \notin upTo(i)
        BY <1>0, <1>3
      <3> QED
        BY <3>1, <3>2
    <2>2. /\ Cardinality(upTo(i)) <= Cardinality(upTo(j))
          /\ Cardinality(upTo(i)) # Cardinality(upTo(j))
      <3> HIDE DEF upTo
      <3> QED
        BY <1>1, <2>1, FS_Subset
    <2>3. Rank(P, i) = Cardinality(upTo(i)) /\ Rank(P, j) = Cardinality(upTo(j))
      BY DEF Rank
    <2> QED
      BY <1>1, <2>2, <2>3
  <1> QED
    BY <1>2, <1>3

\* The places are numbered in their order, none left out.
LEMMA NthProperties ==
    ASSUME NEW P \in SUBSET Int, IsFiniteSet(P)
    PROVE  /\ \A n \in 1 .. Cardinality(P) : Nth(P, n) \in P
           /\ \A j \in P : Rank(P, j) \in 1 .. Cardinality(P) /\ Nth(P, Rank(P, j)) = j
           /\ \A m, n \in 1 .. Cardinality(P) : m < n <=> Nth(P, m) < Nth(P, n)
  <1> DEFINE r == [j \in P |-> Rank(P, j)]
             N == Cardinality(P)
  <1>0. \A k \in P : k \in Int
    OBVIOUS
  <1>1. N \in Nat /\ IsFiniteSet(1 .. N) /\ Cardinality(1 .. N) = N
    BY FS_CardinalityType, FS_Interval
  <1>2. r \in Injection(P, 1 .. N)
    <2>1. r \in [P -> 1 .. N]
      BY RankProperties
    <2>2. ASSUME NEW i \in P, NEW j \in P, r[i] = r[j]
          PROVE  i = j
      <3>1. r[i] = Rank(P, i) /\ r[j] = Rank(P, j)
        OBVIOUS
      <3>2. Rank(P, i) \in Int /\ Rank(P, j) \in Int
        BY RankProperties
      <3>3. ~(i < j) /\ ~(j < i)
        BY <2>2, <3>1, <3>2, RankProperties
      <3> QED
        BY <3>3
    <2> QED
      BY <2>1, <2>2 DEF Injection, IsInjective
  <1>3. r \in Surjection(P, 1 .. N)
    <2> HIDE DEF r, N
    <2>1. Cardinality(P) = Cardinality(1 .. N) <=> r \in Surjection(P, 1 .. N)
      BY <1>1, <1>2, FS_Injection
    <2> QED
      BY <1>1, <2>1 DEF N
  <1>4. ASSUME NEW n \in 1 .. N
        PROVE  Nth(P, n) \in P /\ Rank(P, Nth(P, n)) = n
    <2>1. \E j \in P : Rank(P, j) = n
      BY <1>3 DEF Surjection
    <2> QED
      BY <2>1 DEF Nth
  <1>5. ASSUME NEW j \in P
        PROVE  Rank(P, j) \in 1 .. N /\ Nth(P, Rank(P, j)) = j
    <2>1. Rank(P, j) \in 1 .. N
      BY RankProperties
    <2>2. Nth(P, Rank(P, j)) \in P /\ Rank(P, Nth(P, Rank(P, j))) = Rank(P, j)
      BY <1>4, <2>1
    <2> DEFINE k == Nth(P, Rank(P, j))
    <2>3. k \in P /\ Rank(P, k) = Rank(P, j)
      BY <2>2
    <2> HIDE DEF k
    <2>4. ~(k < j) /\ ~(j < k)
      BY <2>1, <2>3, RankProperties
    <2>5. k = j
      BY <1>0, <2>3, <2>4
    <2> QED
      BY <2>1, <2>5 DEF k
  <1>6. ASSUME NEW m \in 1 .. N, NEW n \in 1 .. N
        PROVE  m < n <=> Nth(P, m) < Nth(P, n)
    <2>1. /\ Nth(P, m) \in P /\ Rank(P, Nth(P, m)) = m
          /\ Nth(P, n) \in P /\ Rank(P, Nth(P, n)) = n
      BY <1>4
    <2>2. /\ Nth(P, m) < Nth(P, n) => m < n
          /\ Nth(P, n) < Nth(P, m) => n < m
      BY <2>1, RankProperties
    <2>3. Nth(P, m) \in Int /\ Nth(P, n) \in Int
      BY <2>1
    <2>4. Nth(P, m) = Nth(P, n) => m = n
      BY <2>1
    <2> QED
      BY <1>1, <2>2, <2>3, <2>4
  <1> QED
    BY <1>4, <1>5, <1>6

\* Deleting entries keeps the others, in their order.
LEMMA KeptAtProperties ==
    ASSUME NEW S, NEW s \in Seq(S), NEW P \in SUBSET DOMAIN s
    PROVE  /\ Cardinality(P) \in Nat /\ Cardinality(P) <= Len(s)
           /\ KeptAt(s, P) \in Seq(S) /\ Len(KeptAt(s, P)) = Cardinality(P)
           /\ DOMAIN KeptAt(s, P) = 1 .. Cardinality(P)
           /\ \A n \in 1 .. Cardinality(P) :
                Nth(P, n) \in P /\ KeptAt(s, P)[n] = s[Nth(P, n)]
           /\ \A j \in P : \E n \in 1 .. Cardinality(P) : Nth(P, n) = j
           /\ \A m, n \in 1 .. Cardinality(P) : m < n <=> Nth(P, m) < Nth(P, n)
  <1>1. Len(s) \in Nat /\ DOMAIN s = 1 .. Len(s)
    BY LenProperties
  <1>2. /\ P \in SUBSET Int /\ IsFiniteSet(P)
        /\ Cardinality(P) \in Nat /\ Cardinality(P) <= Len(s)
    <2>1. IsFiniteSet(1 .. Len(s)) /\ Cardinality(1 .. Len(s)) = Len(s)
      <3>1. \A m \in Nat : IsFiniteSet(1 .. m) /\ Cardinality(1 .. m) = m
        BY FS_Interval
      <3> QED
        BY <1>1, <3>1
    <2>2. P \in SUBSET (1 .. Len(s))
      BY <1>1
    <2>3. IsFiniteSet(P) /\ Cardinality(P) <= Len(s)
      BY <2>1, <2>2, FS_Subset
    <2> QED
      BY <1>1, <2>3, FS_CardinalityType
  <1>3. \A n \in 1 .. Cardinality(P) : Nth(P, n) \in P /\ s[Nth(P, n)] \in S
    <2> TAKE n \in 1 .. Cardinality(P)
    <2>1. Nth(P, n) \in P
      BY <1>2, NthProperties
    <2> QED
      BY <1>1, <2>1, ElementOfSeq
  <1>4. KeptAt(s, P) \in [1 .. Cardinality(P) -> S]
    BY <1>3 DEF KeptAt
  <1>5. KeptAt(s, P) \in Seq(S)
    BY <1>2, <1>4
  <1>6. /\ DOMAIN KeptAt(s, P) = 1 .. Cardinality(P)
        /\ \A n \in 1 .. Cardinality(P) : KeptAt(s, P)[n] = s[Nth(P, n)]
    BY DEF KeptAt
  <1>7. Len(KeptAt(s, P)) = Cardinality(P)
    BY <1>2, <1>5, <1>6, LenProperties
  <1>8. \A j \in P : \E n \in 1 .. Cardinality(P) : Nth(P, n) = j
    BY <1>2, NthProperties
  <1>9. \A m, n \in 1 .. Cardinality(P) : m < n <=> Nth(P, m) < Nth(P, n)
    BY <1>2, NthProperties
  <1> QED
    BY <1>2, <1>3, <1>5, <1>6, <1>7, <1>8, <1>9

\* Deleting one entry moves the later ones up.
LEMMA RemoveAtProperties ==
    ASSUME NEW S, NEW s \in Seq(S), NEW n \in 1 .. Len(s)
    PROVE  /\ RemoveAt(s, n) \in Seq(S)
           /\ Len(RemoveAt(s, n)) = Len(s) - 1
           /\ \A i \in 1 .. Len(s) - 1 :
                RemoveAt(s, n)[i] = IF i < n THEN s[i] ELSE s[i + 1]
  <1> DEFINE left  == SubSeq(s, 1, n - 1)
             right == SubSeq(s, n + 1, Len(s))
  <1>0. Len(s) \in Nat /\ \A i \in 1 .. Len(s) : s[i] \in S
    BY ElementOfSeq, LenProperties
  <1>1. /\ left \in Seq(S) /\ Len(left) = n - 1
        /\ \A i \in 1 .. n - 1 : left[i] = s[i]
    <2>1. \A i \in 1 .. n - 1 : s[i] \in S
      BY <1>0
    <2>2. /\ left \in Seq(S)
          /\ Len(left) = IF 1 <= n - 1 THEN n - 1 - 1 + 1 ELSE 0
          /\ \A i \in 1 .. n - 1 - 1 + 1 : left[i] = s[1 + i - 1]
      BY <2>1, SubSeqProperties
    <2> QED
      BY <2>2
  <1>2. /\ right \in Seq(S) /\ Len(right) = Len(s) - n
        /\ \A i \in 1 .. Len(s) - n : right[i] = s[n + i]
    <2>1. \A i \in n + 1 .. Len(s) : s[i] \in S
      BY <1>0
    <2>2. /\ right \in Seq(S)
          /\ Len(right) = IF n + 1 <= Len(s) THEN Len(s) - (n + 1) + 1 ELSE 0
          /\ \A i \in 1 .. Len(s) - (n + 1) + 1 : right[i] = s[n + 1 + i - 1]
      BY <1>0, <2>1, SubSeqProperties
    <2> QED
      BY <1>0, <2>2
  <1>3. RemoveAt(s, n) = left \o right
    BY DEF RemoveAt
  <1> HIDE DEF left, right
  <1>4. /\ left \o right \in Seq(S)
        /\ Len(left \o right) = Len(left) + Len(right)
        /\ \A i \in 1 .. Len(left) + Len(right) :
             (left \o right)[i] = IF i <= Len(left) THEN left[i] ELSE right[i - Len(left)]
    BY <1>1, <1>2, ConcatProperties
  <1>5. ASSUME NEW i \in 1 .. Len(s) - 1
        PROVE  (left \o right)[i] = IF i < n THEN s[i] ELSE s[i + 1]
    <2>1. CASE i < n
      BY <1>0, <1>1, <1>2, <1>4, <2>1
    <2>2. CASE ~(i < n)
      <3>1. (left \o right)[i] = right[i - (n - 1)]
        BY <1>0, <1>1, <1>2, <1>4, <2>2
      <3>2. right[i - (n - 1)] = s[n + (i - (n - 1))]
        BY <1>0, <1>2, <2>2
      <3> QED
        BY <1>0, <2>2, <3>1, <3>2
    <2> QED
      BY <2>1, <2>2
  <1> QED
    BY <1>0, <1>1, <1>2, <1>3, <1>4, <1>5

\* A sequence is the function from its places to its entries.
LEMMA SequenceIsFunction ==
  ASSUME NEW S, NEW s \in Seq(S)
  PROVE  s = [n \in 1 .. Len(s) |-> s[n]]
  OBVIOUS

\* An entry put at the end of a sequence is left out, or comes last.
LEMMA KeptAtAppend ==
  ASSUME NEW S, NEW s \in Seq(S), NEW x \in S, NEW P \in SUBSET DOMAIN s
  PROVE  /\ KeptAt(Append(s, x), P) = KeptAt(s, P)
         /\ KeptAt(Append(s, x), P \cup {Len(s) + 1}) = Append(KeptAt(s, P), x)
  <1> DEFINE m == Len(s) + 1
             Q == P \cup {m}
             N == Cardinality(P)
             t == Append(s, x)
  <1>1. /\ t \in Seq(S) /\ Len(t) = m /\ t[m] = x /\ DOMAIN t = 1 .. m /\ m \in Nat
        /\ \A i \in 1 .. Len(s) : t[i] = s[i]
        /\ DOMAIN s = 1 .. Len(s) /\ Len(s) \in Nat /\ m = Len(s) + 1
    BY AppendProperties
  <1>2. /\ N \in Nat /\ \A n \in 1 .. N : Nth(P, n) \in P
        /\ KeptAt(s, P) \in Seq(S) /\ Len(KeptAt(s, P)) = N
        /\ \A n \in 1 .. N : KeptAt(s, P)[n] = s[Nth(P, n)]
    BY KeptAtProperties
  <1>3. /\ P \in SUBSET Int /\ IsFiniteSet(P) /\ m \notin P /\ \A j \in P : j < m
        /\ Q \in SUBSET Int /\ IsFiniteSet(Q) /\ Cardinality(Q) = N + 1
    <2>1. \A j \in P : j \in Int /\ j < m
      BY <1>1
    <2>2. IsFiniteSet(P)
      <3>1. IsFiniteSet(1 .. Len(s))
        BY <1>1, FS_Interval
      <3> QED
        BY <1>1, <3>1, FS_Subset
    <2>3. m \notin P /\ m \in Int
      BY <1>1, <2>1
    <2> HIDE DEF m
    <2> QED
      BY <2>1, <2>2, <2>3, FS_AddElement
  <1>4. ASSUME NEW n \in 1 .. N
        PROVE  Nth(Q, n) = Nth(P, n)
    <2> DEFINE j == Nth(P, n)
    <2>1. j \in P /\ Rank(P, j) = n
      <3>1. /\ j \in P /\ Rank(P, j) \in 1 .. N /\ Nth(P, Rank(P, j)) = j
            /\ \A a, b \in 1 .. N : a < b <=> Nth(P, a) < Nth(P, b)
        BY <1>3, NthProperties
      <3>2. j \in Int
        BY <1>3, <3>1
      <3>3. ~(Rank(P, j) < n) /\ ~(n < Rank(P, j))
        BY <1>4, <3>1, <3>2
      <3> QED
        BY <3>1, <3>3
    <2> HIDE DEF j, m, N
    <2>2. {k \in Q : k <= j} = {k \in P : k <= j}
      BY <1>3, <2>1
    <2>3. Rank(Q, j) = n
      BY <2>1, <2>2 DEF Rank
    <2>4. Nth(Q, Rank(Q, j)) = j
      <3> HIDE DEF Q
      <3>1. j \in Q
        BY <2>1 DEF Q
      <3> QED
        BY <1>3, <3>1, NthProperties
    <2> QED
      BY <2>3, <2>4 DEF j
  <1>5. Nth(Q, N + 1) = m
    <2>1. {k \in Q : k <= m} = Q
      BY <1>1, <1>3
    <2>2. Rank(Q, m) = N + 1
      BY <1>3, <2>1 DEF Rank
    <2>3. Nth(Q, Rank(Q, m)) = m
      <3>1. m \in Q
        OBVIOUS
      <3> HIDE DEF Q, m, N
      <3> QED
        BY <1>3, <3>1, NthProperties
    <2> QED
      BY <2>2, <2>3
  <1>6. KeptAt(t, P) = KeptAt(s, P)
    <2>1. \A n \in 1 .. N : t[Nth(P, n)] = s[Nth(P, n)]
      BY <1>1, <1>2
    <2> QED
      BY <2>1 DEF KeptAt
  <1>7. KeptAt(t, Q) = Append(KeptAt(s, P), x)
    <2> DEFINE r == KeptAt(s, P)
    <2>1. KeptAt(t, Q) = [n \in 1 .. N + 1 |-> t[Nth(Q, n)]]
      BY <1>3 DEF KeptAt
    <2>2. \A n \in 1 .. N + 1 : t[Nth(Q, n)] = IF n <= N THEN r[n] ELSE x
      <3> TAKE n \in 1 .. N + 1
      <3>1. CASE n <= N
        <4>1. n \in 1 .. N
          BY <1>2, <3>1
        <4> QED
          BY <1>1, <1>2, <1>4, <3>1, <4>1
      <3>2. CASE ~(n <= N)
        <4>1. n = N + 1
          BY <1>2, <3>2
        <4> QED
          BY <1>1, <1>2, <1>5, <3>2, <4>1
      <3> QED
        BY <3>1, <3>2
    <2>3. /\ Append(r, x) \in Seq(S) /\ Len(Append(r, x)) = N + 1
          /\ \A n \in 1 .. N + 1 : Append(r, x)[n] = IF n <= N THEN r[n] ELSE x
      <3> HIDE DEF r
      <3>1. r \in Seq(S) /\ Len(r) = N
        BY <1>2 DEF r
      <3> QED
        BY <1>2, <3>1, AppendProperties
    <2>4. Append(r, x) = [n \in 1 .. N + 1 |-> IF n <= N THEN r[n] ELSE x]
      <3> DEFINE q == Append(r, x)
      <3>1. q = [n \in 1 .. Len(q) |-> q[n]]
        BY <2>3, SequenceIsFunction
      <3>2. [n \in 1 .. N + 1 |-> q[n]] = [n \in 1 .. N + 1 |-> IF n <= N THEN r[n] ELSE x]
        BY <2>3
      <3> HIDE DEF q, r, N
      <3>3. q = [n \in 1 .. N + 1 |-> q[n]]
        BY <2>3, <3>1 DEF q
      <3> QED
        BY <3>2, <3>3 DEF q
    <2> QED
      BY <2>1, <2>2, <2>4
  <1> QED
    BY <1>6, <1>7

-----------------------------------------------------------------------------
(* Sequences without repetition *)

\* No entry twice: what is left has none twice either.
LEMMA KeptAtInjective ==
  ASSUME NEW S, NEW s \in Seq(S), NEW P \in SUBSET DOMAIN s,
         \A i, j \in P : s[i] = s[j] => i = j
  PROVE  /\ KeptAt(s, P) \in Seq(S) /\ IsInjective(KeptAt(s, P))
         /\ \A n \in DOMAIN KeptAt(s, P) : \E i \in P : KeptAt(s, P)[n] = s[i]
  <1> DEFINE r == KeptAt(s, P)
  <1>1. /\ r \in Seq(S) /\ DOMAIN r = 1 .. Cardinality(P) /\ Cardinality(P) \in Nat
        /\ \A n \in DOMAIN r : Nth(P, n) \in P /\ r[n] = s[Nth(P, n)]
        /\ \A m, n \in DOMAIN r : m < n <=> Nth(P, m) < Nth(P, n)
    BY KeptAtProperties
  <1>2. ASSUME NEW m \in DOMAIN r, NEW n \in DOMAIN r, r[m] = r[n]
        PROVE  m = n
    <2>1. Nth(P, m) = Nth(P, n)
      BY <1>1, <1>2
    <2>2. m \in Int /\ n \in Int
      BY <1>1
    <2>3. ~(m < n) /\ ~(n < m)
      <3>1. Nth(P, m) \in Int
        BY <1>1
      <3> QED
        BY <1>1, <2>1, <3>1
    <2> QED
      BY <2>2, <2>3
  <1> QED
    BY <1>1, <1>2 DEF IsInjective

\* A prefix has no element twice.
LEMMA PrefixInjective ==
  ASSUME NEW S, NEW s \in Seq(S), IsInjective(s), NEW m \in Nat, m <= Len(s)
  PROVE  SubSeq(s, 1, m) \in Seq(S) /\ IsInjective(SubSeq(s, 1, m))
  <1>1. Len(s) \in Nat /\ DOMAIN s = 1 .. Len(s)
    OBVIOUS
  <1>4. /\ SubSeq(s, 1, m) \in Seq(S)
        /\ DOMAIN SubSeq(s, 1, m) = 1 .. m
        /\ \A i \in 1 .. m : SubSeq(s, 1, m)[i] = s[i]
    BY <1>1, SubSeqProperties
  <1> QED
    BY <1>1, <1>4 DEF IsInjective

\* Two sequences without a common element have none twice together.
LEMMA ConcatInjective ==
  ASSUME NEW S, NEW s \in Seq(S), IsInjective(s), NEW t \in Seq(S), IsInjective(t),
         \A n \in DOMAIN t : t[n] \notin ToSet(s)
  PROVE  s \o t \in Seq(S) /\ IsInjective(s \o t)
  <1>1. s \in Seq(S) /\ t \in Seq(S)
    OBVIOUS
  <1>2. Len(s) \in Nat /\ Len(t) \in Nat /\ DOMAIN s = 1 .. Len(s) /\ DOMAIN t = 1 .. Len(t)
    BY <1>1
  <1>3. /\ s \o t \in Seq(S) /\ DOMAIN (s \o t) = 1 .. Len(s) + Len(t)
        /\ \A i \in 1 .. Len(s) + Len(t) :
             (s \o t)[i] = IF i <= Len(s) THEN s[i] ELSE t[i - Len(s)]
    BY <1>1, <1>2, ConcatProperties
  <1>4. \A i \in 1 .. Len(s) : s[i] \in ToSet(s)
    BY <1>2 DEF ToSet
  <1> DEFINE r == s \o t
  <1>5. ASSUME NEW a \in DOMAIN r, NEW b \in DOMAIN r, r[a] = r[b] PROVE a = b
    <2>1. a \in 1 .. Len(s) + Len(t) /\ b \in 1 .. Len(s) + Len(t)
      BY <1>3
    <2>2. CASE a <= Len(s) /\ b <= Len(s)
      BY <1>2, <1>3, <1>5, <2>1, <2>2 DEF IsInjective
    <2>3. CASE ~(a <= Len(s)) /\ ~(b <= Len(s))
      <3>1. a - Len(s) \in DOMAIN t /\ b - Len(s) \in DOMAIN t /\ t[a - Len(s)] = t[b - Len(s)]
        BY <1>2, <1>3, <1>5, <2>1, <2>3
      <3>2. a - Len(s) = b - Len(s)
        BY <3>1 DEF IsInjective
      <3> QED
        BY <1>2, <2>1, <3>2
    <2>4. CASE a <= Len(s) /\ ~(b <= Len(s))
      <3>1. b - Len(s) \in DOMAIN t /\ r[b] = t[b - Len(s)] /\ r[a] \in ToSet(s)
        BY <1>2, <1>3, <1>4, <2>1, <2>4
      <3> QED
        BY <1>5, <3>1
    <2>5. CASE ~(a <= Len(s)) /\ b <= Len(s)
      <3>1. a - Len(s) \in DOMAIN t /\ r[a] = t[a - Len(s)] /\ r[b] \in ToSet(s)
        BY <1>2, <1>3, <1>4, <2>1, <2>5
      <3> QED
        BY <1>5, <3>1
    <2> QED
      BY <2>2, <2>3, <2>4, <2>5
  <1> QED
    BY <1>3, <1>5 DEF IsInjective

\* A reversed sequence has no element twice.
LEMMA ReverseInjective ==
  ASSUME NEW S, NEW r \in Seq(S), IsInjective(r)
  PROVE  Reverse(r) \in Seq(S) /\ IsInjective(Reverse(r))
  <1>1. Len(r) \in Nat /\ DOMAIN r = 1 .. Len(r) /\ \A i \in 1 .. Len(r) : r[i] \in S
    OBVIOUS
  <1>2. Reverse(r) = [i \in 1 .. Len(r) |-> r[(Len(r) - i) + 1]]
    BY DEF Reverse
  <1>3. Reverse(r) \in Seq(S)
    BY <1>1, <1>2
  <1>4. ASSUME NEW a \in 1 .. Len(r), NEW b \in 1 .. Len(r),
               r[(Len(r) - a) + 1] = r[(Len(r) - b) + 1]
        PROVE  a = b
    <2>1. (Len(r) - a) + 1 \in DOMAIN r /\ (Len(r) - b) + 1 \in DOMAIN r
      BY <1>1
    <2>2. (Len(r) - a) + 1 = (Len(r) - b) + 1
      BY <1>4, <2>1 DEF IsInjective
    <2> QED
      BY <1>1, <2>2
  <1> QED
    BY <1>2, <1>3, <1>4 DEF IsInjective

-----------------------------------------------------------------------------
(* Least and greatest numbers; induction, on the set of the numbers of which
   something is true *)

\* A non-empty set of natural numbers has a least one: the intervals up to
\* its members are finite, and one of them is within all the others.
LEMMA LeastNumber ==
  ASSUME NEW T \in SUBSET Nat, T # {}
  PROVE  \E m \in T : \A n \in T : m <= n
  <1> DEFINE intervals == {0 .. n : n \in T}
  <1>1. \A n \in T : IsFiniteSet(0 .. n)
    BY FS_Interval
  <1>2. intervals \subseteq FiniteSubsetsOf(Nat)
    BY <1>1 DEF FiniteSubsetsOf
  <1>3. intervals # {}
    OBVIOUS
  <1>4. PICK s \in intervals : \A t \in intervals : ~(<<t, s>> \in StrictSubsetOrdering(Nat))
    <2> HIDE DEF intervals
    <2> QED
      BY <1>2, <1>3, FS_StrictSubsetOrderingWellFounded, WFMin
  <1>5. PICK m \in T : s = 0 .. m
    OBVIOUS
  <1>6. \A n \in T : n < m => <<0 .. n, 0 .. m>> \in StrictSubsetOrdering(Nat)
    <2> SUFFICES ASSUME NEW n \in T, n < m
                 PROVE  <<0 .. n, 0 .. m>> \in StrictSubsetOrdering(Nat)
      OBVIOUS
    <2>1. /\ 0 .. n \subseteq 0 .. m /\ 0 .. n # 0 .. m
          /\ 0 .. n \subseteq Nat /\ 0 .. m \subseteq Nat
      <3>1. m \in 0 .. m /\ m \notin 0 .. n
        OBVIOUS
      <3> QED
        BY <3>1
    <2> QED
      BY <2>1 DEF StrictSubsetOrdering
  <1>7. \A n \in T : ~(n < m)
    BY <1>4, <1>5, <1>6
  <1> QED
    BY <1>5, <1>7

\* A non-empty finite set of integers has a greatest one.
LEMMA GreatestNumber ==
  ASSUME NEW S \in SUBSET Int, IsFiniteSet(S), S # {}
  PROVE  \E m \in S : \A n \in S : n <= m
  <1> DEFINE above(n) == {k \in S : n < k}
             sets == {above(n) : n \in S}
  <1>1. \A n \in S : IsFiniteSet(above(n)) /\ above(n) \subseteq S
    BY FS_Subset
  <1>2. sets \subseteq FiniteSubsetsOf(S)
    <2> HIDE DEF above
    <2> QED
      BY <1>1 DEF FiniteSubsetsOf
  <1>3. sets # {}
    OBVIOUS
  <1>4. PICK s \in sets : \A t \in sets : ~(<<t, s>> \in StrictSubsetOrdering(S))
    <2> HIDE DEF sets
    <2> QED
      BY <1>2, <1>3, FS_StrictSubsetOrderingWellFounded, WFMin
  <1>5. PICK m \in S : s = above(m)
    OBVIOUS
  <1>6. \A n \in S : m < n => <<above(n), above(m)>> \in StrictSubsetOrdering(S)
    <2> SUFFICES ASSUME NEW n \in S, m < n
                 PROVE  <<above(n), above(m)>> \in StrictSubsetOrdering(S)
      OBVIOUS
    <2>1. above(n) \subseteq above(m) /\ n \in above(m) /\ n \notin above(n)
      <3>1. n \in Int /\ m \in Int /\ \A k \in S : k \in Int
        OBVIOUS
      <3>2. \A k \in above(n) : k \in above(m)
        BY <3>1
      <3>3. above(n) \subseteq above(m)
        <4> HIDE DEF above
        <4> QED
          BY <3>2
      <3>4. n \in above(m) /\ n \notin above(n)
        BY <3>1
      <3> QED
        BY <3>3, <3>4
    <2>2. above(n) # above(m)
      BY <2>1
    <2> HIDE DEF above
    <2> QED
      BY <1>1, <2>1, <2>2 DEF StrictSubsetOrdering
  <1>7. \A n \in S : ~(m < n)
    BY <1>4, <1>5, <1>6
  <1> QED
    BY <1>5, <1>7

\* A function has finitely many values on a finite set.
LEMMA ImageIsFinite ==
  ASSUME NEW S, IsFiniteSet(S), NEW f
  PROVE  IsFiniteSet({f[x] : x \in S})
  <1> DEFINE T == {f[x] : x \in S}
             g == [x \in S |-> f[x]]
  <1>1. g \in Surjection(S, T)
    BY DEF Surjection
  <1> HIDE DEF g, T
  <1>2. IsFiniteSet(T)
    BY <1>1, FS_Surjection
  <1> QED
    BY <1>2 DEF T

\* Max is the maximum.
LEMMA MaxProperties ==
  ASSUME NEW S \in SUBSET Int, NEW m \in S, \A n \in S : n <= m
  PROVE  Max(S) = m
  <1>1. \A x \in S : (\A y \in S : x >= y) <=> x = m
    <2> SUFFICES ASSUME NEW x \in S PROVE (\A y \in S : x >= y) <=> x = m
      OBVIOUS
    <2>1. x \in Int /\ m \in Int /\ \A y \in S : y \in Int
      OBVIOUS
    <2> QED
      BY <2>1
  <1> QED
    BY <1>1 DEF Max

\* One more number is the maximum if it is greater than the last.
LEMMA MaxOfMore ==
  ASSUME NEW S \in SUBSET Int, IsFiniteSet(S), S # {}, NEW x \in Int
  PROVE  /\ Max(S) \in Int
         /\ Max(S \cup {x}) = IF Max(S) >= x THEN Max(S) ELSE x
         /\ Max({x}) = x /\ Max({Max(S), x}) = IF Max(S) >= x THEN Max(S) ELSE x
  <1>1. PICK m \in S : \A n \in S : n <= m
    BY GreatestNumber
  <1>2. Max(S) = m /\ m \in Int
    BY <1>1, MaxProperties
  <1> DEFINE k == IF m >= x THEN m ELSE x
  <1>3. k \in Int /\ k \in {m, x} /\ m <= k /\ x <= k
    BY <1>2
  <1>4. S \cup {x} \in SUBSET Int /\ k \in S \cup {x} /\ \A n \in S \cup {x} : n <= k
    <2>1. \A n \in S : n \in Int /\ n <= m
      BY <1>1
    <2> HIDE DEF k
    <2>2. \A n \in S : n <= k
      BY <1>2, <1>3, <2>1
    <2> QED
      BY <1>3, <2>2
  <1>5. Max(S \cup {x}) = k
    BY <1>4, MaxProperties
  <1>6. Max({m, x}) = k
    <2> HIDE DEF k
    <2>1. {m, x} \in SUBSET Int /\ k \in {m, x} /\ \A n \in {m, x} : n <= k
      BY <1>2, <1>3
    <2> QED
      BY <2>1, MaxProperties
  <1>7. Max({x}) = x
    <2>1. {x} \in SUBSET Int /\ x \in {x} /\ \A n \in {x} : n <= x
      OBVIOUS
    <2> QED
      BY <2>1, MaxProperties
  <1> QED
    BY <1>2, <1>5, <1>6, <1>7

\* Induction: what is true of 0, and of n + 1 if of n, is true of every number.
LEMMA InductionOnNat ==
  ASSUME NEW T, 0 \in T, \A n \in Nat : n \in T => n + 1 \in T
  PROVE  Nat \subseteq T
  <1> SUFFICES ASSUME Nat \ T # {} PROVE FALSE
    OBVIOUS
  <1>1. PICK m \in Nat \ T : \A n \in Nat \ T : m <= n
    BY LeastNumber
  <1>2. m - 1 \in Nat /\ m - 1 \in T
    BY <1>1
  <1> QED
    BY <1>1, <1>2

\* The same up to a number N.
LEMMA InductionUpTo ==
  ASSUME NEW N \in Nat, NEW T, 0 \in T, \A n \in 0 .. N - 1 : n \in T => n + 1 \in T
  PROVE  0 .. N \subseteq T
  <1> DEFINE U == {n \in Nat : n <= N => n \in T}
  <1>1. 0 \in U
    OBVIOUS
  <1>2. \A n \in Nat : n \in U => n + 1 \in U
    OBVIOUS
  <1>3. Nat \subseteq U
    <2> HIDE DEF U
    <2> QED
      BY <1>1, <1>2, InductionOnNat
  <1> QED
    BY <1>3

-----------------------------------------------------------------------------
(* Folds *)

\* The last of the places up to n + 1 is n + 1.
LEMMA MaxOfPlaces ==
  ASSUME NEW n \in Nat, NEW s \in SUBSET (1 .. n + 1), n + 1 \in s
  PROVE  Max(s) = n + 1
  <1>1. \A x \in s : x \in Nat /\ n + 1 >= x
    OBVIOUS
  <1>2. \A x \in s : (\A y \in s : x >= y) => x = n + 1
    BY <1>1
  <1> QED
    BY <1>1, <1>2 DEF Max

\* The last of the first i places is i, and without it there are i - 1.
LEMMA LastPlace ==
  ASSUME NEW i \in Nat \ {0}
  PROVE  Max(1 .. i) = i /\ (1 .. i) \ {i} = 1 .. i - 1
  <1>1. \A x \in 1 .. i : (\A y \in 1 .. i : x >= y) <=> x = i
    OBVIOUS
  <1>2. i \in 1 .. i
    OBVIOUS
  <1> QED
    BY <1>1, <1>2 DEF Max

\* g folds, for each set of the places up to n, what is at its places: step has
\* the fold of the others and the last place.
FoldFcn(g, n, S, base, step) ==
  /\ g \in [SUBSET (1 .. n) -> S]
  /\ g[{}] = base
  /\ \A s \in SUBSET (1 .. n) :
       s # {} => Max(s) \in 1 .. n /\ g[s] = step[<<g[s \ {Max(s)}], Max(s)>>]

\* There is such a function, so that the recursion of a fold has a solution.
LEMMA FoldExists ==
  ASSUME NEW N \in Nat, NEW S, NEW base \in S, NEW step \in [S \X (1 .. N) -> S]
  PROVE  \E g : FoldFcn(g, N, S, base, step)
  <1> DEFINE T == {n \in 0 .. N : \E g : FoldFcn(g, n, S, base, step)}
  <1>1. 0 \in T
    <2> DEFINE g == [s \in SUBSET (1 .. 0) |-> base]
    <2>1. 1 .. 0 = {} /\ SUBSET (1 .. 0) = {{}}
      OBVIOUS
    <2>2. FoldFcn(g, 0, S, base, step)
      BY <2>1 DEF FoldFcn
    <2> HIDE DEF g
    <2> QED
      BY <2>2
  <1>2. ASSUME NEW n \in 0 .. N - 1, n \in T
        PROVE  n + 1 \in T
    <2>1. PICK g : FoldFcn(g, n, S, base, step)
      BY <1>2
    <2> DEFINE h == [s \in SUBSET (1 .. n + 1) |->
                       IF n + 1 \in s THEN step[<<g[s \ {n + 1}], n + 1>>] ELSE g[s]]
    <2>2. \A s \in SUBSET (1 .. n + 1) : s \ {n + 1} \in SUBSET (1 .. n)
      OBVIOUS
    <2>3. \A s \in SUBSET (1 .. n + 1) : n + 1 \notin s => s \in SUBSET (1 .. n) /\ h[s] = g[s]
      OBVIOUS
    <2>4. \A s \in SUBSET (1 .. n) : s \in SUBSET (1 .. n + 1) /\ n + 1 \notin s /\ h[s] = g[s]
      OBVIOUS
    <2>5. h \in [SUBSET (1 .. n + 1) -> S]
      <3> SUFFICES ASSUME NEW s \in SUBSET (1 .. n + 1)
                   PROVE  (IF n + 1 \in s THEN step[<<g[s \ {n + 1}], n + 1>>] ELSE g[s]) \in S
        OBVIOUS
      <3>1. CASE n + 1 \in s
        <4>1. g[s \ {n + 1}] \in S /\ n + 1 \in 1 .. N
          BY <2>1, <2>2 DEF FoldFcn
        <4> QED
          BY <3>1, <4>1
      <3>2. CASE n + 1 \notin s
        BY <2>1, <2>3, <3>2 DEF FoldFcn
      <3> QED
        BY <3>1, <3>2
    <2>6. h[{}] = base
      BY <2>1, <2>4 DEF FoldFcn
    <2>7. ASSUME NEW s \in SUBSET (1 .. n + 1), s # {}
          PROVE  Max(s) \in 1 .. n + 1 /\ h[s] = step[<<h[s \ {Max(s)}], Max(s)>>]
      <3>1. CASE n + 1 \in s
        <4>1. Max(s) = n + 1
          BY <3>1, MaxOfPlaces
        <4>2. h[s \ {n + 1}] = g[s \ {n + 1}]
          BY <2>2, <2>4
        <4>3. h[s] = step[<<g[s \ {n + 1}], n + 1>>]
          BY <3>1
        <4> HIDE DEF h
        <4> QED
          BY <4>1, <4>2, <4>3
      <3>2. CASE n + 1 \notin s
        <4>1. s \in SUBSET (1 .. n) /\ h[s] = g[s]
          BY <2>3, <3>2
        <4>2. Max(s) \in 1 .. n /\ g[s] = step[<<g[s \ {Max(s)}], Max(s)>>]
          BY <2>1, <2>7, <4>1 DEF FoldFcn
        <4>3. h[s \ {Max(s)}] = g[s \ {Max(s)}]
          <5>1. s \ {Max(s)} \in SUBSET (1 .. n)
            BY <4>1
          <5> QED
            BY <5>1, <2>4
        <4> HIDE DEF h
        <4> QED
          BY <4>1, <4>2, <4>3
      <3> QED
        BY <3>1, <3>2
    <2> HIDE DEF h
    <2>8. FoldFcn(h, n + 1, S, base, step)
      BY <2>5, <2>6, <2>7 DEF FoldFcn
    <2> QED
      BY <2>8
  <1>3. N \in T
    <2> HIDE DEF T
    <2> QED
      BY <1>1, <1>2, InductionUpTo
  <1> QED
    BY <1>3

\* run has what a fold has computed after each place, the result in the end.
FoldRun(run, n, S, base, step, result) ==
  /\ run \in [0 .. n -> S]
  /\ run[0] = base /\ run[n] = result
  /\ \A i \in 1 .. n : run[i] = step[<<run[i - 1], i>>]

\* Any solution of the recursion of a fold goes through the places in their order.
LEMMA FoldRuns ==
  ASSUME NEW N \in Nat, NEW S, NEW base \in S, NEW step \in [S \X (1 .. N) -> S],
         NEW iter, iter[{}] = base,
         \A s \in SUBSET (1 .. N) : s # {} /\ iter[s \ {Max(s)}] \in S
                                      => iter[s] = step[<<iter[s \ {Max(s)}], Max(s)>>]
  PROVE  \E run : FoldRun(run, N, S, base, step, iter[1 .. N])
  <1> DEFINE T == {i \in 0 .. N : iter[1 .. i] \in S}
             run == [i \in 0 .. N |-> iter[1 .. i]]
  <1>1. \A i \in 1 .. N : iter[1 .. i - 1] \in S
                            => iter[1 .. i] = step[<<iter[1 .. i - 1], i>>]
    <2> SUFFICES ASSUME NEW i \in 1 .. N, iter[1 .. i - 1] \in S
                 PROVE  iter[1 .. i] = step[<<iter[1 .. i - 1], i>>]
      OBVIOUS
    <2>1. 1 .. i \in SUBSET (1 .. N) /\ i \in 1 .. i
      OBVIOUS
    <2>2. Max(1 .. i) = i /\ (1 .. i) \ {i} = 1 .. i - 1
      BY LastPlace
    <2> QED
      BY <2>1, <2>2
  <1>2. 0 \in T
    <2>1. 1 .. 0 = {}
      OBVIOUS
    <2> QED
      BY <2>1
  <1>3. \A i \in 0 .. N - 1 : i \in T => i + 1 \in T
    <2> SUFFICES ASSUME NEW i \in 0 .. N - 1, iter[1 .. i] \in S
                 PROVE  i + 1 \in 0 .. N /\ iter[1 .. i + 1] \in S
      OBVIOUS
    <2>1. i + 1 \in 1 .. N /\ i + 1 - 1 = i
      OBVIOUS
    <2>2. iter[1 .. i + 1] = step[<<iter[1 .. i], i + 1>>]
      BY <1>1, <2>1
    <2> QED
      BY <2>1, <2>2
  <1>4. 0 .. N \subseteq T
    <2> HIDE DEF T
    <2> QED
      BY <1>2, <1>3, InductionUpTo
  <1>5. FoldRun(run, N, S, base, step, iter[1 .. N])
    <2>1. run \in [0 .. N -> S] /\ run[0] = base /\ run[N] = iter[1 .. N]
      BY <1>2, <1>4
    <2>2. \A i \in 1 .. N : run[i] = step[<<run[i - 1], i>>]
      <3> SUFFICES ASSUME NEW i \in 1 .. N PROVE run[i] = step[<<run[i - 1], i>>]
        OBVIOUS
      <3>1. i \in 0 .. N /\ i - 1 \in 0 .. N /\ iter[1 .. i - 1] \in S
        BY <1>4
      <3> QED
        BY <1>1, <3>1
    <2> QED
      BY <2>1, <2>2 DEF FoldRun
  <1> HIDE DEF run
  <1> QED
    BY <1>5

-----------------------------------------------------------------------------
(* Places by counting; sequences joined *)

\* R is a strict total order of the set S.
StrictOrder(R, S) ==
  /\ \A i \in S : <<i, i>> \notin R
  /\ \A i, j, k \in S : <<i, j>> \in R /\ <<j, k>> \in R => <<i, k>> \in R
  /\ \A i, j \in S : i # j => <<i, j>> \in R \/ <<j, i>> \in R

PlaceIn(R, S, i) == Cardinality({j \in S : <<j, i>> \in R}) + 1

\* Counting who comes before numbers the elements of a strict order, none left out.
LEMMA PlacesOfOrder ==
  ASSUME NEW S, IsFiniteSet(S), NEW R, StrictOrder(R, S)
  PROVE  /\ \A i \in S : PlaceIn(R, S, i) \in 1 .. Cardinality(S)
         /\ \A i, j \in S : <<i, j>> \in R => PlaceIn(R, S, i) < PlaceIn(R, S, j)
         /\ \A i, j \in S : PlaceIn(R, S, i) = PlaceIn(R, S, j) => i = j
         /\ \A k \in 1 .. Cardinality(S) : \E i \in S : PlaceIn(R, S, i) = k
  <1> DEFINE n == Cardinality(S)
             P == 1 .. n
             below(i) == {j \in S : <<j, i>> \in R}
             place == [i \in S |-> PlaceIn(R, S, i)]
  <1>1. n \in Nat /\ IsFiniteSet(P) /\ Cardinality(P) = n
    BY FS_CardinalityType, FS_Interval
  <1>2. ASSUME NEW i \in S
        PROVE  /\ IsFiniteSet(below(i)) /\ Cardinality(below(i)) \in Nat
               /\ Cardinality(below(i)) < n
    <2>1. below(i) \in SUBSET S /\ i \notin below(i)
      BY DEF StrictOrder
    <2>2. below(i) # S
      BY <2>1
    <2> HIDE DEF below
    <2>3. /\ IsFiniteSet(below(i)) /\ Cardinality(below(i)) <= Cardinality(S)
          /\ Cardinality(below(i)) # Cardinality(S)
      BY <2>1, <2>2, FS_Subset
    <2>4. Cardinality(below(i)) \in Nat
      BY <2>3, FS_CardinalityType
    <2> QED
      BY <1>1, <2>3, <2>4
  <1>3. \A i \in S : PlaceIn(R, S, i) \in P
    <2> TAKE i \in S
    <2>1. PlaceIn(R, S, i) = Cardinality(below(i)) + 1
      BY DEF PlaceIn
    <2> HIDE DEF below, n
    <2> QED
      BY <1>1, <1>2, <2>1
  <1>4. ASSUME NEW i \in S, NEW j \in S, <<i, j>> \in R
        PROVE  PlaceIn(R, S, i) < PlaceIn(R, S, j)
    <2>1. below(i) \in SUBSET below(j)
      BY <1>4 DEF StrictOrder
    <2>2. i \in below(j) /\ i \notin below(i)
      BY <1>4 DEF StrictOrder
    <2>3. /\ Cardinality(below(i)) <= Cardinality(below(j))
          /\ Cardinality(below(i)) # Cardinality(below(j))
      <3> HIDE DEF below
      <3> QED
        BY <1>2, <2>1, <2>2, FS_Subset
    <2>4. /\ PlaceIn(R, S, i) = Cardinality(below(i)) + 1
          /\ PlaceIn(R, S, j) = Cardinality(below(j)) + 1
      BY DEF PlaceIn
    <2> HIDE DEF below
    <2> QED
      BY <1>2, <2>3, <2>4
  <1>5. ASSUME NEW i \in S, NEW j \in S, PlaceIn(R, S, i) = PlaceIn(R, S, j)
        PROVE  i = j
    <2>1. ~(PlaceIn(R, S, i) < PlaceIn(R, S, j)) /\ ~(PlaceIn(R, S, j) < PlaceIn(R, S, i))
      <3> HIDE DEF n
      <3> QED
        BY <1>1, <1>3, <1>5
    <2>2. <<i, j>> \notin R /\ <<j, i>> \notin R
      BY <1>4, <2>1
    <2> QED
      BY <2>2 DEF StrictOrder
  <1>6. place \in Surjection(S, P)
    <2>1. place \in Injection(S, P)
      BY <1>3, <1>5 DEF Injection, IsInjective
    <2> HIDE DEF P, place
    <2> QED
      BY <1>1, <2>1, FS_Injection
  <1>7. \A k \in P : \E i \in S : PlaceIn(R, S, i) = k
    BY <1>6 DEF Surjection
  <1> QED
    BY <1>3, <1>4, <1>5, <1>7

\* A count that grows with each place of T, and with no other, counts them.
LEMMA CountsPlaces ==
  ASSUME NEW N \in Nat, NEW T, NEW c \in [0 .. N -> Int],
         \A n \in 1 .. N : c[n] = c[n - 1] + (IF n \in T THEN 1 ELSE 0)
  PROVE  c[N] = c[0] + Cardinality({j \in 1 .. N : j \in T})
  <1> DEFINE upTo(n) == {j \in 1 .. n : j \in T}
             C == {n \in 0 .. N : c[n] = c[0] + Cardinality(upTo(n))}
  <1>1. \A n \in 0 .. N : IsFiniteSet(upTo(n)) /\ Cardinality(upTo(n)) \in Nat
    <2> TAKE n \in 0 .. N
    <2>1. upTo(n) \in SUBSET (1 .. n) /\ IsFiniteSet(1 .. n)
      BY FS_Interval
    <2> HIDE DEF upTo
    <2> QED
      BY <2>1, FS_Subset, FS_CardinalityType
  <1>2. 0 \in C
    <2>1. upTo(0) = {}
      OBVIOUS
    <2> HIDE DEF upTo
    <2>2. Cardinality(upTo(0)) = 0
      BY <2>1, FS_EmptySet
    <2> QED
      BY <2>2
  <1>3. \A n \in 0 .. N - 1 : n \in C => n + 1 \in C
    <2> SUFFICES ASSUME NEW n \in 0 .. N - 1, c[n] = c[0] + Cardinality(upTo(n))
                 PROVE  n + 1 \in 0 .. N /\ c[n + 1] = c[0] + Cardinality(upTo(n + 1))
      OBVIOUS
    <2>1. n + 1 \in 1 .. N /\ n + 1 - 1 = n /\ n \in 0 .. N /\ n + 1 \in 0 .. N
      OBVIOUS
    <2>2. c[n + 1] = c[n] + (IF n + 1 \in T THEN 1 ELSE 0) /\ c[0] \in Int /\ c[n] \in Int
      BY <2>1
    <2>3. CASE n + 1 \in T
      <3>1. upTo(n + 1) = upTo(n) \cup {n + 1} /\ n + 1 \notin upTo(n)
        BY <2>3
      <3> HIDE DEF upTo
      <3>2. Cardinality(upTo(n + 1)) = Cardinality(upTo(n)) + 1
        BY <1>1, <2>1, <3>1, FS_AddElement
      <3> QED
        BY <1>1, <2>1, <2>2, <2>3, <3>2
    <2>4. CASE n + 1 \notin T
      <3>1. upTo(n + 1) = upTo(n)
        BY <2>4
      <3> HIDE DEF upTo
      <3> QED
        BY <1>1, <2>1, <2>2, <2>4, <3>1
    <2> QED
      BY <2>3, <2>4
  <1>4. 0 .. N \subseteq C
    <2> HIDE DEF C
    <2> QED
      BY <1>2, <1>3, InductionUpTo
  <1> QED
    BY <1>4

\* front[i] is the first i of the sequences, joined.
JoinsUp(front, seqs, N) ==
  /\ front[1] = seqs[1]
  /\ \A i \in 2 .. N : front[i] = front[i - 1] \o seqs[i]

\* Sequences are joined to what one gets by adding them to the first, one by one.
LEMMA FlattenIs ==
  ASSUME NEW N \in Nat \ {0}, NEW seqs, Len(seqs) = N, NEW front, JoinsUp(front, seqs, N)
  PROVE  FlattenSeq(seqs) = front[N]
  <1> USE DEF JoinsUp
  <1> DEFINE Equation(g) == g = [i \in 1 .. N |-> IF i = 1 THEN seqs[i] ELSE g[i - 1] \o seqs[i]]
             flatten == CHOOSE g : Equation(g)
             g == [i \in 1 .. N |-> front[i]]
  <1>1. Equation(g)
    <2>1. ASSUME NEW i \in 1 .. N
          PROVE  front[i] = IF i = 1 THEN seqs[i] ELSE g[i - 1] \o seqs[i]
      <3>1. CASE i = 1
        BY <3>1
      <3>2. CASE i # 1
        <4>1. i \in 2 .. N /\ i - 1 \in 1 .. N
          BY <3>2
        <4>2. g[i - 1] = front[i - 1]
          BY <4>1
        <4> HIDE DEF g
        <4> QED
          BY <3>2, <4>1, <4>2
      <3> QED
        BY <3>1, <3>2
    <2> QED
      BY <2>1
  <1>2. Equation(flatten)
    <2> HIDE DEF Equation, g
    <2> QED
      BY <1>1
  <1>3. FlattenSeq(seqs) = flatten[N]
    BY DEF FlattenSeq
  <1> DEFINE T == {i \in 0 .. N : i = 0 \/ flatten[i] = front[i]}
  <1> HIDE DEF flatten
  <1> DEFINE joined(x, i) == x \o seqs[i]
  <1>4. \A k \in 1 .. N : flatten[k] = IF k = 1 THEN seqs[k] ELSE joined(flatten[k - 1], k)
    BY <1>2
  <1>5. \A k \in 2 .. N : front[k] = joined(front[k - 1], k)
    OBVIOUS
  <1>0. front[1] = seqs[1]
    OBVIOUS
  <1> HIDE DEF Equation, joined, JoinsUp
  <1>6. 0 \in T
    OBVIOUS
  <1>7. \A i \in 0 .. N - 1 : i \in T => i + 1 \in T
    <2> SUFFICES ASSUME NEW i \in 0 .. N - 1, i = 0 \/ flatten[i] = front[i]
                 PROVE  flatten[i + 1] = front[i + 1] /\ i + 1 \in 0 .. N
      OBVIOUS
    <2>1. i + 1 \in 1 .. N /\ i + 1 \in 0 .. N /\ i + 1 - 1 = i
      OBVIOUS
    <2>2. flatten[i + 1] = IF i + 1 = 1 THEN seqs[i + 1] ELSE joined(flatten[i], i + 1)
      BY <1>4, <2>1
    <2>3. CASE i = 0
      BY <1>0, <2>1, <2>2, <2>3
    <2>4. CASE i # 0
      <3>1. i + 1 \in 2 .. N
        BY <2>4
      <3>2. front[i + 1] = joined(front[i], i + 1)
        BY <1>5, <2>1, <3>1
      <3> QED
        BY <2>1, <2>2, <2>4, <3>1, <3>2
    <2> QED
      BY <2>1, <2>3, <2>4
  <1>8. 0 .. N \subseteq T
    <2> HIDE DEF T
    <2> QED
      BY <1>6, <1>7, InductionUpTo
  <1>9. flatten[N] = front[N]
    <2>1. N \in 0 .. N /\ N # 0
      OBVIOUS
    <2> QED
      BY <1>8, <2>1
  <1> QED
    BY <1>3, <1>9

\* Two neighbouring stretches of a sequence are joined to one.
LEMMA CutAndJoin ==
  ASSUME NEW S, NEW s \in Seq(S), NEW a \in Nat, NEW b \in Nat, a <= b, b <= Len(s)
  PROVE  SubSeq(s, 1, a) \o SubSeq(s, a + 1, b) = SubSeq(s, 1, b)
  <1> DEFINE left == SubSeq(s, 1, a)
             right == SubSeq(s, a + 1, b)
             both == SubSeq(s, 1, b)
  <1>1. Len(s) \in Nat /\ \A i \in 1 .. Len(s) : s[i] \in S
    OBVIOUS
  <1>2. left \in Seq(S) /\ Len(left) = a /\ \A i \in 1 .. a : left[i] = s[i]
    <2>1. \A i \in 1 .. a : s[i] \in S
      BY <1>1
    <2> QED
      BY <2>1, SubSeqProperties
  <1>3. both \in Seq(S) /\ Len(both) = b /\ \A i \in 1 .. b : both[i] = s[i]
    <2>1. \A i \in 1 .. b : s[i] \in S
      BY <1>1
    <2> QED
      BY <2>1, SubSeqProperties
  <1>4. right \in Seq(S) /\ Len(right) = b - a /\ \A i \in 1 .. b - a : right[i] = s[a + i]
    <2>1. \A i \in a + 1 .. b : s[i] \in S
      BY <1>1
    <2>2. /\ right \in Seq(S)
          /\ Len(right) = IF a + 1 <= b THEN b - (a + 1) + 1 ELSE 0
          /\ \A i \in 1 .. b - (a + 1) + 1 : right[i] = s[a + 1 + i - 1]
      BY <2>1, SubSeqProperties
    <2> QED
      BY <2>2
  <1> HIDE DEF left, right, both
  <1>5. /\ left \o right \in Seq(S) /\ Len(left \o right) = b
        /\ \A i \in 1 .. b : (left \o right)[i] = both[i]
    <2>1. /\ left \o right \in Seq(S) /\ Len(left \o right) = a + (b - a)
          /\ \A i \in 1 .. a + (b - a) :
               (left \o right)[i] = IF i <= a THEN left[i] ELSE right[i - a]
      <3>1. left \in Seq(S) /\ right \in Seq(S) /\ Len(left) = a /\ Len(right) = b - a
        BY <1>2, <1>4
      <3>2. /\ left \o right \in Seq(S) /\ Len(left \o right) = Len(left) + Len(right)
            /\ \A i \in 1 .. Len(left) + Len(right) :
                 (left \o right)[i] = IF i <= Len(left) THEN left[i] ELSE right[i - Len(left)]
        BY <3>1, ConcatProperties, Zenon
      <3> QED
        BY <3>1, <3>2
    <2>2. a + (b - a) = b
      OBVIOUS
    <2>3. ASSUME NEW i \in 1 .. b
          PROVE  (left \o right)[i] = both[i]
      <3>1. CASE i <= a
        BY <1>2, <1>3, <2>1, <2>2, <3>1
      <3>2. CASE ~(i <= a)
        <4>1. i - a \in 1 .. b - a /\ a + (i - a) = i
          BY <3>2
        <4>2. right[i - a] = s[i]
          BY <1>4, <4>1
        <4> QED
          BY <1>3, <2>1, <2>2, <3>2, <4>2
      <3> QED
        BY <3>1, <3>2
    <2> QED
      BY <2>1, <2>2, <2>3
  <1>6. left \o right = both
    BY <1>3, <1>5, SeqEqual
  <1> QED
    BY <1>6 DEF left, right, both
=============================================================================
