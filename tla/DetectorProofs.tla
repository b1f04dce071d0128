--------------------------- MODULE DetectorProofs ---------------------------
(***************************************************************************)
(* The properties of the detectors: those of RiskEngineInputs, for every   *)
(* score a detector can report and not only the ones on a grid, and those  *)
(* of VolumeTracker, for every window, clock and number of threads.        *)
(***************************************************************************)
EXTENDS RiskEngineInputs, VolumeTracker, OperatorLemmas

-----------------------------------------------------------------------------
(* The risk engine *)

InputsInRange ==
    /\ matched \in BOOLEAN
    /\ ml \in Score
    /\ tunnel \in Score
    /\ behavior \in Score

\* Evidence only grows within the range of scores.
LEMMA InputsStayInRange == EvidenceSpec => []InputsInRange
  <1>1. NoEvidence => InputsInRange
    <2>1. NoEvidence => matched \in BOOLEAN
      BY Zenon DEF NoEvidence
    <2>2. NoEvidence => ml \in Score /\ tunnel \in Score /\ behavior \in Score
      BY DEF NoEvidence, Score, MaxScore
    <2> QED
      BY <2>1, <2>2 DEF InputsInRange
  <1>2. InputsInRange /\ [EvidenceGrows]_evidence => InputsInRange'
    BY GridAssumption DEF InputsInRange, EvidenceGrows, IntelMatches, MlRises, TunnelRises,
       BehaviorRises, Higher, evidence
  <1> QED
    BY <1>1, <1>2, PTL DEF EvidenceSpec

\* On a match the sequential path, which skips two detectors, and the parallel
\* path, which runs them, give the same score and the same action.
THEOREM FastPathAlwaysAgrees == EvidenceSpec => []FastPathAgrees
  <1>1. InputsInRange => FastPathAgrees
    <2> SUFFICES ASSUME InputsInRange, matched
                 PROVE  /\ CompositeScore(IntelScore(matched), 0, 0, 0) = score
                        /\ Decide(matched, 0, 0, 0) = action
      BY DEF FastPathAgrees
    <2>1. 0 \in Score
      BY DEF Score, MaxScore
    <2>2. IntelScore(matched) = MaxScore
      BY IntelScoreIsScore, Zenon DEF InputsInRange
    <2>3. CompositeScore(IntelScore(matched), 0, 0, 0) = MaxScore
      BY <2>1, <2>2, MatchScores100
    <2>4. score = MaxScore
      BY <2>2, MatchScores100 DEF InputsInRange, score
    <2>5. Branches(matched, 0, 0, 0) /\ Branches(matched, ml, tunnel, behavior)
      BY <2>1, DecideCases, Zenon DEF InputsInRange
    <2>6. Decide(matched, 0, 0, 0) = "BLOCK" /\ action = "BLOCK"
      BY <2>5, Zenon DEF Branches, action
    <2> QED
      BY <2>3, <2>4, <2>6, Zenon
  <1> QED
    BY <1>1, InputsStayInRange, PTL

\* The score is a percentage and no detector blocks on its own.
THEOREM OneDetectorNeverBlocksAlone == EvidenceSpec => []OneDetectorNeverBlocks
  <1>1. InputsInRange => OneDetectorNeverBlocks
    <2> SUFFICES ASSUME InputsInRange
                 PROVE  OneDetectorNeverBlocks
      OBVIOUS
    <2>1. score \in Score
      BY IntelScoreIsScore, CompositeScoreIsScore DEF InputsInRange, score
    <2>2. ASSUME ~matched
          PROVE  /\ ml = 0 /\ tunnel = 0 => action # "BLOCK"
                 /\ ml = 0 /\ behavior = 0 => action # "BLOCK"
                 /\ tunnel = 0 /\ behavior = 0 => action # "BLOCK"
      BY <2>2, OneScoreNeverBlocks, Zenon DEF InputsInRange, action
    <2>3. /\ ml = 0 \/ ml > 0
          /\ tunnel = 0 \/ tunnel > 0
          /\ behavior = 0 \/ behavior > 0
      BY ScoresAreIntegers DEF InputsInRange
    <2> QED
      BY <2>1, <2>2, <2>3, Zenon DEF OneDetectorNeverBlocks
  <1> QED
    BY <1>1, InputsStayInRange, PTL

\* More evidence against a domain never softens what is done about it.
THEOREM MoreEvidenceIsNeverSofter == EvidenceSpec => MoreEvidenceNeverSofter
  <1>1. InputsInRange /\ InputsInRange' /\ [EvidenceGrows]_evidence
          => [score' >= score /\ Severity(action') >= Severity(action)]_evidence
    <2> SUFFICES ASSUME InputsInRange, InputsInRange', EvidenceGrows
                 PROVE  score' >= score /\ Severity(action') >= Severity(action)
      OBVIOUS
    <2>1. ml <= ml' /\ tunnel <= tunnel' /\ behavior <= behavior'
      BY ScoresAreIntegers DEF EvidenceGrows, IntelMatches, MlRises, TunnelRises, BehaviorRises,
         Higher, InputsInRange
    <2>2. matched => matched'
      BY Zenon DEF EvidenceGrows, IntelMatches, MlRises, TunnelRises, BehaviorRises
    <2>3. score <= score' /\ Severity(action) <= Severity(action')
      BY <2>1, <2>2, DecideMonotone, Zenon DEF InputsInRange, score, action
    <2>4. score \in Int /\ score' \in Int
      BY IntelScoreIsScore, CompositeScoreIsScore, ScoresAreIntegers DEF InputsInRange, score
    <2>5. action \in Actions /\ action' \in Actions
      BY DecideCases, Zenon DEF InputsInRange, action, Branches
    <2>6. Severity(action) \in Int /\ Severity(action') \in Int
      BY <2>5 DEF Actions, Severity
    <2> QED
      BY <2>3, <2>4, <2>6
  <1> QED
    BY <1>1, InputsStayInRange, PTL DEF EvidenceSpec, MoreEvidenceNeverSofter

-----------------------------------------------------------------------------
(* Counting the entries of a sequence that are in a set *)

\* None of the entries, or all of them.
LEMMA AmongIsCount ==
  ASSUME NEW T, NEW s \in Seq(T), NEW S
  PROVE  /\ IsFiniteSet({i \in DOMAIN s : s[i] \in S})
         /\ Among(s, S) \in Nat
         /\ (\A i \in DOMAIN s : s[i] \notin S) => Among(s, S) = 0
         /\ (\A i \in DOMAIN s : s[i] \in S) => Among(s, S) = Len(s)
  <1> DEFINE P == {i \in DOMAIN s : s[i] \in S}
  <1>1. DOMAIN s = 1 .. Len(s) /\ Len(s) \in Nat
    OBVIOUS
  <1>2. IsFiniteSet(1 .. Len(s)) /\ Cardinality(1 .. Len(s)) = Len(s)
    BY <1>1, FS_Interval
  <1>3. P \in SUBSET (1 .. Len(s))
    BY <1>1
  <1>4. Among(s, S) = Cardinality(P)
    BY DEF Among
  <1>5. (\A i \in DOMAIN s : s[i] \notin S) => P = {}
    OBVIOUS
  <1>6. (\A i \in DOMAIN s : s[i] \in S) => P = 1 .. Len(s)
    BY <1>1
  <1> HIDE DEF P
  <1>7. IsFiniteSet(P) /\ Cardinality(P) \in Nat
    BY <1>2, <1>3, FS_Subset, FS_CardinalityType
  <1> QED
    BY <1>2, <1>4, <1>5, <1>6, <1>7, FS_EmptySet DEF P

\* One more entry.
LEMMA AmongAppend ==
  ASSUME NEW T, NEW s \in Seq(T), NEW x \in T, NEW S
  PROVE  Among(Append(s, x), S) = Among(s, S) + (IF x \in S THEN 1 ELSE 0)
  <1> DEFINE a == Append(s, x)
             m == Len(s) + 1
             P == {i \in DOMAIN s : s[i] \in S}
             Q == {i \in DOMAIN a : a[i] \in S}
  <1>1. /\ DOMAIN s = 1 .. Len(s) /\ Len(s) \in Nat /\ DOMAIN a = 1 .. m
        /\ \A i \in 1 .. Len(s) : a[i] = s[i]
        /\ a[m] = x /\ a \in Seq(T)
    BY AppendProperties
  <1>2. /\ DOMAIN a = DOMAIN s \cup {m} /\ m \notin DOMAIN s
        /\ \A i \in DOMAIN s : a[i] = s[i]
    BY <1>1
  <1>3. Q = IF x \in S THEN P \cup {m} ELSE P
    <2> HIDE DEF a, m
    <2> QED
      BY <1>1, <1>2
  <1>4. m \notin P /\ IsFiniteSet(P)
    BY <1>2, AmongIsCount
  <1>5. Among(s, S) = Cardinality(P) /\ Among(a, S) = Cardinality(Q)
    BY DEF Among
  <1>6. Among(s, S) \in Nat
    BY AmongIsCount
  <1> HIDE DEF a, m, P, Q
  <1>7. Cardinality(Q) = Cardinality(P) + (IF x \in S THEN 1 ELSE 0)
    <2>1. CASE x \in S
      BY <1>3, <1>4, <2>1, FS_AddElement
    <2>2. CASE x \notin S
      BY <1>3, <1>5, <1>6, <2>2
    <2> QED
      BY <2>1, <2>2
  <1> QED
    BY <1>5, <1>7 DEF a

\* Deleting entries that are not in the set leaves their number as it is.
LEMMA AmongKeptAt ==
  ASSUME NEW T, NEW s \in Seq(T), NEW P \in SUBSET DOMAIN s, NEW S,
         \A i \in DOMAIN s : s[i] \in S => i \in P
  PROVE  Among(KeptAt(s, P), S) = Among(s, S)
  <1> DEFINE r == KeptAt(s, P)
             A == {n \in DOMAIN r : r[n] \in S}
             B == {i \in DOMAIN s : s[i] \in S}
             f == [n \in A |-> Nth(P, n)]
  <1>1. /\ r \in Seq(T) /\ DOMAIN r = 1 .. Cardinality(P) /\ Cardinality(P) \in Nat
        /\ \A n \in DOMAIN r : Nth(P, n) \in P /\ r[n] = s[Nth(P, n)]
        /\ \A j \in P : \E n \in DOMAIN r : Nth(P, n) = j
        /\ \A m, n \in DOMAIN r : m < n <=> Nth(P, m) < Nth(P, n)
    BY KeptAtProperties
  <1>2. P \in SUBSET Nat
    <2>1. DOMAIN s = 1 .. Len(s)
      OBVIOUS
    <2> QED
      BY <2>1
  <1>3. IsFiniteSet(A) /\ Among(r, S) = Cardinality(A) /\ Among(s, S) = Cardinality(B)
    BY <1>1, AmongIsCount DEF Among
  <1> HIDE DEF r
  <1>4. f \in [A -> B]
    BY <1>1
  <1>5. \A m, n \in A : f[m] = f[n] => m = n
    <2> TAKE m, n \in A
    <2>1. /\ m \in Nat /\ n \in Nat /\ f[m] = Nth(P, m) /\ f[n] = Nth(P, n)
          /\ m \in DOMAIN r /\ n \in DOMAIN r /\ Nth(P, m) \in Nat /\ Nth(P, n) \in Nat
      BY <1>1, <1>2
    <2>2. /\ m < n <=> Nth(P, m) < Nth(P, n)
          /\ n < m <=> Nth(P, n) < Nth(P, m)
      BY <1>1, <2>1
    <2> HIDE DEF A, B, f
    <2> QED
      BY <2>1, <2>2
  <1>6. \A j \in B : \E n \in A : f[n] = j
    <2> TAKE j \in B
    <2>1. j \in P /\ s[j] \in S
      OBVIOUS
    <2>2. PICK n \in DOMAIN r : Nth(P, n) = j
      BY <1>1, <2>1
    <2>3. n \in A
      BY <1>1, <2>1, <2>2
    <2> QED
      BY <2>2, <2>3
  <1> HIDE DEF A, B, f
  <1>7. f \in Bijection(A, B)
    BY <1>4, <1>5, <1>6 DEF Bijection, Injection, Surjection, IsInjective
  <1>8. Cardinality(B) = Cardinality(A)
    BY <1>3, <1>7, FS_Bijection DEF ExistsBijection
  <1> QED
    BY <1>3, <1>8 DEF r

\* The same of cutting off the front.
LEMMA AmongRear ==
  ASSUME NEW T, NEW s \in Seq(T), NEW m \in 1 .. Len(s), NEW S,
         \A i \in 1 .. m - 1 : s[i] \notin S
  PROVE  /\ SubSeq(s, m, Len(s)) \in Seq(T)
         /\ Len(SubSeq(s, m, Len(s))) = Len(s) - m + 1
         /\ \A i \in 1 .. Len(s) - m + 1 : SubSeq(s, m, Len(s))[i] = s[m + i - 1]
         /\ Among(SubSeq(s, m, Len(s)), S) = Among(s, S)
  <1> DEFINE r == SubSeq(s, m, Len(s))
             A == {n \in DOMAIN r : r[n] \in S}
             B == {i \in DOMAIN s : s[i] \in S}
             f == [n \in A |-> m + n - 1]
  <1>1. DOMAIN s = 1 .. Len(s) /\ Len(s) \in Nat /\ m \in Nat /\ 1 <= m /\ m <= Len(s)
    OBVIOUS
  <1>2. /\ r \in Seq(T) /\ Len(r) = Len(s) - m + 1
        /\ \A i \in 1 .. Len(s) - m + 1 : r[i] = s[m + i - 1]
    <2>1. \A i \in m .. Len(s) : s[i] \in T
      BY <1>1, ElementOfSeq
    <2> QED
      BY <1>1, <2>1, SubSeqProperties
  <1>3. DOMAIN r = 1 .. Len(s) - m + 1
    BY <1>2
  <1>4. IsFiniteSet(A) /\ Among(r, S) = Cardinality(A) /\ Among(s, S) = Cardinality(B)
    BY <1>2, AmongIsCount DEF Among
  <1> HIDE DEF r
  <1>5. f \in [A -> B]
    <2> SUFFICES ASSUME NEW n \in A PROVE m + n - 1 \in B
      OBVIOUS
    <2>1. n \in 1 .. Len(s) - m + 1 /\ s[m + n - 1] \in S
      BY <1>2, <1>3
    <2>2. m + n - 1 \in 1 .. Len(s)
      BY <1>1, <2>1
    <2> QED
      BY <1>1, <2>1, <2>2
  <1>6. \A a, b \in A : f[a] = f[b] => a = b
    <2> TAKE a, b \in A
    <2>1. a \in Int /\ b \in Int
      BY <1>3
    <2>2. f[a] = m + a - 1 /\ f[b] = m + b - 1
      OBVIOUS
    <2> HIDE DEF A, B, f
    <2> QED
      BY <1>1, <2>1, <2>2
  <1>7. \A j \in B : \E n \in A : f[n] = j
    <2> TAKE j \in B
    <2>1. j \in 1 .. Len(s) /\ s[j] \in S
      BY <1>1
    <2>2. ~(j <= m - 1)
      BY <1>1, <2>1
    <2> DEFINE n == j - m + 1
    <2>3. n \in 1 .. Len(s) - m + 1 /\ m + n - 1 = j
      BY <1>1, <2>1, <2>2
    <2> HIDE DEF n
    <2>4. n \in A
      BY <1>2, <1>3, <2>1, <2>3
    <2> QED
      BY <2>3, <2>4
  <1> HIDE DEF A, B, f
  <1>8. f \in Bijection(A, B)
    BY <1>5, <1>6, <1>7 DEF Bijection, Injection, Surjection, IsInjective
  <1>9. Cardinality(B) = Cardinality(A)
    BY <1>4, <1>8, FS_Bijection DEF ExistsBijection
  <1> QED
    BY <1>2, <1>4, <1>9 DEF r

\* The first of some places.
LEMMA FirstPlace ==
  ASSUME NEW P \in SUBSET Int, IsFiniteSet(P), P # {}
  PROVE  Min(P) \in P /\ \A j \in P : Min(P) <= j
  <1>1. Cardinality(P) \in Nat /\ Cardinality(P) # 0
    BY FS_CardinalityType, FS_EmptySet
  <1>2. /\ Nth(P, 1) \in P
        /\ \A j \in P : Rank(P, j) \in 1 .. Cardinality(P) /\ Nth(P, Rank(P, j)) = j
        /\ \A m, n \in 1 .. Cardinality(P) : m < n <=> Nth(P, m) < Nth(P, n)
    BY <1>1, NthProperties
  <1>3. ASSUME NEW j \in P PROVE Nth(P, 1) <= j
    <2>1. Rank(P, j) = 1 \/ 1 < Rank(P, j)
      BY <1>2
    <2>2. 1 < Rank(P, j) => Nth(P, 1) < j
      BY <1>1, <1>2
    <2>3. Nth(P, 1) \in Int /\ j \in Int
      BY <1>2
    <2> QED
      BY <1>2, <2>1, <2>2, <2>3
  <1> QED
    BY <1>2, <1>3 DEF Min

-----------------------------------------------------------------------------
(* The window *)

\* What is held after a query counts like what was held before it and the query.
CountsAlike(b, at, held, given) ==
  \A S \in SUBSET Times : (\A t \in S : InWindow(b, t, at)) => Among(held, S) = Among(given, S)

Sorted(s) == \A i, j \in DOMAIN s : i < j => s[i] <= s[j]

\* The deque is cut before the first entry that is young enough.
LEMMA PurgedProperties ==
  ASSUME NEW s \in Seq(Times), NEW cutoff \in Int, \E i \in DOMAIN s : s[i] >= cutoff
  PROVE  \E m \in 1 .. Len(s) :
           /\ Purged(s, cutoff) = SubSeq(s, m, Len(s)) /\ s[m] >= cutoff
           /\ \A i \in 1 .. m - 1 : ~(s[i] >= cutoff)
  <1> DEFINE young == {i \in DOMAIN s : s[i] >= cutoff}
  <1>1. DOMAIN s = 1 .. Len(s) /\ Len(s) \in Nat
    OBVIOUS
  <1>2. young \in SUBSET (1 .. Len(s)) /\ young # {}
    BY <1>1
  <1>3. IsFiniteSet(young)
    <2> HIDE DEF young
    <2>1. IsFiniteSet(1 .. Len(s))
      BY <1>1, FS_Interval
    <2> QED
      BY <1>2, <2>1, FS_Subset
  <1>4. Min(young) \in young /\ \A j \in young : Min(young) <= j
    <2> HIDE DEF young
    <2>1. young \in SUBSET Int
      BY <1>2
    <2> QED
      BY <1>2, <1>3, <2>1, FirstPlace
  <1>5. Purged(s, cutoff) = SubSeq(s, Min(young), Len(s))
    BY <1>2 DEF Purged
  <1> DEFINE m == Min(young)
  <1> HIDE DEF m
  <1>6. m \in 1 .. Len(s) /\ s[m] >= cutoff /\ \A j \in young : m <= j
    BY <1>1, <1>4 DEF m
  <1>7. \A i \in 1 .. m - 1 : ~(s[i] >= cutoff)
    <2> TAKE i \in 1 .. m - 1
    <2>1. i \in 1 .. Len(s) /\ ~(m <= i)
      BY <1>1, <1>6
    <2> QED
      BY <1>1, <1>6, <2>1
  <1> QED
    BY <1>5, <1>6, <1>7 DEF m

\* What the process holds after a query: everything of the last window, nothing
\* older if it came in order.
LEMMA QueueProperties ==
  ASSUME NEW s \in Seq(Times), NEW at \in Times
  PROVE  LET queue == Purged(Append(s, at), at - Window)
         IN  /\ queue \in Seq(Times)
             /\ CountsAlike("memory", at, queue, Append(s, at))
             /\ \A i \in DOMAIN queue : queue[i] = at \/ \E j \in DOMAIN s : queue[i] = s[j]
             /\ Sorted(Append(s, at)) =>
                  /\ Sorted(queue)
                  /\ \A i \in DOMAIN queue : InWindow("memory", queue[i], at)
  <1> DEFINE a == Append(s, at)
             cutoff == at - Window
             queue == Purged(a, cutoff)
             k == Len(a)
  <1>1. /\ a \in Seq(Times) /\ k \in Nat /\ DOMAIN a = 1 .. k /\ k = Len(s) + 1 /\ a[k] = at
        /\ Len(s) \in Nat /\ DOMAIN s = 1 .. Len(s) /\ \A i \in 1 .. Len(s) : a[i] = s[i]
    BY AppendProperties
  <1>2. /\ Times \subseteq Int /\ at \in Int /\ cutoff \in Int /\ at >= cutoff
    BY WindowAssumption DEF Times
  <1> HIDE DEF a, k
  <1>3. PICK m \in 1 .. k :
          /\ queue = SubSeq(a, m, k) /\ a[m] >= cutoff
          /\ \A i \in 1 .. m - 1 : ~(a[i] >= cutoff)
    <2>1. k \in DOMAIN a /\ a[k] >= cutoff
      BY <1>1, <1>2
    <2> HIDE DEF queue, cutoff
    <2> QED
      BY <1>1, <1>2, <2>1, PurgedProperties DEF queue, k
  <1> HIDE DEF queue
  <1>4. /\ queue \in Seq(Times) /\ Len(queue) = k - m + 1 /\ DOMAIN queue = 1 .. k - m + 1
        /\ \A i \in 1 .. k - m + 1 : queue[i] = a[m + i - 1]
    <2>1. \A i \in 1 .. m - 1 : a[i] \notin {}
      OBVIOUS
    <2> QED
      BY <1>1, <1>3, <2>1, AmongRear DEF k
  <1>5. ASSUME NEW S \in SUBSET Times, \A t \in S : InWindow("memory", t, at)
        PROVE  Among(queue, S) = Among(a, S)
    <2>1. \A i \in 1 .. m - 1 : a[i] \notin S
      BY <1>3, <1>5 DEF InWindow
    <2> QED
      BY <1>1, <1>3, <2>1, AmongRear DEF k
  <1>6. ASSUME NEW i \in DOMAIN queue
        PROVE  queue[i] = at \/ \E j \in DOMAIN s : queue[i] = s[j]
    <2>1. queue[i] = a[m + i - 1] /\ m + i - 1 \in 1 .. k
      BY <1>1, <1>3, <1>4
    <2>2. CASE m + i - 1 = k
      BY <1>1, <2>1, <2>2
    <2>3. CASE m + i - 1 \in 1 .. Len(s)
      BY <1>1, <2>1, <2>3
    <2> QED
      BY <1>1, <2>1, <2>2, <2>3
  <1>7. ASSUME Sorted(a)
        PROVE  Sorted(queue) /\ \A i \in DOMAIN queue : InWindow("memory", queue[i], at)
    <2>1. \A i \in DOMAIN queue : i \in Int /\ m + i - 1 \in DOMAIN a /\ queue[i] = a[m + i - 1]
      BY <1>1, <1>3, <1>4
    <2>2. \A i, j \in DOMAIN queue : i < j => m + i - 1 < m + j - 1
      BY <1>3, <2>1
    <2>3. Sorted(queue)
      BY <1>7, <2>1, <2>2 DEF Sorted
    <2>4. ASSUME NEW i \in DOMAIN queue PROVE queue[i] >= cutoff
      <3>1. m \in DOMAIN a /\ m + i - 1 \in DOMAIN a /\ (m = m + i - 1 \/ m < m + i - 1)
        BY <1>1, <1>3, <1>4, <2>1
      <3>2. \A x \in 1 .. k : a[x] \in Times
        BY <1>1
      <3>3. a[m] \in Int /\ a[m + i - 1] \in Int
        BY <1>1, <1>2, <3>1, <3>2
      <3>4. a[m] <= a[m + i - 1]
        BY <1>7, <3>1, <3>3 DEF Sorted
      <3>5. queue[i] = a[m + i - 1] /\ cutoff \in Int /\ a[m] >= cutoff
        BY <1>2, <1>3, <2>1
      <3> HIDE DEF cutoff
      <3> QED
        BY <3>3, <3>4, <3>5
    <2> QED
      BY <2>3, <2>4 DEF InWindow
  <1> QED
    BY <1>4, <1>5, <1>6, <1>7 DEF queue, a, CountsAlike

\* What Redis holds after a query: everything of the last window and nothing older.
LEMMA ZSetProperties ==
  ASSUME NEW s \in Seq(Times), NEW at \in Times
  PROVE  LET held == Append(Removed(s, at - Window), at)
         IN  /\ held \in Seq(Times)
             /\ CountsAlike("redis", at, held, Append(s, at))
             /\ \A i \in DOMAIN held : InWindow("redis", held[i], at)
  <1> DEFINE P == {i \in DOMAIN s : s[i] > at - Window}
             r == Removed(s, at - Window)
             held == Append(r, at)
  <1>1. P \in SUBSET DOMAIN s /\ r = KeptAt(s, P)
    BY DEF Removed
  <1>2. \A i \in P : s[i] > at - Window
    OBVIOUS
  <1>3. \A i \in DOMAIN s \ P : ~(s[i] > at - Window)
    OBVIOUS
  <1> HIDE DEF P, r
  <1>4. /\ r \in Seq(Times) /\ DOMAIN r = 1 .. Len(r) /\ Len(r) \in Nat
        /\ \A n \in DOMAIN r : r[n] > at - Window
    BY <1>1, <1>2, KeptAtProperties
  <1>5. /\ held \in Seq(Times) /\ DOMAIN held = 1 .. Len(r) + 1
        /\ \A n \in 1 .. Len(r) : held[n] = r[n]
        /\ held[Len(r) + 1] = at
    BY <1>4, AppendProperties
  <1>6. at \in Int /\ at > at - Window
    BY WindowAssumption DEF Times
  <1>7. ASSUME NEW i \in DOMAIN held PROVE InWindow("redis", held[i], at)
    <2>1. CASE i \in 1 .. Len(r)
      BY <1>4, <1>5, <2>1 DEF InWindow
    <2>2. CASE i = Len(r) + 1
      BY <1>5, <1>6, <2>2 DEF InWindow
    <2> QED
      BY <1>4, <1>5, <2>1, <2>2
  <1>8. ASSUME NEW S \in SUBSET Times, \A t \in S : InWindow("redis", t, at)
        PROVE  Among(held, S) = Among(Append(s, at), S)
    <2>1. \A t \in S : t > at - Window
      BY <1>8 DEF InWindow
    <2>2. Among(r, S) = Among(s, S)
      BY <1>1, <1>3, <2>1, AmongKeptAt
    <2>3. /\ Among(held, S) = Among(r, S) + (IF at \in S THEN 1 ELSE 0)
          /\ Among(Append(s, at), S) = Among(s, S) + (IF at \in S THEN 1 ELSE 0)
      BY <1>4, AmongAppend
    <2> QED
      BY <2>2, <2>3
  <1> QED
    BY <1>5, <1>7, <1>8 DEF r, CountsAlike

-----------------------------------------------------------------------------
(* The invariant *)

\* What each backend holds, and what it was given, are sequences of times.
HistoryTypes ==
  /\ window \in [Clients -> [Backends -> Seq(Times)]]
  /\ log \in [Clients -> [Backends -> Seq(Times)]]

\* What of a sequence is left from its m-th place on.
Rear(s, m) == SubSeq(s, m, Len(s))

\* Any set of times that can still count is held as it was given, in Redis as far
\* as it was given less than two windows ago.
WindowInv ==
  \A c \in Clients, b \in Backends, S \in SUBSET Times :
    (\A t \in S : \A i \in DOMAIN log[c][b] : InWindow(b, t, log[c][b][i])) =>
      /\ Among(window[c][b], S) <= Among(log[c][b], S)
      /\ \A m \in DOMAIN log[c][b] : (b = "redis" => FreshAt(heard[c], m, clock)) =>
           Among(Rear(log[c][b], m), S) <= Among(window[c][b], S)

\* Redis keeps a key for two windows after each time that it was given an entry.
ExpiryInv ==
  \A c \in Clients :
    /\ Len(heard[c]) = Len(log[c]["redis"])
    /\ \A i \in DOMAIN heard[c] :
         heard[c][i] <= clock /\ heard[c][i] + 2 * Window <= expires[c]

\* A deque that was given its entries in order holds them in order.
SortedInv ==
  \A c \in Clients : Sorted(log[c]["memory"]) =>
    /\ Sorted(window[c]["memory"])
    /\ \A i \in DOMAIN window[c]["memory"] :
         \E j \in DOMAIN log[c]["memory"] : window[c]["memory"][i] = log[c]["memory"][j]

VolumeInv == VolumeTypeOK /\ HistoryTypes /\ WindowInv /\ ExpiryInv /\ SortedInv

\* A sequence stays in order if what is added comes last.
LEMMA SortedAppend ==
  ASSUME NEW s \in Seq(Times), NEW x \in Times
  PROVE  /\ Sorted(Append(s, x)) <=> Sorted(s) /\ \A i \in DOMAIN s : s[i] <= x
         /\ Sorted(Append(s, x)) => \A i \in DOMAIN Append(s, x) : Append(s, x)[i] <= x
  <1> DEFINE a == Append(s, x)
             n == Len(s)
  <1>1. /\ n \in Nat /\ DOMAIN s = 1 .. n /\ DOMAIN a = 1 .. n + 1
        /\ \A i \in 1 .. n : a[i] = s[i]
        /\ a[n + 1] = x /\ x \in Int
    BY AppendProperties DEF Times
  <1> HIDE DEF a, n
  <1>2. Sorted(a) => Sorted(s) /\ \A i \in DOMAIN s : s[i] <= x
    BY <1>1 DEF Sorted
  <1>3. Sorted(s) /\ (\A i \in DOMAIN s : s[i] <= x) => Sorted(a)
    BY <1>1 DEF Sorted
  <1>4. Sorted(a) => \A i \in DOMAIN a : a[i] <= x
    BY <1>1, <1>2
  <1> QED
    BY <1>2, <1>3, <1>4 DEF a

\* What Redis was given when is a number.
LEMMA HeardIsNumber ==
  ASSUME NEW s \in Seq(0 .. MaxClock), NEW i \in DOMAIN s
  PROVE  s[i] \in Int
  <1> DEFINE T == 0 .. MaxClock
  <1>1. s[i] \in T
    <2>1. s \in Seq(T) /\ i \in DOMAIN s
      OBVIOUS
    <2> HIDE DEF T
    <2> QED
      BY <2>1
  <1>2. MaxClock \in Int
    BY WindowAssumption
  <1> QED
    BY <1>1, <1>2

\* One more entry counts in what is left from any place on.
LEMMA RearAppend ==
  ASSUME NEW s \in Seq(Times), NEW x \in Times, NEW m \in 1 .. Len(s) + 1, NEW S
  PROVE  Among(Rear(Append(s, x), m), S)
           = (IF m \in DOMAIN s THEN Among(Rear(s, m), S) ELSE 0) + (IF x \in S THEN 1 ELSE 0)
  <1> DEFINE a == Append(s, x)
             n == Len(s)
             u == SubSeq(s, m, n)
             v == SubSeq(a, m, n + 1)
  <1>1. /\ n \in Nat /\ DOMAIN s = 1 .. n /\ Len(a) = n + 1 /\ m \in 1 .. n + 1
        /\ a \in Seq(Times) /\ \A i \in 1 .. n : a[i] = s[i]
        /\ a[n + 1] = x
    BY AppendProperties
  <1>2. /\ u \in Seq(Times) /\ Len(u) = n - m + 1 /\ DOMAIN u = 1 .. n - m + 1
        /\ \A i \in 1 .. n - m + 1 : u[i] = s[m + i - 1]
    BY <1>1
  <1>3. /\ v \in Seq(Times) /\ Len(v) = n - m + 2
        /\ \A i \in 1 .. n - m + 2 : v[i] = a[m + i - 1]
    <2> HIDE DEF a
    <2> QED
      BY <1>1
  <1>4. Rear(a, m) = v /\ Rear(s, m) = u
    BY <1>1 DEF Rear
  <1> HIDE DEF a, n, u, v
  <1>5. v = Append(u, x)
    <2> DEFINE w == Append(u, x)
               j == Len(u)
    <2>0. /\ w \in Seq(Times) /\ Len(w) = j + 1
          /\ \A i \in 1 .. j : w[i] = u[i]
          /\ w[j + 1] = x
      <3>1. u \in Seq(Times)
        BY <1>2
      <3> QED
        BY <3>1, AppendProperties
    <2> HIDE DEF w
    <2>1. /\ w \in Seq(Times) /\ Len(w) = n - m + 2
          /\ \A i \in 1 .. n - m + 1 : w[i] = u[i]
          /\ w[n - m + 2] = x
      <3>1. j = n - m + 1 /\ j + 1 = n - m + 2
        BY <1>1, <1>2
      <3> HIDE DEF j
      <3> QED
        BY <2>0, <3>1
    <2>2. ASSUME NEW i \in 1 .. n - m + 2 PROVE v[i] = w[i]
      <3>1. CASE i \in 1 .. n - m + 1
        <4>1. m + i - 1 \in 1 .. n
          BY <1>1, <3>1
        <4> QED
          BY <1>1, <1>2, <1>3, <2>1, <3>1, <4>1
      <3>2. CASE i = n - m + 2
        <4>1. m + i - 1 = n + 1
          BY <1>1, <3>2
        <4> QED
          BY <1>1, <1>3, <2>1, <3>2, <4>1
      <3> QED
        BY <1>1, <3>1, <3>2
    <2>3. v = w
      BY <1>1, <1>3, <2>1, <2>2, SeqEqual
    <2> QED
      BY <2>3 DEF w
  <1>6. Among(v, S) = Among(u, S) + (IF x \in S THEN 1 ELSE 0)
    BY <1>2, <1>5, AmongAppend
  <1>7. CASE m \in DOMAIN s
    BY <1>4, <1>6, <1>7 DEF a
  <1>8. CASE m \notin DOMAIN s
    <2>1. DOMAIN u = {}
      BY <1>1, <1>2, <1>8
    <2>2. Among(u, S) = 0
      BY <1>2, <2>1, AmongIsCount
    <2> QED
      BY <1>4, <1>6, <1>8, <2>2 DEF a
  <1> QED
    BY <1>7, <1>8

\* What a client's other backend and the other clients hold stays as it is.
LEMMA Elsewhere ==
  ASSUME NEW F \in [Clients -> [Backends -> Seq(Times)]], NEW c \in Clients,
         NEW b \in Backends, NEW s \in Seq(Times)
  PROVE  /\ [F EXCEPT ![c][b] = s] \in [Clients -> [Backends -> Seq(Times)]]
         /\ [F EXCEPT ![c][b] = s][c][b] = s
         /\ \A d \in Clients, e \in Backends :
              ~(d = c /\ e = b) => [F EXCEPT ![c][b] = s][d][e] = F[d][e]
  OBVIOUS

\* A backend records a query: nothing that can still count is lost.
LEMMA RecordKeepsWindow ==
  ASSUME VolumeInv, NEW c \in Clients, NEW b \in Backends, NEW at \in Times,
         NEW held \in Seq(Times),
         CountsAlike(b, at, held, Append(window[c][b], at)),
         HistoryTypes', window'[c][b] = held, log'[c][b] = Append(log[c][b], at),
         \A d \in Clients, e \in Backends : ~(d = c /\ e = b) =>
           window'[d][e] = window[d][e] /\ log'[d][e] = log[d][e],
         \A d \in Clients : \A m \in DOMAIN log[d]["redis"] : heard'[d][m] = heard[d][m],
         clock' = clock
  PROVE  WindowInv'
  <1>1. /\ window \in [Clients -> [Backends -> Seq(Times)]]
        /\ log \in [Clients -> [Backends -> Seq(Times)]]
        /\ log[c][b] \in Seq(Times) /\ window[c][b] \in Seq(Times)
        /\ Append(log[c][b], at) \in Seq(Times)
    BY DEF VolumeInv, HistoryTypes
  <1>4. ASSUME NEW d \in Clients, NEW e \in Backends, NEW S \in SUBSET Times,
               \A t \in S : \A i \in DOMAIN log'[d][e] : InWindow(e, t, log'[d][e][i])
        PROVE  /\ Among(window'[d][e], S) <= Among(log'[d][e], S)
               /\ \A m \in DOMAIN log'[d][e] : (e = "redis" => FreshAt(heard'[d], m, clock')) =>
                    Among(Rear(log'[d][e], m), S) <= Among(window'[d][e], S)
    <2>1. CASE ~(d = c /\ e = b)
      <3>1. window'[d][e] = window[d][e] /\ log'[d][e] = log[d][e]
        BY <2>1
      <3>2. \A m \in DOMAIN log[d][e] :
              (e = "redis" => FreshAt(heard'[d], m, clock'))
                => (e = "redis" => FreshAt(heard[d], m, clock))
        BY DEF FreshAt
      <3>3. \A t \in S : \A i \in DOMAIN log[d][e] : InWindow(e, t, log[d][e][i])
        BY <1>4, <3>1
      <3>4. /\ Among(window[d][e], S) <= Among(log[d][e], S)
            /\ \A m \in DOMAIN log[d][e] : (e = "redis" => FreshAt(heard[d], m, clock)) =>
                 Among(Rear(log[d][e], m), S) <= Among(window[d][e], S)
        BY <3>3 DEF VolumeInv, WindowInv
      <3> QED
        BY <3>1, <3>2, <3>4
    <2>2. CASE d = c /\ e = b
      <3> DEFINE s == log[c][b]
                 k == window[c][b]
                 one == IF at \in S THEN 1 ELSE 0
      <3>1. /\ DOMAIN s = 1 .. Len(s) /\ Len(s) \in Nat
            /\ DOMAIN Append(s, at) = 1 .. Len(s) + 1
            /\ \A i \in 1 .. Len(s) : Append(s, at)[i] = s[i]
            /\ Append(s, at)[Len(s) + 1] = at
        BY <1>1, AppendProperties
      <3>2. log'[d][e] = Append(s, at) /\ window'[d][e] = held
        BY <2>2
      <3>3. s \in Seq(Times) /\ k \in Seq(Times)
        BY <1>1
      <3>4. CountsAlike(b, at, held, Append(k, at))
        OBVIOUS
      <3>5. \A m \in DOMAIN s :
              (b = "redis" => FreshAt(heard'[c], m, clock'))
                => (b = "redis" => FreshAt(heard[c], m, clock))
        BY DEF FreshAt
      <3> HIDE DEF s, k
      <3>6. \A t \in S : InWindow(b, t, at)
        BY <1>4, <2>2, <3>1, <3>2
      <3>7. \A t \in S : \A i \in DOMAIN s : InWindow(b, t, s[i])
        BY <1>4, <2>2, <3>1, <3>2
      <3>8. /\ Among(k, S) <= Among(s, S)
            /\ \A m \in DOMAIN s : (b = "redis" => FreshAt(heard[c], m, clock)) =>
                 Among(Rear(s, m), S) <= Among(k, S)
        BY <3>7 DEF s, k, VolumeInv, WindowInv
      <3>9. Among(held, S) = Among(k, S) + one
        <4>1. Among(held, S) = Among(Append(k, at), S)
          BY <3>4, <3>6 DEF CountsAlike
        <4> QED
          BY <3>3, <4>1, AmongAppend
      <3>10. Among(Append(s, at), S) = Among(s, S) + one
        BY <3>3, AmongAppend
      <3>11. one \in {0, 1} /\ Among(k, S) \in Nat /\ Among(s, S) \in Nat
        <4>1. Among(k, S) \in Nat /\ Among(s, S) \in Nat
          BY <3>3, AmongIsCount
        <4> QED
          BY <4>1
      <3>12. ASSUME NEW m \in 1 .. Len(s) + 1, b = "redis" => FreshAt(heard'[c], m, clock')
             PROVE  Among(Rear(Append(s, at), m), S) <= Among(held, S)
        <4>1. Among(Rear(Append(s, at), m), S)
                = (IF m \in DOMAIN s THEN Among(Rear(s, m), S) ELSE 0) + one
          BY <3>3, RearAppend
        <4> HIDE DEF one
        <4>2. CASE m \in DOMAIN s
          <5>1. Among(Rear(s, m), S) <= Among(k, S)
            BY <3>5, <3>8, <3>12, <4>2
          <5>2. Among(Rear(s, m), S) \in Nat
            <6>1. Rear(s, m) \in Seq(Times)
              BY <3>1, <3>3, <4>2 DEF Rear
            <6> QED
              BY <6>1, AmongIsCount
          <5> QED
            BY <3>9, <3>11, <4>1, <4>2, <5>1, <5>2
        <4>3. CASE m \notin DOMAIN s
          BY <3>9, <3>11, <4>1, <4>3
        <4> QED
          BY <4>2, <4>3
      <3> HIDE DEF one
      <3>13. Among(held, S) <= Among(Append(s, at), S)
        BY <3>8, <3>9, <3>10, <3>11
      <3> QED
        BY <2>2, <3>1, <3>2, <3>12, <3>13
    <2> QED
      BY <2>1, <2>2
  <1> QED
    BY <1>4 DEF WindowInv

-----------------------------------------------------------------------------
(* The steps *)

\* Whatever the count, the score stays within its range.
LEMMA ScoreInRange ==
  ASSUME NEW shape \in Shapes, NEW count
  PROVE  TunnelScore(shape, count) \in Scores
  <1> DEFINE v == VolumePoints(count)
             points == shape + v
  <1>1. v \in {0, 1500, 2500}
    BY DEF VolumePoints
  <1>2. shape \in 0 .. 9500
    BY WindowAssumption
  <1>3. TunnelScore(shape, count) = IF points > 10000 THEN 10000 ELSE points
    BY DEF TunnelScore
  <1> HIDE DEF v
  <1>4. points \in Int /\ points >= 0
    BY <1>1, <1>2
  <1> HIDE DEF points
  <1> QED
    BY <1>3, <1>4 DEF Scores

\* What the fields of a job are.
LEMMA JobFields ==
  ASSUME NEW j \in Job
  PROVE  /\ j.client \in Clients /\ j.at \in Times /\ j.shape \in Shapes
         /\ j.backend \in Backends
         /\ Times \subseteq Int /\ j.at \in Int
  <1>1. j.client \in Clients /\ j.at \in Times /\ j.shape \in Shapes /\ j.backend \in Backends
    BY DEF Job
  <1>2. Times \subseteq Int
    BY DEF Times
  <1>3. j.at \in Int
    BY <1>1, <1>2, Zenon
  <1> QED
    BY <1>1, <1>2, <1>3

\* A field of a job may be overwritten with a value of the field's own set.
LEMMA StepField ==
  ASSUME NEW j \in Job, NEW x \in {"idle", "record", "fallback", "scored"}, NEW k,
         k = [j EXCEPT !.step = x]
  PROVE  k \in Job /\ k.at = j.at /\ k.step = x
  <1>1. k \in Job
    BY DEF Job
  <1>2. k.at = j.at /\ k.step = x
    BY DEF Job
  <1> QED
    BY <1>1, <1>2

\* A job handed to another backend is otherwise the same.
LEMMA BackendField ==
  ASSUME NEW j \in Job, NEW x \in Backends, NEW k, k = [j EXCEPT !.backend = x]
  PROVE  k \in Job /\ k.at = j.at /\ k.step = j.step /\ k.backend = x
  <1>1. k \in Job
    BY DEF Job
  <1>2. k.at = j.at /\ k.step = j.step /\ k.backend = x
    BY DEF Job
  <1> QED
    BY <1>1, <1>2

\* A job that was scored is otherwise the same.
LEMMA ScoreField ==
  ASSUME NEW j \in Job, NEW x \in Scores, NEW k, k = [j EXCEPT !.score = x]
  PROVE  k \in Job /\ k.at = j.at /\ k.step = j.step /\ k.backend = j.backend /\ k.score = x
  <1>1. k \in Job
    BY DEF Job
  <1>2. k.at = j.at /\ k.step = j.step /\ k.backend = j.backend /\ k.score = x
    BY DEF Job
  <1> QED
    BY <1>1, <1>2

\* An idle worker has a job of the type, and no timestamp.
LEMMA NoJobIsJob == NoJob \in Job /\ NoJob.at = 0
  <1>1. (CHOOSE c \in Clients : TRUE) \in Clients /\ (CHOOSE s \in Shapes : TRUE) \in Shapes
    BY WindowAssumption
  <1>2. 0 \in Times /\ 0 \in Scores
    BY WindowAssumption DEF Times, Scores
  <1> QED
    BY <1>1, <1>2 DEF NoJob, Job, Backends

\* The invariant holds before the first query,
LEMMA VolumeInvInitially == Init => VolumeInv
  <1> SUFFICES ASSUME Init PROVE VolumeInv
    OBVIOUS
  <1>1. <<>> \in Seq(Times) /\ DOMAIN <<>> = {}
    OBVIOUS
  <1>2. \A c \in Clients, b \in Backends : window[c][b] = <<>> /\ log[c][b] = <<>>
    BY DEF Init, Nothing
  <1>3. HistoryTypes
    BY <1>1 DEF Init, Nothing, HistoryTypes
  <1>4. \A w \in Workers : job[w] = NoJob
    BY DEF Init
  <1>5. VolumeTypeOK
    <2>1. 0 \in 0 .. MaxClock + 2 * Window /\ 0 \in 0 .. MaxClock
      BY WindowAssumption
    <2>2. heard \in [Clients -> Seq(0 .. MaxClock)]
      <3>1. <<>> \in Seq(0 .. MaxClock)
        OBVIOUS
      <3> QED
        BY <3>1 DEF Init
    <2> QED
      BY <1>1, <1>2, <2>1, <2>2, NoJobIsJob DEF Init, VolumeTypeOK
  <1>6. WindowInv
    <2>1. \A S : Among(<<>>, S) \in Nat
      BY <1>1, AmongIsCount
    <2>2. \A S : Among(<<>>, S) <= Among(<<>>, S)
      BY <2>1
    <2> QED
      BY <1>1, <1>2, <2>2 DEF WindowInv
  <1>7. ExpiryInv
    <2>1. \A c \in Clients : heard[c] = <<>> /\ log[c]["redis"] = <<>>
      BY <1>2 DEF Init, Backends
    <2> QED
      BY <1>1, <2>1 DEF ExpiryInv
  <1>8. SortedInv
    BY <1>1, <1>2 DEF SortedInv, Sorted, Backends
  <1> QED
    BY <1>3, <1>5, <1>6, <1>7, <1>8 DEF VolumeInv

\* What is held stays as it is, and the clock does not go back.
LEMMA HistoryUntouched ==
  ASSUME VolumeInv, UNCHANGED <<window, log, heard>>, clock' \in 0 .. MaxClock, clock <= clock'
  PROVE  HistoryTypes' /\ WindowInv' /\ SortedInv'
  <1>1. clock \in Int /\ clock' \in Int /\ Window \in Int
    BY WindowAssumption DEF VolumeInv, VolumeTypeOK
  <1>2. ASSUME NEW c \in Clients, NEW m \in DOMAIN log[c]["redis"], FreshAt(heard'[c], m, clock')
        PROVE  FreshAt(heard[c], m, clock)
    <2> DEFINE n == heard[c][m]
               now == clock
               later == clock'
    <2>1. n \in Int
      <3>1. heard[c] \in Seq(0 .. MaxClock) /\ Len(heard[c]) = Len(log[c]["redis"])
        BY DEF VolumeInv, VolumeTypeOK, ExpiryInv
      <3>2. log[c]["redis"] \in Seq(Times)
        BY DEF VolumeInv, HistoryTypes, Backends
      <3>3. m \in DOMAIN heard[c]
        BY <3>1, <3>2
      <3> QED
        BY <3>1, <3>3, HeardIsNumber
    <2>2. n + 2 * Window > later
      BY <1>2 DEF FreshAt
    <2>3. now \in Int /\ later \in Int /\ now <= later
      BY <1>1
    <2> HIDE DEF n, now, later
    <2>4. n + 2 * Window > now
      BY <1>1, <2>1, <2>2, <2>3
    <2> QED
      BY <2>4 DEF n, now, FreshAt
  <1>3. WindowInv'
    <2> SUFFICES ASSUME NEW c \in Clients, NEW b \in Backends, NEW S \in SUBSET Times,
                        \A t \in S : \A i \in DOMAIN log[c][b] : InWindow(b, t, log[c][b][i])
                 PROVE  /\ Among(window[c][b], S) <= Among(log[c][b], S)
                        /\ \A m \in DOMAIN log[c][b] :
                           (b = "redis" => FreshAt(heard'[c], m, clock')) =>
                             Among(Rear(log[c][b], m), S) <= Among(window[c][b], S)
      BY DEF WindowInv
    <2>1. /\ Among(window[c][b], S) <= Among(log[c][b], S)
          /\ \A m \in DOMAIN log[c][b] : (b = "redis" => FreshAt(heard[c], m, clock)) =>
               Among(Rear(log[c][b], m), S) <= Among(window[c][b], S)
      BY DEF VolumeInv, WindowInv
    <2>2. \A m \in DOMAIN log[c][b] :
            (b = "redis" => FreshAt(heard'[c], m, clock'))
              => (b = "redis" => FreshAt(heard[c], m, clock))
      BY <1>2
    <2> QED
      BY <2>1, <2>2
  <1> QED
    BY <1>3 DEF VolumeInv, HistoryTypes, SortedInv

\* A worker takes a query or gives it back.
LEMMA JobStep ==
  ASSUME VolumeInv, NEW w \in Workers, NEW j \in Job,
         job' = [job EXCEPT ![w] = j],
         UNCHANGED <<useRedis, window, expires, clock, log, heard>>
  PROVE  VolumeInv'
  <1>1. clock' \in 0 .. MaxClock /\ clock <= clock'
    BY DEF VolumeInv, VolumeTypeOK
  <1>2. HistoryTypes' /\ WindowInv' /\ SortedInv'
    BY <1>1, HistoryUntouched
  <1>3. VolumeTypeOK'
    BY DEF VolumeInv, VolumeTypeOK
  <1>5. ExpiryInv'
    BY DEF VolumeInv, ExpiryInv
  <1> QED
    BY <1>2, <1>3, <1>5 DEF VolumeInv

\* and each step keeps it.  A query comes in:
LEMMA ReceiveKeeps ==
  ASSUME VolumeInv, NEW w \in Workers, Receive(w)
  PROVE  VolumeInv'
  <1>1. PICK c \in Clients, at \in 0 .. clock + Skew, shape \in Shapes :
          job' = [job EXCEPT ![w] = [step |-> "record", client |-> c, at |-> at, shape |-> shape,
                                     backend |-> "memory", score |-> 0]]
    BY DEF Receive
  <1> DEFINE j == [step |-> "record", client |-> c, at |-> at, shape |-> shape,
                   backend |-> "memory", score |-> 0]
  <1>2. at \in Times
    BY WindowAssumption DEF VolumeInv, VolumeTypeOK, Times
  <1>3. 0 \in Scores /\ "memory" \in Backends
    BY DEF Backends, Scores
  <1>4. j \in Job
    BY <1>2, <1>3 DEF Job
  <1>5. job' = [job EXCEPT ![w] = j] /\ UNCHANGED <<useRedis, window, expires, clock, log, heard>>
    BY <1>1 DEF Receive
  <1> HIDE DEF j
  <1> QED
    BY <1>4, <1>5, JobStep

\* An analysis ends.
LEMMA FinishKeeps ==
  ASSUME VolumeInv, NEW w \in Workers, Finish(w)
  PROVE  VolumeInv'
  <1> QED
    BY NoJobIsJob, JobStep DEF Finish

\* Time passes: what could still count before may not do so any more.
LEMMA TickKeeps ==
  ASSUME VolumeInv, Tick
  PROVE  VolumeInv'
  <1>1. clock \in Int /\ clock' = clock + 1 /\ clock' \in 0 .. MaxClock /\ clock <= clock'
    BY WindowAssumption DEF VolumeInv, VolumeTypeOK, Tick
  <1>2. UNCHANGED <<useRedis, window, expires, job, log, heard>>
    BY DEF Tick
  <1>3. HistoryTypes' /\ WindowInv' /\ SortedInv'
    BY <1>1, <1>2, HistoryUntouched
  <1>4. VolumeTypeOK'
    BY <1>1, <1>2 DEF VolumeInv, VolumeTypeOK
  <1>5. ASSUME NEW c \in Clients, NEW i \in DOMAIN heard[c]
        PROVE  heard[c][i] <= clock'
    <2> DEFINE n == heard[c][i]
    <2>1. n \in Int
      <3>1. heard[c] \in Seq(0 .. MaxClock)
        BY DEF VolumeInv, VolumeTypeOK
      <3> QED
        BY <3>1, HeardIsNumber
    <2>2. n <= clock
      BY DEF VolumeInv, ExpiryInv
    <2> HIDE DEF n
    <2>3. n <= clock'
      BY <1>1, <2>1, <2>2
    <2> QED
      BY <2>3 DEF n
  <1>8. ExpiryInv'
    BY <1>2, <1>5 DEF VolumeInv, ExpiryInv
  <1> QED
    BY <1>3, <1>4, <1>8 DEF VolumeInv

\* Redis drops a key: nothing that it was given can count any more.
LEMMA ExpireKeeps ==
  ASSUME VolumeInv, NEW c \in Clients, Expire(c)
  PROVE  VolumeInv'
  <1>1. /\ window' = [window EXCEPT ![c]["redis"] = <<>>]
        /\ UNCHANGED <<useRedis, expires, job, clock, log, heard>>
        /\ clock >= expires[c]
    BY DEF Expire
  <1>2. "redis" \in Backends /\ "memory" \in Backends /\ <<>> \in Seq(Times)
    BY DEF Backends
  <1>3. /\ window' \in [Clients -> [Backends -> Seq(Times)]]
        /\ window'[c]["redis"] = <<>>
        /\ \A d \in Clients, e \in Backends :
             ~(d = c /\ e = "redis") => window'[d][e] = window[d][e]
    BY <1>1, <1>2, Elsewhere DEF VolumeInv, HistoryTypes
  <1>4. HistoryTypes'
    BY <1>1, <1>3 DEF VolumeInv, HistoryTypes
  <1>5. VolumeTypeOK'
    <2>1. \A d \in Clients, e \in Backends : window'[d][e] \in Seq(Times)
      BY <1>3
    <2> QED
      BY <1>1, <2>1 DEF VolumeInv, VolumeTypeOK
  <1>6. ASSUME NEW d \in Clients, NEW e \in Backends, NEW S \in SUBSET Times,
               \A t \in S : \A i \in DOMAIN log[d][e] : InWindow(e, t, log[d][e][i])
        PROVE  /\ Among(window'[d][e], S) <= Among(log[d][e], S)
               /\ \A m \in DOMAIN log[d][e] : (e = "redis" => FreshAt(heard[d], m, clock)) =>
                    Among(Rear(log[d][e], m), S) <= Among(window'[d][e], S)
    <2>1. CASE ~(d = c /\ e = "redis")
      BY <1>3, <1>6, <2>1 DEF VolumeInv, WindowInv
    <2>2. CASE d = c /\ e = "redis"
      <3> DEFINE s == log[c]["redis"]
                 h == heard[c]
      <3>1. s \in Seq(Times) /\ h \in Seq(0 .. MaxClock)
        BY <1>2 DEF VolumeInv, HistoryTypes, VolumeTypeOK
      <3>2. Len(h) = Len(s) /\ \A i \in DOMAIN h : h[i] + 2 * Window <= expires[c]
        BY DEF VolumeInv, ExpiryInv
      <3>3. clock \in Int /\ expires[c] \in Int /\ Window \in Int
        BY WindowAssumption DEF VolumeInv, VolumeTypeOK
      <3> HIDE DEF s, h
      <3>4. ASSUME NEW m \in DOMAIN s PROVE ~(h[m] + 2 * Window > clock)
        <4>1. m \in DOMAIN h
          BY <3>1, <3>2
        <4> DEFINE n == h[m]
        <4>2. n \in Int /\ n + 2 * Window <= expires[c]
          BY <3>1, <3>2, <4>1, HeardIsNumber
        <4> HIDE DEF n
        <4>3. ~(n + 2 * Window > clock)
          BY <1>1, <3>3, <4>2
        <4> QED
          BY <4>3 DEF n
      <3>5. \A m \in DOMAIN log[d][e] : ~FreshAt(heard[d], m, clock)
        BY <2>2, <3>4 DEF FreshAt, s, h
      <3>6. Among(<<>>, S) = 0
        <4>1. \A i \in DOMAIN <<>> : <<>>[i] \notin S
          OBVIOUS
        <4> QED
          BY <1>2, <4>1, AmongIsCount
      <3>7. Among(s, S) \in Nat
        BY <3>1, AmongIsCount
      <3>8. window'[d][e] = <<>> /\ log[d][e] = s
        BY <1>3, <2>2 DEF s
      <3> QED
        BY <2>2, <3>5, <3>6, <3>7, <3>8
    <2> QED
      BY <2>1, <2>2
  <1>7. WindowInv'
    BY <1>1, <1>6 DEF WindowInv, FreshAt
  <1>8. ExpiryInv'
    BY <1>1 DEF VolumeInv, ExpiryInv
  <1>9. SortedInv'
    <2>1. \A d \in Clients : window'[d]["memory"] = window[d]["memory"]
      BY <1>2, <1>3
    <2> QED
      BY <1>1, <2>1 DEF VolumeInv, SortedInv
  <1> QED
    BY <1>4, <1>5, <1>7, <1>8, <1>9 DEF VolumeInv

\* A query is added to a sequence of Redis, whose key lives on for two windows.
LEMMA RedisRecords ==
  ASSUME VolumeInv, NEW w \in Workers, Execute(w, ZSet(w)), clock' = clock
  PROVE  LET c == job[w].client
         IN  /\ HistoryTypes' /\ WindowInv' /\ SortedInv'
             /\ \A d \in Clients, e \in Backends : window'[d][e] \in Seq(Times) /\ log'[d][e] \in Seq(Times)
             /\ expires' \in [Clients -> 0 .. MaxClock + 2 * Window]
             /\ heard' \in [Clients -> Seq(0 .. MaxClock)]
             /\ ExpiryInv'
             /\ window'[c]["redis"] = ZSet(w)
             /\ log'[c]["redis"] = Append(log[c]["redis"], job[w].at)
  <1> DEFINE c == job[w].client
             at == job[w].at
             held == ZSet(w)
             s == window[c]["redis"]
             l == log[c]["redis"]
  <1>1. job[w] \in Job
    BY DEF VolumeInv, VolumeTypeOK
  <1>2. c \in Clients /\ at \in Times /\ at \in Int /\ Times \subseteq Int
    BY <1>1, JobFields
  <1>3. "redis" \in Backends /\ "memory" \in Backends
    BY DEF Backends
  <1>4. /\ window' = [window EXCEPT ![c]["redis"] = held]
        /\ log' = [log EXCEPT ![c]["redis"] = Append(@, at)]
        /\ heard' = [heard EXCEPT ![c] = Append(@, clock)]
        /\ expires' = [expires EXCEPT ![c] = clock + 2 * Window]
    BY DEF Execute
  <1>5. s \in Seq(Times) /\ l \in Seq(Times)
    BY <1>2, <1>3 DEF VolumeInv, HistoryTypes
  <1>6. held = Append(Removed(s, at - Window), at)
    BY DEF ZSet
  <1> HIDE DEF c, at, held, s
  <1>7. held \in Seq(Times)
    BY <1>2, <1>5, <1>6, ZSetProperties
  <1>8. CountsAlike("redis", at, held, Append(window[c]["redis"], at))
    BY <1>2, <1>5, <1>6, ZSetProperties DEF s
  <1>20. /\ clock \in 0 .. MaxClock /\ clock \in Int /\ Window \in Int /\ MaxClock \in Int
         /\ Window >= 0 /\ heard \in [Clients -> Seq(0 .. MaxClock)]
         /\ expires \in [Clients -> 0 .. MaxClock + 2 * Window]
    <2>1. /\ clock \in 0 .. MaxClock /\ heard \in [Clients -> Seq(0 .. MaxClock)]
          /\ expires \in [Clients -> 0 .. MaxClock + 2 * Window]
      BY DEF VolumeInv, VolumeTypeOK
    <2>2. Window \in Int /\ MaxClock \in Int /\ Window >= 0
      BY WindowAssumption
    <2> QED
      BY <2>1, <2>2
  <1> DEFINE h == heard[c]
             k == Append(h, clock)
  <1>21. h \in Seq(0 .. MaxClock) /\ Len(h) = Len(l)
    BY <1>2, <1>20 DEF VolumeInv, ExpiryInv
  <1>22. /\ k \in Seq(0 .. MaxClock) /\ Len(k) = Len(h) + 1 /\ DOMAIN h = 1 .. Len(h)
         /\ Len(h) \in Nat /\ DOMAIN k = 1 .. Len(h) + 1
         /\ \A i \in 1 .. Len(h) : k[i] = h[i]
         /\ k[Len(h) + 1] = clock
    BY <1>20, <1>21, AppendProperties
  <1>23. /\ heard' = [heard EXCEPT ![c] = k] /\ heard' \in [Clients -> Seq(0 .. MaxClock)]
         /\ heard'[c] = k /\ \A d \in Clients : d # c => heard'[d] = heard[d]
    BY <1>2, <1>4, <1>20, <1>22
  <1>24. \A d \in Clients : \A m \in DOMAIN log[d]["redis"] : heard'[d][m] = heard[d][m]
    <2> SUFFICES ASSUME NEW m \in DOMAIN l PROVE k[m] = h[m]
      BY <1>23
    <2> HIDE DEF k, h
    <2> QED
      BY <1>5, <1>21, <1>22
  <1>9. /\ HistoryTypes' /\ WindowInv'
        /\ window'[c]["redis"] = held /\ log'[c]["redis"] = Append(l, at)
        /\ \A d \in Clients, e \in Backends : ~(d = c /\ e = "redis") =>
              window'[d][e] = window[d][e] /\ log'[d][e] = log[d][e]
    <2>1. /\ window \in [Clients -> [Backends -> Seq(Times)]]
          /\ log \in [Clients -> [Backends -> Seq(Times)]]
          /\ Append(l, at) \in Seq(Times)
      BY <1>2, <1>5 DEF VolumeInv, HistoryTypes
    <2>2. log' = [log EXCEPT ![c]["redis"] = Append(l, at)]
      BY <1>2, <1>3, <1>4, <2>1
    <2>3. window' = [window EXCEPT ![c]["redis"] = held]
      BY <1>4
    <2> HIDE DEF l
    <2>4. /\ HistoryTypes'
          /\ window'[c]["redis"] = held /\ log'[c]["redis"] = Append(l, at)
          /\ \A d \in Clients, e \in Backends : ~(d = c /\ e = "redis") =>
                window'[d][e] = window[d][e] /\ log'[d][e] = log[d][e]
      BY <1>2, <1>3, <1>7, <2>1, <2>2, <2>3, Elsewhere DEF HistoryTypes
    <2>5. clock' = clock
      OBVIOUS
    <2>6. WindowInv'
      BY <1>2, <1>3, <1>7, <1>8, <1>24, <2>4, <2>5, RecordKeepsWindow DEF l
    <2> QED
      BY <2>4, <2>6
  <1>10. SortedInv'
    <2>1. \A d \in Clients : window'[d]["memory"] = window[d]["memory"]
                             /\ log'[d]["memory"] = log[d]["memory"]
      BY <1>3, <1>9
    <2> QED
      BY <2>1 DEF VolumeInv, SortedInv
  <1>13. /\ expires' \in [Clients -> 0 .. MaxClock + 2 * Window]
         /\ expires'[c] = clock + 2 * Window
         /\ \A d \in Clients : d # c => expires'[d] = expires[d]
    <2>1. clock + 2 * Window \in 0 .. MaxClock + 2 * Window
      BY <1>20
    <2> QED
      BY <1>2, <1>4, <1>20, <2>1
  <1>14. ASSUME NEW d \in Clients
         PROVE  /\ Len(heard'[d]) = Len(log'[d]["redis"])
                /\ \A i \in DOMAIN heard'[d] :
                     heard'[d][i] <= clock /\ heard'[d][i] + 2 * Window <= expires'[d]
    <2>1. CASE d # c
      <3>1. /\ log'[d]["redis"] = log[d]["redis"] /\ expires'[d] = expires[d]
            /\ heard'[d] = heard[d]
        BY <1>3, <1>9, <1>13, <1>23, <2>1
      <3> QED
        BY <3>1 DEF VolumeInv, ExpiryInv
    <2>2. CASE d = c
      <3>1. Len(k) = Len(log'[c]["redis"])
        <4>1. Len(Append(l, at)) = Len(l) + 1
          BY <1>2, <1>5, AppendProperties
        <4> QED
          BY <1>9, <1>21, <1>22, <4>1
      <3>2. \A i \in DOMAIN h : h[i] <= clock
        BY <1>2 DEF VolumeInv, ExpiryInv
      <3> HIDE DEF k, h
      <3>3. ASSUME NEW i \in DOMAIN k
            PROVE  k[i] <= clock /\ k[i] + 2 * Window <= clock + 2 * Window
        <4> DEFINE n == k[i]
        <4>1. n \in Int
          BY <1>22, HeardIsNumber
        <4>2. n <= clock
          BY <1>20, <1>22, <3>2
        <4> HIDE DEF n
        <4>3. n + 2 * Window <= clock + 2 * Window
          BY <1>20, <4>1, <4>2
        <4> QED
          BY <4>2, <4>3 DEF n
      <3> QED
        BY <1>13, <1>23, <2>2, <3>1, <3>3
    <2> QED
      BY <2>1, <2>2
  <1>16. ExpiryInv'
    BY <1>14 DEF ExpiryInv
  <1>15. \A d \in Clients, e \in Backends : window'[d][e] \in Seq(Times) /\ log'[d][e] \in Seq(Times)
    BY <1>9 DEF HistoryTypes
  <1> QED
    BY <1>9, <1>10, <1>13, <1>15, <1>16, <1>23 DEF c, at, held

\* The same of the process.
LEMMA MemoryRecords ==
  ASSUME VolumeInv, NEW w \in Workers, RecordInMemory(w)
  PROVE  LET c == job[w].client
             at == job[w].at
             queue == Purged(Append(window[c]["memory"], at), at - Window)
         IN  /\ HistoryTypes' /\ WindowInv' /\ SortedInv'
             /\ \A d \in Clients, e \in Backends : window'[d][e] \in Seq(Times) /\ log'[d][e] \in Seq(Times)
             /\ \A d \in Clients : log'[d]["redis"] = log[d]["redis"]
             /\ window'[c]["memory"] = queue
             /\ log'[c]["memory"] = Append(log[c]["memory"], at)
             /\ Sorted(log'[c]["memory"]) =>
                  \A i \in DOMAIN queue : InWindow("memory", queue[i], at)
  <1> DEFINE c == job[w].client
             at == job[w].at
             s == window[c]["memory"]
             l == log[c]["memory"]
             queue == Purged(Append(s, at), at - Window)
  <1>1. job[w] \in Job
    BY DEF VolumeInv, VolumeTypeOK
  <1>2. c \in Clients /\ at \in Times /\ at \in Int /\ Times \subseteq Int
    BY <1>1, JobFields
  <1>3. "redis" \in Backends /\ "memory" \in Backends
    BY DEF Backends
  <1>4. /\ window' = [window EXCEPT ![c]["memory"] = queue]
        /\ log' = [log EXCEPT ![c]["memory"] = Append(@, at)]
        /\ clock' = clock /\ heard' = heard
    BY DEF RecordInMemory
  <1>5. s \in Seq(Times) /\ l \in Seq(Times)
    BY <1>2, <1>3 DEF VolumeInv, HistoryTypes
  <1> HIDE DEF c, at, s, l
  <1>6. /\ queue \in Seq(Times)
        /\ CountsAlike("memory", at, queue, Append(s, at))
        /\ \A i \in DOMAIN queue : queue[i] = at \/ \E j \in DOMAIN s : queue[i] = s[j]
        /\ Sorted(Append(s, at)) =>
             /\ Sorted(queue)
             /\ \A i \in DOMAIN queue : InWindow("memory", queue[i], at)
    BY <1>2, <1>5, QueueProperties
  <1> HIDE DEF queue
  <1>7. /\ HistoryTypes' /\ WindowInv'
        /\ window'[c]["memory"] = queue /\ log'[c]["memory"] = Append(l, at)
        /\ \A d \in Clients, e \in Backends : ~(d = c /\ e = "memory") =>
              window'[d][e] = window[d][e] /\ log'[d][e] = log[d][e]
    <2>1. /\ window \in [Clients -> [Backends -> Seq(Times)]]
          /\ log \in [Clients -> [Backends -> Seq(Times)]]
          /\ Append(l, at) \in Seq(Times)
      BY <1>2, <1>5 DEF VolumeInv, HistoryTypes
    <2>2. log' = [log EXCEPT ![c]["memory"] = Append(l, at)]
      BY <1>2, <1>3, <1>4, <2>1 DEF l
    <2>3. /\ HistoryTypes'
          /\ window'[c]["memory"] = queue /\ log'[c]["memory"] = Append(l, at)
          /\ \A d \in Clients, e \in Backends : ~(d = c /\ e = "memory") =>
                window'[d][e] = window[d][e] /\ log'[d][e] = log[d][e]
      BY <1>2, <1>3, <1>4, <1>6, <2>1, <2>2, Elsewhere DEF HistoryTypes
    <2>4. WindowInv'
      BY <1>2, <1>3, <1>4, <1>6, <2>3, RecordKeepsWindow DEF s, l
    <2> QED
      BY <2>3, <2>4
  <1>8. ASSUME Sorted(Append(l, at))
        PROVE  /\ Sorted(queue)
               /\ \A i \in DOMAIN queue : InWindow("memory", queue[i], at)
               /\ \A i \in DOMAIN queue : \E j \in DOMAIN Append(l, at) : queue[i] = Append(l, at)[j]
    <2>1. Sorted(l) /\ \A j \in DOMAIN l : l[j] <= at
      BY <1>2, <1>5, <1>8, SortedAppend
    <2>2. Sorted(s) /\ \A i \in DOMAIN s : \E j \in DOMAIN l : s[i] = l[j]
      BY <1>2, <2>1 DEF VolumeInv, SortedInv, s, l
    <2>3. \A i \in DOMAIN s : s[i] <= at
      BY <2>1, <2>2
    <2>4. Sorted(Append(s, at))
      BY <1>2, <1>5, <2>2, <2>3, SortedAppend
    <2>5. /\ DOMAIN Append(l, at) = 1 .. Len(l) + 1 /\ DOMAIN l = 1 .. Len(l) /\ Len(l) \in Nat
          /\ \A i \in 1 .. Len(l) : Append(l, at)[i] = l[i]
          /\ Append(l, at)[Len(l) + 1] = at
      BY <1>2, <1>5, AppendProperties
    <2> DEFINE a == Append(l, at)
    <2>6. /\ \A j \in DOMAIN l : j \in DOMAIN a /\ a[j] = l[j]
          /\ Len(l) + 1 \in DOMAIN a /\ a[Len(l) + 1] = at
      BY <2>5
    <2> HIDE DEF a
    <2>7. \A i \in DOMAIN queue : \E j \in DOMAIN a : queue[i] = a[j]
      BY <1>6, <2>2, <2>6
    <2> QED
      BY <1>6, <2>4, <2>7 DEF a
  <1>9. SortedInv'
    <2> SUFFICES ASSUME NEW d \in Clients, Sorted(log'[d]["memory"])
                 PROVE  /\ Sorted(window'[d]["memory"])
                        /\ \A i \in DOMAIN window'[d]["memory"] :
                             \E j \in DOMAIN log'[d]["memory"] :
                               window'[d]["memory"][i] = log'[d]["memory"][j]
      BY DEF SortedInv, Sorted
    <2>1. CASE d # c
      <3>1. window'[d]["memory"] = window[d]["memory"] /\ log'[d]["memory"] = log[d]["memory"]
        BY <1>3, <1>7, <2>1
      <3> QED
        BY <3>1 DEF VolumeInv, SortedInv
    <2>2. CASE d = c
      <3>1. window'[d]["memory"] = queue /\ log'[d]["memory"] = Append(l, at)
        BY <1>7, <2>2
      <3> QED
        BY <1>8, <3>1, Zenon
    <2> QED
      BY <2>1, <2>2
  <1>10. \A d \in Clients, e \in Backends : window'[d][e] \in Seq(Times) /\ log'[d][e] \in Seq(Times)
    BY <1>7 DEF HistoryTypes
  <1>11. \A d \in Clients : log'[d]["redis"] = log[d]["redis"]
    BY <1>3, <1>7
  <1>12. Sorted(log'[c]["memory"]) => \A i \in DOMAIN queue : InWindow("memory", queue[i], at)
    BY <1>7, <1>8
  <1> QED
    BY <1>7, <1>9, <1>10, <1>11, <1>12 DEF c, at, s, l, queue

\* What the job of a scored query is.
LEMMA ScoreStep ==
  ASSUME VolumeInv, NEW w \in Workers, NEW b \in Backends, NEW n, ScoreQuery(w, b, n)
  PROVE  /\ job' \in [Workers -> Job]
         /\ \A x \in Workers : x # w => job'[x] = job[x]
         /\ job'[w].at = job[w].at /\ job'[w].backend = b /\ job'[w].step = "scored"
         /\ job'[w].score = TunnelScore(job[w].shape, n)
  <1> DEFINE j == job[w]
             points == TunnelScore(job[w].shape, n)
             k == [j EXCEPT !.step = "scored", !.backend = b, !.score = points]
  <1>1. job \in [Workers -> Job] /\ j \in Job
    BY DEF VolumeInv, VolumeTypeOK
  <1>2. points \in Scores
    BY <1>1, JobFields, ScoreInRange
  <1>3. job' = [job EXCEPT ![w] = k]
    BY <1>1 DEF ScoreQuery
  <1> HIDE DEF j, points
  <1>4. PICK r1 : r1 = [j EXCEPT !.step = "scored"]
    OBVIOUS
  <1>5. PICK r2 : r2 = [r1 EXCEPT !.backend = b]
    OBVIOUS
  <1>6. PICK r : r = [r2 EXCEPT !.score = points]
    OBVIOUS
  <1>7. r1 \in Job /\ r1.at = j.at /\ r1.step = "scored"
    BY <1>1, <1>4, StepField
  <1>8. r2 \in Job /\ r2.at = r1.at /\ r2.step = r1.step /\ r2.backend = b
    BY <1>5, <1>7, BackendField
  <1>9. r \in Job /\ r.at = r2.at /\ r.step = r2.step /\ r.backend = r2.backend /\ r.score = points
    BY <1>2, <1>6, <1>8, ScoreField
  <1>10. k = r
    BY <1>4, <1>5, <1>6
  <1>11. job' = [job EXCEPT ![w] = r]
    BY <1>3, <1>10, Zenon
  <1>12. job' \in [Workers -> Job] /\ job'[w] = r /\ \A x \in Workers : x # w => job'[x] = job[x]
    BY <1>1, <1>9, <1>11
  <1> QED
    BY <1>7, <1>8, <1>9, <1>12 DEF j, points

\* Redis records the query.
LEMMA RecordInRedisKeeps ==
  ASSUME VolumeInv, NEW w \in Workers, RecordInRedis(w)
  PROVE  VolumeInv'
  <1>1. /\ Execute(w, ZSet(w)) /\ ScoreQuery(w, "redis", Len(ZSet(w)))
        /\ UNCHANGED <<useRedis, clock>> /\ clock' = clock
    BY DEF RecordInRedis
  <1>2. "redis" \in Backends
    BY DEF Backends
  <1>3. /\ job' \in [Workers -> Job] /\ job'[w].at = job[w].at
        /\ \A x \in Workers : x # w => job'[x] = job[x]
    BY <1>1, <1>2, ScoreStep
  <1>5. /\ HistoryTypes' /\ WindowInv' /\ SortedInv'
        /\ \A d \in Clients, e \in Backends : window'[d][e] \in Seq(Times) /\ log'[d][e] \in Seq(Times)
        /\ expires' \in [Clients -> 0 .. MaxClock + 2 * Window]
        /\ heard' \in [Clients -> Seq(0 .. MaxClock)]
        /\ ExpiryInv'
    BY <1>1, RedisRecords
  <1>6. VolumeTypeOK'
    BY <1>1, <1>3, <1>5 DEF VolumeInv, VolumeTypeOK
  <1> QED
    BY <1>5, <1>6 DEF VolumeInv

\* Redis fails, before or after it recorded the query.
LEMMA RedisFailsKeeps ==
  ASSUME VolumeInv, NEW w \in Workers, RedisFails(w)
  PROVE  VolumeInv'
  <1> DEFINE j == job[w]
  <1>1. /\ Execute(w, ZSet(w)) \/ UNCHANGED <<window, log, heard, expires>>
        /\ job' = [job EXCEPT ![w] = [j EXCEPT !.step = "fallback"]]
        /\ UNCHANGED useRedis /\ clock' = clock
    BY DEF RedisFails
  <1>2. job \in [Workers -> Job] /\ j \in Job
    BY DEF VolumeInv, VolumeTypeOK
  <1> HIDE DEF j
  <1>3. PICK k : k = [j EXCEPT !.step = "fallback"]
    OBVIOUS
  <1>4. k \in Job /\ k.at = j.at
    BY <1>2, <1>3, StepField
  <1>5. job' = [job EXCEPT ![w] = k]
    BY <1>1, <1>3, Zenon
  <1>6. /\ job' \in [Workers -> Job] /\ job'[w].at = job[w].at
        /\ \A x \in Workers : x # w => job'[x] = job[x]
    BY <1>2, <1>4, <1>5 DEF j
  <1>8. CASE Execute(w, ZSet(w))
    <2>1. /\ HistoryTypes' /\ WindowInv' /\ SortedInv'
          /\ \A d \in Clients, e \in Backends :
               window'[d][e] \in Seq(Times) /\ log'[d][e] \in Seq(Times)
          /\ expires' \in [Clients -> 0 .. MaxClock + 2 * Window]
          /\ heard' \in [Clients -> Seq(0 .. MaxClock)]
          /\ ExpiryInv'
      BY <1>1, <1>8, RedisRecords
    <2>2. VolumeTypeOK'
      BY <1>1, <1>6, <2>1 DEF VolumeInv, VolumeTypeOK
    <2> QED
      BY <2>1, <2>2 DEF VolumeInv
  <1>9. CASE UNCHANGED <<window, log, heard, expires>>
    <2>1. clock' \in 0 .. MaxClock /\ clock <= clock'
      BY <1>1 DEF VolumeInv, VolumeTypeOK
    <2>2. HistoryTypes' /\ WindowInv' /\ SortedInv'
      BY <1>9, <2>1, HistoryUntouched
    <2>3. VolumeTypeOK'
      BY <1>1, <1>6, <1>9 DEF VolumeInv, VolumeTypeOK
    <2>4. ExpiryInv'
      BY <1>1, <1>9 DEF VolumeInv, ExpiryInv
    <2> QED
      BY <2>2, <2>3, <2>4 DEF VolumeInv
  <1> QED
    BY <1>1, <1>8, <1>9

\* The process records the query.
LEMMA RecordInMemoryKeeps ==
  ASSUME VolumeInv, NEW w \in Workers, RecordInMemory(w)
  PROVE  VolumeInv'
  <1>1. /\ \E n : ScoreQuery(w, "memory", n)
        /\ UNCHANGED <<useRedis, expires, clock, heard>> /\ clock' = clock
    BY DEF RecordInMemory
  <1>2. "memory" \in Backends
    BY DEF Backends
  <1>3. /\ job' \in [Workers -> Job] /\ job'[w].at = job[w].at
        /\ \A x \in Workers : x # w => job'[x] = job[x]
    BY <1>1, <1>2, ScoreStep
  <1>5. /\ HistoryTypes' /\ WindowInv' /\ SortedInv'
        /\ \A d \in Clients, e \in Backends : window'[d][e] \in Seq(Times) /\ log'[d][e] \in Seq(Times)
        /\ \A d \in Clients : log'[d]["redis"] = log[d]["redis"]
    BY MemoryRecords
  <1>6. VolumeTypeOK'
    BY <1>1, <1>3, <1>5 DEF VolumeInv, VolumeTypeOK
  <1>7. ExpiryInv'
    BY <1>1, <1>5 DEF VolumeInv, ExpiryInv
  <1> QED
    BY <1>5, <1>6, <1>7 DEF VolumeInv

\* Every step keeps the invariant.
LEMMA VolumeInvStep == VolumeInv /\ [Next]_vars => VolumeInv'
  <1> SUFFICES ASSUME VolumeInv, [Next]_vars PROVE VolumeInv'
    OBVIOUS
  <1>1. ASSUME NEW w \in Workers, Receive(w) PROVE VolumeInv'
    BY <1>1, ReceiveKeeps
  <1>2. ASSUME NEW w \in Workers, RecordInRedis(w) PROVE VolumeInv'
    BY <1>2, RecordInRedisKeeps
  <1>3. ASSUME NEW w \in Workers, RedisFails(w) PROVE VolumeInv'
    BY <1>3, RedisFailsKeeps
  <1>4. ASSUME NEW w \in Workers, RecordInMemory(w) PROVE VolumeInv'
    BY <1>4, RecordInMemoryKeeps
  <1>5. ASSUME NEW w \in Workers, Finish(w) PROVE VolumeInv'
    BY <1>5, FinishKeeps
  <1>6. ASSUME NEW c \in Clients, Expire(c) PROVE VolumeInv'
    BY <1>6, ExpireKeeps
  <1>7. CASE Tick
    BY <1>7, TickKeeps
  <1>8. CASE UNCHANGED vars
    <2>1. clock' \in 0 .. MaxClock /\ clock <= clock'
      BY <1>8 DEF VolumeInv, VolumeTypeOK, vars
    <2>2. HistoryTypes' /\ WindowInv' /\ SortedInv'
      BY <1>8, <2>1, HistoryUntouched DEF vars
    <2>3. VolumeTypeOK' /\ ExpiryInv'
      BY <1>8 DEF VolumeInv, VolumeTypeOK, ExpiryInv, vars
    <2> QED
      BY <2>2, <2>3 DEF VolumeInv
  <1> QED
    BY <1>1, <1>2, <1>3, <1>4, <1>5, <1>6, <1>7, <1>8, Zenon DEF Next

\* The state the invariant describes keeps every query that can still count.
LEMMA VolumeInvSuffices == VolumeInv => RecentQueriesKept
  <1> SUFFICES ASSUME VolumeInv PROVE RecentQueriesKept
    OBVIOUS
  <1> SUFFICES ASSUME NEW c \in Clients, NEW b \in Backends, NEW t \in Times,
                      \A i \in DOMAIN log[c][b] : InWindow(b, t, log[c][b][i])
               PROVE  /\ Among(window[c][b], {t}) <= Among(log[c][b], {t})
                      /\ \A m \in DOMAIN log[c][b] : (b = "redis" => FreshAt(heard[c], m, clock)) =>
                           Among(Rear(log[c][b], m), {t}) <= Among(window[c][b], {t})
    BY DEF RecentQueriesKept, VolumeInv, Rear
  <1> DEFINE S == {t}
  <1>1. /\ S \in SUBSET Times
        /\ \A x \in S : \A i \in DOMAIN log[c][b] : InWindow(b, x, log[c][b][i])
    OBVIOUS
  <1> HIDE DEF S
  <1>2. /\ Among(window[c][b], S) <= Among(log[c][b], S)
        /\ \A m \in DOMAIN log[c][b] : (b = "redis" => FreshAt(heard[c], m, clock)) =>
             Among(Rear(log[c][b], m), S) <= Among(window[c][b], S)
    BY <1>1 DEF VolumeInv, WindowInv
  <1> QED
    BY <1>2 DEF S

\* RecentQueriesKept: however far timestamps lie from the clock, the deque holds
\* every query that can still count for each one it has seen, Redis those of them
\* that it was given within the last two windows of the clock
\* (VolumeTracker.record_query and the key's expiry).
THEOREM RecentQueriesAlwaysKept == Spec => []RecentQueriesKept
  <1>1. Init => VolumeInv
    BY VolumeInvInitially
  <1>2. VolumeInv /\ [Next]_vars => VolumeInv'
    BY VolumeInvStep
  <1>3. VolumeInv => RecentQueriesKept
    BY VolumeInvSuffices
  <1> QED
    BY <1>1, <1>2, <1>3, PTL DEF Spec

-----------------------------------------------------------------------------
(* The scores of queries in order *)

\* A backend that holds nothing older than the window holds exactly the queries
\* of the window that it was given, if none of those is ahead of the last one.
LEMMA HeldIsTheWindow ==
  ASSUME VolumeInv', NEW c \in Clients, NEW b \in Backends, NEW at \in Times,
         \A i \in DOMAIN log'[c][b] : log'[c][b][i] <= at,
         \A i \in DOMAIN window'[c][b] : InWindow(b, window'[c][b][i], at),
         \E i \in DOMAIN log'[c][b] : log'[c][b][i] = at,
         b = "redis" => \A i \in DOMAIN log'[c][b] :
           InWindow(b, log'[c][b][i], at) => heard'[c][i] + 2 * Window > clock'
  PROVE  Len(window'[c][b]) = Among(log'[c][b], {t \in Times : InWindow(b, t, at)})
  <1> DEFINE S == {t \in Times : InWindow(b, t, at)}
             held == window'[c][b]
             given == log'[c][b]
  <1>1. /\ Window \in Int /\ Window > 0 /\ at \in Int
        /\ Times \subseteq Int /\ b \in {"memory", "redis"}
    BY WindowAssumption DEF Times, Backends
  <1>2. held \in Seq(Times) /\ given \in Seq(Times)
    BY DEF VolumeInv, HistoryTypes
  <1>3. S \in SUBSET Times /\ \A t \in S : InWindow(b, t, at)
    OBVIOUS
  <1>4. \A i \in DOMAIN held : held[i] \in S
    BY <1>2
  <1>5. \A i \in DOMAIN given : given[i] \in Int /\ given[i] <= at
    <2>1. \A i \in DOMAIN given : given[i] <= at
      OBVIOUS
    <2> HIDE DEF given
    <2>2. \A i \in DOMAIN given : given[i] \in Times
      BY <1>2
    <2> QED
      BY <1>1, <2>1, <2>2
  <1> HIDE DEF S, held, given
  <1>6. \A t \in S : \A i \in DOMAIN given : InWindow(b, t, given[i])
    BY <1>1, <1>3, <1>5 DEF InWindow
  <1> DEFINE P == {i \in DOMAIN given : given[i] \in S}
             first == Min(P)
  <1>7. first \in P /\ \A j \in P : first <= j
    <2>1. at \in S
      BY <1>1 DEF S, InWindow
    <2>2. P \in SUBSET Int /\ P # {}
      <3>1. \E i \in DOMAIN given : given[i] = at
        BY DEF given
      <3> QED
        BY <1>2, <2>1, <3>1
    <2>3. IsFiniteSet(P)
      BY <1>2, AmongIsCount
    <2> HIDE DEF P
    <2> QED
      BY <2>2, <2>3, FirstPlace
  <1> HIDE DEF first
  <1>8. /\ first \in 1 .. Len(given) /\ first \in DOMAIN given /\ given[first] \in S
        /\ \A i \in 1 .. first - 1 : given[i] \notin S
    <2>1. DOMAIN given = 1 .. Len(given) /\ Len(given) \in Nat
      BY <1>2
    <2> QED
      BY <1>7, <2>1
  <1>10. Among(Rear(given, first), S) = Among(given, S)
    BY <1>2, <1>8, AmongRear DEF Rear
  <1>11. b = "redis" => heard'[c][first] + 2 * Window > clock'
    BY <1>3, <1>8 DEF given
  <1>12. /\ Among(held, S) <= Among(given, S)
         /\ Among(Rear(given, first), S) <= Among(held, S)
    BY <1>3, <1>6, <1>8, <1>11 DEF VolumeInv, WindowInv, FreshAt, held, given
  <1>13. Among(held, S) = Among(given, S)
    <2>1. Among(held, S) \in Nat /\ Among(given, S) \in Nat
      BY <1>2, AmongIsCount
    <2> QED
      BY <1>10, <1>12, <2>1
  <1>9. Among(held, S) = Len(held)
    BY <1>2, <1>4, AmongIsCount
  <1> QED
    BY <1>9, <1>13 DEF S, held, given

\* What was added is there.
LEMMA LastIsThere ==
  ASSUME NEW s \in Seq(Times), NEW x \in Times
  PROVE  \E i \in DOMAIN Append(s, x) : Append(s, x)[i] = x
  <1>1. Len(s) + 1 \in DOMAIN Append(s, x) /\ Append(s, x)[Len(s) + 1] = x
    BY AppendProperties
  <1> QED
    BY <1>1

\* What a count in Redis is exact for: entries given less than two windows ago.
LastedInRedis(w) ==
  LET c == job[w].client
      b == job'[w].backend
  IN  b = "redis" => \A i \in DOMAIN log'[c][b] :
                       InWindow(b, log'[c][b][i], job[w].at) => FreshAt(heard'[c], i, clock')

\* A score by the count of Redis.
LEMMA ExactInRedis ==
  ASSUME VolumeInv, VolumeInv', NEW w \in Workers, RecordInRedis(w),
         Sorted(log'[job[w].client][job'[w].backend]),
         LastedInRedis(w)
  PROVE  job'[w].score = TunnelScore(job[w].shape,
           Among(log'[job[w].client][job'[w].backend],
                 {t \in Times : InWindow(job'[w].backend, t, job[w].at)}))
  <1> DEFINE c == job[w].client
             at == job[w].at
             held == ZSet(w)
             s == window[c]["redis"]
             l == log[c]["redis"]
  <1>1. /\ Execute(w, held) /\ ScoreQuery(w, "redis", Len(held)) /\ clock' = clock
    BY DEF RecordInRedis
  <1>2. "redis" \in Backends /\ job[w] \in Job
    BY DEF Backends, VolumeInv, VolumeTypeOK
  <1>3. job'[w].backend = "redis" /\ job'[w].score = TunnelScore(job[w].shape, Len(held))
    BY <1>1, <1>2, ScoreStep
  <1>4. c \in Clients /\ at \in Times
    BY <1>2, JobFields
  <1>5. s \in Seq(Times) /\ l \in Seq(Times)
    BY <1>2, <1>4 DEF VolumeInv, HistoryTypes
  <1>6. window'[c]["redis"] = held /\ log'[c]["redis"] = Append(l, at)
    BY <1>1, RedisRecords
  <1>7. held = Append(Removed(s, at - Window), at)
    BY DEF ZSet
  <1>8. \A i \in DOMAIN log'[c]["redis"] :
          InWindow("redis", log'[c]["redis"][i], at) => heard'[c][i] + 2 * Window > clock'
    BY <1>3 DEF LastedInRedis, FreshAt
  <1>9. Sorted(log'[c]["redis"])
    BY <1>3
  <1> HIDE DEF c, at, s, l, held
  <1>10. \A i \in DOMAIN held : InWindow("redis", held[i], at)
    BY <1>4, <1>5, <1>7, ZSetProperties
  <1>11. Sorted(Append(l, at))
    BY <1>6, <1>9
  <1>12. \A i \in DOMAIN Append(l, at) : Append(l, at)[i] <= at
    BY <1>4, <1>5, <1>11, SortedAppend
  <1>15. \E i \in DOMAIN Append(l, at) : Append(l, at)[i] = at
    BY <1>4, <1>5, LastIsThere
  <1>13. Len(window'[c]["redis"]) = Among(log'[c]["redis"], {t \in Times : InWindow("redis", t, at)})
    <2>1. /\ \A i \in DOMAIN log'[c]["redis"] : log'[c]["redis"][i] <= at
          /\ \E i \in DOMAIN log'[c]["redis"] : log'[c]["redis"][i] = at
          /\ \A i \in DOMAIN window'[c]["redis"] : InWindow("redis", window'[c]["redis"][i], at)
      BY <1>6, <1>10, <1>12, <1>15
    <2>2. PICK b \in Backends : b = "redis"
      BY <1>2
    <2>3. b = "redis" => \A i \in DOMAIN log'[c][b] :
            InWindow(b, log'[c][b][i], at) => heard'[c][i] + 2 * Window > clock'
      BY <1>8, <2>2
    <2>4. Len(window'[c][b]) = Among(log'[c][b], {t \in Times : InWindow(b, t, at)})
      BY <1>4, <2>1, <2>2, <2>3, HeldIsTheWindow
    <2> QED
      BY <2>2, <2>4
  <1>14. job'[w].score = TunnelScore(job[w].shape,
           Among(log'[c]["redis"], {t \in Times : InWindow("redis", t, at)}))
    BY <1>3, <1>6, <1>13
  <1> QED
    BY <1>3, <1>14 DEF c, at

\* A score by the count of the process.
LEMMA ExactInMemory ==
  ASSUME VolumeInv, VolumeInv', NEW w \in Workers, RecordInMemory(w),
         Sorted(log'[job[w].client][job'[w].backend]),
         LastedInRedis(w)
  PROVE  job'[w].score = TunnelScore(job[w].shape,
           Among(log'[job[w].client][job'[w].backend],
                 {t \in Times : InWindow(job'[w].backend, t, job[w].at)}))
  <1> DEFINE c == job[w].client
             at == job[w].at
             queue == Purged(Append(window[c]["memory"], at), at - Window)
             l == log[c]["memory"]
  <1>1. ScoreQuery(w, "memory", Len(queue)) /\ clock' = clock
    BY DEF RecordInMemory
  <1>2. "memory" \in Backends /\ job[w] \in Job
    BY DEF Backends, VolumeInv, VolumeTypeOK
  <1>3. job'[w].backend = "memory" /\ job'[w].score = TunnelScore(job[w].shape, Len(queue))
    BY <1>1, <1>2, ScoreStep
  <1>4. c \in Clients /\ at \in Times
    BY <1>2, JobFields
  <1>5. l \in Seq(Times)
    BY <1>2, <1>4 DEF VolumeInv, HistoryTypes
  <1>6. /\ window'[c]["memory"] = queue /\ log'[c]["memory"] = Append(l, at)
        /\ Sorted(log'[c]["memory"]) => \A i \in DOMAIN queue : InWindow("memory", queue[i], at)
    BY MemoryRecords
  <1>8. Sorted(log'[c]["memory"])
    BY <1>3
  <1> HIDE DEF c, at, l, queue
  <1>9. \A i \in DOMAIN queue : InWindow("memory", queue[i], at)
    BY <1>6, <1>8
  <1>10. Sorted(Append(l, at))
    BY <1>6, <1>8
  <1>11. \A i \in DOMAIN Append(l, at) : Append(l, at)[i] <= at
    BY <1>4, <1>5, <1>10, SortedAppend
  <1>14. \E i \in DOMAIN Append(l, at) : Append(l, at)[i] = at
    BY <1>4, <1>5, LastIsThere
  <1>12. Len(window'[c]["memory"]) = Among(log'[c]["memory"], {t \in Times : InWindow("memory", t, at)})
    BY <1>2, <1>4, <1>6, <1>9, <1>11, <1>14, HeldIsTheWindow
  <1>13. job'[w].score = TunnelScore(job[w].shape,
           Among(log'[c]["memory"], {t \in Times : InWindow("memory", t, at)}))
    BY <1>3, <1>6, <1>12
  <1> QED
    BY <1>3, <1>13 DEF c, at

\* Only a recording step scores a query.
LEMMA ScoredByRecording ==
  ASSUME VolumeInv, [Next]_vars, NEW w \in Workers,
         job[w].step # "scored", job'[w].step = "scored"
  PROVE  RecordInRedis(w) \/ RecordInMemory(w)
  <1>1. job \in [Workers -> Job]
    BY DEF VolumeInv, VolumeTypeOK
  <1>2. ~UNCHANGED job
    OBVIOUS
  <1>3. ASSUME NEW x \in Workers, Receive(x) PROVE FALSE
    <2>1. PICK r : job' = [job EXCEPT ![x] = r] /\ r.step = "record"
      BY <1>3 DEF Receive
    <2> QED
      BY <1>1, <2>1
  <1>4. ASSUME NEW x \in Workers, Finish(x) PROVE FALSE
    <2>1. job' = [job EXCEPT ![x] = NoJob] /\ NoJob.step = "idle"
      BY <1>4 DEF Finish, NoJob
    <2> QED
      BY <1>1, <2>1
  <1>5. ASSUME NEW x \in Workers, RedisFails(x) PROVE FALSE
    <2>1. job' = [job EXCEPT ![x] = [job[x] EXCEPT !.step = "fallback"]]
      BY <1>5 DEF RedisFails
    <2>2. PICK k : k = [job[x] EXCEPT !.step = "fallback"]
      OBVIOUS
    <2>3. k.step = "fallback"
      BY <1>1, <2>2, StepField
    <2>4. job' = [job EXCEPT ![x] = k]
      BY <2>1, <2>2, Zenon
    <2> QED
      BY <1>1, <2>3, <2>4
  <1>6. ASSUME NEW x \in Workers, RecordInRedis(x), x # w PROVE FALSE
    <2>1. ScoreQuery(x, "redis", Len(ZSet(x))) /\ "redis" \in Backends
      BY <1>6 DEF RecordInRedis, Backends
    <2>2. job'[w] = job[w]
      BY <1>6, <2>1, ScoreStep
    <2> QED
      BY <2>2
  <1>7. ASSUME NEW x \in Workers, RecordInMemory(x), x # w PROVE FALSE
    <2>1. (\E n : ScoreQuery(x, "memory", n)) /\ "memory" \in Backends
      BY <1>7 DEF RecordInMemory, Backends
    <2>2. job'[w] = job[w]
      BY <1>7, <2>1, ScoreStep
    <2> QED
      BY <2>2
  <1>8. ASSUME NEW c \in Clients, Expire(c) PROVE UNCHANGED job
    BY <1>8 DEF Expire
  <1>9. Tick => UNCHANGED job
    BY DEF Tick
  <1>10. UNCHANGED vars => UNCHANGED job
    BY DEF vars
  <1> QED
    BY <1>2, <1>3, <1>4, <1>5, <1>6, <1>7, <1>8, <1>9, <1>10, Zenon DEF Next

\* InOrderVolumeExact: queries that a backend gets in order are scored by the
\* number of queries in the last window (analyze on record_query's count); in Redis
\* if it got those within the last two windows of the clock.
THEOREM InOrderVolumesAreExact == Spec => InOrderVolumeExact
  <1> DEFINE Exact ==
        \A w \in Workers :
          LET c == job[w].client
              b == job'[w].backend
              at == job[w].at
              given == log'[c][b]
          IN  (/\ job[w].step # "scored" /\ job'[w].step = "scored"
               /\ \A i, j \in DOMAIN given : i < j => given[i] <= given[j]
               /\ b = "redis" => \A i \in DOMAIN given :
                                   InWindow(b, given[i], at) => FreshAt(heard'[c], i, clock'))
              => job'[w].score = TunnelScore(job[w].shape,
                     Among(given, {t \in Times : InWindow(b, t, at)}))
  <1>1. Init => VolumeInv
    BY VolumeInvInitially
  <1>2. VolumeInv /\ [Next]_vars => VolumeInv'
    BY VolumeInvStep
  <1>3. VolumeInv /\ VolumeInv' /\ [Next]_vars => [Exact]_vars
    <2> SUFFICES ASSUME VolumeInv, VolumeInv', [Next]_vars, NEW w \in Workers,
                        job[w].step # "scored", job'[w].step = "scored",
                        Sorted(log'[job[w].client][job'[w].backend]),
                        LastedInRedis(w)
                 PROVE  job'[w].score = TunnelScore(job[w].shape,
                          Among(log'[job[w].client][job'[w].backend],
                                {t \in Times : InWindow(job'[w].backend, t, job[w].at)}))
      BY DEF Sorted, LastedInRedis
    <2>1. RecordInRedis(w) \/ RecordInMemory(w)
      BY ScoredByRecording
    <2> QED
      BY <2>1, ExactInRedis, ExactInMemory
  <1> QED
    BY <1>1, <1>2, <1>3, PTL DEF Spec, InOrderVolumeExact
=============================================================================
