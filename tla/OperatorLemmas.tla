--------------------------- MODULE OperatorLemmas ---------------------------
(***************************************************************************)
(* What the operators of RiskEngine and DNSCacheOps return, preserve and   *)
(* bound, for the proofs about the modules that use them.                  *)
(***************************************************************************)
EXTENDS RiskEngine, DNSCacheOps, SequenceLemmas

-----------------------------------------------------------------------------
(* The score *)

LEMMA ScoresAreIntegers == \A s \in Score : s \in Int /\ s >= 0
  BY DEF Score, MaxScore

\* Rounding keeps the order.
LEMMA RoundingMonotone ==
    ASSUME NEW r \in Int, NEW q \in Int, r <= q
    PROVE  /\ RoundHundredths(r) \in Int /\ RoundHundredths(q) \in Int
           /\ RoundHundredths(r) <= RoundHundredths(q)
  BY DEF RoundHundredths

\* A weighted sum of scores, with weights of 100 percent, is a score.
LEMMA CompositeScoreIsScore ==
    ASSUME NEW i \in Score, NEW x \in Score, NEW t \in Score, NEW b \in Score
    PROVE  CompositeScore(i, x, t, b) \in Score
  <1> DEFINE raw == WEIGHT_THREAT_INTEL * i + WEIGHT_ML_DGA * x + WEIGHT_TUNNEL * t
                      + WEIGHT_BEHAVIOR * b
  <1>1. raw \in Int /\ raw >= 0
    BY ScoresAreIntegers DEF WEIGHT_THREAT_INTEL, WEIGHT_ML_DGA, WEIGHT_TUNNEL, WEIGHT_BEHAVIOR
  <1> HIDE DEF raw
  <1> DEFINE rounded == RoundHundredths(raw)
  <1>2. rounded \in Int /\ rounded >= 0
    BY <1>1 DEF RoundHundredths
  <1>3. CompositeScore(i, x, t, b) = IF rounded > MaxScore THEN MaxScore ELSE rounded
    BY DEF CompositeScore, raw
  <1> HIDE DEF rounded
  <1>4. (IF rounded > MaxScore THEN MaxScore ELSE rounded) \in Score
    BY <1>2 DEF Score, MaxScore
  <1> QED
    BY <1>3, <1>4

\* A full intel score alone fills the scale: the other detectors add nothing.
LEMMA MatchScores100 ==
    ASSUME NEW x \in Score, NEW t \in Score, NEW b \in Score
    PROVE  CompositeScore(MaxScore, x, t, b) = MaxScore
  <1> DEFINE raw == WEIGHT_THREAT_INTEL * MaxScore + WEIGHT_ML_DGA * x + WEIGHT_TUNNEL * t
                      + WEIGHT_BEHAVIOR * b
  <1>1. raw \in Int /\ raw >= 100 * MaxScore
    BY ScoresAreIntegers DEF MaxScore, WEIGHT_THREAT_INTEL, WEIGHT_ML_DGA, WEIGHT_TUNNEL,
       WEIGHT_BEHAVIOR
  <1> HIDE DEF raw
  <1>2. RoundHundredths(raw) \in Int /\ RoundHundredths(raw) >= MaxScore
    BY <1>1 DEF RoundHundredths, MaxScore
  <1> QED
    BY <1>2 DEF CompositeScore, MaxScore, raw

\* More of each score is not less of their sum.
LEMMA CompositeScoreMonotone ==
    ASSUME NEW i1 \in Score, NEW x1 \in Score, NEW t1 \in Score, NEW b1 \in Score,
           NEW i2 \in Score, NEW x2 \in Score, NEW t2 \in Score, NEW b2 \in Score,
           i1 <= i2, x1 <= x2, t1 <= t2, b1 <= b2
    PROVE  CompositeScore(i1, x1, t1, b1) <= CompositeScore(i2, x2, t2, b2)
  <1> DEFINE r1 == WEIGHT_THREAT_INTEL * i1 + WEIGHT_ML_DGA * x1 + WEIGHT_TUNNEL * t1
                     + WEIGHT_BEHAVIOR * b1
             r2 == WEIGHT_THREAT_INTEL * i2 + WEIGHT_ML_DGA * x2 + WEIGHT_TUNNEL * t2
                     + WEIGHT_BEHAVIOR * b2
  <1>1. r1 \in Int /\ r2 \in Int /\ r1 <= r2
    BY ScoresAreIntegers DEF WEIGHT_THREAT_INTEL, WEIGHT_ML_DGA, WEIGHT_TUNNEL, WEIGHT_BEHAVIOR
  <1> HIDE DEF r1, r2
  <1>2. /\ RoundHundredths(r1) \in Int /\ RoundHundredths(r2) \in Int
        /\ RoundHundredths(r1) <= RoundHundredths(r2)
    BY <1>1, RoundingMonotone
  <1> QED
    BY <1>2 DEF CompositeScore, MaxScore, r1, r2

\* One detector alone stays below the blocking threshold.
LEMMA OneScoreBelowBlock ==
    ASSUME NEW x \in Score
    PROVE  /\ CompositeScore(0, x, 0, 0) < RISK_THRESHOLD_BLOCK
           /\ CompositeScore(0, 0, x, 0) < RISK_THRESHOLD_BLOCK
           /\ CompositeScore(0, 0, 0, x) < RISK_THRESHOLD_BLOCK
  BY DEF Score, MaxScore, CompositeScore, RoundHundredths, WEIGHT_THREAT_INTEL,
         WEIGHT_ML_DGA, WEIGHT_TUNNEL, WEIGHT_BEHAVIOR, RISK_THRESHOLD_BLOCK

-----------------------------------------------------------------------------
(* The action *)

LEMMA IntelScoreIsScore ==
    ASSUME NEW m \in BOOLEAN
    PROVE  /\ IntelScore(m) \in Score
           /\ m => IntelScore(m) = MaxScore
           /\ ~m => IntelScore(m) = 0
  <1>1. MaxScore \in Score /\ 0 \in Score
    BY DEF Score, MaxScore
  <1> QED
    BY <1>1, Zenon DEF IntelScore

\* The three branches of calculate_risk, each with what it takes to get there.
Branches(m, x, t, b) ==
    /\ Decide(m, x, t, b) \in Actions
    /\ Decide(m, x, t, b) = "BLOCK" <=>
         m \/ CompositeScore(IntelScore(m), x, t, b) >= RISK_THRESHOLD_BLOCK
    /\ Decide(m, x, t, b) = "ALLOW" <=>
         ~(\/ m
           \/ CompositeScore(IntelScore(m), x, t, b) >= RISK_THRESHOLD_SUSPICIOUS
           \/ IsDga(x) \/ IsTunnel(t))

\* One of the branches was taken.
LEMMA DecideCases ==
    ASSUME NEW m \in BOOLEAN, NEW x \in Score, NEW t \in Score, NEW b \in Score
    PROVE  Branches(m, x, t, b)
  <1> DEFINE s == CompositeScore(IntelScore(m), x, t, b)
             d == Decide(m, x, t, b)
  <1>1. s \in Int
    BY IntelScoreIsScore, CompositeScoreIsScore, ScoresAreIntegers
  <1>2. IsDga(x) \in BOOLEAN /\ IsTunnel(t) \in BOOLEAN
    BY DEF IsDga, IsTunnel
  <1>3. d = CASE m \/ s >= RISK_THRESHOLD_BLOCK -> "BLOCK"
              [] ~m /\ s < RISK_THRESHOLD_BLOCK
                   /\ (IsDga(x) \/ IsTunnel(t) \/ s >= RISK_THRESHOLD_SUSPICIOUS)
                   -> "SUSPICIOUS"
              [] OTHER -> "ALLOW"
    BY DEF Decide
  <1> HIDE DEF s, d
  <1>4. /\ d \in Actions
        /\ d = "BLOCK" <=> m \/ s >= RISK_THRESHOLD_BLOCK
        /\ d = "ALLOW" <=>
             ~(m \/ s >= RISK_THRESHOLD_SUSPICIOUS \/ IsDga(x) \/ IsTunnel(t))
    BY <1>1, <1>2, <1>3 DEF Actions, RISK_THRESHOLD_BLOCK, RISK_THRESHOLD_SUSPICIOUS
  <1> QED
    BY <1>4, Zenon DEF s, d, Branches

\* More evidence from any detector never softens the action.
LEMMA DecideMonotone ==
    ASSUME NEW m1 \in BOOLEAN, NEW x1 \in Score, NEW t1 \in Score, NEW b1 \in Score,
           NEW m2 \in BOOLEAN, NEW x2 \in Score, NEW t2 \in Score, NEW b2 \in Score,
           m1 => m2, x1 <= x2, t1 <= t2, b1 <= b2
    PROVE  /\ CompositeScore(IntelScore(m1), x1, t1, b1)
                <= CompositeScore(IntelScore(m2), x2, t2, b2)
           /\ Severity(Decide(m1, x1, t1, b1)) <= Severity(Decide(m2, x2, t2, b2))
  <1> DEFINE s1 == CompositeScore(IntelScore(m1), x1, t1, b1)
             s2 == CompositeScore(IntelScore(m2), x2, t2, b2)
             d1 == Decide(m1, x1, t1, b1)
             d2 == Decide(m2, x2, t2, b2)
  <1>1. /\ IntelScore(m1) \in Score /\ IntelScore(m2) \in Score
        /\ IntelScore(m1) <= IntelScore(m2)
    <2>1. IntelScore(m1) \in Score /\ IntelScore(m2) \in Score
      BY IntelScoreIsScore
    <2>2. IntelScore(m1) = IntelScore(m2) \/ IntelScore(m1) = 0
      BY IntelScoreIsScore
    <2> QED
      BY <2>1, <2>2, ScoresAreIntegers
  <1>2. s1 \in Int /\ s2 \in Int /\ s1 <= s2
    BY <1>1, CompositeScoreIsScore, CompositeScoreMonotone, ScoresAreIntegers
  <1>3. (IsDga(x1) => IsDga(x2)) /\ (IsTunnel(t1) => IsTunnel(t2))
    BY ScoresAreIntegers DEF IsDga, IsTunnel
  <1>4. /\ d1 \in Actions
        /\ d1 = "BLOCK" <=> m1 \/ s1 >= RISK_THRESHOLD_BLOCK
        /\ d1 = "ALLOW" <=> ~(\/ m1 \/ s1 >= RISK_THRESHOLD_SUSPICIOUS
                               \/ IsDga(x1) \/ IsTunnel(t1))
    <2>1. Branches(m1, x1, t1, b1)
      BY DecideCases, Zenon
    <2> QED
      BY <2>1, Zenon DEF Branches
  <1>5. /\ d2 \in Actions
        /\ d2 = "BLOCK" <=> m2 \/ s2 >= RISK_THRESHOLD_BLOCK
        /\ d2 = "ALLOW" <=> ~(\/ m2 \/ s2 >= RISK_THRESHOLD_SUSPICIOUS
                               \/ IsDga(x2) \/ IsTunnel(t2))
    <2>1. Branches(m2, x2, t2, b2)
      BY DecideCases, Zenon
    <2> QED
      BY <2>1, Zenon DEF Branches
  <1> HIDE DEF s1, s2, d1, d2
  <1>6. /\ s1 >= RISK_THRESHOLD_BLOCK => s2 >= RISK_THRESHOLD_BLOCK
        /\ s1 >= RISK_THRESHOLD_SUSPICIOUS => s2 >= RISK_THRESHOLD_SUSPICIOUS
    BY <1>2 DEF RISK_THRESHOLD_BLOCK, RISK_THRESHOLD_SUSPICIOUS
  <1>7. (d1 = "BLOCK" => d2 = "BLOCK") /\ (d2 = "ALLOW" => d1 = "ALLOW")
    BY <1>3, <1>4, <1>5, <1>6, Zenon
  <1>8. Severity(d1) <= Severity(d2)
    BY <1>4, <1>5, <1>7 DEF Actions, Severity
  <1> QED
    BY <1>2, <1>8 DEF s1, s2, d1, d2

\* None of the classifier, the tunnel detector and the behaviour score can block
\* without another.
LEMMA OneScoreNeverBlocks ==
    ASSUME NEW x \in Score, NEW m \in BOOLEAN, ~m
    PROVE  /\ Decide(m, x, 0, 0) # "BLOCK"
           /\ Decide(m, 0, x, 0) # "BLOCK"
           /\ Decide(m, 0, 0, x) # "BLOCK"
  <1>1. 0 \in Score /\ IntelScore(m) = 0
    BY IntelScoreIsScore DEF Score, MaxScore
  <1>2. /\ CompositeScore(0, x, 0, 0) \in Int
        /\ CompositeScore(0, 0, x, 0) \in Int
        /\ CompositeScore(0, 0, 0, x) \in Int
    BY <1>1, CompositeScoreIsScore, ScoresAreIntegers
  <1>3. /\ ~(CompositeScore(0, x, 0, 0) >= RISK_THRESHOLD_BLOCK)
        /\ ~(CompositeScore(0, 0, x, 0) >= RISK_THRESHOLD_BLOCK)
        /\ ~(CompositeScore(0, 0, 0, x) >= RISK_THRESHOLD_BLOCK)
    BY <1>2, OneScoreBelowBlock DEF RISK_THRESHOLD_BLOCK
  <1>4. Branches(m, x, 0, 0) /\ Branches(m, 0, x, 0) /\ Branches(m, 0, 0, x)
    BY <1>1, DecideCases, Zenon
  <1> QED
    BY <1>1, <1>3, <1>4, Zenon DEF Branches

-----------------------------------------------------------------------------
(* The cache *)

UniqueKeys(c) == \A i, j \in DOMAIN c : c[i].key = c[j].key => i = j

\* At finds an entry of the key.
LEMMA AtProperties ==
    ASSUME NEW c, NEW k, Has(c, k)
    PROVE  At(c, k) \in DOMAIN c /\ c[At(c, k)].key = k
  BY DEF Has, At

\* With unique keys there is one place to find.
LEMMA AtUnique ==
    ASSUME NEW c, UniqueKeys(c), NEW i \in DOMAIN c
    PROVE  At(c, c[i].key) = i
  BY AtProperties DEF Has, UniqueKeys

\* A lookup that misses takes at most one entry out and changes no other.
LEMMA AfterMissProperties ==
    ASSUME NEW S, NEW c \in Seq(S), NEW k
    PROVE  /\ AfterMiss(c, k) \in Seq(S)
           /\ Len(AfterMiss(c, k)) <= Len(c)
           /\ \A i \in DOMAIN AfterMiss(c, k) :
                \E j \in DOMAIN c : AfterMiss(c, k)[i] = c[j]
           /\ UniqueKeys(c) => UniqueKeys(AfterMiss(c, k))
  <1> DEFINE n == At(c, k)
             r == AfterMiss(c, k)
  <1>0. Len(c) \in Nat /\ DOMAIN c = 1 .. Len(c)
    BY LenProperties
  <1>1. CASE ~Has(c, k)
    BY <1>0, <1>1 DEF AfterMiss
  <1>2. CASE Has(c, k)
    <2>1. n \in 1 .. Len(c)
      BY <1>0, <1>2, AtProperties
    <2>2. r = RemoveAt(c, n)
      BY <1>2 DEF AfterMiss
    <2> HIDE DEF n, r
    <2>3. /\ r \in Seq(S)
          /\ Len(r) = Len(c) - 1
          /\ \A i \in 1 .. Len(c) - 1 : r[i] = IF i < n THEN c[i] ELSE c[i + 1]
      BY <2>1, <2>2, RemoveAtProperties
    <2>4. DOMAIN r = 1 .. Len(c) - 1
      BY <2>3, LenProperties
    <2>5. ASSUME NEW i \in DOMAIN r
          PROVE  \E j \in DOMAIN c : r[i] = c[j]
      <3>1. i \in DOMAIN c /\ i + 1 \in DOMAIN c
        BY <1>0, <2>4
      <3> QED
        BY <2>3, <2>4, <3>1
    <2>6. ASSUME UniqueKeys(c), NEW i \in DOMAIN r, NEW j \in DOMAIN r, r[i].key = r[j].key
          PROVE  i = j
      <3> DEFINE from(x) == IF x < n THEN x ELSE x + 1
      <3>1. \A x \in DOMAIN r : from(x) \in DOMAIN c /\ r[x] = c[from(x)]
        BY <1>0, <2>3, <2>4
      <3>2. from(i) = from(j)
        BY <2>6, <3>1 DEF UniqueKeys
      <3> QED
        BY <1>0, <2>1, <2>4, <3>2
    <2> QED
      BY <1>0, <2>3, <2>5, <2>6 DEF UniqueKeys, r
  <1> QED
    BY <1>1, <1>2

\* A store adds its entry, in the place of the old one of that key or at the end,
\* within the limit on entries, and brings in nothing else.
LEMMA PutProperties ==
    ASSUME NEW S, NEW c \in Seq(S), NEW entry \in S
    PROVE  /\ Put(c, entry) \in Seq(S)
           /\ Len(c) <= MaxEntries => Len(Put(c, entry)) <= MaxEntries
           /\ \A i \in DOMAIN Put(c, entry) :
                Put(c, entry)[i] = entry \/ \E j \in DOMAIN c : Put(c, entry)[i] = c[j]
           /\ UniqueKeys(c) => UniqueKeys(Put(c, entry))
  <1> DEFINE r == Put(c, entry)
             n == At(c, entry.key)
  <1>0. Len(c) \in Nat /\ DOMAIN c = 1 .. Len(c)
    BY LenProperties
  <1>1. CASE Has(c, entry.key)
    <2>1. n \in DOMAIN c /\ c[n].key = entry.key
      BY <1>1, AtProperties
    <2>2. r = [c EXCEPT ![n] = entry]
      BY <1>1 DEF Put
    <2> HIDE DEF n, r
    <2>3. /\ r \in Seq(S) /\ DOMAIN r = DOMAIN c /\ Len(r) = Len(c)
          /\ \A i \in DOMAIN c : r[i] = IF i = n THEN entry ELSE c[i]
      BY <1>0, <2>1, <2>2, ExceptSeq
    <2>4. UniqueKeys(c) => UniqueKeys(r)
      BY <2>1, <2>3 DEF UniqueKeys
    <2> QED
      BY <2>3, <2>4 DEF r
  <1>2. ASSUME NEW s \in Seq(S), r = Append(s, entry),
               Len(c) <= MaxEntries => Len(s) + 1 <= MaxEntries,
               \A i \in DOMAIN s : \E j \in DOMAIN c : s[i] = c[j],
               UniqueKeys(c) => UniqueKeys(s),
               ~Has(c, entry.key)
        PROVE  /\ r \in Seq(S)
               /\ Len(c) <= MaxEntries => Len(r) <= MaxEntries
               /\ \A i \in DOMAIN r : r[i] = entry \/ \E j \in DOMAIN c : r[i] = c[j]
               /\ UniqueKeys(c) => UniqueKeys(r)
    <2> HIDE DEF r
    <2>1. Len(s) \in Nat /\ DOMAIN s = 1 .. Len(s)
      BY LenProperties
    <2>2. /\ r \in Seq(S) /\ Len(r) = Len(s) + 1 /\ DOMAIN r = 1 .. Len(s) + 1
          /\ \A i \in DOMAIN s : r[i] = s[i]
          /\ r[Len(s) + 1] = entry
      BY <1>2, <2>1, AppendProperties, LenProperties
    <2>3. \A i \in DOMAIN r : i \in DOMAIN s \/ i = Len(s) + 1
      BY <2>1, <2>2
    <2>4. \A i \in DOMAIN s : r[i].key # entry.key
      BY <1>2, <2>2 DEF Has
    <2>5. UniqueKeys(c) => UniqueKeys(r)
      BY <1>2, <2>2, <2>3, <2>4 DEF UniqueKeys
    <2>6. \A i \in DOMAIN r : r[i] = entry \/ \E j \in DOMAIN c : r[i] = c[j]
      BY <1>2, <2>2, <2>3
    <2> QED
      BY <1>2, <2>2, <2>5, <2>6
  <1>3. CASE ~Has(c, entry.key) /\ Len(c) >= MaxEntries
    <2>1. r = Append(Tail(c), entry)
      BY <1>3 DEF Put
    <2>2. c # <<>>
      BY <1>0, <1>3, MaxEntriesAssumption
    <2>3. /\ Tail(c) \in Seq(S) /\ Len(Tail(c)) = Len(c) - 1
          /\ \A i \in 1 .. Len(c) - 1 : Tail(c)[i] = c[i + 1]
      BY <2>2, HeadTailProperties
    <2>4. DOMAIN Tail(c) = 1 .. Len(c) - 1
      BY <2>3, LenProperties
    <2>5. \A i \in DOMAIN Tail(c) : i + 1 \in DOMAIN c /\ Tail(c)[i] = c[i + 1]
      BY <1>0, <2>3, <2>4
    <2>6. UniqueKeys(c) => UniqueKeys(Tail(c))
      BY <1>0, <2>4, <2>5 DEF UniqueKeys
    <2>7. Len(c) <= MaxEntries => Len(Tail(c)) + 1 <= MaxEntries
      BY <1>0, <2>3, MaxEntriesAssumption
    <2>8. \A i \in DOMAIN Tail(c) : \E j \in DOMAIN c : Tail(c)[i] = c[j]
      BY <2>5
    <2> QED
      BY <1>2, <1>3, <2>1, <2>3, <2>6, <2>7, <2>8, Zenon
  <1>4. CASE ~Has(c, entry.key) /\ ~(Len(c) >= MaxEntries)
    <2>1. r = Append(c, entry)
      BY <1>4 DEF Put
    <2> HIDE DEF r
    <2> QED
      BY <1>0, <1>2, <1>4, <2>1, MaxEntriesAssumption DEF r
  <1> QED
    BY <1>1, <1>3, <1>4

\* The fields of an entry, also as time passes.
LEMMA EntryFields ==
    ASSUME NEW K, NEW V, NEW e \in Entry(K, V)
    PROVE  /\ e.key \in K /\ e.decision \in V /\ e.left \in 0 .. TTL
           /\ [e EXCEPT !.left = Elapsed(e.left)] \in Entry(K, V)
  <1>1. Elapsed(e.left) \in 0 .. TTL
    BY TTLAssumption DEF Entry, Elapsed
  <1> QED
    BY <1>1 DEF Entry

\* Time passing changes no key and no decision, and takes lifetime away.
LEMMA AgedProperties ==
    ASSUME NEW K, NEW V, NEW c \in Seq(Entry(K, V))
    PROVE  /\ Aged(c) \in Seq(Entry(K, V))
           /\ Len(Aged(c)) = Len(c) /\ DOMAIN Aged(c) = DOMAIN c
           /\ \A i \in DOMAIN c : /\ Aged(c)[i].key = c[i].key
                                  /\ Aged(c)[i].decision = c[i].decision
                                  /\ Aged(c)[i].left <= c[i].left
           /\ UniqueKeys(c) => UniqueKeys(Aged(c))
  <1>0. Len(c) \in Nat /\ DOMAIN c = 1 .. Len(c)
    BY LenProperties
  <1>1. ASSUME NEW i \in DOMAIN c
        PROVE  /\ Aged(c)[i] \in Entry(K, V)
               /\ Aged(c)[i].key = c[i].key
               /\ Aged(c)[i].decision = c[i].decision
               /\ Aged(c)[i].left <= c[i].left
    <2>1. c[i] \in Entry(K, V)
      BY <1>0, ElementOfSeq
    <2>2. Aged(c)[i] = [c[i] EXCEPT !.left = Elapsed(c[i].left)]
      BY DEF Aged
    <2>3. c[i].left \in 0 .. TTL
      BY <2>1 DEF Entry
    <2>4. Elapsed(c[i].left) \in 0 .. TTL /\ Elapsed(c[i].left) <= c[i].left
      BY <2>3, TTLAssumption DEF Elapsed
    <2> QED
      BY <2>1, <2>2, <2>4 DEF Entry
  <1>2. DOMAIN Aged(c) = 1 .. Len(c)
    BY <1>0 DEF Aged
  <1>3. Aged(c) \in Seq(Entry(K, V)) /\ Len(Aged(c)) = Len(c)
    <2>1. Aged(c) = [i \in 1 .. Len(c) |-> Aged(c)[i]]
      BY <1>0, <1>2 DEF Aged
    <2>2. \A i \in 1 .. Len(c) : Aged(c)[i] \in Entry(K, V)
      BY <1>0, <1>1
    <2>3. Aged(c) \in Seq(Entry(K, V))
      <3>1. Aged(c) \in [1 .. Len(c) -> Entry(K, V)]
        BY <2>1, <2>2
      <3> QED
        BY <1>0, <3>1
    <2> QED
      BY <1>0, <1>2, <2>3, LenProperties
  <1> QED
    BY <1>0, <1>1, <1>2, <1>3 DEF UniqueKeys

\* The entries of a cache, wherever they stand.
Entries(c) == {c[i] : i \in DOMAIN c}

\* A key is in the dict when an entry has it.
LEMMA HasEntry ==
    ASSUME NEW c
    PROVE  \A k : Has(c, k) <=> \E e \in Entries(c) : e.key = k
  BY DEF Has, Entries

\* With unique keys, a key is live exactly when it has an entry with time left.
LEMMA LiveEntry ==
    ASSUME NEW c, UniqueKeys(c)
    PROVE  /\ \A k : Live(c, k) <=> \E e \in Entries(c) : e.key = k /\ e.left > 0
           /\ \A e \in Entries(c) : Has(c, e.key) /\ c[At(c, e.key)] = e
  <1>1. ASSUME NEW e \in Entries(c)
        PROVE  Has(c, e.key) /\ c[At(c, e.key)] = e
    <2>1. PICK i \in DOMAIN c : c[i] = e
      BY DEF Entries
    <2> QED
      BY <2>1, AtUnique DEF Has
  <1>2. ASSUME NEW k, Live(c, k)
        PROVE  \E e \in Entries(c) : e.key = k /\ e.left > 0
    BY <1>2, AtProperties DEF Live, Entries
  <1> QED
    BY <1>1, <1>2 DEF Live

\* A lookup that misses takes out the entry of its key and no other.
LEMMA AfterMissEntries ==
    ASSUME NEW S, NEW c \in Seq(S), NEW k, UniqueKeys(c)
    PROVE  Entries(AfterMiss(c, k)) = {e \in Entries(c) : e.key # k}
  <1> DEFINE n == At(c, k)
             r == AfterMiss(c, k)
  <1>0. Len(c) \in Nat /\ DOMAIN c = 1 .. Len(c)
    BY LenProperties
  <1>1. CASE ~Has(c, k)
    BY <1>1 DEF AfterMiss, Has, Entries
  <1>2. CASE Has(c, k)
    <2>1. n \in 1 .. Len(c) /\ c[n].key = k
      BY <1>0, <1>2, AtProperties
    <2>2. r = RemoveAt(c, n)
      BY <1>2 DEF AfterMiss
    <2> HIDE DEF n, r
    <2>3. /\ r \in Seq(S)
          /\ Len(r) = Len(c) - 1
          /\ \A i \in 1 .. Len(c) - 1 : r[i] = IF i < n THEN c[i] ELSE c[i + 1]
      BY <2>1, <2>2, RemoveAtProperties
    <2>4. DOMAIN r = 1 .. Len(c) - 1
      BY <2>3, LenProperties
    <2>5. \A j \in DOMAIN c : c[j].key # k <=> j # n
      BY <1>0, <2>1 DEF UniqueKeys
    <2>6. ASSUME NEW i \in DOMAIN r
          PROVE  \E j \in DOMAIN c : j # n /\ r[i] = c[j]
      <3>1. i \in DOMAIN c /\ i + 1 \in DOMAIN c
        BY <1>0, <2>4
      <3>2. CASE i < n
        BY <2>1, <2>3, <2>4, <3>1, <3>2
      <3>3. CASE ~(i < n)
        <4>1. r[i] = c[i + 1] /\ i + 1 # n
          BY <1>0, <2>1, <2>3, <2>4, <3>3
        <4> QED
          BY <3>1, <4>1
      <3> QED
        BY <3>2, <3>3
    <2>7. ASSUME NEW j \in DOMAIN c, j # n
          PROVE  \E i \in DOMAIN r : r[i] = c[j]
      <3>1. CASE j < n
        <4>1. j \in DOMAIN r /\ r[j] = c[j]
          BY <1>0, <2>1, <2>3, <2>4, <3>1
        <4> QED
          BY <4>1
      <3>2. CASE n < j
        <4>1. j - 1 \in DOMAIN r /\ r[j - 1] = c[j]
          BY <1>0, <2>1, <2>3, <2>4, <3>2
        <4> QED
          BY <4>1
      <3> QED
        BY <1>0, <2>1, <2>7, <3>1, <3>2
    <2> QED
      BY <2>5, <2>6, <2>7 DEF Entries, r
  <1> QED
    BY <1>1, <1>2

\* A store brings its entry in.  The oldest goes when the dict is full and the
\* key is new, and otherwise the entry of the same key and no other.
LEMMA PutEntries ==
    ASSUME NEW S, NEW c \in Seq(S), NEW entry \in S, UniqueKeys(c)
    PROVE  /\ Has(c, entry.key) \/ Len(c) < MaxEntries =>
                Entries(Put(c, entry)) = {e \in Entries(c) : e.key # entry.key} \cup {entry}
           /\ ~Has(c, entry.key) /\ Len(c) >= MaxEntries =>
                /\ Len(Put(c, entry)) = Len(c)
                /\ \A i \in 2 .. Len(c) : i - 1 \in DOMAIN Put(c, entry)
                                            /\ Put(c, entry)[i - 1] = c[i]
                /\ Entries(Put(c, entry)) = {c[i] : i \in 2 .. Len(c)} \cup {entry}
  <1> DEFINE r == Put(c, entry)
             n == At(c, entry.key)
  <1>0. Len(c) \in Nat /\ DOMAIN c = 1 .. Len(c)
    BY LenProperties
  <1>1. CASE Has(c, entry.key)
    <2>1. n \in DOMAIN c /\ c[n].key = entry.key
      BY <1>1, AtProperties
    <2>2. r = [c EXCEPT ![n] = entry]
      BY <1>1 DEF Put
    <2>3. \A j \in DOMAIN c : c[j].key # entry.key <=> j # n
      BY <2>1 DEF UniqueKeys
    <2> HIDE DEF n, r
    <2>4. /\ DOMAIN r = DOMAIN c
          /\ \A i \in DOMAIN c : r[i] = IF i = n THEN entry ELSE c[i]
      BY <2>2
    <2>5. Entries(r) = {e \in Entries(c) : e.key # entry.key} \cup {entry}
      BY <2>1, <2>3, <2>4 DEF Entries
    <2> QED
      BY <1>1, <2>5 DEF r
  <1>2. CASE ~Has(c, entry.key) /\ Len(c) >= MaxEntries
    <2>1. r = Append(Tail(c), entry)
      BY <1>2 DEF Put
    <2>2. c # <<>>
      BY <1>0, <1>2, MaxEntriesAssumption
    <2>3. /\ Tail(c) \in Seq(S) /\ Len(Tail(c)) = Len(c) - 1
          /\ \A i \in 1 .. Len(c) - 1 : Tail(c)[i] = c[i + 1]
      BY <2>2, HeadTailProperties
    <2> HIDE DEF r
    <2>4. /\ r \in Seq(S) /\ Len(r) = Len(c)
          /\ \A i \in 1 .. Len(c) - 1 : r[i] = c[i + 1]
          /\ r[Len(c)] = entry
      BY <1>0, <2>1, <2>3, AppendProperties
    <2>5. DOMAIN r = 1 .. Len(c)
      BY <2>4, LenProperties
    <2>6. Len(c) \in DOMAIN r
      BY <1>0, <1>2, <2>5, MaxEntriesAssumption
    <2>7. \A i \in 2 .. Len(c) : i - 1 \in DOMAIN r /\ r[i - 1] = c[i]
      BY <1>0, <2>4, <2>5
    <2>8. \A i \in DOMAIN r : i = Len(c) \/ (i + 1 \in 2 .. Len(c) /\ r[i] = c[i + 1])
      BY <1>0, <2>4, <2>5
    <2>9. Entries(r) = {c[i] : i \in 2 .. Len(c)} \cup {entry}
      BY <2>4, <2>6, <2>7, <2>8 DEF Entries
    <2> QED
      BY <1>2, <2>4, <2>7, <2>9, <1>0, MaxEntriesAssumption DEF r
  <1>3. CASE ~Has(c, entry.key) /\ Len(c) < MaxEntries
    <2>1. r = Append(c, entry)
      BY <1>0, <1>3, MaxEntriesAssumption DEF Put
    <2>2. \A j \in DOMAIN c : c[j].key # entry.key
      BY <1>3 DEF Has
    <2> HIDE DEF r
    <2>3. /\ r \in Seq(S) /\ Len(r) = Len(c) + 1
          /\ \A i \in 1 .. Len(c) : r[i] = c[i]
          /\ r[Len(c) + 1] = entry
      BY <2>1, AppendProperties
    <2>4. DOMAIN r = 1 .. Len(c) + 1
      BY <2>3, LenProperties
    <2>5. /\ Len(c) + 1 \in DOMAIN r
          /\ \A i \in DOMAIN r : i = Len(c) + 1 \/ i \in DOMAIN c
          /\ \A i \in DOMAIN c : i \in DOMAIN r /\ r[i] = c[i]
      BY <1>0, <2>3, <2>4
    <2>6. Entries(r) = {e \in Entries(c) : e.key # entry.key} \cup {entry}
      BY <2>2, <2>3, <2>5 DEF Entries
    <2> QED
      BY <1>0, <1>3, <2>6, MaxEntriesAssumption DEF r
  <1> QED
    BY <1>0, <1>1, <1>2, <1>3, MaxEntriesAssumption

\* What a deletion leaves.
LEMMA KeptAtEntries ==
    ASSUME NEW S, NEW c \in Seq(S), NEW P \in SUBSET DOMAIN c
    PROVE  /\ Entries(KeptAt(c, P)) = {c[i] : i \in P}
           /\ UniqueKeys(c) => UniqueKeys(KeptAt(c, P))
  <1> DEFINE r == KeptAt(c, P)
             N == Cardinality(P)
  <1>1. /\ N \in Nat /\ DOMAIN r = 1 .. N
        /\ \A n \in 1 .. N : Nth(P, n) \in P /\ r[n] = c[Nth(P, n)]
        /\ \A j \in P : \E n \in 1 .. N : Nth(P, n) = j
        /\ \A m, n \in 1 .. N : m < n <=> Nth(P, m) < Nth(P, n)
    BY KeptAtProperties
  <1> HIDE DEF r, N
  <1>2. Entries(r) = {c[i] : i \in P}
    <2>1. ASSUME NEW n \in DOMAIN r PROVE \E i \in P : r[n] = c[i]
      BY <1>1
    <2>2. ASSUME NEW i \in P PROVE \E n \in DOMAIN r : c[i] = r[n]
      BY <1>1
    <2> QED
      BY <2>1, <2>2 DEF Entries
  <1>3. ASSUME UniqueKeys(c), NEW m \in DOMAIN r, NEW n \in DOMAIN r, r[m].key = r[n].key
        PROVE  m = n
    <2>1. Nth(P, m) = Nth(P, n)
      BY <1>1, <1>3 DEF UniqueKeys
    <2>2. DOMAIN c \subseteq Int
      BY LenProperties
    <2>3. Nth(P, m) \in Int
      BY <1>1, <2>2
    <2>4. ~(Nth(P, m) < Nth(P, n)) /\ ~(Nth(P, n) < Nth(P, m))
      BY <2>1, <2>3
    <2> QED
      BY <1>1, <2>4
  <1> QED
    BY <1>2, <1>3 DEF r, UniqueKeys

\* Time passing takes a tick off what every entry has left.
LEMMA AgedEntries ==
    ASSUME NEW c
    PROVE  Entries(Aged(c)) = {[e EXCEPT !.left = Elapsed(e.left)] : e \in Entries(c)}
  BY DEF Aged, Entries
=============================================================================
