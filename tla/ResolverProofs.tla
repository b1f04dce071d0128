--------------------------- MODULE ResolverProofs ---------------------------
(***************************************************************************)
(* Proofs of Resolver's safety properties, for every set of domains and    *)
(* workers, every classifier, every tunnel score, every TTL, cache size    *)
(* and number of faults.                                                   *)
(***************************************************************************)
EXTENDS Resolver, OperatorLemmas

-----------------------------------------------------------------------------
(* The records *)

\* No evidence is a score.
LEMMA ZeroIsScore == 0 \in Score
  BY DEF Score, MaxScore

\* What the risk engine decides is a decision.
LEMMA DecidedType ==
    ASSUME NEW m \in BOOLEAN, NEW x \in Score, NEW t \in Score, NEW g \in BOOLEAN
    PROVE  Decided(m, x, t, g) \in Decision
  <1>1. 0 \in Score
    BY ZeroIsScore
  <1>2. Decide(m, x, t, 0) \in Actions
    <2>1. Branches(m, x, t, 0)
      BY <1>1, DecideCases, Zenon
    <2> QED
      BY <2>1, Zenon DEF Branches
  <1> QED
    BY <1>2, Zenon DEF Decided, Decision

\* The decision of a query that has none yet.
LEMMA UndecidedType == Undecided \in Decision
  <1>1. "ALLOW" \in Actions
    BY DEF Actions
  <1> QED
    BY <1>1, Zenon DEF Undecided, Decision

\* A query received is a job.
LEMMA NewJobType == \A d \in Domains : NewJob(d) \in Job
  BY UndecidedType, TTLAssumption DEF NewJob, Job, Answers

\* An idle worker's job is one.
LEMMA NoJobType == NoJob \in Job
  BY NewJobType, WorkersAssumption DEF NoJob

-----------------------------------------------------------------------------
(* Types *)

LEMMA TypeInit == Init => TypeOK
  <1> SUFFICES ASSUME Init
               PROVE  TypeOK
    OBVIOUS
  <1>1. cache \in Seq(Entry(Domains, Decision))
    BY EmptySeq DEF Init
  <1>2. pc \in [Workers -> Steps]
    BY DEF Init, Steps
  <1>3. job \in [Workers -> Job]
    BY NoJobType DEF Init
  <1>4. faults \in 0 .. MaxFaults
    BY WorkersAssumption DEF Init
  <1> QED
    BY <1>1, <1>2, <1>3, <1>4 DEF Init, TypeOK

\* A worker's field may be overwritten with a value of the field's own set.
LEMMA JobFields ==
    ASSUME NEW j \in Job
    PROVE  /\ \A x \in Decision : [j EXCEPT !.decision = x] \in Job
           /\ \A x \in Decision : [j EXCEPT !.decision = x, !.hit = TRUE] \in Job
           /\ \A x \in {"none", "match", "clean"} : [j EXCEPT !.lookup = x] \in Job
           /\ \A x \in {"none", "match", "clean"} :
                [j EXCEPT !.lookup = x, !.decision.degraded = TRUE] \in Job
           /\ \A x \in 0 .. TTL : [j EXCEPT !.left = x] \in Job
           /\ \A x \in Answers : [j EXCEPT !.answer = x] \in Job
  <1>1. j.decision \in Decision
    BY DEF Job
  <1>2. [j.decision EXCEPT !.degraded = TRUE] \in Decision
    BY <1>1, Zenon DEF Decision
  <1> QED
    BY <1>2, Zenon DEF Job

\* The types of a worker's step from the record it leaves behind.
LEMMA WorkerTypes ==
    ASSUME TypeOK, NEW w \in Workers, NEW x \in Job, NEW step \in Steps,
           job' = [job EXCEPT ![w] = x] \/ job' = job,
           Goto(w, step),
           cache' \in Seq(Entry(Domains, Decision)),
           intel' = intel,
           faults' = faults \/ (faults < MaxFaults /\ faults' = faults + 1)
    PROVE  TypeOK'
  <1>1. job' \in [Workers -> Job]
    BY Zenon DEF TypeOK
  <1>2. pc' \in [Workers -> Steps]
    BY Zenon DEF TypeOK, Goto
  <1>3. faults' \in 0 .. MaxFaults
    BY WorkersAssumption DEF TypeOK
  <1> QED
    BY <1>1, <1>2, <1>3, Zenon DEF TypeOK

\* What the pipeline decides, from any detector results, has its type.
LEMMA DetectTypes ==
    ASSUME TypeOK, NEW w \in Workers, NEW x \in Score, NEW tunnel \in Score, NEW g \in BOOLEAN
    PROVE  [job[w] EXCEPT !.decision = Decided(job[w].lookup = "match", x, tunnel, g)] \in Job
  <1>1. (job[w].lookup = "match") \in BOOLEAN
    OBVIOUS
  <1>2. job[w] \in Job
    BY Zenon DEF TypeOK
  <1>3. Decided(job[w].lookup = "match", x, tunnel, g) \in Decision
    BY <1>1, DecidedType, Zenon
  <1> QED
    BY <1>2, <1>3, JobFields, Zenon

\* Every action of every worker keeps the types.
LEMMA TypeStep == TypeOK /\ [Next]_vars => TypeOK'
  <1> SUFFICES ASSUME TypeOK, [Next]_vars
               PROVE  TypeOK'
    OBVIOUS
  <1>a. /\ cache \in Seq(Entry(Domains, Decision))
        /\ \A w \in Workers : job[w] \in Job
    BY DEF TypeOK
  <1>b. /\ \A s \in {"idle", "cache", "intel", "detect", "stamp", "store",
                     "respond", "primary", "secondary", "reply"} : s \in Steps
        /\ 0 \in Score /\ 0 \in 0 .. TTL /\ TTL \in 0 .. TTL
        /\ \A a \in {"sinkhole", "upstream", "servfail", "decision", "error"} : a \in Answers
    BY TTLAssumption DEF Steps, Score, MaxScore, Answers
  <1>c. /\ \A t \in TunnelScores : t \in Score
        /\ \A w \in Workers : MlProbability[job[w].domain] \in Score
    BY <1>a, WorkersAssumption DEF Job
  <1>0. CASE UNCHANGED vars
    BY <1>0 DEF vars, TypeOK
  <1>1. ASSUME NEW w \in Workers, NEW d \in Domains, Receive(w, d)
        PROVE  TypeOK'
    BY <1>1, <1>a, <1>b, NewJobType, WorkerTypes, Zenon DEF Receive
  <1>2. ASSUME NEW w \in Workers, CacheHit(w)
        PROVE  TypeOK'
    <2> DEFINE x == Cached(cache, job[w].domain)
    <2>1. x \in Decision
      <3>1. At(cache, job[w].domain) \in DOMAIN cache
        BY <1>2, AtProperties, Zenon DEF CacheHit, Live
      <3>2. cache[At(cache, job[w].domain)] \in Entry(Domains, Decision)
        BY <1>a, <3>1, ElementOfSeq, LenProperties
      <3> QED
        BY <3>2, Zenon DEF Cached, Entry
    <2>2. job' = [job EXCEPT ![w] = [job[w] EXCEPT !.decision = x, !.hit = TRUE]]
      BY <1>2 DEF CacheHit
    <2> HIDE DEF x
    <2>3. [job[w] EXCEPT !.decision = x, !.hit = TRUE] \in Job
      BY <1>a, <2>1, JobFields, Zenon
    <2> QED
      BY <1>2, <1>a, <1>b, <2>2, <2>3, WorkerTypes, Zenon DEF CacheHit
  <1>3. ASSUME NEW w \in Workers, CacheMiss(w)
        PROVE  TypeOK'
    <2>1. cache' \in Seq(Entry(Domains, Decision))
      BY <1>3, <1>a, AfterMissProperties, Zenon DEF CacheMiss
    <2> QED
      BY <1>3, <1>a, <1>b, <2>1, WorkerTypes, Zenon DEF CacheMiss
  <1>4. ASSUME NEW w \in Workers, IntelLookup(w)
        PROVE  TypeOK'
    <2> DEFINE x == IF job[w].domain \in intel THEN "match" ELSE "clean"
    <2>1. job' = [job EXCEPT ![w] = [job[w] EXCEPT !.lookup = x]]
      BY <1>4 DEF IntelLookup
    <2>2. [job[w] EXCEPT !.lookup = x] \in Job
      BY <1>a, JobFields, Zenon
    <2> QED
      BY <1>4, <1>a, <1>b, <2>1, <2>2, WorkerTypes, Zenon DEF IntelLookup
  <1>5. ASSUME NEW w \in Workers, IntelRaises(w)
        PROVE  TypeOK'
    <2> DEFINE x == [job[w] EXCEPT !.lookup = "clean", !.decision.degraded = TRUE]
    <2>1. job' = [job EXCEPT ![w] = x]
      BY <1>5 DEF IntelRaises
    <2>2. x \in Job
      BY <1>a, JobFields, Zenon
    <2> QED
      BY <1>5, <1>a, <1>b, <2>1, <2>2, WorkerTypes, Zenon DEF IntelRaises
  <1>6. ASSUME NEW w \in Workers, Detect(w)
        PROVE  TypeOK'
    <2>1. PICK tunnel \in TunnelScores :
            job' = [job EXCEPT ![w].decision =
                      IF FastPath(w)
                      THEN Decided(job[w].lookup = "match", 0, 0, job[w].decision.degraded)
                      ELSE Decided(job[w].lookup = "match", MlProbability[job[w].domain], tunnel,
                                   job[w].decision.degraded)]
      BY <1>6, Zenon DEF Detect
    <2>2. job[w].decision.degraded \in BOOLEAN
      BY <1>a, Zenon DEF Job, Decision
    <2>3. PICK x \in Job : job' = [job EXCEPT ![w] = x]
      BY <1>b, <1>c, <2>1, <2>2, DetectTypes, Zenon
    <2> QED
      BY <1>6, <1>a, <1>b, <2>3, WorkerTypes, Zenon DEF Detect
  <1>7. ASSUME NEW w \in Workers, DetectorRaises(w)
        PROVE  TypeOK'
    <2>1. PICK x \in Job : job' = [job EXCEPT ![w] = x]
      <3>1. PICK tunnel \in TunnelScores :
              \/ job' = [job EXCEPT ![w].decision =
                           Decided(job[w].lookup = "match", 0, tunnel, TRUE)]
              \/ job' = [job EXCEPT ![w].decision =
                           Decided(job[w].lookup = "match", 0, 0, TRUE)]
              \/ job' = [job EXCEPT ![w].decision =
                           Decided(job[w].lookup = "match", MlProbability[job[w].domain], 0, TRUE)]
        BY <1>7, Zenon DEF DetectorRaises
      <3> QED
        BY <1>b, <1>c, <3>1, DetectTypes, Zenon
    <2> QED
      BY <1>7, <1>a, <1>b, <2>1, WorkerTypes, Zenon DEF DetectorRaises
  <1>8. ASSUME NEW w \in Workers, DetectionTimeout(w)
        PROVE  TypeOK'
    <2>1. PICK x \in Job : job' = [job EXCEPT ![w] = x]
      <3>1. Decided(FALSE, 0, 0, TRUE) \in Decision
        BY <1>b, DecidedType, Zenon
      <3> QED
        BY <1>8, <1>a, <3>1, JobFields, Zenon DEF DetectionTimeout
    <2> QED
      BY <1>8, <1>a, <1>b, <2>1, WorkerTypes, Zenon DEF DetectionTimeout
  <1>9. ASSUME NEW w \in Workers, Stamp(w)
        PROVE  TypeOK'
    <2>1. job' = [job EXCEPT ![w] = [job[w] EXCEPT !.left = TTL]]
      BY <1>9 DEF Stamp
    <2>2. [job[w] EXCEPT !.left = TTL] \in Job
      BY <1>a, <1>b, JobFields, Zenon
    <2> QED
      BY <1>9, <1>a, <1>b, <2>1, <2>2, WorkerTypes, Zenon DEF Stamp
  <1>10. ASSUME NEW w \in Workers, Store(w)
         PROVE  TypeOK'
    <2> DEFINE entry == [key |-> job[w].domain, decision |-> job[w].decision,
                         left |-> job[w].left]
    <2>1. entry \in Entry(Domains, Decision)
      BY <1>a, Zenon DEF Entry, Job
    <2>2. cache' = Put(cache, entry)
      BY <1>10 DEF Store
    <2> HIDE DEF entry
    <2>3. cache' \in Seq(Entry(Domains, Decision))
      BY <1>a, <2>1, <2>2, PutProperties, Zenon
    <2>4. job' = [job EXCEPT ![w] = [job[w] EXCEPT !.left = 0]]
      BY <1>10 DEF Store
    <2>5. [job[w] EXCEPT !.left = 0] \in Job
      BY <1>a, <1>b, JobFields, Zenon
    <2> QED
      BY <1>10, <1>b, <2>3, <2>4, <2>5, WorkerTypes, Zenon DEF Store
  <1>11. ASSUME NEW w \in Workers, NEW a \in Answers, Answer(w, a)
         PROVE  TypeOK'
    <2>1. job' = [job EXCEPT ![w] = [job[w] EXCEPT !.answer = a]]
      BY <1>11 DEF Answer
    <2>2. [job[w] EXCEPT !.answer = a] \in Job
      BY <1>a, JobFields, Zenon
    <2> QED
      BY <1>11, <1>a, <1>b, <2>1, <2>2, WorkerTypes, Zenon DEF Answer
  <1>12. ASSUME NEW w \in Workers, NEW step \in Steps, Goto(w, step),
                UNCHANGED <<cache, intel, job, faults>>
         PROVE  TypeOK'
    BY <1>12, <1>a, WorkerTypes, Zenon
  <1>13. ASSUME NEW w \in Workers, \/ SyncRespond(w) \/ AsyncRespond(w)
                                   \/ ForwardPrimary(w) \/ ForwardSecondary(w)
         PROVE  TypeOK'
    BY <1>11, <1>12, <1>13, <1>b, Zenon DEF SyncRespond, AsyncRespond, ForwardPrimary,
       ForwardSecondary
  <1>14. ASSUME NEW w \in Workers, PipelineRaises(w)
         PROVE  TypeOK'
    <2>1. PICK a \in Answers :
            job' = [job EXCEPT ![w] = [NewJob(job[w].domain) EXCEPT !.answer = a]]
      BY <1>14, <1>b, Zenon DEF PipelineRaises
    <2>2. NewJob(job[w].domain) \in Job
      BY <1>a, NewJobType, Zenon DEF Job
    <2>3. [NewJob(job[w].domain) EXCEPT !.answer = a] \in Job
      BY <2>2, JobFields, Zenon
    <2> QED
      BY <1>14, <1>a, <1>b, <2>1, <2>3, WorkerTypes, Zenon DEF PipelineRaises
  <1>15. ASSUME NEW w \in Workers, Reply(w)
         PROVE  TypeOK'
    BY <1>15, <1>a, <1>b, NoJobType, WorkerTypes, Zenon DEF Reply
  <1>16. ASSUME NEW published \in SUBSET Domains, PublishIntel(published)
         PROVE  TypeOK'
    BY <1>16, Zenon DEF PublishIntel, TypeOK
  <1>17. CASE Tick
    <2>1. cache' \in Seq(Entry(Domains, Decision))
      BY <1>17, <1>a, AgedProperties, Zenon DEF Tick
    <2>2. ASSUME NEW w \in Workers
          PROVE  [job[w] EXCEPT !.left = Elapsed(job[w].left)] \in Job
      <3>1. job[w].left \in 0 .. TTL
        BY <1>a DEF Job
      <3>2. Elapsed(job[w].left) \in 0 .. TTL
        BY <3>1, TTLAssumption DEF Elapsed
      <3> QED
        BY <1>a, <3>2, JobFields, Zenon
    <2>3. job' = [w \in Workers |-> [job[w] EXCEPT !.left = Elapsed(job[w].left)]]
      BY <1>17, Zenon DEF Tick
    <2>4. job' \in [Workers -> Job]
      BY <2>2, <2>3, Zenon
    <2> QED
      BY <1>17, <2>1, <2>4, Zenon DEF Tick, TypeOK
  <1> QED
    BY <1>0, <1>1, <1>2, <1>3, <1>4, <1>5, <1>6, <1>7, <1>8, <1>9, <1>10, <1>13, <1>14, <1>15,
       <1>16, <1>17, Zenon DEF Next, Proceed, Fault

\* Every variable always holds the kind of value the code keeps there.
THEOREM TypesHold == Spec => []TypeOK
  BY TypeInit, TypeStep, PTL DEF Spec

-----------------------------------------------------------------------------
(* The cache *)

LEMMA CacheWellFormedMeans ==
    CacheWellFormed <=> Len(cache) <= MaxEntries /\ UniqueKeys(cache)
  BY DEF CacheWellFormed, UniqueKeys

\* Expiry, overwriting and eviction keep keys unique and the dict within its limit.
LEMMA CacheStep == TypeOK /\ CacheWellFormed /\ [Next]_vars => CacheWellFormed'
  <1> SUFFICES ASSUME TypeOK, CacheWellFormed, [Next]_vars
               PROVE  CacheWellFormed'
    OBVIOUS
  <1>a. /\ cache \in Seq(Entry(Domains, Decision))
        /\ \A w \in Workers : job[w] \in Job
        /\ Len(cache) <= MaxEntries
        /\ UniqueKeys(cache)
    BY CacheWellFormedMeans DEF TypeOK
  <1>b. ASSUME Len(cache') <= MaxEntries, UniqueKeys(cache')
        PROVE  CacheWellFormed'
    BY <1>b DEF CacheWellFormed, UniqueKeys
  <1>1. CASE cache' = cache
    BY <1>1 DEF CacheWellFormed
  <1>2. ASSUME NEW w \in Workers, CacheMiss(w)
        PROVE  CacheWellFormed'
    <2>1. cache' = AfterMiss(cache, job[w].domain)
      BY <1>2 DEF CacheMiss
    <2>2. /\ cache' \in Seq(Entry(Domains, Decision))
          /\ Len(cache') <= Len(cache) /\ UniqueKeys(cache')
      BY <1>a, <2>1, AfterMissProperties, Zenon
    <2>3. Len(cache') <= MaxEntries
      BY <1>a, <2>2, LenProperties, MaxEntriesAssumption
    <2> QED
      BY <1>b, <2>2, <2>3
  <1>3. ASSUME NEW w \in Workers, Store(w)
        PROVE  CacheWellFormed'
    <2> DEFINE entry == [key |-> job[w].domain, decision |-> job[w].decision,
                         left |-> job[w].left]
    <2>1. entry \in Entry(Domains, Decision)
      BY <1>a, Zenon DEF Entry, Job
    <2>2. cache' = Put(cache, entry)
      BY <1>3 DEF Store
    <2> HIDE DEF entry
    <2> QED
      BY <1>a, <1>b, <2>1, <2>2, PutProperties, Zenon
  <1>4. CASE Tick
    BY <1>4, <1>a, <1>b, AgedProperties, Zenon DEF Tick
  <1>5. ASSUME NEW w \in Workers,
               \/ \E d \in Domains : Receive(w, d)
               \/ CacheHit(w) \/ IntelLookup(w) \/ Detect(w) \/ Stamp(w)
               \/ IntelRaises(w) \/ DetectorRaises(w) \/ DetectionTimeout(w) \/ PipelineRaises(w)
               \/ SyncRespond(w) \/ AsyncRespond(w) \/ ForwardPrimary(w) \/ ForwardSecondary(w)
               \/ Reply(w)
        PROVE  cache' = cache
    BY <1>5 DEF Receive, CacheHit, IntelLookup, Detect, Stamp, IntelRaises, DetectorRaises,
       DetectionTimeout, PipelineRaises, SyncRespond, AsyncRespond, ForwardPrimary,
       ForwardSecondary, Reply, Answer
  <1>6. (\E published \in SUBSET Domains : PublishIntel(published)) \/ UNCHANGED vars
          => cache' = cache
    BY DEF PublishIntel, vars
  <1> QED
    BY <1>1, <1>2, <1>3, <1>4, <1>5, <1>6, Zenon DEF Next, Proceed, Fault

\* The cache never outgrows its limit and never holds a domain twice.
THEOREM CacheStaysWellFormed == Spec => []CacheWellFormed
  <1>1. Init => CacheWellFormed
    BY EmptySeq, MaxEntriesAssumption DEF Init, CacheWellFormed
  <1> QED
    BY <1>1, CacheStep, TypesHold, PTL DEF Spec

-----------------------------------------------------------------------------
(* Decisions *)

\* What the risk engine decides from the results of all three detectors.
LEMMA FullResultJustified ==
    ASSUME NEW d \in Domains, NEW t \in TunnelScores, NEW m \in BOOLEAN, NEW g \in BOOLEAN
    PROVE  Justified(d, Decided(m, MlProbability[d], t, g))
  <1>0. PICK x \in Score : x = MlProbability[d]
    BY WorkersAssumption
  <1> DEFINE decision == Decided(m, x, t, g)
  <1>1. t \in Score /\ 0 \in Score
    <2>1. t \in Score
      BY WorkersAssumption, Zenon
    <2>2. 0 \in Score
      BY ZeroIsScore, Zenon
    <2> QED
      BY <2>1, <2>2, Zenon
  <1>2. decision.action = Decide(m, x, t, 0) /\ decision.matched = m /\ decision.degraded = g
    BY Zenon DEF Decided
  <1>3. Branches(m, x, t, 0)
    BY <1>1, DecideCases, Zenon
  <1> HIDE DEF decision
  <1>4. /\ m => decision.action = "BLOCK"
        /\ ~(IsDga(x) /\ decision.action = "ALLOW")
    BY <1>2, <1>3, Zenon DEF Branches
  <1>5. decision.action = "BLOCK" /\ ~m => CompositeScore(0, x, t, 0) >= RISK_THRESHOLD_BLOCK
    <2>1. ~m => IntelScore(m) = 0
      BY IntelScoreIsScore, Zenon
    <2> QED
      BY <1>2, <1>3, <2>1, Zenon DEF Branches
  <1>6. Justified(d, decision)
    BY <1>0, <1>2, <1>4, <1>5, Zenon DEF Justified
  <1> QED
    BY <1>0, <1>6, Zenon DEF decision

\* What it decides on a match alone, the other two detectors not being run.
LEMMA MatchJustified ==
    ASSUME NEW d \in Domains, NEW m \in BOOLEAN, m, NEW g \in BOOLEAN
    PROVE  Justified(d, Decided(m, 0, 0, g))
  <1>1. 0 \in Score /\ "ALLOW" # "BLOCK"
    BY DEF Score, MaxScore
  <1>2. Branches(m, 0, 0, 0)
    BY <1>1, DecideCases, Zenon
  <1>3. /\ Decided(m, 0, 0, g).action = "BLOCK"
        /\ Decided(m, 0, 0, g).matched = m
    BY <1>2, Zenon DEF Branches, Decided
  <1> QED
    BY <1>1, <1>3, Zenon DEF Justified

\* What it decides when a fallback stands in for one detector's result or more.
LEMMA FallbackJustified ==
    ASSUME NEW d \in Domains, NEW m \in BOOLEAN, NEW x \in Score, NEW t \in Score,
           x = 0 \/ t = 0
    PROVE  Justified(d, Decided(m, x, t, TRUE))
  <1> DEFINE decision == Decided(m, x, t, TRUE)
  <1>1. 0 \in Score
    BY ZeroIsScore
  <1>2. decision.action = Decide(m, x, t, 0) /\ decision.matched = m /\ decision.degraded = TRUE
    BY Zenon DEF Decided
  <1>3. ~m => Decide(m, x, t, 0) # "BLOCK"
    BY OneScoreNeverBlocks, Zenon
  <1>4. m => Decide(m, x, t, 0) = "BLOCK"
    <2>1. Branches(m, x, t, 0)
      BY <1>1, DecideCases, Zenon
    <2> QED
      BY <2>1, Zenon DEF Branches
  <1> HIDE DEF decision
  <1>5. Justified(d, decision)
    BY <1>2, <1>3, <1>4, Zenon DEF Justified
  <1> QED
    BY <1>5 DEF decision

\* Where a worker stands when job.decision is the pipeline's verdict.
Verdict(step, x) ==
    \/ step \in {"stamp", "store", "respond", "primary", "secondary"}
    \/ step = "reply" /\ x.answer \in {"sinkhole", "upstream", "decision"}

CacheJustified == \A i \in DOMAIN cache : Justified(cache[i].key, cache[i].decision)

\* A worker's step keeps decisions justified if what it leaves behind is.
LEMMA WorkerJustified ==
    ASSUME TypeOK, DecisionsJustified, NEW w \in Workers, NEW x, NEW step,
           job' = [job EXCEPT ![w] = x], Goto(w, step),
           Verdict(step, x) => Justified(x.domain, x.decision),
           CacheJustified'
    PROVE  DecisionsJustified'
  <1>1. ASSUME NEW v \in Workers, HasDecided(v)'
        PROVE  Justified(job'[v].domain, job'[v].decision)
    <2>1. CASE v = w
      <3>1. pc'[w] = step /\ job'[w] = x
        BY Zenon DEF TypeOK, Goto
      <3> QED
        BY <1>1, <2>1, <3>1, Zenon DEF HasDecided, Verdict
    <2>2. CASE v # w
      <3>1. pc'[v] = pc[v] /\ job'[v] = job[v]
        BY <2>2, Zenon DEF TypeOK, Goto
      <3> QED
        BY <1>1, <3>1, Zenon DEF HasDecided, DecisionsJustified
    <2> QED
      BY <2>1, <2>2
  <1> QED
    BY <1>1, Zenon DEF DecisionsJustified, CacheJustified

\* Decisions are made from evidence, stored and found; none changes on its way.
LEMMA JustifiedStep == TypeOK /\ DecisionsJustified /\ [Next]_vars => DecisionsJustified'
  <1> SUFFICES ASSUME TypeOK, DecisionsJustified, [Next]_vars
               PROVE  DecisionsJustified'
    OBVIOUS
  <1>a. /\ cache \in Seq(Entry(Domains, Decision))
        /\ job \in [Workers -> Job]
        /\ \A w \in Workers : job[w] \in Job /\ job[w].domain \in Domains
    BY DEF TypeOK, Job
  <1>b. CacheJustified
    BY Zenon DEF DecisionsJustified, CacheJustified
  <1>c. cache' = cache => CacheJustified'
    BY <1>b DEF CacheJustified
  <1>d. ASSUME NEW x
        PROVE  /\ \A s \in {"idle", "cache", "intel", "detect"} : ~Verdict(s, x)
               /\ x.answer \in {"none", "servfail", "error"} => ~Verdict("reply", x)
    BY DEF Verdict
  <1>e. 0 \in Score
    BY DEF Score, MaxScore
  <1>0. CASE UNCHANGED vars
    BY <1>0, Zenon DEF vars, DecisionsJustified, HasDecided
  <1>1. ASSUME NEW w \in Workers, NEW d \in Domains, Receive(w, d)
        PROVE  DecisionsJustified'
    BY <1>1, <1>c, <1>d, WorkerJustified, Zenon DEF Receive
  <1>2. ASSUME NEW w \in Workers, CacheHit(w)
        PROVE  DecisionsJustified'
    <2> DEFINE d == job[w].domain
               x == [job[w] EXCEPT !.decision = Cached(cache, d), !.hit = TRUE]
    <2>1. Justified(d, Cached(cache, d))
      <3>1. At(cache, d) \in DOMAIN cache /\ cache[At(cache, d)].key = d
        BY <1>2, AtProperties, Zenon DEF CacheHit, Live
      <3> QED
        BY <1>b, <3>1, Zenon DEF CacheJustified, Cached
    <2>2. job' = [job EXCEPT ![w] = x]
      BY <1>2 DEF CacheHit
    <2>3. x.domain = d /\ x.decision = Cached(cache, d)
      BY <1>a, Zenon DEF Job
    <2> HIDE DEF x
    <2>4. cache' = cache /\ Goto(w, "respond")
      BY <1>2 DEF CacheHit
    <2> QED
      BY <1>c, <2>1, <2>2, <2>3, <2>4, WorkerJustified, Zenon
  <1>3. ASSUME NEW w \in Workers, CacheMiss(w)
        PROVE  DecisionsJustified'
    <2>1. cache' = AfterMiss(cache, job[w].domain)
      BY <1>3 DEF CacheMiss
    <2>2. \A i \in DOMAIN cache' : \E j \in DOMAIN cache : cache'[i] = cache[j]
      <3> DEFINE c == AfterMiss(cache, job[w].domain)
      <3>1. \A i \in DOMAIN c : \E j \in DOMAIN cache : c[i] = cache[j]
        BY <1>a, AfterMissProperties
      <3> QED
        BY <2>1, <3>1
    <2>3. CacheJustified'
      BY <1>b, <2>2, Zenon DEF CacheJustified
    <2>4. job' = [job EXCEPT ![w] = job[w]] /\ Goto(w, "intel")
      BY <1>3, <1>a DEF CacheMiss
    <2> QED
      BY <1>d, <2>3, <2>4, WorkerJustified, Zenon
  <1>4. ASSUME NEW w \in Workers, IntelLookup(w) \/ IntelRaises(w)
        PROVE  DecisionsJustified'
    <2>1. PICK x : job' = [job EXCEPT ![w] = x]
      BY <1>4, Zenon DEF IntelLookup, IntelRaises
    <2>2. Goto(w, "detect") /\ cache' = cache
      BY <1>4 DEF IntelLookup, IntelRaises
    <2> QED
      BY <1>c, <1>d, <2>1, <2>2, WorkerJustified, Zenon
  <1>5. ASSUME NEW w \in Workers, NEW decision, Justified(job[w].domain, decision),
               job' = [job EXCEPT ![w].decision = decision], Goto(w, "stamp"), cache' = cache
        PROVE  DecisionsJustified'
    <2> DEFINE x == [job[w] EXCEPT !.decision = decision]
    <2>1. x.domain = job[w].domain /\ x.decision = decision
      BY <1>a, Zenon DEF Job
    <2>2. job' = [job EXCEPT ![w] = x]
      BY <1>5
    <2> HIDE DEF x
    <2> QED
      BY <1>5, <1>c, <2>1, <2>2, WorkerJustified, Zenon
  <1>6. ASSUME NEW w \in Workers, Detect(w)
        PROVE  DecisionsJustified'
    <2> DEFINE m == job[w].lookup = "match"
               g == job[w].decision.degraded
               d == job[w].domain
    <2>1. PICK t \in TunnelScores :
            job' = [job EXCEPT ![w].decision = IF FastPath(w) THEN Decided(m, 0, 0, g)
                                               ELSE Decided(m, MlProbability[d], t, g)]
      BY <1>6, Zenon DEF Detect
    <2>2. g \in BOOLEAN /\ m \in BOOLEAN /\ d \in Domains /\ (FastPath(w) => m)
      BY <1>a, Zenon DEF Job, Decision, FastPath
    <2>3. Goto(w, "stamp") /\ cache' = cache
      BY <1>6 DEF Detect
    <2> HIDE DEF m, g, d
    <2>4. FastPath(w) => Justified(d, Decided(m, 0, 0, g))
      BY <2>2, MatchJustified, Zenon
    <2>5. Justified(d, Decided(m, MlProbability[d], t, g))
      BY <2>2, FullResultJustified, Zenon
    <2> QED
      BY <1>5, <2>1, <2>3, <2>4, <2>5, Zenon DEF d
  <1>7. ASSUME NEW w \in Workers, DetectorRaises(w)
        PROVE  DecisionsJustified'
    <2> DEFINE m == job[w].lookup = "match"
               d == job[w].domain
    <2>1. PICK t \in TunnelScores :
            \/ job' = [job EXCEPT ![w].decision = Decided(m, 0, t, TRUE)]
            \/ job' = [job EXCEPT ![w].decision = Decided(m, 0, 0, TRUE)]
            \/ job' = [job EXCEPT ![w].decision = Decided(m, MlProbability[d], 0, TRUE)]
      BY <1>7, Zenon DEF DetectorRaises
    <2>2. m \in BOOLEAN /\ d \in Domains /\ t \in Score /\ MlProbability[d] \in Score
      BY <1>a, WorkersAssumption
    <2>3. Goto(w, "stamp") /\ cache' = cache
      BY <1>7 DEF DetectorRaises
    <2> HIDE DEF m, d
    <2>4. /\ Justified(d, Decided(m, 0, t, TRUE)) /\ Justified(d, Decided(m, 0, 0, TRUE))
          /\ Justified(d, Decided(m, MlProbability[d], 0, TRUE))
      BY <1>e, <2>2, FallbackJustified, Zenon
    <2> QED
      BY <1>5, <2>1, <2>3, <2>4, Zenon DEF d
  <1>8. ASSUME NEW w \in Workers, DetectionTimeout(w)
        PROVE  DecisionsJustified'
    <2>1. Justified(job[w].domain, Decided(FALSE, 0, 0, TRUE))
      BY <1>a, <1>e, FallbackJustified, Zenon
    <2>2. Goto(w, "stamp") /\ cache' = cache
      BY <1>8 DEF DetectionTimeout
    <2> QED
      BY <1>5, <1>8, <2>1, <2>2, Zenon DEF DetectionTimeout
  <1>9. ASSUME NEW w \in Workers, Stamp(w)
        PROVE  DecisionsJustified'
    <2> DEFINE x == [job[w] EXCEPT !.left = TTL]
    <2>1. Justified(job[w].domain, job[w].decision)
      BY <1>9, Zenon DEF Stamp, DecisionsJustified, HasDecided
    <2>2. x.domain = job[w].domain /\ x.decision = job[w].decision
      BY <1>a, Zenon DEF Job
    <2>3. job' = [job EXCEPT ![w] = x] /\ Goto(w, "store") /\ cache' = cache
      BY <1>9 DEF Stamp
    <2> HIDE DEF x
    <2> QED
      BY <1>c, <2>1, <2>2, <2>3, WorkerJustified, Zenon
  <1>10. ASSUME NEW w \in Workers, Store(w)
         PROVE  DecisionsJustified'
    <2> DEFINE entry == [key |-> job[w].domain, decision |-> job[w].decision,
                         left |-> job[w].left]
               x == [job[w] EXCEPT !.left = 0]
    <2>1. Justified(job[w].domain, job[w].decision)
      BY <1>10, Zenon DEF Store, DecisionsJustified, HasDecided
    <2>2. x.domain = job[w].domain /\ x.decision = job[w].decision
      BY <1>a, Zenon DEF Job
    <2>3. job' = [job EXCEPT ![w] = x] /\ Goto(w, "respond") /\ cache' = Put(cache, entry)
      BY <1>10 DEF Store
    <2>4. /\ entry \in Entry(Domains, Decision)
          /\ entry.key = job[w].domain /\ entry.decision = job[w].decision
      BY <1>a, Zenon DEF Entry, Job
    <2> HIDE DEF x, entry
    <2>5. \A i \in DOMAIN cache' : cache'[i] = entry \/ \E j \in DOMAIN cache : cache'[i] = cache[j]
      <3> DEFINE c == Put(cache, entry)
      <3>1. \A i \in DOMAIN c : c[i] = entry \/ \E j \in DOMAIN cache : c[i] = cache[j]
        BY <1>a, <2>4, PutProperties
      <3> QED
        BY <2>3, <3>1
    <2>6. CacheJustified'
      BY <1>b, <2>1, <2>4, <2>5, Zenon DEF CacheJustified
    <2> QED
      BY <2>1, <2>2, <2>3, <2>6, WorkerJustified, Zenon
  <1>11. ASSUME NEW w \in Workers, NEW a, Answer(w, a),
                \/ a \in {"servfail", "error"}
                \/ pc[w] \in {"respond", "primary", "secondary"}
         PROVE  DecisionsJustified'
    <2> DEFINE x == [job[w] EXCEPT !.answer = a]
    <2>1. job' = [job EXCEPT ![w] = x] /\ Goto(w, "reply") /\ cache' = cache
      BY <1>11 DEF Answer
    <2>2. x.domain = job[w].domain /\ x.decision = job[w].decision /\ x.answer = a
      BY <1>a, Zenon DEF Job
    <2> HIDE DEF x
    <2>3. Verdict("reply", x) => Justified(x.domain, x.decision)
      BY <1>11, <1>d, <2>2, Zenon DEF DecisionsJustified, HasDecided
    <2> QED
      BY <1>c, <2>1, <2>3, WorkerJustified, Zenon
  <1>12. ASSUME NEW w \in Workers, NEW step, Goto(w, step),
                pc[w] \in {"respond", "primary", "secondary"},
                UNCHANGED <<cache, intel, job, faults>>
         PROVE  DecisionsJustified'
    <2>1. job' = [job EXCEPT ![w] = job[w]] /\ cache' = cache
      BY <1>12, <1>a
    <2>2. Justified(job[w].domain, job[w].decision)
      BY <1>12, Zenon DEF DecisionsJustified, HasDecided
    <2> QED
      BY <1>12, <1>c, <2>1, <2>2, WorkerJustified, Zenon
  <1>13. ASSUME NEW w \in Workers, \/ SyncRespond(w) \/ AsyncRespond(w)
                                   \/ ForwardPrimary(w) \/ ForwardSecondary(w)
         PROVE  DecisionsJustified'
    BY <1>11, <1>12, <1>13, Zenon DEF SyncRespond, AsyncRespond, ForwardPrimary, ForwardSecondary
  <1>14. ASSUME NEW w \in Workers, PipelineRaises(w)
         PROVE  DecisionsJustified'
    <2> DEFINE a == IF w \in SyncWorkers THEN "servfail" ELSE "error"
               x == [NewJob(job[w].domain) EXCEPT !.answer = a]
    <2>1. job' = [job EXCEPT ![w] = x] /\ Goto(w, "reply") /\ cache' = cache
      BY <1>14 DEF PipelineRaises
    <2>2. x.answer = a
      BY Zenon DEF NewJob
    <2> HIDE DEF x
    <2> QED
      BY <1>c, <1>d, <2>1, <2>2, WorkerJustified, Zenon
  <1>15. ASSUME NEW w \in Workers, Reply(w)
         PROVE  DecisionsJustified'
    BY <1>15, <1>c, <1>d, WorkerJustified, Zenon DEF Reply
  <1>16. ASSUME NEW published \in SUBSET Domains, PublishIntel(published)
         PROVE  DecisionsJustified'
    BY <1>16, Zenon DEF PublishIntel, DecisionsJustified, HasDecided
  <1>17. CASE Tick
    <2>1. CacheJustified'
      <3>1. /\ DOMAIN cache' = DOMAIN cache
            /\ \A i \in DOMAIN cache : /\ cache'[i].key = cache[i].key
                                       /\ cache'[i].decision = cache[i].decision
        <4>1. cache' = Aged(cache)
          BY <1>17 DEF Tick
        <4>2. /\ DOMAIN Aged(cache) = DOMAIN cache
              /\ \A i \in DOMAIN cache : /\ Aged(cache)[i].key = cache[i].key
                                         /\ Aged(cache)[i].decision = cache[i].decision
          BY <1>a, AgedProperties
        <4> QED
          BY <4>1, <4>2
      <3> QED
        BY <1>b, <3>1, Zenon DEF CacheJustified
    <2>2. ASSUME NEW w \in Workers
          PROVE  /\ job'[w].domain = job[w].domain
                 /\ job'[w].decision = job[w].decision
                 /\ job'[w].answer = job[w].answer
      <3>1. job'[w] = [job[w] EXCEPT !.left = Elapsed(job[w].left)]
        BY <1>17, Zenon DEF Tick
      <3> QED
        BY <1>a, <3>1, Zenon DEF Job
    <2>3. pc' = pc
      BY <1>17 DEF Tick
    <2> QED
      BY <2>1, <2>2, <2>3, Zenon DEF DecisionsJustified, HasDecided, CacheJustified
  <1> QED
    BY <1>0, <1>1, <1>2, <1>3, <1>4, <1>6, <1>7, <1>8, <1>9, <1>10, <1>13, <1>14, <1>15,
       <1>16, <1>17, Zenon DEF Next, Proceed, Fault

\* Every decision in use, and every decision cached, is one the detectors justify
\* for the domain it is used for.
THEOREM DecisionsStayJustified == Spec => []DecisionsJustified
  <1>1. Init => DecisionsJustified
    BY DEF Init, DecisionsJustified, HasDecided
  <1> QED
    BY <1>1, JustifiedStep, TypesHold, PTL DEF Spec

-----------------------------------------------------------------------------
(* Forwarding *)

\* BlockedNeverForwarded is not inductive as it stands: an answer that outlived
\* the query it belongs to would meet the next query's decision.
ForwardOK(step, x) ==
    /\ x.answer # "none" => step = "reply"
    /\ step \in {"primary", "secondary"} \/ x.answer = "upstream" => x.decision.action # "BLOCK"

ForwardInv == \A w \in Workers : ForwardOK(pc[w], job[w])

\* The invariant has the property as a part.
LEMMA ForwardInvImplies == ForwardInv => BlockedNeverForwarded
  BY Zenon DEF ForwardInv, ForwardOK, BlockedNeverForwarded, Blocked

\* What one worker does is its own affair.
LEMMA WorkerForward ==
    ASSUME TypeOK, ForwardInv, NEW w \in Workers, NEW x, NEW step,
           job' = [job EXCEPT ![w] = x], Goto(w, step), ForwardOK(step, x)
    PROVE  ForwardInv'
  <1>1. ASSUME NEW v \in Workers
        PROVE  ForwardOK(pc'[v], job'[v])
    <2>1. CASE v = w
      <3>1. pc'[w] = step /\ job'[w] = x
        BY Zenon DEF TypeOK, Goto
      <3> QED
        BY <2>1, <3>1, Zenon
    <2>2. CASE v # w
      <3>1. pc'[v] = pc[v] /\ job'[v] = job[v]
        BY <2>2, Zenon DEF TypeOK, Goto
      <3> QED
        BY <3>1, Zenon DEF ForwardInv
    <2> QED
      BY <2>1, <2>2
  <1> QED
    BY <1>1, Zenon DEF ForwardInv

\* Every action keeps the answer of a blocked name at home.
LEMMA ForwardStep == TypeOK /\ ForwardInv /\ [Next]_vars => ForwardInv'
  <1> SUFFICES ASSUME TypeOK, ForwardInv, [Next]_vars
               PROVE  ForwardInv'
    OBVIOUS
  <1>a. /\ job \in [Workers -> Job]
        /\ \A w \in Workers : job[w] \in Job
    BY DEF TypeOK
  \* A worker that has no answer yet and does not go on to forward is fine.
  <1>b. ASSUME NEW w \in Workers, NEW x, NEW step, x.answer = "none",
               step \in {"idle", "cache", "intel", "detect", "stamp", "store", "respond"}
        PROVE  ForwardOK(step, x)
    BY <1>b DEF ForwardOK
  <1>c. ASSUME NEW w \in Workers, pc[w] # "reply"
        PROVE  job[w].answer = "none"
    BY <1>c, Zenon DEF ForwardInv, ForwardOK
  <1>d. \A d \in Domains : NewJob(d).answer = "none"
    BY Zenon DEF NewJob
  <1>0. CASE UNCHANGED vars
    BY <1>0, Zenon DEF vars, ForwardInv
  <1>1. ASSUME NEW w \in Workers, NEW d \in Domains, Receive(w, d)
        PROVE  ForwardInv'
    BY <1>1, <1>b, <1>d, WorkerForward, Zenon DEF Receive
  <1>2. ASSUME NEW w \in Workers, NEW x,
               job' = [job EXCEPT ![w] = x], x.answer = job[w].answer,
               NEW step \in {"intel", "detect", "stamp", "store", "respond"}, Goto(w, step),
               pc[w] # "reply"
        PROVE  ForwardInv'
    <2>1. x.answer = "none"
      BY <1>2, <1>c, Zenon
    <2>2. ForwardOK(step, x)
      BY <2>1, <1>b, Zenon
    <2> QED
      BY <1>2, <2>2, WorkerForward, Zenon
  <1>3. ASSUME NEW w \in Workers, CacheHit(w)
        PROVE  ForwardInv'
    <2> DEFINE x == [job[w] EXCEPT !.decision = Cached(cache, job[w].domain), !.hit = TRUE]
    <2>1. /\ job' = [job EXCEPT ![w] = x] /\ Goto(w, "respond") /\ pc[w] # "reply"
      BY <1>3 DEF CacheHit
    <2>2. x.answer = job[w].answer
      BY <1>a, Zenon DEF Job
    <2> HIDE DEF x
    <2> QED
      BY <1>2, <2>1, <2>2, Zenon
  <1>4. ASSUME NEW w \in Workers, CacheMiss(w)
        PROVE  ForwardInv'
    <2>1. job' = [job EXCEPT ![w] = job[w]] /\ Goto(w, "intel") /\ pc[w] # "reply"
      BY <1>4, <1>a DEF CacheMiss
    <2> QED
      BY <1>2, <2>1, Zenon
  <1>5. ASSUME NEW w \in Workers, IntelLookup(w) \/ IntelRaises(w)
        PROVE  ForwardInv'
    <2>1. PICK x : job' = [job EXCEPT ![w] = x] /\ x.answer = job[w].answer
      <3>1. \A l : /\ [job[w] EXCEPT !.lookup = l].answer = job[w].answer
                   /\ [job[w] EXCEPT !.lookup = l, !.decision.degraded = TRUE].answer
                        = job[w].answer
        BY <1>a, Zenon DEF Job
      <3>2. CASE IntelLookup(w)
        BY <3>1, <3>2, Zenon DEF IntelLookup
      <3>3. CASE IntelRaises(w)
        <4>1. job' = [job EXCEPT ![w] =
                        [job[w] EXCEPT !.lookup = "clean", !.decision.degraded = TRUE]]
          BY <3>3 DEF IntelRaises
        <4> QED
          BY <3>1, <4>1, Zenon
      <3> QED
        BY <1>5, <3>2, <3>3
    <2>2. Goto(w, "detect") /\ pc[w] # "reply"
      BY <1>5 DEF IntelLookup, IntelRaises
    <2> QED
      BY <1>2, <2>1, <2>2, Zenon
  <1>6. ASSUME NEW w \in Workers, Detect(w) \/ DetectorRaises(w) \/ DetectionTimeout(w)
        PROVE  ForwardInv'
    <2>1. PICK decision : job' = [job EXCEPT ![w].decision = decision]
      BY <1>6, Zenon DEF Detect, DetectorRaises, DetectionTimeout
    <2> DEFINE x == [job[w] EXCEPT !.decision = decision]
    <2>2. x.answer = job[w].answer
      BY <1>a, Zenon DEF Job
    <2>3. job' = [job EXCEPT ![w] = x]
      BY <2>1
    <2>4. Goto(w, "stamp") /\ pc[w] # "reply"
      BY <1>6 DEF Detect, DetectorRaises, DetectionTimeout
    <2> HIDE DEF x
    <2> QED
      BY <1>2, <2>2, <2>3, <2>4, Zenon
  <1>7. ASSUME NEW w \in Workers, Stamp(w) \/ Store(w)
        PROVE  ForwardInv'
    <2>1. ASSUME NEW l, job' = [job EXCEPT ![w].left = l],
                 NEW step \in {"store", "respond"}, Goto(w, step), pc[w] # "reply"
          PROVE  ForwardInv'
      <3> DEFINE x == [job[w] EXCEPT !.left = l]
      <3>1. x.answer = job[w].answer
        BY <1>a, Zenon DEF Job
      <3>2. job' = [job EXCEPT ![w] = x]
        BY <2>1
      <3> HIDE DEF x
      <3> QED
        BY <1>2, <2>1, <3>1, <3>2, Zenon
    <2>2. Stamp(w) => job' = [job EXCEPT ![w].left = TTL] /\ Goto(w, "store") /\ pc[w] # "reply"
      BY DEF Stamp
    <2>3. Store(w) => job' = [job EXCEPT ![w].left = 0] /\ Goto(w, "respond") /\ pc[w] # "reply"
      BY DEF Store
    <2> QED
      BY <1>7, <2>1, <2>2, <2>3
  <1>8. ASSUME NEW w \in Workers, NEW a, Answer(w, a), a = "upstream" => ~Blocked(w)
        PROVE  ForwardInv'
    <2> DEFINE x == [job[w] EXCEPT !.answer = a]
    <2>1. job' = [job EXCEPT ![w] = x] /\ Goto(w, "reply")
      BY <1>8 DEF Answer
    <2>2. x.decision = job[w].decision /\ x.answer = a
      BY <1>a, Zenon DEF Job
    <2> HIDE DEF x
    <2>3. ForwardOK("reply", x)
      BY <1>8, <2>2 DEF ForwardOK, Blocked
    <2> QED
      BY <2>1, <2>3, WorkerForward, Zenon
  <1>9. ASSUME NEW w \in Workers, NEW step, Goto(w, step), job' = job, ~Blocked(w),
               pc[w] # "reply"
        PROVE  ForwardInv'
    <2>1. job' = [job EXCEPT ![w] = job[w]]
      BY <1>9, <1>a
    <2>2. ForwardOK(step, job[w])
      BY <1>9, <1>c DEF ForwardOK, Blocked
    <2> QED
      BY <1>9, <2>1, <2>2, WorkerForward, Zenon
  <1>10. ASSUME NEW w \in Workers, SyncRespond(w) \/ AsyncRespond(w)
         PROVE  ForwardInv'
    <2>1. pc[w] # "reply"
      BY <1>10 DEF SyncRespond, AsyncRespond
    <2>2. \/ Answer(w, "sinkhole") \/ Answer(w, "decision")
          \/ ~Blocked(w) /\ Goto(w, "primary") /\ job' = job
      BY <1>10 DEF SyncRespond, AsyncRespond
    <2>3. "sinkhole" # "upstream" /\ "decision" # "upstream"
      OBVIOUS
    <2> QED
      BY <1>8, <1>9, <2>1, <2>2, <2>3, Zenon
  <1>11. ASSUME NEW w \in Workers, ForwardPrimary(w) \/ ForwardSecondary(w)
         PROVE  ForwardInv'
    <2>1. pc[w] # "reply" /\ pc[w] \in {"primary", "secondary"}
      BY <1>11 DEF ForwardPrimary, ForwardSecondary
    <2>2. ~Blocked(w)
      BY <2>1, Zenon DEF ForwardInv, ForwardOK, Blocked
    <2>3. \/ Answer(w, "upstream") \/ Answer(w, "servfail")
          \/ Goto(w, "secondary") /\ job' = job
      BY <1>11 DEF ForwardPrimary, ForwardSecondary
    <2> QED
      BY <1>8, <1>9, <2>1, <2>2, <2>3, Zenon
  <1>12. ASSUME NEW w \in Workers, PipelineRaises(w)
         PROVE  ForwardInv'
    <2> DEFINE a == IF w \in SyncWorkers THEN "servfail" ELSE "error"
               x == [NewJob(job[w].domain) EXCEPT !.answer = a]
    <2>1. job' = [job EXCEPT ![w] = x] /\ Goto(w, "reply")
      BY <1>12 DEF PipelineRaises
    <2>2. x.answer = a
      BY Zenon DEF NewJob
    <2> HIDE DEF x
    <2>3. ForwardOK("reply", x)
      BY <2>2 DEF ForwardOK
    <2> QED
      BY <2>1, <2>3, WorkerForward, Zenon
  <1>13. ASSUME NEW w \in Workers, Reply(w)
         PROVE  ForwardInv'
    <2>1. NoJob.answer = "none"
      BY <1>d, WorkersAssumption DEF NoJob
    <2> QED
      BY <1>13, <1>b, <2>1, WorkerForward, Zenon DEF Reply
  <1>14. ASSUME NEW published \in SUBSET Domains, PublishIntel(published)
         PROVE  ForwardInv'
    BY <1>14, Zenon DEF PublishIntel, ForwardInv
  <1>15. CASE Tick
    <2>1. ASSUME NEW w \in Workers
          PROVE  job'[w].decision = job[w].decision /\ job'[w].answer = job[w].answer
      <3>1. job'[w] = [job[w] EXCEPT !.left = Elapsed(job[w].left)]
        BY <1>15, Zenon DEF Tick
      <3> QED
        BY <1>a, <3>1, Zenon DEF Job
    <2>2. pc' = pc
      BY <1>15 DEF Tick
    <2> QED
      BY <2>1, <2>2, Zenon DEF ForwardInv, ForwardOK
  <1> QED
    BY <1>0, <1>1, <1>3, <1>4, <1>5, <1>6, <1>7, <1>10, <1>11, <1>12, <1>13, <1>14, <1>15,
       Zenon DEF Next, Proceed, Fault

\* A query with a BLOCK verdict never leaves for an upstream resolver.
THEOREM BlockedStaysHome == Spec => []BlockedNeverForwarded
  <1>1. Init => ForwardInv
    <2>1. NoJob.answer = "none"
      BY Zenon DEF NoJob, NewJob
    <2> QED
      BY <2>1 DEF Init, ForwardInv, ForwardOK
  <1> QED
    BY <1>1, ForwardStep, ForwardInvImplies, TypesHold, PTL DEF Spec

-----------------------------------------------------------------------------
(* Renewal *)

\* Up to its store, a query has had no cache hit, and what it is about to store
\* comes from a lookup that was clean unless the decision shows otherwise.
LookupOK(step, x) ==
    /\ step \in {"cache", "intel", "detect", "stamp", "store"} => ~x.hit
    /\ step = "detect" => x.lookup \in {"match", "clean"}
    /\ step \in {"stamp", "store"} =>
         x.decision.degraded \/ x.decision.matched \/ x.lookup = "clean"

LookupInv == \A w \in Workers : LookupOK(pc[w], job[w])

\* One worker's step leaves the lookups of the others alone.
LEMMA WorkerLookup ==
    ASSUME TypeOK, LookupInv, NEW w \in Workers, NEW x, NEW step,
           job' = [job EXCEPT ![w] = x], Goto(w, step), LookupOK(step, x)
    PROVE  LookupInv'
  <1>1. ASSUME NEW v \in Workers
        PROVE  LookupOK(pc'[v], job'[v])
    <2>1. CASE v = w
      <3>1. pc'[w] = step /\ job'[w] = x
        BY Zenon DEF TypeOK, Goto
      <3> QED
        BY <2>1, <3>1, Zenon
    <2>2. CASE v # w
      <3>1. pc'[v] = pc[v] /\ job'[v] = job[v]
        BY <2>2, Zenon DEF TypeOK, Goto
      <3> QED
        BY <3>1, Zenon DEF LookupInv
    <2> QED
      BY <2>1, <2>2
  <1> QED
    BY <1>1, Zenon DEF LookupInv

\* Every action keeps track of what was looked up.
LEMMA LookupStep == TypeOK /\ LookupInv /\ [Next]_vars => LookupInv'
  <1> SUFFICES ASSUME TypeOK, LookupInv, [Next]_vars
               PROVE  LookupInv'
    OBVIOUS
  <1>a. /\ job \in [Workers -> Job] /\ pc \in [Workers -> Steps]
        /\ \A w \in Workers : job[w] \in Job /\ LookupOK(pc[w], job[w])
    BY DEF TypeOK, LookupInv
  \* Past the store nothing is asked of a query any more.
  <1>b. ASSUME NEW w \in Workers,
               NEW step \in {"respond", "primary", "secondary", "reply", "idle"}, Goto(w, step),
               \E x : job' = [job EXCEPT ![w] = x]
        PROVE  LookupInv'
    BY <1>b, WorkerLookup DEF LookupOK
  <1>0. CASE UNCHANGED vars
    BY <1>0, Zenon DEF vars, LookupInv
  <1>1. ASSUME NEW w \in Workers, NEW d \in Domains, Receive(w, d)
        PROVE  LookupInv'
    <2>1. LookupOK("cache", NewJob(d))
      BY DEF LookupOK, NewJob
    <2> QED
      BY <1>1, <2>1, WorkerLookup DEF Receive
  <1>2. ASSUME NEW w \in Workers, CacheMiss(w)
        PROVE  LookupInv'
    <2>1. job' = [job EXCEPT ![w] = job[w]] /\ Goto(w, "intel") /\ pc[w] = "cache"
      BY <1>2, <1>a DEF CacheMiss
    <2>2. LookupOK("intel", job[w])
      BY <1>a, <2>1 DEF LookupOK
    <2> QED
      BY <2>1, <2>2, WorkerLookup
  <1>3. ASSUME NEW w \in Workers, IntelLookup(w) \/ IntelRaises(w)
        PROVE  LookupInv'
    <2>1. PICK x : /\ job' = [job EXCEPT ![w] = x]
                   /\ x.hit = job[w].hit /\ x.lookup \in {"match", "clean"}
      <3>1. \A l : /\ [job[w] EXCEPT !.lookup = l].hit = job[w].hit
                   /\ [job[w] EXCEPT !.lookup = l].lookup = l
                   /\ [job[w] EXCEPT !.lookup = l, !.decision.degraded = TRUE].hit = job[w].hit
                   /\ [job[w] EXCEPT !.lookup = l, !.decision.degraded = TRUE].lookup = l
        BY <1>a DEF Job
      <3>2. CASE IntelLookup(w)
        <4> DEFINE l == IF job[w].domain \in intel THEN "match" ELSE "clean"
        <4>1. job' = [job EXCEPT ![w] = [job[w] EXCEPT !.lookup = l]] /\ l \in {"match", "clean"}
          BY <3>2 DEF IntelLookup
        <4> HIDE DEF l
        <4> QED
          BY <3>1, <4>1
      <3>3. CASE IntelRaises(w)
        <4>1. job' = [job EXCEPT ![w] =
                        [job[w] EXCEPT !.lookup = "clean", !.decision.degraded = TRUE]]
          BY <3>3 DEF IntelRaises
        <4> QED
          BY <3>1, <4>1
      <3> QED
        BY <1>3, <3>2, <3>3
    <2>2. Goto(w, "detect") /\ pc[w] = "intel"
      BY <1>3 DEF IntelLookup, IntelRaises
    <2>3. LookupOK("detect", x)
      BY <1>a, <2>1, <2>2 DEF LookupOK
    <2> QED
      BY <2>1, <2>2, <2>3, WorkerLookup
  <1>4. ASSUME NEW w \in Workers, Detect(w) \/ DetectorRaises(w) \/ DetectionTimeout(w)
        PROVE  LookupInv'
    <2> DEFINE m == job[w].lookup = "match"
               g == job[w].decision.degraded
               p == MlProbability[job[w].domain]
    <2>0. \A n, x, t, f : Decided(n, x, t, f).matched = n /\ Decided(n, x, t, f).degraded = f
      BY DEF Decided
    <2>1. PICK decision :
            /\ job' = [job EXCEPT ![w].decision = decision]
            /\ decision.degraded \/ (pc[w] = "detect" /\ decision.matched = m)
      <3>1. ASSUME NEW x, NEW t, NEW f, pc[w] = "detect",
                   job' = [job EXCEPT ![w].decision = Decided(m, x, t, f)]
            PROVE  \E decision :
                     /\ job' = [job EXCEPT ![w].decision = decision]
                     /\ decision.degraded \/ (pc[w] = "detect" /\ decision.matched = m)
        <4> HIDE DEF m
        <4>1. Decided(m, x, t, f).matched = m
          BY DEF Decided
        <4> QED
          BY <3>1, <4>1
      <3>2. CASE Detect(w)
        <4>1. PICK t : job' = [job EXCEPT ![w].decision = IF FastPath(w) THEN Decided(m, 0, 0, g)
                                                          ELSE Decided(m, p, t, g)]
          BY <3>2, Zenon DEF Detect
        <4>2. pc[w] = "detect"
          BY <3>2 DEF Detect
        <4> HIDE DEF m, g, p
        <4> QED
          BY <3>1, <4>1, <4>2, Zenon
      <3>3. CASE DetectorRaises(w)
        <4>1. PICK t \in TunnelScores :
                       \/ job' = [job EXCEPT ![w].decision = Decided(m, 0, t, TRUE)]
                       \/ job' = [job EXCEPT ![w].decision = Decided(m, 0, 0, TRUE)]
                       \/ job' = [job EXCEPT ![w].decision = Decided(m, p, 0, TRUE)]
          BY <3>3, Zenon DEF DetectorRaises
        <4>2. pc[w] = "detect"
          BY <3>3 DEF DetectorRaises
        <4> HIDE DEF m, g, p
        <4> QED
          BY <3>1, <4>1, <4>2, Zenon
      <3>4. CASE DetectionTimeout(w)
        <4>1. job' = [job EXCEPT ![w].decision = Decided(FALSE, 0, 0, TRUE)]
          BY <3>4 DEF DetectionTimeout
        <4>2. Decided(FALSE, 0, 0, TRUE).degraded
          BY <2>0, Zenon
        <4> QED
          BY <4>1, <4>2, Zenon
      <3> QED
        BY <1>4, <3>2, <3>3, <3>4
    <2> DEFINE x == [job[w] EXCEPT !.decision = decision]
    <2>2. /\ job' = [job EXCEPT ![w] = x]
          /\ x.hit = job[w].hit /\ x.lookup = job[w].lookup /\ x.decision = decision
      BY <1>a, <2>1 DEF Job
    <2>3. Goto(w, "stamp") /\ pc[w] \in {"intel", "detect"}
      BY <1>4 DEF Detect, DetectorRaises, DetectionTimeout
    <2>4. m => decision.matched \/ decision.degraded
      BY <2>1, Zenon
    <2>5. decision.degraded \/ pc[w] = "detect"
      BY <2>1
    <2> HIDE DEF x
    <2>6. LookupOK("stamp", x)
      BY <1>a, <2>2, <2>3, <2>4, <2>5 DEF LookupOK
    <2> QED
      BY <2>2, <2>3, <2>6, WorkerLookup
  <1>5. ASSUME NEW w \in Workers, Stamp(w)
        PROVE  LookupInv'
    <2> DEFINE x == [job[w] EXCEPT !.left = TTL]
    <2>1. job' = [job EXCEPT ![w] = x] /\ Goto(w, "store") /\ pc[w] = "stamp"
      BY <1>5 DEF Stamp
    <2>2. x.hit = job[w].hit /\ x.lookup = job[w].lookup /\ x.decision = job[w].decision
      BY <1>a DEF Job
    <2> HIDE DEF x
    <2>3. LookupOK("store", x)
      BY <1>a, <2>1, <2>2 DEF LookupOK
    <2> QED
      BY <2>1, <2>3, WorkerLookup
  <1>6. ASSUME NEW w \in Workers,
               \/ CacheHit(w) \/ Store(w) \/ SyncRespond(w) \/ AsyncRespond(w)
               \/ ForwardPrimary(w) \/ ForwardSecondary(w) \/ PipelineRaises(w) \/ Reply(w)
        PROVE  LookupInv'
    <2>1. job = [job EXCEPT ![w] = job[w]]
      BY <1>a
    <2>2. \E step \in {"respond", "primary", "secondary", "reply", "idle"} : Goto(w, step)
      BY <1>6, Zenon DEF CacheHit, Store, SyncRespond, AsyncRespond, ForwardPrimary,
         ForwardSecondary, PipelineRaises, Reply, Answer
    <2>3. \E x : job' = [job EXCEPT ![w] = x]
      BY <1>6, <2>1 DEF CacheHit, Store, SyncRespond, AsyncRespond, ForwardPrimary,
         ForwardSecondary, PipelineRaises, Reply, Answer
    <2> QED
      BY <1>b, <2>2, <2>3
  <1>7. ASSUME NEW published \in SUBSET Domains, PublishIntel(published)
        PROVE  LookupInv'
    BY <1>7, Zenon DEF PublishIntel, LookupInv
  <1>8. CASE Tick
    <2>1. ASSUME NEW w \in Workers
          PROVE  /\ job'[w].decision = job[w].decision
                 /\ job'[w].hit = job[w].hit /\ job'[w].lookup = job[w].lookup
      <3>1. job'[w] = [job[w] EXCEPT !.left = Elapsed(job[w].left)]
        BY <1>8, Zenon DEF Tick
      <3> QED
        BY <1>a, <3>1, Zenon DEF Job
    <2>2. pc' = pc
      BY <1>8 DEF Tick
    <2> QED
      BY <2>1, <2>2, Zenon DEF LookupInv, LookupOK
  <1> QED
    BY <1>0, <1>1, <1>2, <1>3, <1>4, <1>5, <1>6, <1>7, <1>8, Zenon DEF Next, Proceed, Fault

\* An entry that the cache held before, with no less of its lifetime left.
HeldBefore(d) ==
    /\ Has(cache, d)
    /\ Cached(cache, d) = Cached(cache', d)
    /\ cache'[At(cache', d)].left <= cache[At(cache, d)].left

\* A stale verdict in the cache is one that was there before and grows no younger,
\* or comes from a query that had looked its domain up, with no hit, before.
THEOREM StaleVerdictsAreNotRenewed == Spec => StaleVerdictsNotRenewed
  <1> DEFINE NotRenewed ==
        \A d \in intel \cap intel' :
          Has(cache', d) /\ Stale(d, Cached(cache', d)) =>
            \/ /\ Has(cache, d)
               /\ Cached(cache, d) = Cached(cache', d)
               /\ cache'[At(cache', d)].left <= cache[At(cache, d)].left
            \/ \E w \in Workers :
                 /\ pc[w] = "store" /\ pc'[w] = "respond"
                 /\ job[w].domain = d
                 /\ job[w].lookup = "clean" /\ ~job[w].hit
  <1>1. Init => LookupInv
    BY DEF Init, LookupInv, LookupOK
  <1>2. TypeOK /\ CacheWellFormed /\ LookupInv /\ [Next]_vars => [NotRenewed]_vars
    <2> SUFFICES ASSUME TypeOK, CacheWellFormed, LookupInv, Next,
                        NEW d, Has(cache', d), Stale(d, Cached(cache', d))
                 PROVE  \/ HeldBefore(d)
                        \/ \E w \in Workers :
                             /\ pc[w] = "store" /\ pc'[w] = "respond"
                             /\ job[w].domain = d
                             /\ job[w].lookup = "clean" /\ ~job[w].hit
      BY DEF HeldBefore
    <2>a. /\ cache \in Seq(Entry(Domains, Decision)) /\ UniqueKeys(cache)
          /\ \A e \in Entries(cache) : e \in Entry(Domains, Decision)
          /\ job \in [Workers -> Job] /\ pc \in [Workers -> Steps]
      BY CacheWellFormedMeans, ElementOfSeq, LenProperties DEF TypeOK, Entries
    <2>b. PICK f \in Entries(cache') : f = cache'[At(cache', d)] /\ f.key = d
      BY AtProperties DEF Entries
    <2>1. ASSUME NEW e \in Entries(cache), e.key = d, e.decision = f.decision, f.left <= e.left
          PROVE  HeldBefore(d)
      BY <2>1, <2>a, <2>b, LiveEntry DEF HeldBefore, Cached
    <2>2. ASSUME f \in Entries(cache) PROVE HeldBefore(d)
      <3>1. f.left \in 0 .. TTL
        BY <2>2, <2>a, EntryFields
      <3>2. f.left <= f.left
        BY <3>1, TTLAssumption
      <3> QED
        BY <2>1, <2>2, <2>b, <3>2
    <2>3. CASE cache' = cache
      BY <2>2, <2>3, <2>b
    <2>4. ASSUME NEW w \in Workers, CacheMiss(w) PROVE HeldBefore(d)
      <3>1. Entries(cache') = {e \in Entries(cache) : e.key # job[w].domain}
        BY <2>4, <2>a, AfterMissEntries DEF CacheMiss
      <3> QED
        BY <2>2, <2>b, <3>1
    <2>5. CASE Tick
      <3>0. Entries(cache') = {[e EXCEPT !.left = Elapsed(e.left)] : e \in Entries(cache)}
        BY <2>5, AgedEntries DEF Tick
      <3>1. PICK e \in Entries(cache) : f = [e EXCEPT !.left = Elapsed(e.left)]
        BY <2>b, <3>0
      <3>2. e \in Entry(Domains, Decision) /\ e.left \in 0 .. TTL
        BY <2>a, EntryFields
      <3>3. f.key = e.key /\ f.decision = e.decision /\ f.left = Elapsed(e.left)
        BY <3>1, <3>2 DEF Entry
      <3>4. f.left <= e.left
        BY <3>2, <3>3, TTLAssumption DEF Elapsed
      <3> QED
        BY <2>1, <2>b, <3>3, <3>4
    <2>6. ASSUME NEW w \in Workers, Store(w)
          PROVE  \/ HeldBefore(d)
                 \/ /\ pc[w] = "store" /\ pc'[w] = "respond"
                    /\ job[w].domain = d
                    /\ job[w].lookup = "clean" /\ ~job[w].hit
      <3> DEFINE entry == [key |-> job[w].domain, decision |-> job[w].decision,
                           left |-> job[w].left]
      <3>1. entry \in Entry(Domains, Decision)
        BY <2>a DEF Entry, Job
      <3>2. cache' = Put(cache, entry) /\ pc[w] = "store" /\ pc'[w] = "respond"
        BY <2>6, <2>a DEF Store, Goto
      <3>3. entry.key = job[w].domain /\ entry.decision = job[w].decision
        OBVIOUS
      <3> HIDE DEF entry
      <3>4. f = entry \/ f \in Entries(cache)
        <4>1. \A i \in DOMAIN Put(cache, entry) :
                Put(cache, entry)[i] = entry \/ \E j \in DOMAIN cache : Put(cache, entry)[i] = cache[j]
          BY <2>a, <3>1, PutProperties
        <4> QED
          BY <2>b, <3>2, <4>1 DEF Entries
      <3>5. CASE f = entry
        <4>1. job[w].domain = d /\ Stale(d, job[w].decision)
          BY <2>b, <3>3, <3>5 DEF Cached
        <4>2. LookupOK("store", job[w])
          BY <3>2 DEF LookupInv
        <4> QED
          BY <3>2, <4>1, <4>2 DEF LookupOK, Stale
      <3> QED
        BY <2>2, <3>4, <3>5
    <2>7. ASSUME NEW w \in Workers,
                 \/ \E q \in Domains : Receive(w, q)
                 \/ CacheHit(w) \/ IntelLookup(w) \/ Detect(w) \/ Stamp(w)
                 \/ IntelRaises(w) \/ DetectorRaises(w) \/ DetectionTimeout(w) \/ PipelineRaises(w)
                 \/ SyncRespond(w) \/ AsyncRespond(w) \/ ForwardPrimary(w) \/ ForwardSecondary(w)
                 \/ Reply(w)
          PROVE  cache' = cache
      BY <2>7 DEF Receive, CacheHit, IntelLookup, Detect, Stamp, IntelRaises, DetectorRaises,
         DetectionTimeout, PipelineRaises, SyncRespond, AsyncRespond, ForwardPrimary,
         ForwardSecondary, Reply, Answer
    <2>8. (\E published \in SUBSET Domains : PublishIntel(published)) => cache' = cache
      BY DEF PublishIntel
    <2> QED
      BY <2>2, <2>3, <2>4, <2>5, <2>6, <2>7, <2>8, Zenon DEF Next, Proceed, Fault
  <1> QED
    BY <1>1, <1>2, LookupStep, CacheStaysWellFormed, TypesHold, PTL
       DEF Spec, StaleVerdictsNotRenewed
=============================================================================
