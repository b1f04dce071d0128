--------------------------- MODULE DNSCacheProofs ---------------------------
(***************************************************************************)
(* DNSCache for any number of threads, keys, decisions and lifetimes and   *)
(* any size: the dict stays well formed, live keys leave it in order, and  *)
(* readers see a LossyMap.                                                 *)
(*                                                                         *)
(* DictWellFormed is inductive only together with what a set is about to   *)
(* store: an entry for a real key and with a real decision.                *)
(***************************************************************************)
EXTENDS DNSCache, OperatorLemmas

StoresRealEntries ==
    \A t \in Threads : pc[t] = "set" => arg[t] \in Entry(Keys, Values)

CacheInv == DictWellFormed /\ StoresRealEntries

-----------------------------------------------------------------------------
(* The inductive invariant *)

\* A thread at rest has an argument of the right type.
LEMMA NoArgType ==
    /\ NoArg \in Entry(Keys \cup {NoKey}, Values \cup {Nothing})
    /\ \A k \in Keys \cup {NoKey} :
         [NoArg EXCEPT !.key = k] \in Entry(Keys \cup {NoKey}, Values \cup {Nothing})
  BY TTLAssumption DEF NoArg, Entry

\* An empty dict is well formed.
LEMMA CacheInit == Init => CacheInv
  <1> SUFFICES ASSUME Init PROVE CacheInv
    OBVIOUS
  <1>1. cache \in Seq(Entry(Keys, Values)) /\ Len(cache) = 0 /\ DOMAIN cache = {}
    BY EmptySeq DEF Init
  <1>2. Len(cache) <= MaxEntries
    BY <1>1, MaxEntriesAssumption
  <1>3. CacheTypeOK
    BY <1>1, NoArgType DEF Init, CacheTypeOK, NoAnswer
  <1>4. StoresRealEntries
    BY DEF Init, StoresRealEntries
  <1> QED
    BY <1>1, <1>2, <1>3, <1>4 DEF CacheInv, DictWellFormed

\* The three facts about the dict, apart from the rest of the types.
WellFormedDict(c) ==
    /\ c \in Seq(Entry(Keys, Values))
    /\ Len(c) <= MaxEntries
    /\ UniqueKeys(c)

\* The invariant, with the types spelt out.
LEMMA CacheInvMeans ==
    CacheInv <=> /\ WellFormedDict(cache)
                 /\ StoresRealEntries
                 /\ pc \in [Threads -> {"idle", "get", "set", "prune"}]
                 /\ arg \in [Threads -> Entry(Keys \cup {NoKey}, Values \cup {Nothing})]
                 /\ late \in [Threads -> BOOLEAN]
                 /\ answer \in [Threads -> [key : Keys \cup {NoKey},
                                            decision : Values \cup {Nothing}]]
  BY DEF CacheInv, DictWellFormed, CacheTypeOK, WellFormedDict, UniqueKeys

\* A thread that returns leaves its argument behind; another's is not touched.
LEMMA ReturnKeeps ==
    ASSUME CacheInv, NEW t \in Threads, Return(t)
    PROVE  /\ StoresRealEntries'
           /\ pc' \in [Threads -> {"idle", "get", "set", "prune"}]
           /\ arg' \in [Threads -> Entry(Keys \cup {NoKey}, Values \cup {Nothing})]
  <1>1. \A u \in Threads : pc'[u] = "set" => u # t /\ pc[u] = "set" /\ arg'[u] = arg[u]
    BY DEF CacheInv, DictWellFormed, CacheTypeOK, Return
  <1> QED
    BY <1>1, NoArgType, CacheInvMeans DEF Return, StoresRealEntries

\* A call computes its argument and leaves the dict alone.
LEMMA CallKeeps ==
    ASSUME CacheInv, NEW t \in Threads, NEW method \in {"get", "set", "prune"},
           NEW a \in Entry(Keys \cup {NoKey}, Values \cup {Nothing}),
           method = "set" => a \in Entry(Keys, Values),
           Call(t, method, a)
    PROVE  CacheInv'
  <1>1. cache' = cache /\ late' = late
    BY DEF Call
  <1>2. /\ pc' \in [Threads -> {"idle", "get", "set", "prune"}]
        /\ arg' \in [Threads -> Entry(Keys \cup {NoKey}, Values \cup {Nothing})]
    BY CacheInvMeans DEF Call
  <1>3. answer' \in [Threads -> [key : Keys \cup {NoKey}, decision : Values \cup {Nothing}]]
    BY CacheInvMeans DEF Call, NoAnswer
  <1>4. StoresRealEntries'
    <2> SUFFICES ASSUME NEW u \in Threads, pc'[u] = "set"
                 PROVE  arg'[u] \in Entry(Keys, Values)
      BY DEF StoresRealEntries
    <2>1. CASE u = t
      BY <2>1, CacheInvMeans DEF Call
    <2>2. CASE u # t
      BY <2>2, CacheInvMeans DEF Call, StoresRealEntries
    <2> QED
      BY <2>1, <2>2
  <1>5. WellFormedDict(cache)'
    BY <1>1, CacheInvMeans DEF WellFormedDict
  <1> QED
    BY <1>1, <1>2, <1>3, <1>4, <1>5, CacheInvMeans DEF CacheInv, DictWellFormed, CacheTypeOK, WellFormedDict, UniqueKeys

\* Whatever a method does to the dict keeps it well formed.
LEMMA DictOperations ==
    ASSUME NEW c, WellFormedDict(c)
    PROVE  /\ WellFormedDict(<<>>)
           /\ WellFormedDict(Aged(c))
           /\ \A k : WellFormedDict(AfterMiss(c, k))
           /\ \A entry \in Entry(Keys, Values) : WellFormedDict(Put(c, entry))
           /\ \A P \in SUBSET DOMAIN c : WellFormedDict(KeptAt(c, P))
  <1>1. c \in Seq(Entry(Keys, Values)) /\ Len(c) \in Nat
    BY LenProperties DEF WellFormedDict
  <1>2. WellFormedDict(<<>>)
    BY EmptySeq, MaxEntriesAssumption DEF WellFormedDict, UniqueKeys
  <1>3. WellFormedDict(Aged(c))
    BY <1>1, AgedProperties DEF WellFormedDict
  <1>4. ASSUME NEW k
        PROVE  WellFormedDict(AfterMiss(c, k))
    <2>1. /\ AfterMiss(c, k) \in Seq(Entry(Keys, Values))
          /\ Len(AfterMiss(c, k)) <= Len(c)
          /\ UniqueKeys(c) => UniqueKeys(AfterMiss(c, k))
      BY <1>1, AfterMissProperties
    <2>2. Len(AfterMiss(c, k)) \in Nat
      BY <2>1, LenProperties
    <2> QED
      BY <1>1, <2>1, <2>2, MaxEntriesAssumption DEF WellFormedDict
  <1>5. ASSUME NEW entry \in Entry(Keys, Values)
        PROVE  WellFormedDict(Put(c, entry))
    BY <1>1, PutProperties DEF WellFormedDict
  <1>6. ASSUME NEW P \in SUBSET DOMAIN c
        PROVE  WellFormedDict(KeptAt(c, P))
    <2>1. /\ Cardinality(P) \in Nat /\ Cardinality(P) <= Len(c)
          /\ KeptAt(c, P) \in Seq(Entry(Keys, Values))
          /\ Len(KeptAt(c, P)) = Cardinality(P)
      BY <1>1, KeptAtProperties
    <2>2. UniqueKeys(KeptAt(c, P))
      BY <1>1, KeptAtEntries DEF WellFormedDict
    <2> QED
      BY <1>1, <2>1, <2>2, MaxEntriesAssumption DEF WellFormedDict
  <1> QED
    BY <1>2, <1>3, <1>4, <1>5, <1>6

\* Every step of every method keeps the invariant.
LEMMA CacheStep == CacheInv /\ [Next]_vars => CacheInv'
  <1> SUFFICES ASSUME CacheInv, [Next]_vars PROVE CacheInv'
    OBVIOUS
  <1>0. ASSUME WellFormedDict(cache'),
               StoresRealEntries',
               pc' \in [Threads -> {"idle", "get", "set", "prune"}],
               arg' \in [Threads -> Entry(Keys \cup {NoKey}, Values \cup {Nothing})],
               late' \in [Threads -> BOOLEAN],
               answer' \in [Threads -> [key : Keys \cup {NoKey},
                                        decision : Values \cup {Nothing}]]
        PROVE  CacheInv'
    BY <1>0 DEF CacheInv, DictWellFormed, CacheTypeOK, WellFormedDict, UniqueKeys
  <1>a. WellFormedDict(cache)
    BY CacheInvMeans
  <1>1. ASSUME NEW t \in Threads, NEW k \in Keys \cup {NoKey}, CallGet(t, k)
        PROVE  CacheInv'
    BY <1>1, CallKeeps, NoArgType DEF CallGet
  <1>2. ASSUME NEW t \in Threads, NEW k \in Keys \cup {NoKey}, NEW v \in Values,
               NEW ttl \in Lifetimes, CallSet(t, k, v, ttl)
        PROVE  CacheInv'
    <2> DEFINE a == [key |-> k, decision |-> v, left |-> ttl]
    <2>1. k \in Keys /\ Call(t, "set", a)
      BY <1>2 DEF CallSet
    <2>2. a \in Entry(Keys, Values) /\ a \in Entry(Keys \cup {NoKey}, Values \cup {Nothing})
      BY <2>1, CacheLifetimesAssumption DEF Entry
    <2> QED
      BY <2>1, <2>2, CallKeeps
  <1>3. ASSUME NEW t \in Threads, CallPrune(t)
        PROVE  CacheInv'
    BY <1>3, CallKeeps, NoArgType DEF CallPrune
  <1>4. ASSUME NEW t \in Threads, GetHit(t)
        PROVE  CacheInv'
    <2>1. At(cache, arg[t].key) \in DOMAIN cache
      BY <1>4, AtProperties DEF GetHit, Live
    <2>2. cache[At(cache, arg[t].key)] \in Entry(Keys, Values)
      BY <1>a, <2>1, LenProperties, ElementOfSeq DEF WellFormedDict
    <2>3. Cached(cache, arg[t].key) \in Values
      BY <2>2, EntryFields DEF Cached
    <2>4. arg[t].key \in Keys \cup {NoKey}
      BY CacheInvMeans, EntryFields
    <2>5. answer' \in [Threads -> [key : Keys \cup {NoKey}, decision : Values \cup {Nothing}]]
      BY <1>4, <2>3, <2>4, CacheInvMeans DEF GetHit, AnswerWith
    <2> QED
      BY <1>0, <1>4, <1>a, <2>5, ReturnKeeps, CacheInvMeans DEF GetHit
  <1>5. ASSUME NEW t \in Threads, GetMiss(t)
        PROVE  CacheInv'
    <2>1. WellFormedDict(cache')
      BY <1>5, <1>a, DictOperations DEF GetMiss
    <2>2. arg[t].key \in Keys \cup {NoKey}
      BY CacheInvMeans, EntryFields
    <2>3. answer' \in [Threads -> [key : Keys \cup {NoKey}, decision : Values \cup {Nothing}]]
      BY <1>5, <2>2, CacheInvMeans DEF GetMiss, AnswerWith
    <2> QED
      BY <1>0, <1>5, <2>1, <2>3, ReturnKeeps, CacheInvMeans DEF GetMiss
  <1>6. ASSUME NEW t \in Threads, Set(t)
        PROVE  CacheInv'
    <2>1. arg[t] \in Entry(Keys, Values)
      BY <1>6, CacheInvMeans DEF Set, StoresRealEntries
    <2>2. WellFormedDict(cache')
      BY <1>6, <1>a, <2>1, DictOperations DEF Set
    <2> QED
      BY <1>0, <1>6, <2>2, ReturnKeeps, CacheInvMeans DEF Set
  <1>7. ASSUME NEW t \in Threads, Prune(t)
        PROVE  CacheInv'
    <2>1. PICK spared : cache' = KeptAt(cache, {i \in DOMAIN cache :
                                          cache[i].left > 0 \/ cache[i].key \in spared})
      BY <1>7 DEF Prune
    <2>2. WellFormedDict(cache')
      BY <1>a, <2>1, DictOperations
    <2>3. late' \in [Threads -> BOOLEAN]
      BY <1>7, CacheInvMeans DEF Prune
    <2> QED
      BY <1>0, <1>7, <2>2, <2>3, ReturnKeeps, CacheInvMeans DEF Prune
  <1>8. CASE Clear
    BY <1>0, <1>8, <1>a, DictOperations, CacheInvMeans DEF Clear, StoresRealEntries
  <1>9. CASE Tick
    <2>1. WellFormedDict(cache')
      BY <1>9, <1>a, DictOperations DEF Tick
    <2>2. \A t \in Threads : arg'[t] = [arg[t] EXCEPT !.left = Elapsed(arg[t].left)]
      BY <1>9 DEF Tick
    <2>3. arg' \in [Threads -> Entry(Keys \cup {NoKey}, Values \cup {Nothing})]
      BY <1>9, EntryFields, CacheInvMeans DEF Tick
    <2>4. StoresRealEntries'
      BY <1>9, <2>2, EntryFields, CacheInvMeans DEF Tick, StoresRealEntries
    <2>5. late' \in [Threads -> BOOLEAN]
      BY <1>9, Zenon DEF Tick
    <2> QED
      BY <1>0, <1>9, <2>1, <2>3, <2>4, <2>5, CacheInvMeans DEF Tick
  <1>10. CASE UNCHANGED vars
    BY <1>0, <1>10, CacheInvMeans DEF vars, StoresRealEntries
  <1> QED
    BY <1>1, <1>2, <1>3, <1>4, <1>5, <1>6, <1>7, <1>8, <1>9, <1>10 DEF Next

\* The invariant holds of every behaviour.
LEMMA CacheInvHolds == Spec => []CacheInv
  BY CacheInit, CacheStep, PTL DEF Spec

\* Whatever threads get, set, prune and clear, in whatever order, the dict stays
\* within max_entries, holds no key twice, and all state keeps its type.
THEOREM DictStaysWellFormed == Spec => []DictWellFormed
  <1>1. CacheInv => DictWellFormed
    BY DEF CacheInv
  <1> QED
    BY <1>1, CacheInvHolds, PTL
-----------------------------------------------------------------------------
(* Live keys leave in order *)

\* A key leaves while its decision is still good only as the oldest insertion of
\* a full cache when a new key comes in, or with all the others.
THEOREM LiveKeysAlwaysLeaveInOrder == Spec => LiveKeysLeaveInOrder
  <1> DEFINE InOrder ==
        \A i \in DOMAIN cache :
          cache[i].left > 0 /\ ~Has(cache', cache[i].key) =>
              \/ cache' = <<>>
              \/ /\ i = 1
                 /\ Len(cache) = MaxEntries /\ Len(cache') = MaxEntries
                 /\ \A j \in 2 .. MaxEntries : cache'[j - 1].key = cache[j].key
  <1>1. CacheInv /\ [Next]_vars => [InOrder]_vars
    <2> SUFFICES ASSUME CacheInv, Next PROVE InOrder
      OBVIOUS
    <2>a. /\ cache \in Seq(Entry(Keys, Values)) /\ Len(cache) <= MaxEntries
          /\ UniqueKeys(cache)
      BY CacheInvMeans DEF WellFormedDict
    <2>b. /\ Len(cache) \in Nat /\ DOMAIN cache = 1 .. Len(cache)
          /\ \A i \in DOMAIN cache : cache[i] \in Entries(cache)
      BY <2>a, LenProperties DEF Entries
    <2>c. /\ MaxEntries \in Nat /\ Len(cache) \in Nat
          /\ Len(cache) < MaxEntries \/ Len(cache) >= MaxEntries
          /\ Len(cache) >= MaxEntries => Len(cache) = MaxEntries
      <3> DEFINE n == Len(cache)
      <3>1. MaxEntries \in Nat /\ n \in Nat /\ n <= MaxEntries
        BY <2>a, <2>b, MaxEntriesAssumption
      <3> HIDE DEF n
      <3>2. n < MaxEntries \/ n >= MaxEntries
        BY <3>1
      <3>3. n >= MaxEntries => n = MaxEntries
        BY <3>1
      <3> QED
        BY <3>1, <3>2, <3>3 DEF n
    <2>1. ASSUME \A e \in Entries(cache) : e.left > 0 => Has(cache', e.key)
          PROVE  InOrder
      BY <2>1, <2>b
    <2>2. CASE cache' = cache
      BY <2>1, <2>2, HasEntry
    <2>3. ASSUME NEW t \in Threads, GetMiss(t)
          PROVE  InOrder
      <3>1. Entries(cache') = {e \in Entries(cache) : e.key # arg[t].key}
        BY <2>3, <2>a, AfterMissEntries DEF GetMiss
      <3>2. \A e \in Entries(cache) : e.left > 0 => e.key # arg[t].key
        BY <2>3, <2>a, LiveEntry DEF GetMiss
      <3>3. \A e \in Entries(cache) : e.left > 0 => Has(cache', e.key)
        BY <3>1, <3>2, HasEntry
      <3> QED
        BY <2>1, <3>3
    <2>4. ASSUME NEW t \in Threads, Set(t)
          PROVE  InOrder
      <3>1. arg[t] \in Entry(Keys, Values) /\ cache' = Put(cache, arg[t])
        BY <2>4, CacheInvMeans DEF Set, StoresRealEntries
      <3>2. CASE Has(cache, arg[t].key) \/ Len(cache) < MaxEntries
        <4>1. Entries(cache') = {e \in Entries(cache) : e.key # arg[t].key} \cup {arg[t]}
          BY <2>a, <3>1, <3>2, PutEntries
        <4>2. \A e \in Entries(cache) : Has(cache', e.key)
          BY <4>1, HasEntry
        <4> QED
          BY <2>1, <4>2
      <3>3. CASE ~Has(cache, arg[t].key) /\ Len(cache) >= MaxEntries
        <4>1. /\ Len(cache') = Len(cache)
              /\ \A i \in 2 .. Len(cache) : i - 1 \in DOMAIN cache' /\ cache'[i - 1] = cache[i]
          BY <2>a, <3>1, <3>3, PutEntries
        <4>2. Len(cache) = MaxEntries
          BY <2>c, <3>3
        <4>3. \A i \in DOMAIN cache : i # 1 => i \in 2 .. Len(cache)
          BY <2>b
        <4>4. \A i \in 2 .. Len(cache) : Has(cache', cache[i].key)
          BY <4>1 DEF Has
        <4> QED
          BY <4>1, <4>2, <4>3, <4>4
      <3> HIDE DEF InOrder
      <3> QED
        BY <2>c, <3>2, <3>3, Zenon
    <2>5. ASSUME NEW t \in Threads, Prune(t)
          PROVE  InOrder
      <3> PICK spared : cache' = KeptAt(cache, {i \in DOMAIN cache :
                                            cache[i].left > 0 \/ cache[i].key \in spared})
        BY <2>5 DEF Prune
      <3> DEFINE P == {i \in DOMAIN cache : cache[i].left > 0 \/ cache[i].key \in spared}
      <3>1. P \in SUBSET DOMAIN cache
        OBVIOUS
      <3>2. cache' = KeptAt(cache, P)
        OBVIOUS
      <3>3. \A i \in DOMAIN cache : cache[i].left > 0 => i \in P
        OBVIOUS
      <3> HIDE DEF P
      <3>4. Entries(cache') = {cache[i] : i \in P}
        BY <2>a, <3>1, <3>2, KeptAtEntries
      <3>5. \A e \in Entries(cache) : e.left > 0 => Has(cache', e.key)
        BY <3>3, <3>4, HasEntry DEF Entries
      <3> QED
        BY <2>1, <3>5
    <2>6. CASE Clear
      BY <2>6 DEF Clear
    <2>7. CASE Tick
      <3>1. DOMAIN cache' = DOMAIN cache /\ \A i \in DOMAIN cache : cache'[i].key = cache[i].key
        BY <2>7, <2>a, AgedProperties DEF Tick
      <3>2. \A i \in DOMAIN cache : Has(cache', cache[i].key)
        BY <3>1 DEF Has
      <3> QED
        BY <3>2
    <2>8. ASSUME NEW t \in Threads,
                 \/ \E k \in Keys \cup {NoKey} : CallGet(t, k)
                 \/ \E k \in Keys \cup {NoKey}, v \in Values, ttl \in Lifetimes :
                      CallSet(t, k, v, ttl)
                 \/ CallPrune(t)
                 \/ GetHit(t)
          PROVE  cache' = cache
      BY <2>8 DEF CallGet, CallSet, CallPrune, Call, GetHit
    <2> HIDE DEF InOrder
    <2> QED
      BY <2>2, <2>3, <2>4, <2>5, <2>6, <2>7, <2>8 DEF Next
  <1> QED
    BY <1>1, CacheInvHolds, PTL DEF Spec, LiveKeysLeaveInOrder
-----------------------------------------------------------------------------
(* The refinement *)

\* What a reader sees of the dict c; Visible is View(cache).
View(c) ==
    [k \in {j \in Keys : Live(c, j)} |->
        [decision |-> c[At(c, k)].decision, left |-> c[At(c, k)].left]]

\* Only the live entries count, wherever they stand in the dict.
LEMMA ViewProperties ==
    ASSUME NEW c, WellFormedDict(c)
    PROVE  /\ \A e \in Entries(c) : e \in Entry(Keys, Values)
           /\ \A e \in Entries(c) :
                e.left > 0 => /\ e.key \in DOMAIN View(c)
                              /\ View(c)[e.key] = [decision |-> e.decision, left |-> e.left]
           /\ \A k \in DOMAIN View(c) :
                k \in Keys /\ \E e \in Entries(c) : e.key = k /\ e.left > 0
           /\ View(c) = [k \in DOMAIN View(c) |-> View(c)[k]]
  <1>1. c \in Seq(Entry(Keys, Values)) /\ UniqueKeys(c)
    BY DEF WellFormedDict
  <1>2. \A e \in Entries(c) : e \in Entry(Keys, Values)
    BY <1>1, ElementOfSeq, LenProperties DEF Entries
  <1>3. \A k \in DOMAIN View(c) : k \in Keys /\ \E e \in Entries(c) : e.key = k /\ e.left > 0
    BY <1>1, LiveEntry DEF View
  <1>4. ASSUME NEW e \in Entries(c), e.left > 0
        PROVE  /\ e.key \in DOMAIN View(c)
               /\ View(c)[e.key] = [decision |-> e.decision, left |-> e.left]
    <2>1. e.key \in Keys
      BY <1>2, EntryFields
    <2>2. Live(c, e.key) /\ c[At(c, e.key)] = e
      BY <1>1, <1>4, LiveEntry
    <2> QED
      BY <2>1, <2>2 DEF View
  <1>5. View(c) = [k \in DOMAIN View(c) |-> View(c)[k]]
    BY DEF View
  <1> QED
    BY <1>2, <1>3, <1>4, <1>5

\* Two dicts with the same live entries look the same.
LEMMA SameView ==
    ASSUME NEW c, NEW d, WellFormedDict(c), WellFormedDict(d),
           \A e : e.left > 0 => (e \in Entries(c) <=> e \in Entries(d))
    PROVE  View(c) = View(d)
  <1>1. ASSUME NEW a, NEW b, WellFormedDict(a), WellFormedDict(b),
               \A e : e.left > 0 => (e \in Entries(a) => e \in Entries(b)),
               NEW k \in DOMAIN View(a)
        PROVE  k \in DOMAIN View(b) /\ View(a)[k] = View(b)[k]
    <2>1. PICK e \in Entries(a) : e.key = k /\ e.left > 0
      BY <1>1, ViewProperties
    <2>2. View(a)[k] = [decision |-> e.decision, left |-> e.left]
      BY <1>1, <2>1, ViewProperties
    <2>3. e \in Entries(b)
      BY <1>1, <2>1
    <2>4. k \in DOMAIN View(b) /\ View(b)[k] = [decision |-> e.decision, left |-> e.left]
      BY <1>1, <2>1, <2>3, ViewProperties
    <2> QED
      BY <2>2, <2>4
  <1>2. \A k \in DOMAIN View(c) : k \in DOMAIN View(d) /\ View(c)[k] = View(d)[k]
    BY <1>1
  <1>3. \A k \in DOMAIN View(d) : k \in DOMAIN View(c)
    BY <1>1
  <1>4. /\ View(c) = [k \in DOMAIN View(c) |-> View(c)[k]]
        /\ View(d) = [k \in DOMAIN View(d) |-> View(d)[k]]
    BY ViewProperties
  <1> HIDE DEF View
  <1>5. DOMAIN View(c) = DOMAIN View(d)
    BY <1>2, <1>3
  <1> QED
    BY <1>2, <1>4, <1>5

\* A set is a Write of what is left of the lifetime when the lock is taken.
LEMMA SetIsWrite ==
    ASSUME CacheInv, NEW t \in Threads, Set(t)
    PROVE  \E k \in Keys, v \in Values, ttl \in Lifetimes :
             \E left \in 0 .. ttl : Map!Write(k, v, left)
  <1> DEFINE k == arg[t].key
             v == arg[t].decision
             left == arg[t].left
             new == [decision |-> v, left |-> left]
             kept == DOMAIN View(cache') \ {k}
  <1>1. arg[t] \in Entry(Keys, Values) /\ cache' = Put(cache, arg[t]) /\ answer' = answer
    BY CacheInvMeans DEF Set, StoresRealEntries
  <1>2. k \in Keys /\ v \in Values /\ left \in 0 .. TTL
    BY <1>1, EntryFields
  <1>3. WellFormedDict(cache) /\ WellFormedDict(cache')
    BY CacheInvMeans, <1>1, DictOperations
  <1>4. cache \in Seq(Entry(Keys, Values)) /\ UniqueKeys(cache) /\ Len(cache) \in Nat
        /\ MaxEntries \in Nat
    BY <1>3, LenProperties, MaxEntriesAssumption DEF WellFormedDict
  <1>5. /\ arg[t] \in Entries(cache')
        /\ \A e \in Entries(cache') : e # arg[t] => e \in Entries(cache) /\ e.key # k
    <2>1. CASE Has(cache, k) \/ Len(cache) < MaxEntries
      BY <1>1, <1>4, <2>1, PutEntries
    <2>2. CASE ~Has(cache, k) /\ Len(cache) >= MaxEntries
      <3>1. Entries(cache') = {cache[i] : i \in 2 .. Len(cache)} \cup {arg[t]}
        BY <1>1, <1>4, <2>2, PutEntries
      <3>2. \A i \in 2 .. Len(cache) : i \in DOMAIN cache
        BY <1>4, LenProperties
      <3>3. \A i \in 2 .. Len(cache) : cache[i] \in Entries(cache) /\ cache[i].key # k
        BY <2>2, <3>2 DEF Entries, Has
      <3> QED
        BY <3>1, <3>3
    <2>3. Len(cache) < MaxEntries \/ Len(cache) >= MaxEntries
      BY <1>4
    <2> QED
      BY <2>1, <2>2, <2>3, Zenon
  <1>6. left > 0 => k \in DOMAIN View(cache') /\ View(cache')[k] = new
    BY <1>3, <1>5, ViewProperties
  <1>7. ASSUME NEW j \in kept
        PROVE  j \in DOMAIN View(cache) /\ View(cache')[j] = View(cache)[j]
    <2>1. j \in DOMAIN View(cache') /\ j # k
      OBVIOUS
    <2>2. PICK e \in Entries(cache') : e.key = j /\ e.left > 0
      BY <1>3, <2>1, ViewProperties
    <2>3. e \in Entries(cache)
      BY <1>5, <2>1, <2>2
    <2>4. View(cache')[j] = [decision |-> e.decision, left |-> e.left]
      BY <1>3, <2>2, ViewProperties
    <2>5. /\ j \in DOMAIN View(cache)
          /\ View(cache)[j] = [decision |-> e.decision, left |-> e.left]
      BY <1>3, <2>2, <2>3, ViewProperties
    <2> QED
      BY <2>4, <2>5
  <1>8. k \in DOMAIN View(cache') => left > 0
    <2> SUFFICES ASSUME k \in DOMAIN View(cache') PROVE left > 0
      OBVIOUS
    <2>1. PICK e \in Entries(cache') : e.key = k /\ e.left > 0
      <3> HIDE DEF k
      <3> QED
        BY <1>3, ViewProperties
    <2> QED
      BY <1>5, <2>1
  <1>9. DOMAIN View(cache') = kept \cup (IF left > 0 THEN {k} ELSE {})
    BY <1>6, <1>8
  <1>10. View(cache') = [j \in kept \cup (IF left > 0 THEN {k} ELSE {}) |->
                           IF j = k THEN new ELSE View(cache)[j]]
    <2>1. ASSUME NEW j \in DOMAIN View(cache')
          PROVE  View(cache')[j] = IF j = k THEN new ELSE View(cache)[j]
      BY <1>6, <1>7, <1>8, <2>1
    <2>2. View(cache') = [j \in DOMAIN View(cache') |-> View(cache')[j]]
      BY <1>3, ViewProperties
    <2> HIDE DEF kept, k, left, new
    <2> QED
      BY <1>9, <2>1, <2>2
  <1>11. kept \in SUBSET (DOMAIN View(cache) \ {k})
    BY <1>7
  <1>12. Visible = View(cache) /\ Visible' = View(cache')
    BY DEF Visible, View
  <1> HIDE DEF kept, k, v, left
  <1>13. Map!Write(k, v, left)
    BY <1>1, <1>10, <1>11, <1>12 DEF Map!Write, new
  <1> QED
    BY <1>2, <1>13, CacheLifetimesAssumption

\* Asking again resets a thread's answer; no entry is read or written by that.
LEMMA CallIsLookup ==
    ASSUME NEW t \in Threads, NEW method, NEW a, Call(t, method, a)
    PROVE  Map!Lookup(t, NoKey)
  <1>1. Visible' = Visible /\ answer' = [answer EXCEPT ![t] = [key |-> NoKey, decision |-> Nothing]]
    BY DEF Call, NoAnswer, Visible
  <1> QED
    BY <1>1 DEF Map!Lookup

\* A hit is answered from the entry of the key asked for, which is visible.
LEMMA HitIsLookup ==
    ASSUME CacheInv, NEW t \in Threads, GetHit(t)
    PROVE  arg[t].key \in Keys /\ Map!Lookup(t, arg[t].key)
  <1> DEFINE k == arg[t].key
             e == cache[At(cache, k)]
  <1>1. WellFormedDict(cache)
    BY CacheInvMeans
  <1>2. e \in Entries(cache) /\ e.key = k /\ e.left > 0
    BY AtProperties DEF GetHit, Live, Entries
  <1>3. /\ k \in DOMAIN View(cache)
        /\ View(cache)[k] = [decision |-> e.decision, left |-> e.left]
    BY <1>1, <1>2, ViewProperties
  <1>4. k \in Keys
    BY <1>1, <1>3, ViewProperties
  <1>5. /\ Visible = View(cache) /\ Visible' = Visible
        /\ answer' = [answer EXCEPT ![t] = [key |-> k, decision |-> e.decision]]
    BY DEF GetHit, Visible, View, AnswerWith, Cached
  <1> HIDE DEF k, e
  <1>6. Visible[k].decision = e.decision
    BY <1>3, <1>5
  <1>7. e.decision \in {Visible[j].decision : j \in DOMAIN Visible \cap {k}}
    BY <1>3, <1>5, <1>6
  <1>8. Map!Lookup(t, k)
    BY <1>5, <1>7 DEF Map!Lookup
  <1> QED
    BY <1>4, <1>8 DEF k

\* A miss deletes at most an entry that had expired.
LEMMA MissIsLookup ==
    ASSUME CacheInv, NEW t \in Threads, GetMiss(t)
    PROVE  arg[t].key \in Keys \cup {NoKey} /\ Map!Lookup(t, arg[t].key)
  <1> DEFINE k == arg[t].key
  <1>1. WellFormedDict(cache) /\ WellFormedDict(cache') /\ UniqueKeys(cache)
    BY CacheInvMeans, DictOperations DEF GetMiss, WellFormedDict
  <1>2. Entries(cache') = {e \in Entries(cache) : e.key # k}
    BY <1>1, AfterMissEntries DEF GetMiss, WellFormedDict
  <1>3. \A e \in Entries(cache) : e.left > 0 => e.key # k
    BY <1>1, LiveEntry DEF GetMiss
  <1>4. \A e : e.left > 0 => (e \in Entries(cache) <=> e \in Entries(cache'))
    BY <1>2, <1>3
  <1>5. View(cache) = View(cache')
    BY <1>1, <1>4, SameView
  <1>6. Visible' = Visible
    BY <1>5 DEF View, Visible
  <1>7. answer' = [answer EXCEPT ![t] = [key |-> k, decision |-> Nothing]]
    BY DEF GetMiss, AnswerWith
  <1>8. k \in Keys \cup {NoKey}
    BY CacheInvMeans, EntryFields
  <1> QED
    BY <1>6, <1>7, <1>8 DEF Map!Lookup

\* A prune takes expired entries only, whenever it read the clock.
LEMMA PruneIsStutter ==
    ASSUME CacheInv, NEW t \in Threads, Prune(t)
    PROVE  UNCHANGED <<Visible, answer>>
  <1>1. PICK spared :
          cache' = KeptAt(cache, {i \in DOMAIN cache :
                                    cache[i].left > 0 \/ cache[i].key \in spared})
    BY DEF Prune
  <1> DEFINE P == {i \in DOMAIN cache : cache[i].left > 0 \/ cache[i].key \in spared}
  <1>2. WellFormedDict(cache) /\ WellFormedDict(cache') /\ cache \in Seq(Entry(Keys, Values))
    BY <1>1, CacheInvMeans, DictOperations DEF WellFormedDict
  <1>3. Entries(cache') = {cache[i] : i \in P}
    BY <1>1, <1>2, KeptAtEntries
  <1>4. \A e : e.left > 0 => (e \in Entries(cache) <=> e \in Entries(cache'))
    BY <1>3 DEF Entries
  <1>5. View(cache) = View(cache')
    BY <1>2, <1>4, SameView
  <1> QED
    BY <1>5 DEF View, Visible, Prune

\* To a reader, clear forgets everything.
LEMMA ClearIsForget ==
    ASSUME CacheInv, Clear
    PROVE  Map!Forget
  <1>1. WellFormedDict(cache') /\ Entries(cache') = {}
    BY CacheInvMeans, DictOperations DEF Clear, Entries
  <1>2. DOMAIN View(cache') = {}
    BY <1>1, ViewProperties
  <1>3. View(cache') = [k \in {} |-> View(cache')[k]]
    BY <1>1, <1>2, ViewProperties
  <1>4. Visible' = View(cache')
    BY DEF View, Visible
  <1>5. Visible' = Map!Restrict(Visible, {})
    BY <1>3, <1>4 DEF Map!Restrict
  <1> QED
    BY <1>5 DEF Map!Forget, Clear

\* A tick takes one from every lifetime, and hides the entries it ends.
LEMMA TickIsPass ==
    ASSUME CacheInv, Tick
    PROVE  Map!Pass
  <1> DEFINE lasting == {j \in DOMAIN View(cache) : View(cache)[j].left > 1}
  <1>1. /\ WellFormedDict(cache) /\ WellFormedDict(cache')
        /\ Entries(cache') = {[e EXCEPT !.left = Elapsed(e.left)] : e \in Entries(cache)}
    BY CacheInvMeans, DictOperations, AgedEntries DEF Tick
  <1>2. ASSUME NEW e \in Entries(cache)
        PROVE  /\ e.left \in Nat
               /\ e.left > 1 => /\ Elapsed(e.left) > 0 /\ Elapsed(e.left) = e.left - 1
               /\ Elapsed(e.left) > 0 => e.left > 1 /\ e.left > 0
               /\ [e EXCEPT !.left = Elapsed(e.left)].key = e.key
               /\ [e EXCEPT !.left = Elapsed(e.left)].decision = e.decision
               /\ [e EXCEPT !.left = Elapsed(e.left)].left = Elapsed(e.left)
    <2>1. e \in Entry(Keys, Values)
      BY <1>1, ViewProperties
    <2>2. e.left \in 0 .. TTL
      BY <2>1, EntryFields
    <2>3. e.left \in Nat
      <3> DEFINE l == e.left
      <3> HIDE DEF l
      <3> QED
        BY <2>2, TTLAssumption DEF l
    <2> QED
      BY <2>1, <2>3 DEF Entry, Elapsed
  <1>3. ASSUME NEW k \in DOMAIN View(cache')
        PROVE  /\ k \in lasting
               /\ View(cache')[k] = [View(cache)[k] EXCEPT !.left = @ - 1]
    <2>1. PICK f \in Entries(cache') : f.key = k /\ f.left > 0
      BY <1>1, ViewProperties
    <2>2. PICK e \in Entries(cache) : f = [e EXCEPT !.left = Elapsed(e.left)]
      BY <1>1
    <2>3. e.key = k /\ e.left > 1 /\ e.left > 0 /\ f.left = e.left - 1 /\ f.decision = e.decision
      BY <1>2, <2>1, <2>2
    <2>4. /\ k \in DOMAIN View(cache)
          /\ View(cache)[k] = [decision |-> e.decision, left |-> e.left]
      BY <1>1, <2>3, ViewProperties
    <2>5. View(cache')[k] = [decision |-> f.decision, left |-> f.left]
      BY <1>1, <2>1, ViewProperties
    <2> QED
      BY <2>3, <2>4, <2>5
  <1>4. ASSUME NEW k \in lasting
        PROVE  k \in DOMAIN View(cache')
    <2>1. PICK e \in Entries(cache) : e.key = k /\ e.left > 0
      BY <1>1, ViewProperties
    <2>2. View(cache)[k] = [decision |-> e.decision, left |-> e.left]
      BY <1>1, <2>1, ViewProperties
    <2>3. e.left > 1
      BY <2>2
    <2>4. [e EXCEPT !.left = Elapsed(e.left)] \in Entries(cache')
      BY <1>1
    <2>5. /\ [e EXCEPT !.left = Elapsed(e.left)].key = k
          /\ [e EXCEPT !.left = Elapsed(e.left)].left > 0
      BY <1>2, <2>1, <2>3
    <2> QED
      BY <1>1, <2>4, <2>5, ViewProperties
  <1>5. DOMAIN View(cache') = lasting
    BY <1>3, <1>4
  <1>6. View(cache') = [k \in lasting |-> [View(cache)[k] EXCEPT !.left = @ - 1]]
    <2>1. View(cache') = [k \in DOMAIN View(cache') |-> View(cache')[k]]
      BY <1>1, ViewProperties
    <2> HIDE DEF lasting, View
    <2> QED
      BY <1>3, <1>5, <2>1
  <1>7. Visible = View(cache) /\ Visible' = View(cache') /\ answer' = answer
    BY DEF View, Visible, Tick
  <1> QED
    BY <1>6, <1>7 DEF Map!Pass

\* Every step of the cache is a step of the lossy map or invisible to it.
LEMMA CacheStepIsMapStep ==
    CacheInv /\ [Next]_vars => [Map!Next]_(Map!vars)
  <1> SUFFICES ASSUME CacheInv, [Next]_vars PROVE Map!Next \/ UNCHANGED <<Visible, answer>>
    BY DEF Map!vars
  <1>1. ASSUME NEW t \in Threads, NEW k \in Keys \cup {NoKey}, Map!Lookup(t, k)
        PROVE  Map!Next
    BY <1>1 DEF Map!Next
  <1>2. ASSUME NEW t \in Threads, NEW k \in Keys \cup {NoKey}, CallGet(t, k)
        PROVE  Map!Next
    BY <1>1, <1>2, CallIsLookup DEF CallGet
  <1>3. ASSUME NEW t \in Threads, NEW k \in Keys \cup {NoKey}, NEW v \in Values,
               NEW ttl \in Lifetimes, CallSet(t, k, v, ttl)
        PROVE  Map!Next
    BY <1>1, <1>3, CallIsLookup DEF CallSet
  <1>4. ASSUME NEW t \in Threads, CallPrune(t)
        PROVE  Map!Next
    BY <1>1, <1>4, CallIsLookup DEF CallPrune
  <1>5. ASSUME NEW t \in Threads, GetHit(t)
        PROVE  Map!Next
    BY <1>1, <1>5, HitIsLookup
  <1>6. ASSUME NEW t \in Threads, GetMiss(t)
        PROVE  Map!Next
    BY <1>1, <1>6, MissIsLookup
  <1>7. ASSUME NEW t \in Threads, Set(t)
        PROVE  Map!Next
    BY <1>7, SetIsWrite DEF Map!Next
  <1>8. CASE Clear
    BY <1>8, ClearIsForget DEF Map!Next
  <1>9. CASE Tick
    BY <1>9, TickIsPass DEF Map!Next
  <1>10. CASE UNCHANGED vars
    BY <1>10 DEF vars, Visible
  <1> QED
    BY <1>2, <1>3, <1>4, <1>5, <1>6, <1>7, PruneIsStutter, <1>8, <1>9, <1>10 DEF Next

\* An empty dict is an empty map.
LEMMA CacheInitIsMapInit == Init => Map!Init
  <1> SUFFICES ASSUME Init PROVE Map!Init
    OBVIOUS
  <1>1. WellFormedDict(cache) /\ Entries(cache) = {}
    BY CacheInit, CacheInvMeans DEF Init, Entries
  <1>2. DOMAIN View(cache) = {}
    BY <1>1, ViewProperties
  <1>3. View(cache) = [k \in {} |-> View(cache)[k]]
    BY <1>1, <1>2, ViewProperties
  <1>4. View(cache) = <<>>
    BY <1>3
  <1>5. Visible = <<>>
    BY <1>4 DEF View, Visible
  <1> QED
    BY <1>5 DEF Init, NoAnswer, Map!Init

\* What the methods do between them, in any order and with the clock running, is
\* what a LossyMap does: a get is never answered with anything but the last
\* decision stored for the key it asked for, within that decision's lifetime.
THEOREM CacheIsALossyMap == Spec => RefinesLossyMap
  BY CacheInitIsMapInit, CacheInvHolds, CacheStepIsMapStep, PTL DEF Spec, RefinesLossyMap, Map!Spec
=============================================================================
