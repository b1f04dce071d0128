------------------------------ MODULE DNSCache ------------------------------
(***************************************************************************)
(* resolver/dns_cache.py: the methods of one DNSCache, called by several   *)
(* threads.  Each method takes the lock once; what it reads before that    *)
(* (the clock) may be old by the time it has the lock.                     *)
(***************************************************************************)
EXTENDS DNSCacheOps

CONSTANTS
    Threads,
    Keys,           \* what _normalize_domain makes of the names in use
    NoKey,          \* what it makes of "" and of "."
    Values,         \* decisions
    Nothing,        \* None
    Lifetimes       \* ttl_seconds given to set, or the default

ASSUME KeysAssumption == NoKey \notin Keys
ASSUME NothingAssumption == Nothing \notin Values
ASSUME CacheLifetimesAssumption == Lifetimes \subseteq 0 .. TTL /\ TTL \in Lifetimes

VARIABLES
    cache,      \* _cache
    pc,         \* the method each thread is in
    arg,        \* the entry a set is about to store, or the key a get asks for
    late,       \* whether time passed since a prune read the clock
    answer      \* what a get has asked for and returned, until the thread's next call

vars == <<cache, pc, arg, late, answer>>

NoArg == [key |-> NoKey, decision |-> Nothing, left |-> 0]

NoAnswer == [key |-> NoKey, decision |-> Nothing]

Init ==
    /\ cache = <<>>
    /\ pc = [t \in Threads |-> "idle"]
    /\ arg = [t \in Threads |-> NoArg]
    /\ late = [t \in Threads |-> FALSE]
    /\ answer = [t \in Threads |-> NoAnswer]

-----------------------------------------------------------------------------
Call(t, method, a) ==
    /\ pc[t] = "idle"
    /\ pc' = [pc EXCEPT ![t] = method]
    /\ arg' = [arg EXCEPT ![t] = a]
    /\ answer' = [answer EXCEPT ![t] = NoAnswer]
    /\ UNCHANGED <<cache, late>>

Return(t) ==
    /\ pc' = [pc EXCEPT ![t] = "idle"]
    /\ arg' = [arg EXCEPT ![t] = NoArg]

CallGet(t, k) == Call(t, "get", [NoArg EXCEPT !.key = k])

\* set returns at once when it has no key; otherwise it computes expires_at.
CallSet(t, k, v, ttl) ==
    /\ k # NoKey
    /\ Call(t, "set", [key |-> k, decision |-> v, left |-> ttl])

\* prune_expired reads the clock.
CallPrune(t) == Call(t, "prune", NoArg)

-----------------------------------------------------------------------------
AnswerWith(t, v) == answer' = [answer EXCEPT ![t] = [key |-> arg[t].key, decision |-> v]]

\* Mutant: get answers with an expired entry.
GetHitExpired(t) ==
    /\ pc[t] = "get"
    /\ Has(cache, arg[t].key)
    /\ AnswerWith(t, Cached(cache, arg[t].key))
    /\ Return(t)
    /\ UNCHANGED <<cache, late>>

GetHit(t) ==
    /\ pc[t] = "get"
    /\ Live(cache, arg[t].key)
    /\ AnswerWith(t, Cached(cache, arg[t].key))
    /\ Return(t)
    /\ UNCHANGED <<cache, late>>

\* NoKey is never in the cache.
GetMiss(t) ==
    /\ pc[t] = "get"
    /\ ~Live(cache, arg[t].key)
    /\ cache' = AfterMiss(cache, arg[t].key)
    /\ AnswerWith(t, Nothing)
    /\ Return(t)
    /\ UNCHANGED late

Set(t) ==
    /\ pc[t] = "set"
    /\ cache' = Put(cache, arg[t])
    /\ Return(t)
    /\ UNCHANGED <<late, answer>>

\* The entries expired at the time prune_expired read are gone, and the others
\* stay: those that expired since then too.
Prune(t) ==
    /\ pc[t] = "prune"
    /\ \E spared \in SUBSET {cache[i].key : i \in DOMAIN cache} :
         /\ late[t] \/ spared = {}
         /\ cache' = KeptAt(cache, {i \in DOMAIN cache :
                                     cache[i].left > 0 \/ cache[i].key \in spared})
    /\ late' = [late EXCEPT ![t] = FALSE]
    /\ Return(t)
    /\ UNCHANGED answer

Clear ==
    /\ cache # <<>>
    /\ cache' = <<>>
    /\ UNCHANGED <<pc, arg, late, answer>>

Tick ==
    /\ \/ \E i \in DOMAIN cache : cache[i].left > 0
       \/ \E t \in Threads : pc[t] = "set" /\ arg[t].left > 0
       \/ \E t \in Threads : pc[t] = "prune" /\ ~late[t]
    /\ cache' = Aged(cache)
    /\ arg' = [t \in Threads |-> [arg[t] EXCEPT !.left = Elapsed(@)]]
    /\ late' = [t \in Threads |-> pc[t] = "prune"]
    /\ UNCHANGED <<pc, answer>>

Next ==
    \/ \E t \in Threads :
         \/ \E k \in Keys \cup {NoKey} : CallGet(t, k)
         \/ \E k \in Keys \cup {NoKey}, v \in Values, ttl \in Lifetimes : CallSet(t, k, v, ttl)
         \/ CallPrune(t)
         \/ GetHit(t)
         \/ GetMiss(t)
         \/ Set(t)
         \/ Prune(t)
    \/ Clear
    \/ Tick

Spec == Init /\ [][Next]_vars

-----------------------------------------------------------------------------
CacheTypeOK ==
    /\ cache \in Seq(Entry(Keys, Values))
    /\ pc \in [Threads -> {"idle", "get", "set", "prune"}]
    /\ arg \in [Threads -> Entry(Keys \cup {NoKey}, Values \cup {Nothing})]
    /\ late \in [Threads -> BOOLEAN]
    /\ answer \in [Threads -> [key : Keys \cup {NoKey}, decision : Values \cup {Nothing}]]

\* Evictions, lazy deletions, prunes and overwrites in any order keep the dict
\* within its limit with one entry per key, and every thread's step of its type.
DictWellFormed ==
    /\ CacheTypeOK
    /\ Len(cache) <= MaxEntries
    /\ \A i, j \in DOMAIN cache : cache[i].key = cache[j].key => i = j

\* "Enforces maximum capacity with FIFO eviction": a key leaves the cache while
\* its decision is still good only when it is the oldest insertion of a full
\* cache and a new key comes in, or when the cache is cleared.
LiveKeysLeaveInOrder ==
    [][\A i \in DOMAIN cache :
         cache[i].left > 0 /\ ~Has(cache', cache[i].key) =>
             \/ cache' = <<>>
             \/ /\ i = 1
                /\ Len(cache) = MaxEntries /\ Len(cache') = MaxEntries
                /\ \A j \in 2 .. MaxEntries : cache'[j - 1].key = cache[j].key]_vars

\* The map a reader sees: the entries that are still live.
Visible ==
    [k \in {j \in Keys : Live(cache, j)} |->
        [decision |-> cache[At(cache, k)].decision, left |-> cache[At(cache, k)].left]]

Map == INSTANCE LossyMap WITH store <- Visible

\* Every get is answered as the abstract map would answer it: the last decision
\* stored for that key, within its lifetime, or nothing.
RefinesLossyMap == Map!Spec
=============================================================================
