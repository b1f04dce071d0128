---------------------------- MODULE DNSCacheOps ----------------------------
(***************************************************************************)
(* resolver/dns_cache.py: what the methods of DNSCache do to the dict they *)
(* guard with one lock.                                                    *)
(*                                                                         *)
(* The dict is the sequence of its entries in insertion order, which is    *)
(* what `next(iter(self._cache))` reads.  An entry's expires_at is kept as *)
(* the lifetime it has left: `time.time() < expires_at` is left > 0, and   *)
(* time passing is Aged.  Keys are normalised domains: the model's domains *)
(* are equivalence classes of names that _normalize_domain maps together.  *)
(***************************************************************************)
EXTENDS Integers, Sequences, SequencesExt, Subsequence

CONSTANTS
    TTL,            \* default_ttl_seconds, in ticks of the model's clock
    MaxEntries      \* max_entries

ASSUME TTLAssumption == TTL \in Nat \ {0}
ASSUME MaxEntriesAssumption == MaxEntries \in Nat \ {0}

Entry(Key, Value) == [key : Key, decision : Value, left : 0 .. TTL]

-----------------------------------------------------------------------------
Has(cache, k) == \E i \in DOMAIN cache : cache[i].key = k

\* The place of k's entry; keys are unique, so there is one.
At(cache, k) == CHOOSE i \in DOMAIN cache : cache[i].key = k

\* Mutant: get does not look at expires_at.
LiveForever(cache, k) == Has(cache, k)

Live(cache, k) == Has(cache, k) /\ cache[At(cache, k)].left > 0

\* What get(k) hands to its caller on a hit: a copy, so a value.
Cached(cache, k) == cache[At(cache, k)].decision

\* get(k) on a miss: an entry found expired is deleted on the way.
AfterMiss(cache, k) ==
    IF Has(cache, k) THEN RemoveAt(cache, At(cache, k)) ELSE cache

\* Mutant: `>` for `>=` in the test whether the dict is full.
PutOffByOne(cache, entry) ==
    CASE Has(cache, entry.key) -> [cache EXCEPT ![At(cache, entry.key)] = entry]
      [] ~Has(cache, entry.key) /\ Len(cache) > MaxEntries -> Append(Tail(cache), entry)
      [] OTHER -> Append(cache, entry)

\* Mutant: popitem() evicts the newest insertion.
PutEvictsNewest(cache, entry) ==
    CASE Has(cache, entry.key) -> [cache EXCEPT ![At(cache, entry.key)] = entry]
      [] ~Has(cache, entry.key) /\ Len(cache) >= MaxEntries -> Append(Front(cache), entry)
      [] OTHER -> Append(cache, entry)

\* Mutant: an old key's entry is not replaced but stored again.
PutDuplicates(cache, entry) ==
    IF Len(cache) >= MaxEntries THEN Append(Tail(cache), entry) ELSE Append(cache, entry)

\* set(k): an old key keeps its place in the dict; a new one evicts the oldest
\* insertion when the dict is full, whatever lifetime that one has left.
Put(cache, entry) ==
    CASE Has(cache, entry.key) -> [cache EXCEPT ![At(cache, entry.key)] = entry]
      [] ~Has(cache, entry.key) /\ Len(cache) >= MaxEntries -> Append(Tail(cache), entry)
      [] OTHER -> Append(cache, entry)

\* One tick of time.time().
Elapsed(left) == IF left = 0 THEN 0 ELSE left - 1

Aged(cache) == [i \in DOMAIN cache |-> [cache[i] EXCEPT !.left = Elapsed(@)]]
=============================================================================
