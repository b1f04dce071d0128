------------------------------ MODULE Resolver ------------------------------
(***************************************************************************)
(* The path of one DNS query through DNSentinel, taken by several queries  *)
(* at once over one shared decision cache and one shared indicator store.  *)
(*                                                                         *)
(*   - SyncWorkers: threads in Orchestrator.process_query.  The UDP listen *)
(*     loop is one such thread (UDPResolverServer.handle_packet); a DoH    *)
(*     request runs process_wire_query on a pool thread.  After the        *)
(*     decision they sinkhole the client or forward its packet upstream.   *)
(*   - AsyncWorkers: asyncio tasks in Orchestrator.process_query_async,    *)
(*     started by POST /api/v1/dns/evaluate.  They return the decision.    *)
(*                                                                         *)
(* A step is what runs between two points where another thread, task or    *)
(* the clock can come in between: around each acquisition of the cache's   *)
(* lock, the read of the indicator store, a detector's result, each        *)
(* upstream exchange and the reply.                                        *)
(***************************************************************************)
EXTENDS RiskEngine, DNSCacheOps, FiniteSets

CONSTANTS
    Domains,        \* normalised domain names clients ask for
    SyncWorkers,
    AsyncWorkers,
    MlProbability,  \* [Domains -> Score], what the classifier says of a name
    TunnelScores,   \* the scores TunnelDetector.analyze may give (it depends on
                    \* the query type and the client's recent volume)
    MaxFaults       \* bound on detector timeouts and exceptions in a behaviour

Workers == SyncWorkers \cup AsyncWorkers

ASSUME WorkersAssumption ==
    /\ SyncWorkers \cap AsyncWorkers = {}
    /\ MlProbability \in [Domains -> Score]
    /\ TunnelScores \subseteq Score
    /\ MaxFaults \in Nat
    /\ Domains # {}

VARIABLES
    cache,      \* DNSCache._cache
    intel,      \* the domains IOCStore.lookup matches (IOCStore._store)
    pc,         \* where each worker stands in its query
    job,        \* each worker's query and what it found out so far
    faults      \* detector faults so far

vars == <<cache, intel, pc, job, faults>>

-----------------------------------------------------------------------------
(* What a SecurityDecision carries that its readers act on.  `degraded` is *)
(* not a field of the code: it remembers that a detector's answer was      *)
(* replaced by its fallback, which the decision itself does not say.       *)
Decision == [action : Actions, matched : BOOLEAN, degraded : BOOLEAN]

Undecided == [action |-> "ALLOW", matched |-> FALSE, degraded |-> FALSE]

Answers == {"none", "sinkhole", "upstream", "servfail", "decision", "error"}

Job == [domain : Domains,
        decision : Decision,
        lookup : {"none", "match", "clean"},  \* what IOCStore.lookup returned
        hit : BOOLEAN,                        \* SecurityDecision.cache_hit
        left : 0 .. TTL,                      \* expires_at, once computed
        answer : Answers]

NewJob(d) == [domain |-> d, decision |-> Undecided, lookup |-> "none",
              hit |-> FALSE, left |-> 0, answer |-> "none"]

\* What an idle worker holds: nothing reads it.
NoJob == NewJob(CHOOSE d \in Domains : TRUE)

Steps == {"idle", "cache", "intel", "detect", "stamp", "store",
          "respond", "primary", "secondary", "reply"}

Init ==
    /\ cache = <<>>
    /\ intel \in SUBSET Domains
    /\ pc = [w \in Workers |-> "idle"]
    /\ job = [w \in Workers |-> NoJob]
    /\ faults = 0

Goto(w, step) == pc' = [pc EXCEPT ![w] = step]

\* `decision = RiskEngine.calculate_risk(...)` from these three results.
Decided(matched, ml, tunnel, degraded) ==
    [action |-> Decide(matched, ml, tunnel, 0), matched |-> matched, degraded |-> degraded]

-----------------------------------------------------------------------------
(* The cache and the detectors *)

\* A query that decodes; a malformed one is dropped and changes nothing.
Receive(w, d) ==
    /\ pc[w] = "idle"
    /\ job' = [job EXCEPT ![w] = NewJob(d)]
    /\ Goto(w, "cache")
    /\ UNCHANGED <<cache, intel, faults>>

\* Mutant: a hit starts the entry's lifetime again.
CacheHitRenews(w) ==
    LET d == job[w].domain
    IN  /\ pc[w] = "cache"
        /\ Live(cache, d)
        /\ cache' = [cache EXCEPT ![At(cache, d)].left = TTL]
        /\ job' = [job EXCEPT ![w].decision = Cached(cache, d), ![w].hit = TRUE]
        /\ Goto(w, "respond")
        /\ UNCHANGED <<intel, faults>>

\* Mutant: a hit adds a lifetime to the entry's expires_at.
CacheHitExtends(w) ==
    LET d == job[w].domain
    IN  /\ pc[w] = "cache"
        /\ Live(cache, d)
        /\ cache' = [cache EXCEPT ![At(cache, d)].left = @ + TTL]
        /\ job' = [job EXCEPT ![w].decision = Cached(cache, d), ![w].hit = TRUE]
        /\ Goto(w, "respond")
        /\ UNCHANGED <<intel, faults>>

\* dns_cache.get finds a live entry: its copy is the answer.
CacheHit(w) ==
    LET d == job[w].domain
    IN  /\ pc[w] = "cache"
        /\ Live(cache, d)
        /\ job' = [job EXCEPT ![w].decision = Cached(cache, d), ![w].hit = TRUE]
        /\ Goto(w, "respond")
        /\ UNCHANGED <<cache, intel, faults>>

CacheMiss(w) ==
    LET d == job[w].domain
    IN  /\ pc[w] = "cache"
        /\ ~Live(cache, d)
        /\ cache' = AfterMiss(cache, d)
        /\ Goto(w, "intel")
        /\ UNCHANGED <<intel, job, faults>>

\* IOCStore.lookup returns.
IntelLookup(w) ==
    /\ pc[w] = "intel"
    /\ job' = [job EXCEPT ![w].lookup = IF job[w].domain \in intel THEN "match" ELSE "clean"]
    /\ Goto(w, "detect")
    /\ UNCHANGED <<cache, intel, faults>>

\* IOCStore.lookup raises (its entry is gone between the `in` and the index):
\* _call_module_* swallows it and substitutes an unmatched result.
IntelRaises(w) ==
    /\ pc[w] = "intel"
    /\ faults < MaxFaults
    /\ job' = [job EXCEPT ![w].lookup = "clean", ![w].decision.degraded = TRUE]
    /\ Goto(w, "detect")
    /\ faults' = faults + 1
    /\ UNCHANGED <<cache, intel>>

\* Mutant: process_query skips the other detectors without a match, too.
FastPathAlways(w) == w \in SyncWorkers

\* process_query does not run the other two detectors after a match;
\* process_query_async has started them already.
FastPath(w) == w \in SyncWorkers /\ job[w].lookup = "match"

\* The classifier and the tunnel detector return, and the risk engine decides.
Detect(w) ==
    /\ pc[w] = "detect"
    /\ \E tunnel \in TunnelScores :
         LET matched == job[w].lookup = "match"
             degraded == job[w].decision.degraded
         IN  job' = [job EXCEPT ![w].decision =
                 IF FastPath(w)
                 THEN Decided(matched, 0, 0, degraded)
                 ELSE Decided(matched, MlProbability[job[w].domain], tunnel, degraded)]
    /\ Goto(w, "stamp")
    /\ UNCHANGED <<cache, intel, faults>>

\* A detector raises, or both do: the fallback scores 0.
DetectorRaises(w) ==
    /\ pc[w] = "detect"
    /\ ~FastPath(w)
    /\ faults < MaxFaults
    /\ \E tunnel \in TunnelScores :
         LET matched == job[w].lookup = "match"
         IN  \E decision \in {Decided(matched, 0, tunnel, TRUE), Decided(matched, 0, 0, TRUE),
                              Decided(matched, MlProbability[job[w].domain], 0, TRUE)} :
                 job' = [job EXCEPT ![w].decision = decision]
    /\ Goto(w, "stamp")
    /\ faults' = faults + 1
    /\ UNCHANGED <<cache, intel>>

\* asyncio.wait_for gives up on the gather: whatever the three had returned is
\* dropped, a match too, and the risk engine decides on three zeros.
DetectionTimeout(w) ==
    /\ w \in AsyncWorkers
    /\ pc[w] \in {"intel", "detect"}
    /\ faults < MaxFaults
    /\ job' = [job EXCEPT ![w].decision = Decided(FALSE, 0, 0, TRUE)]
    /\ Goto(w, "stamp")
    /\ faults' = faults + 1
    /\ UNCHANGED <<cache, intel>>

\* set computes expires_at before it waits for the lock.
Stamp(w) ==
    /\ pc[w] = "stamp"
    /\ job' = [job EXCEPT ![w].left = TTL]
    /\ Goto(w, "store")
    /\ UNCHANGED <<cache, intel, faults>>

Store(w) ==
    /\ pc[w] = "store"
    /\ cache' = Put(cache, [key |-> job[w].domain, decision |-> job[w].decision,
                            left |-> job[w].left])
    /\ job' = [job EXCEPT ![w].left = 0]
    /\ Goto(w, "respond")
    /\ UNCHANGED <<intel, faults>>

-----------------------------------------------------------------------------
(* The answer *)

Answer(w, answer) ==
    /\ job' = [job EXCEPT ![w].answer = answer]
    /\ Goto(w, "reply")
    /\ UNCHANGED <<cache, intel, faults>>

Blocked(w) == job[w].decision.action = "BLOCK"

\* Mutant: "Fast Return": the action of a cached decision is not looked at.
SyncRespondForwardsHits(w) ==
    /\ w \in SyncWorkers
    /\ pc[w] = "respond"
    /\ \/ Blocked(w) /\ ~job[w].hit /\ Answer(w, "sinkhole")
       \/ /\ ~Blocked(w) \/ job[w].hit
          /\ Goto(w, "primary") /\ UNCHANGED <<cache, intel, job, faults>>

\* handle_block, or on to the upstream resolvers: on a cache hit as well.
SyncRespond(w) ==
    /\ w \in SyncWorkers
    /\ pc[w] = "respond"
    /\ \/ Blocked(w) /\ Answer(w, "sinkhole")
       \/ ~Blocked(w) /\ Goto(w, "primary") /\ UNCHANGED <<cache, intel, job, faults>>

\* The evaluate handler returns the decision itself.
AsyncRespond(w) ==
    /\ w \in AsyncWorkers
    /\ pc[w] = "respond"
    /\ Answer(w, "decision")

\* _send_udp_query returns the upstream's bytes, or None after its timeout.
ForwardPrimary(w) ==
    /\ pc[w] = "primary"
    /\ \/ Answer(w, "upstream")
       \/ Goto(w, "secondary") /\ UNCHANGED <<cache, intel, job, faults>>

\* Mutant: instead of SERVFAIL, the primary is tried again.
ForwardSecondaryRetries(w) ==
    /\ pc[w] = "secondary"
    /\ \/ Answer(w, "upstream")
       \/ Goto(w, "primary") /\ UNCHANGED <<cache, intel, job, faults>>

ForwardSecondary(w) ==
    /\ pc[w] = "secondary"
    /\ \/ Answer(w, "upstream")
       \/ Answer(w, "servfail")

\* Anything in the pipeline raises, or what comes after the decision: handle_block
\* and the forwarding, or the log and the broadcast of an evaluation.  The servers
\* answer SERVFAIL, FastAPI a 500.
PipelineRaises(w) ==
    /\ pc[w] \notin {"idle", "reply"}
    /\ faults < MaxFaults
    /\ job' = [job EXCEPT ![w] = [NewJob(job[w].domain) EXCEPT
                  !.answer = IF w \in SyncWorkers THEN "servfail" ELSE "error"]]
    /\ Goto(w, "reply")
    /\ faults' = faults + 1
    /\ UNCHANGED <<cache, intel>>

\* The answer leaves; the worker waits for the next query.
Reply(w) ==
    /\ pc[w] = "reply"
    /\ job' = [job EXCEPT ![w] = NoJob]
    /\ Goto(w, "idle")
    /\ UNCHANGED <<cache, intel, faults>>

-----------------------------------------------------------------------------
(* The environment *)

\* A feed reload swaps the indicator store, or add_ioc inserts into it.
PublishIntel(published) ==
    /\ intel # published
    /\ intel' = published
    /\ UNCHANGED <<cache, pc, job, faults>>

\* Time passes for every expires_at, stored or still in a worker's hands.
Tick ==
    /\ \/ \E i \in DOMAIN cache : cache[i].left > 0
       \/ \E w \in Workers : job[w].left > 0
    /\ cache' = Aged(cache)
    /\ job' = [w \in Workers |-> [job[w] EXCEPT !.left = Elapsed(@)]]
    /\ UNCHANGED <<intel, pc, faults>>

\* What a worker that has a query does next when no detector fails.
Proceed(w) ==
    \/ CacheHit(w)
    \/ CacheMiss(w)
    \/ IntelLookup(w)
    \/ Detect(w)
    \/ Stamp(w)
    \/ Store(w)
    \/ SyncRespond(w)
    \/ AsyncRespond(w)
    \/ ForwardPrimary(w)
    \/ ForwardSecondary(w)
    \/ Reply(w)

Fault(w) ==
    \/ IntelRaises(w)
    \/ DetectorRaises(w)
    \/ DetectionTimeout(w)
    \/ PipelineRaises(w)

Next ==
    \/ \E w \in Workers : Proceed(w) \/ Fault(w) \/ \E d \in Domains : Receive(w, d)
    \/ \E published \in SUBSET Domains : PublishIntel(published)
    \/ Tick

\* The operating system runs every ready thread and the event loop every ready
\* task, and the clock advances.  Queries, feeds and faults owe us nothing.
Fairness ==
    /\ \A w \in Workers : WF_vars(Proceed(w))
    /\ WF_vars(Tick)

Spec == Init /\ [][Next]_vars

FairSpec == Spec /\ Fairness

-----------------------------------------------------------------------------
(* Correctness *)

\* Every variable holds the kind of value the code keeps there; in particular no
\* entry, cached or about to be, has more than default_ttl_seconds to live.
TypeOK ==
    /\ cache \in Seq(Entry(Domains, Decision))
    /\ intel \in SUBSET Domains
    /\ pc \in [Workers -> Steps]
    /\ job \in [Workers -> Job]
    /\ faults \in 0 .. MaxFaults

\* The cache never outgrows max_entries and never holds two entries for one
\* domain, however the lookups, lazy deletions and stores of concurrent queries
\* interleave (dns_cache.py: "Enforces maximum capacity with FIFO eviction").
CacheWellFormed ==
    /\ Len(cache) <= MaxEntries
    /\ \A i, j \in DOMAIN cache : cache[i].key = cache[j].key => i = j

\* Whether the pipeline has put its decision into the job: before that, and
\* after an exception, job.decision is nobody's verdict.
HasDecided(w) ==
    \/ pc[w] \in {"stamp", "store", "respond", "primary", "secondary"}
    \/ pc[w] = "reply" /\ job[w].answer \in {"sinkhole", "upstream", "decision"}

\* The decision is one the detectors justify for d: a match blocks, a domain the
\* classifier calls generated is never allowed unless a fallback hid that, and
\* nothing is blocked that neither matched nor can reach the blocking score.
Justified(d, decision) ==
    /\ decision.matched => decision.action = "BLOCK"
    /\ IsDga(MlProbability[d]) /\ decision.action = "ALLOW" => decision.degraded
    /\ decision.action = "BLOCK" =>
         \/ decision.matched
         \/ \E t \in TunnelScores :
              CompositeScore(0, MlProbability[d], t, 0) >= RISK_THRESHOLD_BLOCK

\* Every decision a worker answers with and every decision in the cache is
\* justified for the domain it is used for: not for the domain of another query,
\* and not for a result the pipeline was still waiting for.
DecisionsJustified ==
    /\ \A w \in Workers : HasDecided(w) => Justified(job[w].domain, job[w].decision)
    /\ \A i \in DOMAIN cache : Justified(cache[i].key, cache[i].decision)

\* A query for a domain with a BLOCK verdict, fresh or cached, never leaves for
\* an upstream resolver, and no client is given an upstream's answer to it
\* (udp_server.py: "forwards to upstream (on ALLOW/SUSPICIOUS)").
BlockedNeverForwarded ==
    \A w \in Workers :
        pc[w] \in {"primary", "secondary"} \/ job[w].answer = "upstream" => ~Blocked(w)

\* d is a known threat, and this verdict on it is from before that was known.
Stale(d, decision) ==
    /\ d \in intel
    /\ ~decision.matched
    /\ ~decision.degraded
    /\ decision.action # "BLOCK"

\* Once a domain is a known threat, a stale verdict on it is only ever passed on
\* and never given a new lease: it enters the cache at most once, from a worker
\* that looked the domain up before, and a hit does not make it live longer.
StaleVerdictsNotRenewed ==
    [][\A d \in intel \cap intel' :
         Has(cache', d) /\ Stale(d, Cached(cache', d)) =>
           \/ /\ Has(cache, d)
              /\ Cached(cache, d) = Cached(cache', d)
              /\ cache'[At(cache', d)].left <= cache[At(cache, d)].left
           \/ \E w \in Workers :
                /\ pc[w] = "store" /\ pc'[w] = "respond"
                /\ job[w].domain = d
                /\ job[w].lookup = "clean" /\ ~job[w].hit]_vars

\* Every query that a worker accepts is answered, whatever the detectors, the
\* upstream resolvers and the other queries do.
EveryQueryAnswered ==
    \A w \in Workers : pc[w] # "idle" ~> pc[w] = "idle"

\* The client of w is about to be let through to d.
LetThrough(w, d) ==
    /\ pc[w] = "reply"
    /\ job[w].domain = d
    /\ job[w].answer \in {"upstream", "decision"}
    /\ job[w].decision.action # "BLOCK"

\* A domain that becomes and stays a known threat is, from some moment on, let
\* through to nobody: the verdicts cached or under way before that die out.
KnownThreatsEventuallyBlocked ==
    \A d \in Domains :
        <>[](d \in intel) => <>[](\A w \in Workers : ~LetThrough(w, d))

\* README.md: "BLOCK: Composite Score >= 70.0 or Direct Threat Intel Match".
DirectMatchBlocks ==
    \A w \in Workers :
        pc[w] = "reply" /\ job[w].lookup = "match" => job[w].decision.action = "BLOCK"
=============================================================================
