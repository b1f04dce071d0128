---------------------------- MODULE VolumeTracker ----------------------------
(***************************************************************************)
(* The sliding window of queries per client (passive/volume_tracker.py)    *)
(* under TunnelDetector.analyze, called by several threads at once.        *)
(*                                                                         *)
(* Every query brings its own timestamp: the moment it came in for a live  *)
(* one, the moment it was captured for one from an upload.  By the time it *)
(* is recorded the clock has moved and later queries may be there already. *)
(* The window is kept in Redis, if the constructor reached one, and in a   *)
(* deque of the process when a Redis call fails.                           *)
(*                                                                         *)
(* get_stats and clear, which the program does not call, are left out, and *)
(* so are the payload sizes: analyze does not use their sum.               *)
(***************************************************************************)
EXTENDS TunnelDetector, Subsequence, Sequences, FiniteSetsExt

CONSTANTS
    Workers,        \* threads in TunnelDetector.analyze
    Clients,
    Shapes,         \* what queries score by themselves, values of ShapePoints
    Window,         \* window_seconds, in ticks
    Skew,           \* how far a timestamp may lie ahead of the clock: captures
                    \* carry naive UTC times, which are read as local ones, so
                    \* west of Greenwich it is hours
    MaxClock,       \* bound on the clock
    MaxQueries,     \* bound on queries in a behaviour
    MaxFaults       \* bound on failing Redis calls

ASSUME WindowAssumption ==
    /\ Window \in Nat \ {0} /\ Skew \in Nat
    /\ MaxClock \in Nat /\ MaxQueries \in Nat /\ MaxFaults \in Nat
    /\ Shapes \subseteq 0 .. 9500 /\ Shapes # {} /\ Clients # {}

VARIABLES
    useRedis,   \* VolumeTracker.use_redis, decided once by the constructor
    window,     \* what each backend holds of each client: the deque, the ZSET
    expires,    \* when Redis drops a client's key
    job,        \* what each worker is analysing
    clock,
    log,        \* what each backend has been given, in that order
    heard,      \* the clock when Redis was given each of it
    queries, faults

vars == <<useRedis, window, expires, job, clock, log, heard, queries, faults>>

-----------------------------------------------------------------------------
Times == 0 .. MaxClock + Skew
Backends == {"memory", "redis"}

Job == [step : {"idle", "record", "fallback", "scored"},
        client : Clients, at : Times, shape : Shapes,
        backend : Backends, score : Scores]

NoJob == [step |-> "idle", client |-> CHOOSE c \in Clients : TRUE, at |-> 0,
          shape |-> CHOOSE s \in Shapes : TRUE, backend |-> "memory", score |-> 0]

Nothing == [c \in Clients |-> [b \in Backends |-> <<>>]]

Init ==
    /\ useRedis \in BOOLEAN
    /\ window = Nothing
    /\ expires = [c \in Clients |-> 0]
    /\ job = [w \in Workers |-> NoJob]
    /\ clock = 0
    /\ log = Nothing
    /\ heard = [c \in Clients |-> <<>>]
    /\ queries = 0
    /\ faults = 0

\* Mutant: only one expired entry is purged.
PurgedOnce(queue, cutoff) ==
    IF queue # <<>> /\ Head(queue) < cutoff THEN Tail(queue) ELSE queue

\* Mutant: `<=` for `<`.
PurgedTooFar(queue, cutoff) ==
    LET young == {i \in DOMAIN queue : queue[i] > cutoff}
    IN  IF young = {} THEN <<>> ELSE SubSeq(queue, Min(young), Len(queue))

\* The deque is purged from its front, up to the first entry that is young
\* enough; what stands behind that one stays, however old.
Purged(queue, cutoff) ==
    LET young == {i \in DOMAIN queue : queue[i] >= cutoff}
    IN  IF young = {} THEN <<>> ELSE SubSeq(queue, Min(young), Len(queue))

\* zremrangebyscore removes by score, the cutoff included.
Removed(zset, cutoff) == KeptAt(zset, {i \in DOMAIN zset : zset[i] > cutoff})

-----------------------------------------------------------------------------
\* A query of this client, with its timestamp, reaches analyze.
Receive(w) ==
    /\ job[w].step = "idle"
    /\ queries < MaxQueries
    /\ queries' = queries + 1
    /\ \E c \in Clients, at \in 0 .. clock + Skew, shape \in Shapes :
         job' = [job EXCEPT ![w] = [step |-> "record", client |-> c, at |-> at, shape |-> shape,
                                    backend |-> "memory", score |-> 0]]
    /\ UNCHANGED <<useRedis, window, expires, clock, log, heard, faults>>

\* analyze scores the query by the count that record_query returns.
ScoreQuery(w, b, count) ==
    job' = [job EXCEPT ![w] = [@ EXCEPT !.step = "scored", !.backend = b,
                                        !.score = TunnelScore(job[w].shape, count)]]

\* The pipeline at the server: purge, add, and let the key live two windows.
Execute(w, held) ==
    LET c == job[w].client
    IN  /\ window' = [window EXCEPT ![c]["redis"] = held]
        /\ log' = [log EXCEPT ![c]["redis"] = Append(@, job[w].at)]
        /\ heard' = [heard EXCEPT ![c] = Append(@, clock)]
        /\ expires' = [expires EXCEPT ![c] = clock + 2 * Window]

ZSet(w) ==
    Append(Removed(window[job[w].client]["redis"], job[w].at - Window), job[w].at)

RecordInRedis(w) ==
    /\ job[w].step = "record" /\ useRedis
    /\ Execute(w, ZSet(w))
    /\ ScoreQuery(w, "redis", Len(ZSet(w)))
    /\ UNCHANGED <<useRedis, clock, queries, faults>>

\* execute raises, before the server saw the pipeline or after it ran it.
RedisFails(w) ==
    /\ job[w].step = "record" /\ useRedis
    /\ faults < MaxFaults
    /\ faults' = faults + 1
    /\ Execute(w, ZSet(w)) \/ UNCHANGED <<window, log, heard, expires>>
    /\ job' = [job EXCEPT ![w].step = "fallback"]
    /\ UNCHANGED <<useRedis, clock, queries>>

\* Under the lock of the process: append, purge, count.
RecordInMemory(w) ==
    LET c == job[w].client
        queue == Purged(Append(window[c]["memory"], job[w].at), job[w].at - Window)
    IN  /\ \/ job[w].step = "fallback"
           \/ job[w].step = "record" /\ ~useRedis
        /\ window' = [window EXCEPT ![c]["memory"] = queue]
        /\ log' = [log EXCEPT ![c]["memory"] = Append(@, job[w].at)]
        /\ ScoreQuery(w, "memory", Len(queue))
        /\ UNCHANGED <<useRedis, expires, clock, heard, queries, faults>>

Finish(w) ==
    /\ job[w].step = "scored"
    /\ job' = [job EXCEPT ![w] = NoJob]
    /\ UNCHANGED <<useRedis, window, expires, clock, log, heard, queries, faults>>

\* Redis drops a key that nothing was added to for two windows.
Expire(c) ==
    /\ window[c]["redis"] # <<>>
    /\ clock >= expires[c]
    /\ window' = [window EXCEPT ![c]["redis"] = <<>>]
    /\ UNCHANGED <<useRedis, expires, job, clock, log, heard, queries, faults>>

Tick ==
    /\ clock < MaxClock
    /\ clock' = clock + 1
    /\ UNCHANGED <<useRedis, window, expires, job, log, heard, queries, faults>>

Next ==
    \/ \E w \in Workers :
         Receive(w) \/ RecordInRedis(w) \/ RedisFails(w) \/ RecordInMemory(w) \/ Finish(w)
    \/ \E c \in Clients : Expire(c)
    \/ Tick

Spec == Init /\ [][Next]_vars

-----------------------------------------------------------------------------
(* Correctness *)

VolumeTypeOK ==
    /\ useRedis \in BOOLEAN
    /\ \A c \in Clients, b \in Backends :
         window[c][b] \in Seq(Times) /\ log[c][b] \in Seq(Times)
    /\ heard \in [Clients -> Seq(0 .. MaxClock)]
    /\ expires \in [Clients -> 0 .. MaxClock + 2 * Window]
    /\ job \in [Workers -> Job]
    /\ clock \in 0 .. MaxClock

\* How many queries of a sequence have their time in S.
Among(seq, S) == Cardinality({i \in DOMAIN seq : seq[i] \in S})

\* Whether a query of time t still counts at `now`: a query that is exactly one
\* window old does in memory and does not in Redis.
InWindow(b, t, now) == IF b = "memory" THEN t >= now - Window ELSE t > now - Window

\* Whether the m-th entry was given to Redis, at the times h, less than two windows
\* before now.
FreshAt(h, m, now) == h[m] + 2 * Window > now

\* A query is in its backend for as long as it can count for any query that this
\* backend has seen, whatever the order of their timestamps and however far they
\* lie from the clock: the deque holds every such entry, Redis every such one of
\* the last two windows of the clock (its own expiry of the whole key takes none
\* of these away), and neither holds one twice; the state is of its type.
RecentQueriesKept ==
    /\ VolumeTypeOK
    /\ \A c \in Clients, b \in Backends, t \in Times :
         (\A i \in DOMAIN log[c][b] : InWindow(b, t, log[c][b][i])) =>
           /\ Among(window[c][b], {t}) <= Among(log[c][b], {t})
           /\ \A m \in DOMAIN log[c][b] : (b = "redis" => FreshAt(heard[c], m, clock)) =>
                Among(SubSeq(log[c][b], m, Len(log[c][b])), {t}) <= Among(window[c][b], {t})

\* As long as a backend gets a client's queries in the order of their timestamps,
\* each of them is scored by exactly the queries of the last window that the
\* backend was given: neither a purged burst nor an old one that lingers changes
\* its score.  In Redis this needs those queries to be of the last two windows of
\* the clock too, as its expiry of the key goes by the clock: timestamps that run
\* ahead of the clock by more than a window can be dropped while they count.
InOrderVolumeExact ==
    [][\A w \in Workers :
         LET c == job[w].client
             b == job'[w].backend
             at == job[w].at
             given == log'[c][b]
         IN  (/\ job[w].step # "scored" /\ job'[w].step = "scored"
              /\ \A i, j \in DOMAIN given : i < j => given[i] <= given[j]
              /\ b = "redis" => \A i \in DOMAIN given :
                                  InWindow(b, given[i], at) => FreshAt(heard'[c], i, clock'))
             => job'[w].score = TunnelScore(job[w].shape,
                    Among(given, {t \in Times : InWindow(b, t, at)}))]_vars
=============================================================================
