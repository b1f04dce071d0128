----------------------------- MODULE ThreatIntel -----------------------------
(***************************************************************************)
(* The indicator store and the feed synchronisation that fills it.         *)
(*                                                                         *)
(*   - ThreatDB: the SQLite tables threat_iocs and feed_health, which      *)
(*     survive a crash;                                                    *)
(*   - IOCStore: the dict that lookups read without a lock, loaded from    *)
(*     the database at start and replaced by every synchronisation;        *)
(*   - BackgroundWorker.sync_all_feeds with ThreatAggregator: poll every   *)
(*     feed, commit what they listed, reload, swap the dict, log each      *)
(*     feed's health, all under a lock that a second caller does not wait  *)
(*     for;                                                                *)
(*   - IOCStore.add_ioc: first into the dict, then into the database.      *)
(*                                                                         *)
(* Indicators are normalised domains; what an indicator says beside its    *)
(* domain is left out.                                                     *)
(***************************************************************************)
EXTENDS Integers, Sequences, FiniteSets

CONSTANTS
    Domains,        \* domains an indicator may name
    Seeds,          \* what seed_database_if_empty writes into an empty database
    Names,          \* names that clients look up
    Candidates,     \* [Names -> Seq(Domains \cup Names)], the keys lookup tries, in order
    Feeds,          \* the configured TAXII feeds
    Listings,       \* what a feed may list, sets of Domains
    SyncThreads,    \* threads that call sync_all_feeds
    Adders,         \* threads that call add_ioc
    Lookers,        \* threads in IOCStore.lookup
    NoFeed, NoThread,
    MaxFailures,    \* bound on a feed's failures in a row
    MaxFaults       \* bound on database errors and crashes in a behaviour

ASSUME SeedsAssumption == Seeds \subseteq Domains /\ Seeds # {}
ASSUME ListingsAssumption == Listings \subseteq SUBSET Domains /\ {} \in Listings
ASSUME NobodyAssumption == NoFeed \notin Feeds /\ NoThread \notin SyncThreads
ASSUME BoundsAssumption == MaxFailures \in Nat /\ MaxFaults \in Nat
ASSUME CandidatesAssumption == Names # {} /\ Candidates \in [Names -> Seq(Domains \cup Names)]

VARIABLES
    db,         \* the rows of threat_iocs
    health,     \* the rows of feed_health
    mem,        \* the keys of IOCStore._store
    lock,       \* who holds _sync_lock
    shutdown,   \* _shutdown_event
    pc, sync,   \* where each sync_all_feeds stands, and its locals
    adding,     \* the indicator each add_ioc has put into the dict already
    look,       \* each lookup under way
    published,  \* the indicators that a synchronisation has swapped in
    faults

disk == <<db, health>>
process == <<mem, lock, shutdown, pc, sync, adding, look>>
vars == <<disk, process, published, faults>>

-----------------------------------------------------------------------------
\* A feed's row; `listed` is what indicator_count counts.
Health == [status : {"none", "SUCCESS", "FAILED"},
           failures : 0 .. MaxFailures,
           listed : SUBSET Domains]

\* The locals of sync_all_feeds: the feeds still to poll, each feed's status
\* and indicators, the reloaded store, whose health row is being rewritten and
\* the count of failures read from it, and whether an error there is caught.
Sync == [todo : SUBSET Feeds,
         status : [Feeds -> {"none", "SUCCESS", "FAILED"}],
         found : [Feeds -> SUBSET Domains],
         loaded : SUBSET Domains,
         logging : Feeds \cup {NoFeed},
         failures : 0 .. MaxFailures,
         guarded : BOOLEAN]

NoSync == [todo |-> {}, status |-> [f \in Feeds |-> "none"], found |-> [f \in Feeds |-> {}],
           loaded |-> {}, logging |-> NoFeed, failures |-> 0, guarded |-> FALSE]

\* A lookup: its name, the candidates it has still to try, whether it has just
\* found the first of them in the dict, and whether a feed had listed one of
\* them before it started.
Look == [name : Names, rest : Seq(Domains \cup Names), seen : BOOLEAN, listed : BOOLEAN,
         result : {"idle", "running", "match", "clean", "raised"}]

NoLook == [name |-> CHOOSE n \in Names : TRUE, rest |-> <<>>, seen |-> FALSE,
           listed |-> FALSE, result |-> "idle"]

FreshProcess ==
    /\ lock' = NoThread
    /\ shutdown' = FALSE
    /\ pc' = [t \in SyncThreads |-> "idle"]
    /\ sync' = [t \in SyncThreads |-> NoSync]
    /\ adding' = [a \in Adders |-> {}]
    /\ look' = [r \in Lookers |-> NoLook]

\* IOCStore.__init__: seed_database_if_empty, then load_all_iocs.
Seeded(rows) == IF rows = {} THEN Seeds ELSE rows

Init ==
    /\ \E rows \in SUBSET Domains : db = Seeded(rows)
    /\ health = [f \in Feeds |-> [status |-> "none", failures |-> 0, listed |-> {}]]
    /\ mem = db
    /\ lock = NoThread
    /\ shutdown = FALSE
    /\ pc = [t \in SyncThreads |-> "idle"]
    /\ sync = [t \in SyncThreads |-> NoSync]
    /\ adding = [a \in Adders |-> {}]
    /\ look = [r \in Lookers |-> NoLook]
    /\ published = {}
    /\ faults = 0

\* The process dies and is started again: the database is what is left.
CrashAndRestart ==
    /\ faults < MaxFaults
    /\ faults' = faults + 1
    /\ db' = Seeded(db)
    /\ mem' = Seeded(db)
    /\ FreshProcess
    /\ UNCHANGED <<health, published>>

-----------------------------------------------------------------------------
(* sync_all_feeds *)

At(t, here, there) == pc[t] = here /\ pc' = [pc EXCEPT ![t] = there]

SyncUnchanged == UNCHANGED <<shutdown, adding, look>>

\* Mutant: the lock is taken without looking whether somebody holds it.
BeginSyncUnlocked(t) ==
    /\ At(t, "idle", "poll")
    /\ lock' = t
    /\ sync' = [sync EXCEPT ![t] = [NoSync EXCEPT !.todo = Feeds]]
    /\ SyncUnchanged /\ UNCHANGED <<disk, mem, published, faults>>

\* acquire(blocking=False); a caller that does not get the lock returns at once.
BeginSync(t) ==
    /\ At(t, "idle", "poll")
    /\ lock = NoThread
    /\ lock' = t
    /\ sync' = [sync EXCEPT ![t] = [NoSync EXCEPT !.todo = Feeds]]
    /\ SyncUnchanged /\ UNCHANGED <<disk, mem, published, faults>>

PollUnchanged == SyncUnchanged /\ UNCHANGED <<disk, mem, lock, published, faults>>

\* poll_and_parse_feed returns a feed's indicators, possibly none.
PollSucceeds(t) ==
    /\ At(t, "poll", "poll")
    /\ ~shutdown
    /\ \E f \in sync[t].todo, listed \in Listings :
         sync' = [sync EXCEPT ![t] = [sync[t] EXCEPT !.todo = @ \ {f}, !.status[f] = "SUCCESS",
                                                      !.found[f] = listed]]
    /\ PollUnchanged

\* It returns FAILED, or raises: the other feeds are polled all the same.
PollFails(t) ==
    /\ At(t, "poll", "poll")
    /\ ~shutdown
    /\ \E f \in sync[t].todo :
         /\ health[f].failures < MaxFailures
         /\ sync' = [sync EXCEPT ![t].todo = @ \ {f}, ![t].status[f] = "FAILED"]
    /\ PollUnchanged

Found(t) == UNION {sync[t].found[f] : f \in Feeds}

\* The loop ends, or breaks off at a shutdown; with no indicator at all there is
\* nothing to store.
EndPolling(t) ==
    /\ sync[t].todo = {} \/ shutdown
    /\ At(t, "poll", IF Found(t) = {} THEN "health" ELSE "commit")
    /\ sync' = [sync EXCEPT ![t].guarded = Found(t) # {}]
    /\ PollUnchanged

\* add_iocs_batch: one transaction.
Commit(t) ==
    /\ At(t, "commit", "load")
    /\ db' = db \cup Found(t)
    /\ SyncUnchanged /\ UNCHANGED <<health, mem, lock, sync, published, faults>>

\* load_all_iocs: what the table holds now.
Load(t) ==
    /\ At(t, "load", "swap")
    /\ sync' = [sync EXCEPT ![t].loaded = db]
    /\ PollUnchanged

Swap(t) ==
    /\ At(t, "swap", "health")
    /\ mem' = sync[t].loaded
    /\ published' = published \cup Found(t)
    /\ sync' = [sync EXCEPT ![t].loaded = {}]
    /\ SyncUnchanged /\ UNCHANGED <<disk, lock, faults>>

\* Mutant: the except branch forgets to turn the statuses into FAILED.
StoreFailsSilently(t) ==
    /\ At(t, "commit", "health") \/ At(t, "load", "health")
    /\ faults < MaxFaults
    /\ faults' = faults + 1
    /\ SyncUnchanged /\ UNCHANGED <<disk, mem, lock, sync, published>>

\* The commit is rolled back, or the reload fails: the dict stays as it is and
\* every feed that was polled counts as failed.
StoreFails(t) ==
    /\ At(t, "commit", "health") \/ At(t, "load", "health")
    /\ faults < MaxFaults
    /\ \A f \in Feeds : sync[t].status[f] # "none" => health[f].failures < MaxFailures
    /\ sync' = [sync EXCEPT ![t].status =
                  [f \in Feeds |-> IF @[f] = "none" THEN "none" ELSE "FAILED"]]
    /\ faults' = faults + 1
    /\ SyncUnchanged /\ UNCHANGED <<disk, mem, lock, published>>

\* update_feed_health reads the row ...
ReadHealth(t) ==
    /\ At(t, "health", "write")
    /\ \E f \in Feeds :
         /\ sync[t].status[f] # "none"
         /\ sync' = [sync EXCEPT ![t].logging = f, ![t].failures = health[f].failures]
    /\ PollUnchanged

\* ... and replaces it.  last_sync is left out.
WriteHealth(t) ==
    LET f == sync[t].logging
        status == sync[t].status[f]
    IN  /\ At(t, "write", "health")
        /\ health' = [health EXCEPT ![f] =
               [status |-> status,
                failures |-> IF status = "SUCCESS" THEN 0 ELSE sync[t].failures + 1,
                listed |-> sync[t].found[f]]]
        /\ sync' = [sync EXCEPT ![t].status[f] = "none", ![t].found[f] = {},
                              ![t].logging = NoFeed, ![t].failures = 0]
        /\ SyncUnchanged /\ UNCHANGED <<db, mem, lock, published, faults>>

\* It raises: the feeds not yet logged stay as they are.  After a store that is
\* caught, and otherwise the exception ends the worker's thread.
HealthFails(t) ==
    /\ At(t, "health", IF sync[t].guarded THEN "idle" ELSE "dead")
    /\ \E f \in Feeds : sync[t].status[f] # "none"
    /\ faults < MaxFaults
    /\ faults' = faults + 1
    /\ lock' = NoThread
    /\ sync' = [sync EXCEPT ![t] = NoSync]
    /\ SyncUnchanged /\ UNCHANGED <<disk, mem, published>>

EndSync(t) ==
    /\ At(t, "health", "idle")
    /\ \A f \in Feeds : sync[t].status[f] = "none"
    /\ lock' = NoThread
    /\ sync' = [sync EXCEPT ![t] = NoSync]
    /\ SyncUnchanged /\ UNCHANGED <<disk, mem, published, faults>>

\* BackgroundWorker.stop sets the event, start clears it.
ToggleShutdown ==
    /\ shutdown' = ~shutdown
    /\ UNCHANGED <<disk, mem, lock, pc, sync, adding, look, published, faults>>

-----------------------------------------------------------------------------
(* add_ioc *)

AddToMemory(a) ==
    /\ adding[a] = {}
    /\ \E d \in Domains :
         /\ mem' = mem \cup {d}
         /\ adding' = [adding EXCEPT ![a] = {d}]
    /\ UNCHANGED <<disk, lock, shutdown, pc, sync, look, published, faults>>

AddToDatabase(a) ==
    /\ adding[a] # {}
    /\ db' = db \cup adding[a]
    /\ adding' = [adding EXCEPT ![a] = {}]
    /\ UNCHANGED <<health, mem, lock, shutdown, pc, sync, look, published, faults>>

\* The database is locked by a commit under way, say: add_ioc raises, and what
\* it put into the dict stays there.
AddFails(a) ==
    /\ adding[a] # {}
    /\ faults < MaxFaults
    /\ faults' = faults + 1
    /\ adding' = [adding EXCEPT ![a] = {}]
    /\ UNCHANGED <<disk, mem, lock, shutdown, pc, sync, look, published>>

-----------------------------------------------------------------------------
(* lookup *)

LookUnchanged ==
    UNCHANGED <<disk, mem, lock, shutdown, pc, sync, adding, published, faults>>

BeginLookup(r) ==
    /\ look[r].result # "running"
    /\ \E n \in Names :
         look' = [look EXCEPT ![r] =
             [name |-> n, rest |-> Candidates[n], seen |-> FALSE,
              listed |-> \E i \in DOMAIN Candidates[n] : Candidates[n][i] \in published,
              result |-> "running"]]
    /\ LookUnchanged

\* Mutant: only the exact name is tried, no parent domain.
TryExactOnly(r) ==
    /\ look[r].result = "running" /\ ~look[r].seen
    /\ look[r].rest # <<>>
    /\ look' = IF Head(look[r].rest) \in mem THEN [look EXCEPT ![r].seen = TRUE]
               ELSE [look EXCEPT ![r].rest = <<>>]
    /\ LookUnchanged

\* `current in self._store`
TryCandidate(r) ==
    /\ look[r].result = "running" /\ ~look[r].seen
    /\ look[r].rest # <<>>
    /\ look' = IF Head(look[r].rest) \in mem THEN [look EXCEPT ![r].seen = TRUE]
               ELSE [look EXCEPT ![r].rest = Tail(@)]
    /\ LookUnchanged

\* `self._store[current]`: the attribute is read again, and the dict that is
\* there now may not have the key.
ReadEntry(r) ==
    /\ look[r].seen
    /\ look' = [look EXCEPT ![r].seen = FALSE, ![r].rest = <<>>,
                            ![r].result = IF Head(look[r].rest) \in mem THEN "match"
                                          ELSE "raised"]
    /\ LookUnchanged

NoCandidateLeft(r) ==
    /\ look[r].result = "running" /\ look[r].rest = <<>>
    /\ look' = [look EXCEPT ![r].result = "clean"]
    /\ LookUnchanged

-----------------------------------------------------------------------------
SyncStep(t) ==
    \/ BeginSync(t)
    \/ PollSucceeds(t)
    \/ PollFails(t)
    \/ EndPolling(t)
    \/ Commit(t)
    \/ Load(t)
    \/ Swap(t)
    \/ StoreFails(t)
    \/ ReadHealth(t)
    \/ WriteHealth(t)
    \/ HealthFails(t)
    \/ EndSync(t)

Next ==
    \/ \E t \in SyncThreads : SyncStep(t)
    \/ \E a \in Adders : AddToMemory(a) \/ AddToDatabase(a) \/ AddFails(a)
    \/ \E r \in Lookers :
         BeginLookup(r) \/ TryCandidate(r) \/ ReadEntry(r) \/ NoCandidateLeft(r)
    \/ ToggleShutdown
    \/ CrashAndRestart

Spec == Init /\ [][Next]_vars

-----------------------------------------------------------------------------
(* Correctness *)

StoreTypeOK ==
    /\ db \subseteq Domains /\ mem \subseteq Domains
    /\ published \subseteq Domains
    /\ health \in [Feeds -> Health]
    /\ lock \in SyncThreads \cup {NoThread}
    /\ pc \in [SyncThreads -> {"idle", "poll", "commit", "load", "swap", "health", "write", "dead"}]
    /\ sync \in [SyncThreads -> Sync]
    /\ adding \in [Adders -> SUBSET Domains]
    /\ look \in [Lookers -> Look]
    /\ faults \in 0 .. MaxFaults

\* A feed whose health row says SUCCESS has every indicator that the row counts
\* in the dict that lookups read: after later synchronisations by any thread,
\* failed ones too, and after a crash; the state is of its type.
SuccessMeansInForce ==
    /\ StoreTypeOK
    /\ \A f \in Feeds : health[f].status = "SUCCESS" => health[f].listed \subseteq mem

\* An indicator that a feed brought in is never lost again, whatever else is
\* swapped, added, rolled back or restarted.
FeedIndicatorsStay == [][published \cap mem \subseteq mem']_vars

\* A lookup never calls a name clean that a feed had listed before it started,
\* itself or a parent of it, although the dict may be swapped between any two of
\* its reads.
ListedNamesNeverClean ==
    \A r \in Lookers : look[r].listed => look[r].result # "clean"

\* consecutive_failures counts every logged failure once: no row is rewritten
\* from a count that another writer has made stale meanwhile.
FailuresCountedOnce ==
    [][\A t \in SyncThreads :
         LET f == sync[t].logging
         IN  pc[t] = "write" /\ pc'[t] = "health" /\ health'[f].status = "FAILED" =>
               health'[f].failures = health[f].failures + 1]_vars

\* ioc_store.py: "Supports exact match and parent-domain matching.  Example: if
\* evil.com is blocked, sub.evil.com matches": a lookup of a name below a listed
\* one says match, and does not raise.
ListedNamesMatch ==
    \A r \in Lookers : look[r].listed => look[r].result \notin {"clean", "raised"}
=============================================================================
