-------------------------- MODULE ThreatIntelProofs --------------------------
(***************************************************************************)
(* ThreatIntel for any number of feeds, threads and lookups, any listings, *)
(* and any number of failures, database errors and crashes.                *)
(*                                                                         *)
(* The properties follow from one inductive invariant.  Its core is that   *)
(* at most one synchronisation is under way (Alone), and that whatever it  *)
(* is about to report as synchronised, and whatever was reported or        *)
(* published before, is in the database, in the dict it is about to swap   *)
(* in and in the dict that is there already (SyncSound, StoreSound).       *)
(***************************************************************************)
EXTENDS ThreatIntel, SequenceTheorems, TLAPS

Steps == {"idle", "poll", "commit", "load", "swap", "health", "write", "dead"}

Resting(t) == pc[t] \in {"idle", "dead"}

\* Who is under way holds the lock; who is not has no locals.
Alone ==
    \A t \in SyncThreads : IF Resting(t) THEN sync[t] = NoSync ELSE lock = t

\* What a feed's health row claims.
Claimed(f) == IF health[f].status = "SUCCESS" THEN health[f].listed ELSE {}

StoreSound ==
    /\ published \subseteq db \cap mem
    /\ \A f \in Feeds : Claimed(f) \subseteq db \cap mem

SyncSound(t) ==
    /\ pc[t] \in {"load", "swap"} => Found(t) \subseteq db
    /\ pc[t] = "swap" => /\ Found(t) \cup published \subseteq sync[t].loaded
                         /\ \A f \in Feeds : Claimed(f) \subseteq sync[t].loaded
    /\ pc[t] \in {"health", "write"} =>
         \A f \in Feeds : sync[t].status[f] = "SUCCESS" => sync[t].found[f] \subseteq db \cap mem
    /\ \A f \in Feeds : sync[t].status[f] = "FAILED" => health[f].failures < MaxFailures
    /\ pc[t] = "write" => /\ sync[t].logging \in Feeds
                          /\ sync[t].status[sync[t].logging] # "none"
                          /\ sync[t].failures = health[sync[t].logging].failures

\* A lookup under way of a name that was listed has a published candidate still
\* to try, or has just found one in the dict.
LookupSound(r) ==
    /\ look[r].seen => look[r].result = "running" /\ look[r].rest # <<>>
    /\ look[r].listed =>
         /\ look[r].result # "clean"
         /\ look[r].result = "running" /\ ~look[r].seen =>
              \E i \in DOMAIN look[r].rest : look[r].rest[i] \in published

IntelInv ==
    /\ StoreTypeOK
    /\ Alone
    /\ StoreSound
    /\ \A t \in SyncThreads : SyncSound(t)
    /\ \A r \in Lookers : LookupSound(r)

-----------------------------------------------------------------------------
(* The records *)

\* A thread at rest has locals of the right type.
LEMMA NoSyncType == NoSync \in Sync
  BY BoundsAssumption DEF NoSync, Sync

\* What the calls of a synchronisation assign to its locals.
LEMMA SyncFields ==
    ASSUME NEW s \in Sync
    PROVE  /\ \A f \in Feeds, x \in SUBSET Feeds, d \in SUBSET Domains :
                [s EXCEPT !.todo = x, !.status[f] = "SUCCESS", !.found[f] = d] \in Sync
           /\ \A f \in Feeds, x \in SUBSET Feeds :
                [s EXCEPT !.todo = x, !.status[f] = "FAILED"] \in Sync
           /\ \A x \in SUBSET Domains : [s EXCEPT !.loaded = x] \in Sync
           /\ \A x \in BOOLEAN : [s EXCEPT !.guarded = x] \in Sync
           /\ \A x \in [Feeds -> {"none", "SUCCESS", "FAILED"}] : [s EXCEPT !.status = x] \in Sync
           /\ \A f \in Feeds, n \in 0 .. MaxFailures :
                [s EXCEPT !.logging = f, !.failures = n] \in Sync
           /\ \A f \in Feeds :
                [s EXCEPT !.status[f] = "none", !.found[f] = {}, !.logging = NoFeed,
                          !.failures = 0] \in Sync
  <1>1. /\ s.status \in [Feeds -> {"none", "SUCCESS", "FAILED"}]
        /\ s.found \in [Feeds -> SUBSET Domains]
    BY DEF Sync
  <1>2. ASSUME NEW f \in Feeds
        PROVE  /\ \A x \in {"none", "SUCCESS", "FAILED"} :
                    [s.status EXCEPT ![f] = x] \in [Feeds -> {"none", "SUCCESS", "FAILED"}]
               /\ \A d \in SUBSET Domains : [s.found EXCEPT ![f] = d] \in [Feeds -> SUBSET Domains]
               /\ {} \in SUBSET Domains
    BY <1>1
  <1>3. 0 \in 0 .. MaxFailures
    BY BoundsAssumption
  <1>4. ASSUME NEW f \in Feeds, NEW x \in SUBSET Feeds, NEW d \in SUBSET Domains
        PROVE  [s EXCEPT !.todo = x, !.status[f] = "SUCCESS", !.found[f] = d] \in Sync
    BY <1>2, Zenon DEF Sync
  <1>5. ASSUME NEW f \in Feeds, NEW x \in SUBSET Feeds
        PROVE  [s EXCEPT !.todo = x, !.status[f] = "FAILED"] \in Sync
    BY <1>2, Zenon DEF Sync
  <1>6. ASSUME NEW f \in Feeds
        PROVE  [s EXCEPT !.status[f] = "none", !.found[f] = {}, !.logging = NoFeed,
                         !.failures = 0] \in Sync
    BY <1>2, <1>3, Zenon DEF Sync
  <1>7. \A x \in SUBSET Domains : [s EXCEPT !.loaded = x] \in Sync
    BY Zenon DEF Sync
  <1>8. \A x \in BOOLEAN : [s EXCEPT !.guarded = x] \in Sync
    BY Zenon DEF Sync
  <1>9. \A x \in [Feeds -> {"none", "SUCCESS", "FAILED"}] : [s EXCEPT !.status = x] \in Sync
    BY Zenon DEF Sync
  <1>10. \A f \in Feeds, n \in 0 .. MaxFailures : [s EXCEPT !.logging = f, !.failures = n] \in Sync
    BY Zenon DEF Sync
  <1> QED
    BY <1>4, <1>5, <1>6, <1>7, <1>8, <1>9, <1>10

-----------------------------------------------------------------------------
(* One step of a synchronisation *)

\* While t is under way, or about to be, the other threads rest: a step of t keeps
\* the invariant when it keeps the stores and t itself sound.
LEMMA SyncFrame ==
    ASSUME IntelInv, NEW t \in SyncThreads, NEW p \in Steps, NEW s \in Sync,
           Resting(t) => lock = NoThread,
           pc' = [pc EXCEPT ![t] = p],
           sync' = [sync EXCEPT ![t] = s],
           p \in {"idle", "dead"} => s = NoSync,
           p \notin {"idle", "dead"} => lock' = t,
           lock' \in SyncThreads \cup {NoThread},
           SyncUnchanged,
           db' \subseteq Domains, mem' \subseteq Domains,
           published' \subseteq Domains, published \subseteq published',
           health' \in [Feeds -> Health], faults' \in 0 .. MaxFaults,
           StoreSound', SyncSound(t)'
    PROVE  IntelInv'
  <1>1. \A u \in SyncThreads : u # t => /\ Resting(u) /\ sync[u] = NoSync
                                        /\ pc'[u] = pc[u] /\ sync'[u] = sync[u]
    BY NobodyAssumption DEF IntelInv, Alone, StoreTypeOK
  <1>2. pc'[t] = p /\ sync'[t] = s
    BY DEF IntelInv, StoreTypeOK
  <1>3. StoreTypeOK'
    <2>1. pc' \in [SyncThreads -> Steps] /\ sync' \in [SyncThreads -> Sync]
      BY Zenon DEF IntelInv, StoreTypeOK, Steps
    <2>2. adding' = adding /\ look' = look
      BY DEF SyncUnchanged
    <2> QED
      BY <2>1, <2>2 DEF IntelInv, StoreTypeOK, Steps
  <1>4. Alone'
    BY <1>1, <1>2 DEF Alone, Resting
  <1>5. \A u \in SyncThreads : SyncSound(u)'
    <2> SUFFICES ASSUME NEW u \in SyncThreads, u # t PROVE SyncSound(u)'
      OBVIOUS
    <2>1. pc'[u] \in {"idle", "dead"} /\ sync'[u] = NoSync
      BY <1>1 DEF Resting
    <2> QED
      BY <2>1 DEF SyncSound, NoSync
  <1>6. \A r \in Lookers : LookupSound(r)'
    <2> SUFFICES ASSUME NEW r \in Lookers PROVE LookupSound(r)'
      OBVIOUS
    <2>1. look' = look /\ LookupSound(r)
      BY DEF SyncUnchanged, IntelInv
    <2> QED
      BY <2>1 DEF LookupSound
  <1> QED
    BY <1>3, <1>4, <1>5, <1>6 DEF IntelInv

\* The same when the stores and the rows stay as they are.
LEMMA LocalFrame ==
    ASSUME IntelInv, NEW t \in SyncThreads, NEW p \in Steps, NEW s \in Sync,
           Resting(t) => lock = NoThread,
           pc' = [pc EXCEPT ![t] = p],
           sync' = [sync EXCEPT ![t] = s],
           p \in {"idle", "dead"} => s = NoSync,
           p \notin {"idle", "dead"} => lock' = t,
           lock' \in SyncThreads \cup {NoThread},
           SyncUnchanged, UNCHANGED <<disk, mem, published>>,
           faults' \in 0 .. MaxFaults,
           SyncSound(t)'
    PROVE  IntelInv'
  <1>1. UNCHANGED <<db, mem, published, health>>
    BY DEF disk
  <1>2. StoreSound'
    BY <1>1 DEF IntelInv, StoreSound, Claimed
  <1>3. /\ db' \subseteq Domains /\ mem' \subseteq Domains /\ published' \subseteq Domains
        /\ published \subseteq published' /\ health' \in [Feeds -> Health]
    BY <1>1 DEF IntelInv, StoreTypeOK
  <1> QED
    BY <1>2, <1>3, SyncFrame

\* No step of a synchronisation breaks the invariant, the other threads' parts included.
LEMMA SyncKeepsInv ==
    ASSUME IntelInv, NEW t \in SyncThreads, SyncStep(t)
    PROVE  IntelInv'
  <1>0. /\ sync[t] \in Sync /\ pc[t] \in Steps /\ sync \in [SyncThreads -> Sync]
        /\ pc \in [SyncThreads -> Steps]
        /\ faults \in 0 .. MaxFaults /\ lock \in SyncThreads \cup {NoThread}
        /\ health \in [Feeds -> Health]
        /\ SyncSound(t)
        /\ ~Resting(t) => lock = t
        /\ \A step \in {"idle", "poll", "commit", "load", "swap", "health", "write", "dead"} :
             step \in Steps
        /\ \A step \in {"poll", "commit", "load", "swap", "health", "write"} :
             pc[t] = step => ~Resting(t)
    BY DEF IntelInv, StoreTypeOK, Alone, Steps, Resting
  <1>f. faults < MaxFaults => faults + 1 \in 0 .. MaxFaults
    BY <1>0, BoundsAssumption
  <1>1. CASE BeginSync(t)
    <2> DEFINE s == [NoSync EXCEPT !.todo = Feeds]
    <2>1. s \in Sync
      BY NoSyncType, Zenon DEF Sync
    <2>2. pc'[t] = "poll" /\ sync'[t] = s
      BY <1>0, <1>1 DEF BeginSync, At
    <2>3. SyncSound(t)'
      BY <2>2 DEF SyncSound, NoSync
    <2>4. \A f \in Feeds : s.status[f] = "none"
      BY DEF NoSync
    <2> HIDE DEF s
    <2> QED
      BY <1>0, <1>1, <2>1, <2>3, LocalFrame DEF BeginSync, At, s
  <1>2. CASE PollSucceeds(t)
    <2>1. PICK f \in sync[t].todo, listed \in Listings :
            sync' = [sync EXCEPT ![t] = [sync[t] EXCEPT !.todo = @ \ {f}, !.status[f] = "SUCCESS",
                                                        !.found[f] = listed]]
      BY <1>2, Zenon DEF PollSucceeds
    <2> DEFINE s == [sync[t] EXCEPT !.todo = @ \ {f}, !.status[f] = "SUCCESS", !.found[f] = listed]
    <2>2. f \in Feeds /\ listed \in SUBSET Domains /\ sync[t].todo \ {f} \in SUBSET Feeds
      BY <1>0, ListingsAssumption DEF Sync
    <2>3. s \in Sync
      BY <1>0, <2>2, SyncFields
    <2>4. sync' = [sync EXCEPT ![t] = s] /\ pc'[t] = "poll" /\ sync'[t] = s
      BY <1>0, <1>2, <2>1 DEF PollSucceeds, At
    <2>5. \A g \in Feeds : s.status[g] = "FAILED" => sync[t].status[g] = "FAILED"
      BY <1>0 DEF Sync
    <2> HIDE DEF s
    <2>6. health' = health
      BY <1>2 DEF PollSucceeds, PollUnchanged, disk
    <2>7. SyncSound(t)'
      BY <1>0, <2>4, <2>5, <2>6 DEF SyncSound
    <2> QED
      BY <1>0, <1>2, <2>3, <2>4, <2>7, LocalFrame DEF PollSucceeds, PollUnchanged, At
  <1>3. CASE PollFails(t)
    <2>1. PICK f \in sync[t].todo :
            /\ health[f].failures < MaxFailures
            /\ sync' = [sync EXCEPT ![t] = [sync[t] EXCEPT !.todo = @ \ {f}, !.status[f] = "FAILED"]]
      BY <1>3, Zenon DEF PollFails
    <2> DEFINE s == [sync[t] EXCEPT !.todo = @ \ {f}, !.status[f] = "FAILED"]
    <2>2. f \in Feeds /\ sync[t].todo \ {f} \in SUBSET Feeds
      BY <1>0 DEF Sync
    <2>3. s \in Sync
      BY <1>0, <2>2, SyncFields
    <2>4. pc'[t] = "poll" /\ sync'[t] = s
      BY <1>0, <1>3, <2>1 DEF PollFails, At
    <2>5. \A g \in Feeds : s.status[g] = "FAILED" => g = f \/ sync[t].status[g] = "FAILED"
      BY <1>0 DEF Sync
    <2> HIDE DEF s
    <2>6. health' = health
      BY <1>3 DEF PollFails, PollUnchanged, disk
    <2>7. SyncSound(t)'
      BY <1>0, <2>1, <2>4, <2>5, <2>6 DEF SyncSound
    <2> QED
      BY <1>0, <1>3, <2>1, <2>3, <2>7, LocalFrame DEF PollFails, PollUnchanged, At, s
  <1>4. CASE EndPolling(t)
    <2> DEFINE s == [sync[t] EXCEPT !.guarded = (Found(t) # {})]
               p == IF Found(t) = {} THEN "health" ELSE "commit"
    <2>1. s \in Sync
      BY <1>0, SyncFields
    <2>2. pc'[t] = p /\ sync'[t] = s
      BY <1>0, <1>4 DEF EndPolling, At
    <2>3. s.status = sync[t].status /\ s.found = sync[t].found
      BY <1>0 DEF Sync
    <2>4. Found(t) = {} => \A f \in Feeds : sync[t].found[f] = {}
      BY DEF Found
    <2>5. health' = health
      BY <1>4 DEF EndPolling, PollUnchanged, disk
    <2> HIDE DEF s
    <2>6. SyncSound(t)'
      BY <1>0, <2>2, <2>3, <2>4, <2>5 DEF SyncSound
    <2>7. p \in Steps /\ p \notin {"idle", "dead"}
      BY <1>0
    <2>8. pc[t] = "poll" /\ pc' = [pc EXCEPT ![t] = p] /\ sync' = [sync EXCEPT ![t] = s]
      BY <1>4 DEF EndPolling, At, s
    <2> HIDE DEF p
    <2> QED
      BY <1>0, <1>4, <2>1, <2>6, <2>7, <2>8, LocalFrame DEF EndPolling, PollUnchanged
  <1>5. CASE Commit(t)
    <2>1. /\ pc[t] = "commit" /\ pc' = [pc EXCEPT ![t] = "load"]
          /\ pc'[t] = "load" /\ db' = db \cup Found(t) /\ lock' = lock
          /\ UNCHANGED <<health, mem, sync, published, faults>> /\ SyncUnchanged
      BY <1>0, <1>5 DEF Commit, At
    <2>2. sync' = [sync EXCEPT ![t] = sync[t]] /\ Found(t)' = Found(t)
      BY <1>0, <2>1 DEF Found
    <2>3. Found(t) \subseteq Domains
      BY <1>0 DEF Found, Sync
    <2>4. db' \subseteq Domains /\ mem' \subseteq Domains /\ published' \subseteq Domains
      BY <2>1, <2>3 DEF IntelInv, StoreTypeOK
    <2>5. StoreSound'
      BY <2>1 DEF IntelInv, StoreSound, Claimed
    <2>6. SyncSound(t)'
      BY <1>0, <2>1, <2>2 DEF SyncSound
    <2> QED
      BY <1>0, <2>1, <2>2, <2>4, <2>5, <2>6, SyncFrame
  <1>6. CASE Load(t)
    <2> DEFINE s == [sync[t] EXCEPT !.loaded = db]
    <2>1. /\ pc[t] = "load" /\ pc' = [pc EXCEPT ![t] = "swap"] /\ pc'[t] = "swap"
          /\ sync' = [sync EXCEPT ![t] = s] /\ sync'[t] = s /\ lock' = lock
          /\ UNCHANGED <<db, health, mem, published, faults>> /\ SyncUnchanged
      BY <1>0, <1>6 DEF Load, At, PollUnchanged, disk
    <2>2. s \in Sync
      BY <1>0, SyncFields DEF IntelInv, StoreTypeOK
    <2>3. s.status = sync[t].status /\ s.found = sync[t].found /\ s.loaded = db
      BY <1>0 DEF Sync
    <2> HIDE DEF s
    <2>4. Found(t)' = Found(t)
      BY <2>1, <2>3 DEF Found
    <2>5. published \subseteq db /\ \A f \in Feeds : Claimed(f) \subseteq db /\ Claimed(f)' = Claimed(f)
      BY <2>1 DEF IntelInv, StoreSound, Claimed
    <2>6. SyncSound(t)'
      BY <1>0, <2>1, <2>3, <2>4, <2>5 DEF SyncSound
    <2> QED
      BY <1>0, <2>1, <2>2, <2>6, LocalFrame DEF disk
  <1>7. CASE Swap(t)
    <2> DEFINE s == [sync[t] EXCEPT !.loaded = {}]
    <2>1. /\ pc[t] = "swap" /\ pc' = [pc EXCEPT ![t] = "health"] /\ pc'[t] = "health"
          /\ sync' = [sync EXCEPT ![t] = s] /\ sync'[t] = s /\ lock' = lock
          /\ mem' = sync[t].loaded /\ published' = published \cup Found(t)
          /\ UNCHANGED <<db, health, faults>> /\ SyncUnchanged
      BY <1>0, <1>7 DEF Swap, At, disk
    <2>2. s \in Sync
      BY <1>0, SyncFields
    <2>3. s.status = sync[t].status /\ s.found = sync[t].found
      BY <1>0 DEF Sync
    <2>4. sync[t].loaded \subseteq Domains /\ Found(t) \subseteq Domains
      BY <1>0 DEF Found, Sync
    <2>5. db' \subseteq Domains /\ mem' \subseteq Domains /\ published' \subseteq Domains
      BY <2>1, <2>4 DEF IntelInv, StoreTypeOK
    <2>6. StoreSound'
      BY <1>0, <2>1 DEF IntelInv, StoreSound, SyncSound, Claimed
    <2>7. \A f \in Feeds : sync[t].found[f] \subseteq db \cap mem'
      BY <1>0, <2>1 DEF SyncSound, Found
    <2> HIDE DEF s
    <2>8. SyncSound(t)'
      BY <1>0, <2>1, <2>3, <2>7 DEF SyncSound
    <2> QED
      BY <1>0, <2>1, <2>2, <2>5, <2>6, <2>8, SyncFrame
  <1>8. CASE StoreFails(t)
    <2> DEFINE failed == [f \in Feeds |-> IF sync[t].status[f] = "none" THEN "none" ELSE "FAILED"]
               s == [sync[t] EXCEPT !.status = failed]
    <2>1. /\ pc[t] \in {"commit", "load"} /\ ~Resting(t)
          /\ pc' = [pc EXCEPT ![t] = "health"] /\ pc'[t] = "health"
          /\ sync' = [sync EXCEPT ![t] = s] /\ sync'[t] = s /\ lock' = lock
          /\ UNCHANGED <<disk, mem, published>> /\ health' = health /\ SyncUnchanged
          /\ faults' \in 0 .. MaxFaults
          /\ \A f \in Feeds : sync[t].status[f] # "none" => health[f].failures < MaxFailures
      BY <1>0, <1>f, <1>8 DEF StoreFails, At, disk
    <2>2. failed \in [Feeds -> {"none", "SUCCESS", "FAILED"}]
      OBVIOUS
    <2>3. s \in Sync
      BY <1>0, <2>2, SyncFields
    <2>4. s.status = failed
      BY <1>0 DEF Sync
    <2> HIDE DEF s
    <2>5. SyncSound(t)'
      BY <1>0, <2>1, <2>4 DEF SyncSound
    <2> QED
      BY <1>0, <2>1, <2>3, <2>5, LocalFrame
  <1>9. CASE ReadHealth(t)
    <2>1. PICK f \in Feeds :
            /\ sync[t].status[f] # "none"
            /\ sync' = [sync EXCEPT ![t] = [sync[t] EXCEPT !.logging = f,
                                                           !.failures = health[f].failures]]
      BY <1>9, Zenon DEF ReadHealth
    <2> DEFINE s == [sync[t] EXCEPT !.logging = f, !.failures = health[f].failures]
    <2>2. /\ pc[t] = "health" /\ pc' = [pc EXCEPT ![t] = "write"] /\ pc'[t] = "write"
          /\ sync'[t] = s /\ lock' = lock
          /\ UNCHANGED <<disk, db, health, mem, published, faults>> /\ SyncUnchanged
      BY <1>0, <1>9, <2>1 DEF ReadHealth, At, PollUnchanged, disk
    <2>3. health[f].failures \in 0 .. MaxFailures
      BY <1>0 DEF Health
    <2>4. s \in Sync
      BY <1>0, <2>3, SyncFields
    <2>5. /\ s.status = sync[t].status /\ s.found = sync[t].found /\ s.logging = f
          /\ s.failures = health[f].failures
      BY <1>0 DEF Sync
    <2>6. sync' = [sync EXCEPT ![t] = s]
      BY <2>1
    <2> HIDE DEF s
    <2>7. SyncSound(t)'
      BY <1>0, <2>1, <2>2, <2>5 DEF SyncSound
    <2> QED
      BY <1>0, <2>2, <2>4, <2>6, <2>7, LocalFrame
  <1>10. CASE WriteHealth(t)
    <2> DEFINE f == sync[t].logging
               status == sync[t].status[f]
               row == [status |-> status,
                       failures |-> IF status = "SUCCESS" THEN 0 ELSE sync[t].failures + 1,
                       listed |-> sync[t].found[f]]
               s == [sync[t] EXCEPT !.status[f] = "none", !.found[f] = {},
                                    !.logging = NoFeed, !.failures = 0]
    <2>1. /\ pc[t] = "write" /\ pc' = [pc EXCEPT ![t] = "health"] /\ pc'[t] = "health"
          /\ health' = [health EXCEPT ![f] = row]
          /\ sync' = [sync EXCEPT ![t] = s] /\ sync'[t] = s /\ lock' = lock
          /\ UNCHANGED <<db, mem, published, faults>> /\ SyncUnchanged
      BY <1>0, <1>10 DEF WriteHealth, At
    <2>2. f \in Feeds /\ status \in {"SUCCESS", "FAILED"} /\ sync[t].failures = health[f].failures
      BY <1>0, <2>1 DEF SyncSound, Sync
    <2>3. s \in Sync
      BY <1>0, <2>2, SyncFields
    <2>4. status = "FAILED" => health[f].failures < MaxFailures
      BY <1>0, <2>2 DEF SyncSound
    <2>5. row \in Health
      <3>1. health[f].failures \in 0 .. MaxFailures
        BY <1>0, <2>2 DEF Health
      <3>2. row.failures \in 0 .. MaxFailures
        BY <2>2, <2>4, <3>1, BoundsAssumption
      <3>3. sync[t].found[f] \subseteq Domains
        BY <1>0, <2>2 DEF Sync
      <3> QED
        BY <2>2, <3>2, <3>3 DEF Health
    <2>6. health' \in [Feeds -> Health] /\ health'[f] = row
      BY <1>0, <2>1, <2>2, <2>5
    <2>7. /\ s.status \in [Feeds -> {"none", "SUCCESS", "FAILED"}]
          /\ \A g \in Feeds : s.status[g] = IF g = f THEN "none" ELSE sync[t].status[g]
          /\ \A g \in Feeds : g # f => s.found[g] = sync[t].found[g]
      BY <1>0, <2>2 DEF Sync
    <2>8. status = "SUCCESS" => sync[t].found[f] \subseteq db \cap mem
      BY <1>0, <2>1, <2>2 DEF SyncSound
    <2>9. \A g \in Feeds : g # f => health'[g] = health[g]
      BY <1>0, <2>1, <2>2
    <2>10. row.status = status /\ row.listed = sync[t].found[f]
      OBVIOUS
    <2> HIDE DEF s, row, status, f
    <2>11. StoreSound'
      <3>1. \A g \in Feeds : Claimed(g)' \subseteq db \cap mem
        BY <2>6, <2>8, <2>9, <2>10 DEF IntelInv, StoreSound, Claimed
      <3> QED
        BY <2>1, <3>1 DEF IntelInv, StoreSound
    <2>12. SyncSound(t)'
      BY <1>0, <2>1, <2>7, <2>9 DEF SyncSound
    <2>13. db' \subseteq Domains /\ mem' \subseteq Domains /\ published' \subseteq Domains
      BY <2>1 DEF IntelInv, StoreTypeOK
    <2> QED
      BY <1>0, <2>1, <2>3, <2>6, <2>11, <2>12, <2>13, SyncFrame
  <1>11. CASE HealthFails(t) \/ EndSync(t)
    <2>1. PICK p \in {"idle", "dead"} : pc' = [pc EXCEPT ![t] = p] /\ pc'[t] = p
      BY <1>0, <1>11 DEF HealthFails, EndSync, At
    <2>2. /\ pc[t] = "health" /\ sync' = [sync EXCEPT ![t] = NoSync] /\ sync'[t] = NoSync
          /\ lock' = NoThread /\ UNCHANGED <<disk, mem, published>> /\ SyncUnchanged
          /\ faults' \in 0 .. MaxFaults
      BY <1>0, <1>f, <1>11 DEF HealthFails, EndSync, At
    <2>3. SyncSound(t)'
      BY <2>1, <2>2 DEF SyncSound, NoSync
    <2> QED
      BY <1>0, <2>1, <2>2, <2>3, NoSyncType, LocalFrame
  <1> QED
    BY <1>1, <1>2, <1>3, <1>4, <1>5, <1>6, <1>7, <1>8, <1>9, <1>10, <1>11 DEF SyncStep

-----------------------------------------------------------------------------
(* The other steps *)

\* A dict or a database that only grows keeps everything sound.
LEMMA GrowthKeepsInv ==
    ASSUME IntelInv, db \subseteq db', mem \subseteq mem', StoreTypeOK',
           UNCHANGED <<health, lock, pc, sync, look, published>>
    PROVE  IntelInv'
  <1>1. \A t \in SyncThreads : SyncSound(t)'
    <2> SUFFICES ASSUME NEW t \in SyncThreads PROVE SyncSound(t)'
      OBVIOUS
    <2>1. SyncSound(t) /\ Found(t)' = Found(t) /\ \A f \in Feeds : Claimed(f)' = Claimed(f)
      BY DEF IntelInv, Found, Claimed
    <2> QED
      BY <2>1 DEF SyncSound
  <1>2. StoreSound'
    BY DEF IntelInv, StoreSound, Claimed
  <1>3. Alone'
    BY DEF IntelInv, Alone, Resting
  <1>4. \A r \in Lookers : LookupSound(r)'
    BY DEF IntelInv, LookupSound
  <1> QED
    BY <1>1, <1>2, <1>3, <1>4 DEF IntelInv

\* A step of one lookup changes nothing else.
LEMMA LookKeepsInv ==
    ASSUME IntelInv, NEW r \in Lookers, NEW l \in Look,
           look' = [look EXCEPT ![r] = l], LookUnchanged,
           LookupSound(r)'
    PROVE  IntelInv'
  <1>1. UNCHANGED <<db, mem, health, lock, shutdown, pc, sync, adding, published, faults>>
    BY DEF LookUnchanged, disk
  <1>2. look' \in [Lookers -> Look]
    BY DEF IntelInv, StoreTypeOK
  <1>3. StoreTypeOK' /\ Alone' /\ StoreSound'
    BY <1>1, <1>2 DEF IntelInv, StoreTypeOK, Alone, Resting, StoreSound, Claimed
  <1>4. \A t \in SyncThreads : SyncSound(t)'
    <2> SUFFICES ASSUME NEW t \in SyncThreads PROVE SyncSound(t)'
      OBVIOUS
    <2>1. SyncSound(t) /\ Found(t)' = Found(t) /\ \A f \in Feeds : Claimed(f)' = Claimed(f)
      BY <1>1 DEF IntelInv, Found, Claimed
    <2> QED
      BY <1>1, <2>1 DEF SyncSound
  <1>5. \A q \in Lookers : LookupSound(q)'
    <2> SUFFICES ASSUME NEW q \in Lookers, q # r PROVE LookupSound(q)'
      OBVIOUS
    <2>1. look'[q] = look[q] /\ LookupSound(q)
      BY DEF IntelInv, StoreTypeOK
    <2> QED
      BY <1>1, <2>1 DEF LookupSound
  <1> QED
    BY <1>3, <1>4, <1>5 DEF IntelInv

\* No read of a lookup breaks the invariant.
LEMMA LookupStepKeepsInv ==
    ASSUME IntelInv, NEW r \in Lookers,
           BeginLookup(r) \/ TryCandidate(r) \/ ReadEntry(r) \/ NoCandidateLeft(r)
    PROVE  IntelInv'
  <1>0. /\ look[r] \in Look /\ LookupSound(r) /\ look \in [Lookers -> Look]
        /\ published \subseteq mem
    BY DEF IntelInv, StoreTypeOK, StoreSound
  <1>a. look[r].rest \in Seq(Domains \cup Names) /\ <<>> \in Seq(Domains \cup Names)
    BY <1>0, EmptySeq DEF Look
  <1>1. CASE BeginLookup(r)
    <2>1. PICK n \in Names :
            look' = [look EXCEPT ![r] =
             [name |-> n, rest |-> Candidates[n], seen |-> FALSE,
              listed |-> \E i \in DOMAIN Candidates[n] : Candidates[n][i] \in published,
              result |-> "running"]]
      BY <1>1 DEF BeginLookup
    <2> DEFINE known == \E i \in DOMAIN Candidates[n] : Candidates[n][i] \in published
               l == [name |-> n, rest |-> Candidates[n], seen |-> FALSE,
                     listed |-> known, result |-> "running"]
    <2>2. Candidates[n] \in Seq(Domains \cup Names) /\ known \in BOOLEAN
      BY CandidatesAssumption
    <2>3. l \in Look
      BY <2>2, Zenon DEF Look
    <2>4. look'[r] = l /\ published' = published
      BY <1>0, <1>1, <2>1 DEF BeginLookup, LookUnchanged
    <2>5. LookupSound(r)'
      BY <2>4 DEF LookupSound
    <2> QED
      BY <1>1, <2>1, <2>3, <2>5, LookKeepsInv DEF BeginLookup
  <1>2. CASE TryCandidate(r) /\ Head(look[r].rest) \in mem
    <2> DEFINE l == [look[r] EXCEPT !.seen = TRUE]
    <2>1. look' = [look EXCEPT ![r] = l] /\ look'[r] = l /\ LookUnchanged
      BY <1>0, <1>2 DEF TryCandidate
    <2>2. l \in Look
      BY <1>0, Zenon DEF Look
    <2>3. LookupSound(r)'
      BY <1>0, <1>2, <2>1 DEF LookupSound, TryCandidate, Look
    <2> QED
      BY <2>1, <2>2, <2>3, LookKeepsInv
  <1>3. CASE TryCandidate(r) /\ Head(look[r].rest) \notin mem
    <2> DEFINE rest == look[r].rest
               l == [look[r] EXCEPT !.rest = Tail(rest)]
    <2>1. look' = [look EXCEPT ![r] = l] /\ look'[r] = l /\ LookUnchanged /\ published' = published
          /\ rest # <<>> /\ ~look[r].seen /\ look[r].result = "running"
      BY <1>0, <1>3 DEF TryCandidate, LookUnchanged
    <2>2. Tail(rest) \in Seq(Domains \cup Names)
      BY <1>a, <2>1, HeadTailProperties
    <2>3. l \in Look
      BY <1>0, <2>2, Zenon DEF Look
    <2>4. /\ l.rest = Tail(rest) /\ l.seen = FALSE /\ l.listed = look[r].listed
          /\ l.result = "running"
      BY <1>0, <2>1 DEF Look
    <2>5. ASSUME NEW i \in DOMAIN rest, rest[i] \in published
          PROVE  \E j \in DOMAIN Tail(rest) : Tail(rest)[j] \in published
      <3>1. rest[1] \notin published
        BY <1>0, <1>3
      <3>2. i # 1 /\ i \in 1 .. Len(rest) /\ Len(rest) \in Nat
        BY <1>a, <2>5, <3>1, LenProperties
      <3>3. i - 1 \in 1 .. Len(rest) - 1 /\ (i - 1) + 1 = i
        BY <3>2
      <3>4. Len(Tail(rest)) = Len(rest) - 1 /\ DOMAIN Tail(rest) = 1 .. Len(rest) - 1
        BY <1>a, <2>1, <2>2, HeadTailProperties, LenProperties
      <3>5. Tail(rest)[i - 1] = rest[i]
        BY <1>a, <2>1, <3>3, <3>4, HeadTailProperties
      <3> QED
        BY <2>5, <3>3, <3>4, <3>5
    <2> HIDE DEF l
    <2>6. LookupSound(r)'
      BY <1>0, <2>1, <2>4, <2>5 DEF LookupSound
    <2> QED
      BY <2>1, <2>3, <2>6, LookKeepsInv
  <1>4. CASE ReadEntry(r)
    <2> DEFINE answer == IF Head(look[r].rest) \in mem THEN "match" ELSE "raised"
               l == [look[r] EXCEPT !.seen = FALSE, !.rest = <<>>, !.result = answer]
    <2>1. look' = [look EXCEPT ![r] = l] /\ look'[r] = l /\ LookUnchanged
      BY <1>0, <1>4 DEF ReadEntry
    <2>2. l \in Look
      BY <1>0, <1>a DEF Look
    <2>3. l.seen = FALSE /\ l.result \in {"match", "raised"}
      BY <1>0 DEF Look
    <2> HIDE DEF l
    <2>4. LookupSound(r)'
      BY <2>1, <2>3 DEF LookupSound
    <2> QED
      BY <2>1, <2>2, <2>4, LookKeepsInv
  <1>5. CASE NoCandidateLeft(r)
    <2> DEFINE l == [look[r] EXCEPT !.result = "clean"]
    <2>1. look' = [look EXCEPT ![r] = l] /\ look'[r] = l /\ LookUnchanged
          /\ look[r].result = "running" /\ look[r].rest = <<>>
      BY <1>0, <1>5 DEF NoCandidateLeft
    <2>2. l \in Look
      BY <1>0, Zenon DEF Look
    <2>3. l.seen = look[r].seen /\ l.listed = look[r].listed
      BY <1>0 DEF Look
    <2>4. ~look[r].seen /\ ~look[r].listed
      <3>1. DOMAIN look[r].rest = {}
        BY <2>1
      <3> QED
        BY <1>0, <2>1, <3>1 DEF LookupSound
    <2> HIDE DEF l
    <2>5. LookupSound(r)'
      BY <2>1, <2>3, <2>4 DEF LookupSound
    <2> QED
      BY <2>1, <2>2, <2>5, LookKeepsInv
  <1> QED
    BY <1>1, <1>2, <1>3, <1>4, <1>5

\* A lookup that is not under way claims nothing.
LEMMA NoLookType == NoLook \in Look /\ ~NoLook.seen /\ ~NoLook.listed
  <1>1. <<>> \in Seq(Domains \cup Names) /\ (CHOOSE n \in Names : TRUE) \in Names
    BY EmptySeq, CandidatesAssumption
  <1> QED
    BY <1>1 DEF NoLook, Look

\* A process that has just started, over any database and its health rows.
LEMMA FreshIsSound ==
    ASSUME pc = [t \in SyncThreads |-> "idle"],
           sync = [t \in SyncThreads |-> NoSync],
           look = [r \in Lookers |-> NoLook]
    PROVE  /\ Alone /\ \A t \in SyncThreads : SyncSound(t)
           /\ \A r \in Lookers : LookupSound(r)
           /\ pc \in [SyncThreads -> Steps]
           /\ sync \in [SyncThreads -> Sync]
           /\ look \in [Lookers -> Look]
  BY NoSyncType, NoLookType
     DEF Alone, Resting, SyncSound, LookupSound, NoSync, Steps

\* Seeding an empty table only adds.
LEMMA SeededType ==
    ASSUME NEW rows \in SUBSET Domains
    PROVE  Seeded(rows) \subseteq Domains /\ rows \subseteq Seeded(rows)
  BY SeedsAssumption DEF Seeded

\* A new process with the seeds in its table.
LEMMA IntelInit == Init => IntelInv
  <1> SUFFICES ASSUME Init PROVE IntelInv
    OBVIOUS
  <1>1. db \subseteq Domains /\ mem = db /\ published = {}
    BY SeededType DEF Init
  <1>2. health \in [Feeds -> Health] /\ \A f \in Feeds : Claimed(f) = {}
    BY BoundsAssumption DEF Init, Health, Claimed
  <1>3. StoreTypeOK
    BY <1>1, <1>2, FreshIsSound, BoundsAssumption DEF Init, StoreTypeOK, Steps
  <1>4. StoreSound
    BY <1>1, <1>2 DEF StoreSound
  <1> QED
    BY <1>3, <1>4, FreshIsSound DEF Init, IntelInv

\* Every step keeps the invariant, crashes and insertions by hand included.
LEMMA IntelStep == IntelInv /\ [Next]_vars => IntelInv'
  <1> SUFFICES ASSUME IntelInv, [Next]_vars PROVE IntelInv'
    OBVIOUS
  <1>1. ASSUME NEW a \in Adders, AddToMemory(a) \/ AddToDatabase(a) \/ AddFails(a)
        PROVE  IntelInv'
    <2>1. adding[a] \subseteq Domains
      BY DEF IntelInv, StoreTypeOK
    <2>2. db \subseteq db' /\ mem \subseteq mem' /\ db' \subseteq Domains /\ mem' \subseteq Domains
      BY <1>1, <2>1 DEF IntelInv, StoreTypeOK, AddToMemory, AddToDatabase, AddFails, disk
    <2>3. /\ adding' \in [Adders -> SUBSET Domains]
          /\ UNCHANGED <<health, lock, shutdown, pc, sync, look, published>>
      BY <1>1 DEF IntelInv, StoreTypeOK, AddToMemory, AddToDatabase, AddFails, disk
    <2>4. faults' \in 0 .. MaxFaults
      BY <1>1, BoundsAssumption DEF IntelInv, StoreTypeOK, AddToMemory, AddToDatabase, AddFails
    <2>5. StoreTypeOK'
      BY <2>2, <2>3, <2>4 DEF IntelInv, StoreTypeOK
    <2> QED
      BY <2>2, <2>3, <2>5, GrowthKeepsInv
  <1>2. CASE ToggleShutdown
    BY <1>2, GrowthKeepsInv DEF ToggleShutdown, IntelInv, StoreTypeOK, disk
  <1>3. CASE UNCHANGED vars
    BY <1>3, GrowthKeepsInv DEF vars, disk, process, IntelInv, StoreTypeOK
  <1>4. CASE CrashAndRestart
    <2>1. /\ mem' = db' /\ db \subseteq db' /\ db' \subseteq Domains
          /\ health' = health /\ published' = published
      BY <1>4, SeededType DEF IntelInv, StoreTypeOK, CrashAndRestart
    <2>2. StoreSound'
      BY <2>1 DEF IntelInv, StoreSound, Claimed
    <2>3. /\ Alone' /\ \A t \in SyncThreads : SyncSound(t)'
          /\ \A r \in Lookers : LookupSound(r)'
          /\ pc' \in [SyncThreads -> Steps]
          /\ sync' \in [SyncThreads -> Sync]
          /\ look' \in [Lookers -> Look]
      BY <1>4, NoSyncType, NoLookType
         DEF CrashAndRestart, FreshProcess, Alone, Resting, SyncSound, LookupSound, NoSync, Steps
    <2>4. faults' \in 0 .. MaxFaults
      BY <1>4, BoundsAssumption DEF CrashAndRestart, IntelInv, StoreTypeOK
    <2>5. StoreTypeOK'
      BY <1>4, <2>1, <2>3, <2>4 DEF CrashAndRestart, FreshProcess, IntelInv, StoreTypeOK, Steps
    <2> QED
      BY <2>2, <2>3, <2>5 DEF IntelInv
  <1> QED
    BY <1>1, <1>2, <1>3, <1>4, SyncKeepsInv, LookupStepKeepsInv DEF Next

\* The invariant holds of every behaviour.
LEMMA IntelInvHolds == Spec => []IntelInv
  BY IntelInit, IntelStep, PTL DEF Spec

-----------------------------------------------------------------------------
(* What it is for *)

\* A feed whose health row says SUCCESS has every indicator the row counts in the
\* dict that lookups read, whoever synchronises, adds, fails or restarts.
THEOREM SuccessAlwaysMeansInForce == Spec => []SuccessMeansInForce
  <1>1. IntelInv => SuccessMeansInForce
    BY DEF IntelInv, StoreSound, Claimed, SuccessMeansInForce
  <1> QED
    BY <1>1, IntelInvHolds, PTL

\* A lookup never calls a name clean that a feed had listed, itself or a parent,
\* before the lookup started.
THEOREM ListedNamesAreNeverClean == Spec => []ListedNamesNeverClean
  <1>1. IntelInv => ListedNamesNeverClean
    BY DEF IntelInv, LookupSound, ListedNamesNeverClean
  <1> QED
    BY <1>1, IntelInvHolds, PTL

\* No swap, fault or restart takes an indicator out of the dict, once it is there,
\* that a feed brought in.
THEOREM FeedIndicatorsAlwaysStay == Spec => FeedIndicatorsStay
  <1>1. IntelInv /\ [Next]_vars => [published \cap mem \subseteq mem']_vars
    <2> SUFFICES ASSUME IntelInv, IntelInv', Next PROVE published \cap mem \subseteq mem'
      BY IntelStep
    <2>1. published' \subseteq mem'
      BY DEF IntelInv, StoreSound
    <2>2. published \subseteq published'
      BY DEF Next, SyncStep, BeginSync, PollSucceeds, PollFails, EndPolling, Commit, Load, Swap,
             StoreFails, ReadHealth, WriteHealth, HealthFails, EndSync, PollUnchanged,
             AddToMemory, AddToDatabase, AddFails, BeginLookup, TryCandidate, ReadEntry,
             NoCandidateLeft, LookUnchanged, ToggleShutdown, CrashAndRestart
    <2> QED
      BY <2>1, <2>2
  <1> QED
    BY <1>1, IntelInvHolds, PTL DEF Spec, FeedIndicatorsStay

\* Each logged failure adds one to the count that the row had until then.
THEOREM FailuresAreCountedOnce == Spec => FailuresCountedOnce
  <1> DEFINE CountsOnce ==
        \A t \in SyncThreads :
          LET f == sync[t].logging
          IN  pc[t] = "write" /\ pc'[t] = "health" /\ health'[f].status = "FAILED" =>
                health'[f].failures = health[f].failures + 1
  <1>1. IntelInv /\ [Next]_vars => [CountsOnce]_vars
    <2> SUFFICES ASSUME IntelInv, Next, NEW t \in SyncThreads,
                        pc[t] = "write", pc'[t] = "health",
                        health'[sync[t].logging].status = "FAILED"
                 PROVE  health'[sync[t].logging].failures = health[sync[t].logging].failures + 1
      OBVIOUS
    <2> DEFINE f == sync[t].logging
    <2>0. /\ f \in Feeds /\ sync[t].failures = health[f].failures
          /\ health \in [Feeds -> Health] /\ pc \in [SyncThreads -> Steps]
      BY DEF IntelInv, SyncSound, StoreTypeOK, Steps
    <2>1. ASSUME NEW u \in SyncThreads, SyncStep(u)
          PROVE  WriteHealth(t)
      <3>1. pc' = [pc EXCEPT ![u] = pc'[u]]
        BY <2>0, <2>1 DEF SyncStep, BeginSync, PollSucceeds, PollFails, EndPolling, Commit, Load,
             Swap, StoreFails, ReadHealth, WriteHealth, HealthFails, EndSync, At
      <3>2. u = t
        BY <2>0, <3>1
      <3> QED
        BY <2>1, <3>2 DEF SyncStep, BeginSync, PollSucceeds, PollFails, EndPolling, Commit, Load,
             Swap, StoreFails, ReadHealth, WriteHealth, HealthFails, EndSync, At
    <2>2. WriteHealth(t)
      BY <2>1 DEF Next, AddToMemory, AddToDatabase, AddFails, BeginLookup, TryCandidate, ReadEntry,
             NoCandidateLeft, LookUnchanged, ToggleShutdown, CrashAndRestart, FreshProcess
    <2>3. health'[f] = [status |-> sync[t].status[f],
                        failures |-> IF sync[t].status[f] = "SUCCESS" THEN 0
                                     ELSE sync[t].failures + 1,
                        listed |-> sync[t].found[f]]
      BY <2>0, <2>2 DEF WriteHealth
    <2> QED
      BY <2>0, <2>3
  <1> QED
    BY <1>1, IntelInvHolds, PTL DEF Spec, FailuresCountedOnce
=============================================================================
