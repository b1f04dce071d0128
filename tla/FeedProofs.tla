----------------------------- MODULE FeedProofs -----------------------------
(***************************************************************************)
(* The feeds, for any number of controllers, threads, feeds and objects.   *)
(*                                                                         *)
(* FeedWorker's two invariants are inductive together: that a loop which   *)
(* polls holds the lock keeps every other from getting it, and the types   *)
(* say that the lock is free exactly when its holder is no thread.         *)
(*                                                                         *)
(* FeedPolling's is that what a poll has fetched is the front of the       *)
(* collection as far as the next page, until something is withdrawn, and   *)
(* that what was merged is the join of what was found.  That the two folds *)
(* compute the strongest of the first i indicators and the join of the     *)
(* first i feeds is shown by induction on i.                               *)
(***************************************************************************)
EXTENDS FeedWorker, FeedPolling, SequenceLemmas

-----------------------------------------------------------------------------
(* The worker threads *)

\* A step of _run_loop or sync_all_feeds keeps every variable in its type.
LEMMA LoopTypes ==
    ASSUME WorkerTypeOK, NEW t \in Threads, LoopStep(t) \/ UpdateRaises(t)
    PROVE  WorkerTypeOK'
<1> USE ThreadsAssumption DEF WorkerTypeOK, Controlled, At
<1>1. CASE LoopTest(t)
  BY <1>1 DEF LoopTest
<1>2. CASE Acquire(t)
  BY <1>2 DEF Acquire
<1>3. CASE Skip(t)
  BY <1>3 DEF Skip
<1>4. CASE PollFeed(t)
  BY <1>4 DEF PollFeed
<1>5. CASE EndPolling(t)
  BY <1>5 DEF EndPolling
<1>6. CASE Update(t)
  BY <1>6 DEF Update
<1>7. CASE Wake(t)
  BY <1>7 DEF Wake
<1>8. CASE UpdateRaises(t)
  BY <1>8 DEF UpdateRaises
<1> QED
  BY <1>1, <1>2, <1>3, <1>4, <1>5, <1>6, <1>7, <1>8 DEF LoopStep

\* A step of start or stop does, too; start clears the event only with
\* _is_running set.
LEMMA ControlTypes ==
    ASSUME WorkerTypeOK, NEW c \in Controllers,
           Start(c) \/ Stop(c) \/ Join(c) \/ Joined(c)
    PROVE  WorkerTypeOK'
<1> USE ThreadsAssumption DEF WorkerTypeOK
<1>1. CASE Start(c)
  BY <1>1 DEF Start
<1>2. CASE Stop(c)
  BY <1>2 DEF Stop
<1>3. CASE Join(c)
  <2>1. running' = running /\ shutdown' = shutdown /\ thread' = thread
    BY <1>3 DEF Join
  <2>2. joining' \in [Controllers -> Threads \cup {"nothing", "pending"}]
    BY <1>3 DEF Join
  <2> QED
    BY <1>3, <2>1, <2>2 DEF Join
<1>4. CASE Joined(c)
  BY <1>4 DEF Joined
<1> QED
  BY <1>1, <1>2, <1>3, <1>4

\* The types are an invariant for any number of controllers, threads and feeds.
THEOREM WorkerTypesHold == Spec => []WorkerTypeOK
<1>1. Init => WorkerTypeOK
  <2> SUFFICES ASSUME Init PROVE WorkerTypeOK
    OBVIOUS
  <2>1. todo \in [Threads -> 0 .. NumFeeds] /\ faults \in 0 .. MaxFaults
    BY ThreadsAssumption, SMT DEF Init
  <2>2. running \in BOOLEAN /\ shutdown \in BOOLEAN /\ ~running /\ thread = NoThread
    BY DEF Init
  <2>3. \A c \in Controllers : joining[c] # "pending"
    BY DEF Init
  <2> QED
    BY <2>1, <2>2, <2>3 DEF Init, WorkerTypeOK
<1>2. WorkerTypeOK /\ [Next]_vars => WorkerTypeOK'
  <2>1. CASE UNCHANGED vars
    BY <2>1 DEF vars, WorkerTypeOK
  <2> QED
    BY <2>1, LoopTypes, ControlTypes DEF Next
<1> QED
  BY <1>1, <1>2, PTL DEF Spec

\* The loops of any number of stops and starts never synchronise together.
THEOREM SyncsStayApart == Spec => []SyncsNeverOverlap
<1> USE ThreadsAssumption
<1>1. Init => SyncsNeverOverlap
  BY DEF Init, SyncsNeverOverlap
<1>2. WorkerTypeOK /\ SyncsNeverOverlap /\ [Next]_vars => SyncsNeverOverlap'
  <2> SUFFICES ASSUME WorkerTypeOK, SyncsNeverOverlap, [Next]_vars
               PROVE  SyncsNeverOverlap'
    OBVIOUS
  <2> USE DEF WorkerTypeOK, SyncsNeverOverlap, Controlled, At
  <2>1. CASE UNCHANGED vars
    BY <2>1 DEF vars
  <2>2. ASSUME NEW c \in Controllers, Start(c)
        PROVE  SyncsNeverOverlap'
    BY <2>2 DEF Start, Alive
  <2>3. ASSUME NEW c \in Controllers, Stop(c) \/ Join(c) \/ Joined(c)
        PROVE  SyncsNeverOverlap'
    BY <2>3 DEF Stop, Join, Joined
  <2>4. ASSUME NEW t \in Threads, LoopStep(t)
        PROVE  SyncsNeverOverlap'
    <3>1. CASE LoopTest(t) \/ Skip(t) \/ Wake(t)
      BY <3>1 DEF LoopTest, Skip, Wake
    <3>2. CASE Acquire(t)
      BY <3>2 DEF Acquire
    <3>3. CASE PollFeed(t) \/ EndPolling(t)
      BY <3>3 DEF PollFeed, EndPolling
    <3>4. CASE Update(t)
      BY <3>4 DEF Update
    <3> QED
      BY <2>4, <3>1, <3>2, <3>3, <3>4 DEF LoopStep
  <2>5. ASSUME NEW t \in Threads, UpdateRaises(t)
        PROVE  SyncsNeverOverlap'
    BY <2>5 DEF UpdateRaises
  <2> QED
    BY <2>1, <2>2, <2>3, <2>4, <2>5 DEF Next
<1> QED
  BY <1>1, <1>2, WorkerTypesHold, PTL DEF Spec

-----------------------------------------------------------------------------
(* The pages of a feed *)

PollTypes ==
    /\ collection \in [Feeds -> Seq(Objects)]
    /\ turn \in DOMAIN FeedOrder
    /\ start \in Nat /\ before \in Nat /\ shifted \in BOOLEAN
    /\ objects \in Seq(Objects)

\* What has been fetched is the front of the collection, as far as the next page.
PagesInv ==
    LET held == collection[Polled]
    IN  stage \in {"fetch", "parse"} /\ ~shifted =>
          /\ before <= Len(held) /\ Len(objects) <= Len(held)
          /\ \A i \in 1 .. Len(objects) : objects[i] = held[i]
          /\ stage = "fetch" => start = Len(objects)
          /\ stage = "parse" => before <= Len(objects)

\* A feed is configured for every turn.
LEMMA TurnsAreFeeds ==
  /\ Len(FeedOrder) \in Nat \ {0} /\ DOMAIN FeedOrder = 1 .. Len(FeedOrder)
  /\ \A n \in DOMAIN FeedOrder : FeedOrder[n] \in Feeds
  <1>1. Len(FeedOrder) \in Nat /\ DOMAIN FeedOrder = 1 .. Len(FeedOrder) /\ FeedOrder # <<>>
    BY FeedsAssumption
  <1>2. Len(FeedOrder) # 0
    BY FeedsAssumption
  <1> QED
    BY <1>1, <1>2 DEF Feeds

\* Min is the minimum of two numbers.
LEMMA LesserOfTwo ==
  ASSUME NEW m \in Nat, NEW n \in Nat
  PROVE  Min({m, n}) = IF m <= n THEN m ELSE n
  <1>1. \E k \in {m, n} : \A j \in {m, n} : k <= j
    <2>1. m <= n \/ n <= m
      OBVIOUS
    <2> QED
      BY <2>1
  <1>2. Min({m, n}) \in {m, n} /\ \A j \in {m, n} : Min({m, n}) <= j
    BY <1>1 DEF Min
  <1> QED
    BY <1>2

\* A page is the next Limit objects, or all that are left.
LEMMA PageProperties ==
  ASSUME NEW held \in Seq(Objects), NEW from \in Nat
  PROVE  LET upTo == Min({from + Limit, Len(held)})
             page == SubSeq(held, from + 1, upTo)
         IN  /\ page \in Seq(Objects) /\ upTo \in Nat
             /\ upTo = IF from + Limit <= Len(held) THEN from + Limit ELSE Len(held)
             /\ from <= Len(held) => /\ Len(page) = upTo - from
                                     /\ \A i \in 1 .. upTo - from : page[i] = held[from + i]
  <1> DEFINE upTo == Min({from + Limit, Len(held)})
             page == SubSeq(held, from + 1, upTo)
  <1>1. Len(held) \in Nat /\ Limit \in Nat \ {0} /\ from + Limit \in Nat
    BY FeedsAssumption
  <1>2. upTo \in Nat /\ upTo = IF from + Limit <= Len(held) THEN from + Limit ELSE Len(held)
    BY <1>1, LesserOfTwo
  <1> HIDE DEF upTo
  <1>3. \A i \in from + 1 .. upTo : held[i] \in Objects
    BY <1>1, <1>2
  <1>4. /\ page \in Seq(Objects)
        /\ Len(page) = IF from + 1 <= upTo THEN upTo - (from + 1) + 1 ELSE 0
        /\ \A i \in 1 .. upTo - (from + 1) + 1 : page[i] = held[from + 1 + i - 1]
    BY <1>2, <1>3, SubSeqProperties
  <1> HIDE DEF page
  <1>5. ASSUME from <= Len(held)
        PROVE  /\ Len(page) = upTo - from
               /\ \A i \in 1 .. upTo - from : page[i] = held[from + i]
    BY <1>1, <1>2, <1>4, <1>5
  <1> QED
    BY <1>2, <1>4, <1>5 DEF upTo, page

\* A poll begins with nothing fetched.
LEMMA BeginPollStep ==
  ASSUME PollTypes, NEW n \in DOMAIN FeedOrder, BeginPoll(n), collection' = collection
  PROVE  PollTypes' /\ PagesInv'
  <1>1. /\ stage' = "fetch" /\ turn' = n /\ start' = 0 /\ objects' = <<>> /\ shifted' = FALSE
        /\ before' = Len(collection[FeedOrder[n]]) /\ collection' = collection
    BY DEF BeginPoll
  <1>2. collection[FeedOrder[n]] \in Seq(Objects)
    BY TurnsAreFeeds DEF PollTypes
  <1>3. Len(collection[FeedOrder[n]]) \in Nat /\ Polled' = FeedOrder[n] /\ Feeds' = Feeds
    BY <1>1, <1>2 DEF Polled, Feeds
  <1>4. objects' \in Seq(Objects) /\ Len(objects') = 0
    BY <1>1
  <1>5. PollTypes'
    BY <1>1, <1>3, <1>4 DEF PollTypes
  <1> QED
    BY <1>1, <1>3, <1>4, <1>5 DEF PagesInv

\* A page continues where the last one ended.
LEMMA FetchPageStep ==
  ASSUME PollTypes, PagesInv, FetchPage
  PROVE  PollTypes' /\ PagesInv'
  <1> DEFINE held == collection[Polled]
             page == Page(start)
             upTo == Min({start + Limit, Len(held)})
  <1>1. /\ stage = "fetch" /\ objects' = objects \o page
        /\ IF Len(page) < Limit THEN stage' = "parse" /\ start' = start
           ELSE start' = start + Limit /\ stage' = stage
        /\ UNCHANGED <<collection, turn, before, shifted>>
    BY DEF FetchPage
  <1>2. /\ held \in Seq(Objects) /\ Len(held) \in Nat /\ Limit \in Nat \ {0}
        /\ objects \in Seq(Objects) /\ Len(objects) \in Nat /\ start \in Nat /\ before \in Nat
    BY TurnsAreFeeds, FeedsAssumption DEF PollTypes, Polled
  <1>3. /\ page \in Seq(Objects) /\ upTo \in Nat
        /\ upTo = IF start + Limit <= Len(held) THEN start + Limit ELSE Len(held)
        /\ start <= Len(held) => /\ Len(page) = upTo - start
                                 /\ \A i \in 1 .. upTo - start : page[i] = held[start + i]
    BY <1>2, PageProperties DEF Page
  <1>4. held' = held /\ Feeds' = Feeds
    BY <1>1 DEF Polled, Feeds
  <1> HIDE DEF held, page, upTo
  <1>5. /\ objects' \in Seq(Objects) /\ Len(objects') = Len(objects) + Len(page)
        /\ \A i \in 1 .. Len(objects) + Len(page) :
             objects'[i] = IF i <= Len(objects) THEN objects[i] ELSE page[i - Len(objects)]
    BY <1>1, <1>2, <1>3, ConcatProperties
  <1>6. PollTypes'
    BY <1>1, <1>2, <1>4, <1>5 DEF PollTypes
  <1>7. ASSUME ~shifted
        PROVE  /\ before <= Len(held) /\ Len(objects') <= Len(held)
               /\ \A i \in 1 .. Len(objects') : objects'[i] = held[i]
               /\ stage' = "fetch" => start' = Len(objects')
               /\ stage' = "parse" => before <= Len(objects')
    <2>1. /\ before <= Len(held) /\ Len(objects) <= Len(held) /\ start = Len(objects)
          /\ \A i \in 1 .. Len(objects) : objects[i] = held[i]
      BY <1>1, <1>7 DEF PagesInv, held
    <2>2. /\ Len(page) = upTo - start /\ Len(objects') = upTo /\ upTo <= Len(held)
          /\ \A i \in 1 .. upTo - start : page[i] = held[start + i]
      BY <1>2, <1>3, <1>5, <2>1
    <2>3. ASSUME NEW i \in 1 .. upTo PROVE objects'[i] = held[i]
      <3>1. CASE i <= Len(objects)
        BY <1>2, <1>3, <1>5, <2>1, <2>2, <3>1
      <3>2. CASE ~(i <= Len(objects))
        <4>1. i - Len(objects) \in 1 .. upTo - start /\ start + (i - Len(objects)) = i
          BY <1>2, <1>3, <2>1, <3>2
        <4>2. objects'[i] = page[i - Len(objects)]
          BY <1>2, <1>3, <1>5, <2>1, <2>2, <3>2
        <4> QED
          BY <2>2, <4>1, <4>2
      <3> QED
        BY <3>1, <3>2
    <2>4. stage' = "fetch" => start' = upTo
      BY <1>1, <1>2, <1>3, <2>1, <2>2
    <2>5. stage' = "parse" => before <= upTo
      BY <1>1, <1>2, <1>3, <2>1, <2>2
    <2> QED
      BY <2>1, <2>2, <2>3, <2>4, <2>5
  <1>8. PagesInv'
    BY <1>1, <1>4, <1>7 DEF PagesInv, held
  <1> QED
    BY <1>6, <1>8

\* What is published comes after what has been fetched.
LEMMA PublishStep ==
  ASSUME PollTypes, PagesInv, NEW f \in Feeds, Publish(f)
  PROVE  PollTypes' /\ PagesInv'
  <1>1. PICK o \in Objects : collection' = [collection EXCEPT ![f] = Append(@, o)]
    BY DEF Publish
  <1>2. UNCHANGED <<stage, turn, start, objects, before, shifted>> /\ Feeds' = Feeds
        /\ Polled' = Polled
    BY DEF Publish, poll, Feeds, Polled
  <1>3. \A g \in Feeds : /\ collection[g] \in Seq(Objects) /\ Len(collection[g]) \in Nat
                         /\ collection'[g] \in Seq(Objects)
                         /\ Len(collection[g]) <= Len(collection'[g])
                         /\ \A i \in 1 .. Len(collection[g]) : collection'[g][i] = collection[g][i]
    <2> TAKE g \in Feeds
    <2>1. collection[g] \in Seq(Objects) /\ Len(collection[g]) \in Nat
      BY DEF PollTypes
    <2>2. collection'[g] = IF g = f THEN Append(collection[g], o) ELSE collection[g]
      BY <1>1 DEF PollTypes
    <2>3. LET a == Append(collection[g], o)
          IN  /\ a \in Seq(Objects) /\ Len(a) = Len(collection[g]) + 1
              /\ \A i \in 1 .. Len(collection[g]) : a[i] = collection[g][i]
      BY <2>1, AppendProperties
    <2> QED
      BY <2>1, <2>2, <2>3
  <1>4. collection' \in [Feeds -> Seq(Objects)]
    BY <1>1, <1>3 DEF PollTypes
  <1>5. PollTypes'
    BY <1>2, <1>4 DEF PollTypes
  <1>6. Polled \in Feeds /\ Len(objects) \in Nat /\ before \in Nat /\ Len(collection'[Polled]) \in Nat
    BY <1>3, TurnsAreFeeds DEF PollTypes, Polled
  <1>7. PagesInv'
    BY <1>2, <1>3, <1>6 DEF PagesInv
  <1> QED
    BY <1>5, <1>7

\* A withdrawal from the feed being polled is remembered as a shift.
LEMMA WithdrawStep ==
  ASSUME PollTypes, PagesInv, NEW f \in Feeds, Withdraw(f)
  PROVE  PollTypes' /\ PagesInv'
  <1>1. PICK i \in DOMAIN collection[f] : collection' = [collection EXCEPT ![f] = RemoveAt(@, i)]
    BY DEF Withdraw
  <1>2. /\ UNCHANGED <<stage, turn, start, objects, before>> /\ Feeds' = Feeds /\ Polled' = Polled
        /\ shifted' = (shifted \/ (stage \in {"fetch", "parse"} /\ f = Polled))
    BY DEF Withdraw, poll, Feeds, Polled
  <1>3. collection[f] \in Seq(Objects) /\ i \in 1 .. Len(collection[f])
    BY <1>1 DEF PollTypes
  <1>4. RemoveAt(collection[f], i) \in Seq(Objects)
    BY <1>3, RemoveAtProperties
  <1>5. collection' \in [Feeds -> Seq(Objects)]
    BY <1>1, <1>4 DEF PollTypes
  <1>6. shifted' \in BOOLEAN
    BY <1>2 DEF PollTypes
  <1>7. PollTypes'
    BY <1>2, <1>5, <1>6 DEF PollTypes
  <1>8. ASSUME stage \in {"fetch", "parse"}, ~shifted'
        PROVE  ~shifted /\ collection'[Polled] = collection[Polled]
    <2>1. ~shifted /\ f # Polled /\ Polled \in Feeds
      BY <1>2, <1>8, TurnsAreFeeds DEF PollTypes, Polled
    <2> QED
      BY <1>1, <2>1 DEF PollTypes
  <1>9. PagesInv'
    BY <1>2, <1>8 DEF PagesInv
  <1> QED
    BY <1>7, <1>9

\* The pages fetched are the front of the collection throughout.
LEMMA PagesInvHolds == PollingSpec => [](PollTypes /\ PagesInv)
  <1>1. PollingInit => PollTypes /\ PagesInv
    <2> SUFFICES ASSUME PollingInit PROVE PollTypes /\ PagesInv
      OBVIOUS
    <2>1. <<>> \in Seq(Objects)
      OBVIOUS
    <2>2. collection \in [Feeds -> Seq(Objects)] /\ objects \in Seq(Objects)
      BY <2>1 DEF PollingInit
    <2>3. 1 \in DOMAIN FeedOrder
      BY TurnsAreFeeds
    <2> QED
      BY <2>2, <2>3 DEF PollingInit, PollTypes, PagesInv
  <1>2. ASSUME PollTypes, PagesInv, [PollingNext]_pollingVars
        PROVE  PollTypes' /\ PagesInv'
    <2>1. ASSUME BeginSync PROVE PollTypes' /\ PagesInv'
      <3>1. 1 \in DOMAIN FeedOrder
        BY TurnsAreFeeds
      <3>2. BeginPoll(1) /\ collection' = collection
        BY <2>1 DEF BeginSync
      <3> QED
        BY <1>2, <3>1, <3>2, BeginPollStep
    <2>2. ASSUME Finish, collection' = collection PROVE PollTypes' /\ PagesInv'
      <3>1. CASE turn = Len(FeedOrder)
        <4>1. stage' = "aggregate" /\ UNCHANGED <<turn, start, objects, before, shifted, collection>>
          BY <2>2, <3>1 DEF Finish
        <4>2. PollTypes'
          BY <1>2, <4>1 DEF PollTypes, Feeds
        <4> QED
          BY <4>1, <4>2 DEF PagesInv
      <3>2. CASE turn # Len(FeedOrder)
        <4>1. turn + 1 \in DOMAIN FeedOrder
          BY <1>2, <3>2, TurnsAreFeeds DEF PollTypes
        <4>2. BeginPoll(turn + 1)
          BY <2>2, <3>2 DEF Finish
        <4> QED
          BY <1>2, <2>2, <4>1, <4>2, BeginPollStep
      <3> QED
        BY <3>1, <3>2
    <2>3. CASE FetchFails \/ ParseFails \/ Parse
      <3>1. Finish /\ collection' = collection
        BY <2>3 DEF FetchFails, ParseFails, Parse
      <3> QED
        BY <2>2, <3>1
    <2>4. ASSUME Aggregate PROVE PollTypes' /\ PagesInv'
      <3>1. /\ stage' = "idle" /\ turn' = 1 /\ start' = 0 /\ objects' = <<>> /\ before' = 0
            /\ shifted' = FALSE /\ collection' = collection
        BY <2>4 DEF Aggregate
      <3>2. objects' \in Seq(Objects) /\ 1 \in DOMAIN FeedOrder
        BY <3>1, TurnsAreFeeds
      <3> QED
        BY <1>2, <3>1, <3>2 DEF PollTypes, PagesInv, Feeds
    <2>5. CASE UNCHANGED pollingVars
      BY <1>2, <2>5 DEF pollingVars, poll, PollTypes, PagesInv, Feeds, Polled
    <2> QED
      BY <1>2, <2>1, <2>3, <2>4, <2>5, FetchPageStep, PublishStep, WithdrawStep, Zenon
         DEF PollingNext
  <1> QED
    BY <1>1, <1>2, PTL DEF PollingSpec

\* A poll that no withdrawal disturbs has every object that was there when it began,
\* once and in order, however many pages there are and however full the last is.
THEOREM PollsAreComplete == PollingSpec => []PollComplete
  <1>1. PollTypes /\ PagesInv => PollComplete
    <2> SUFFICES ASSUME PollTypes, PagesInv, stage = "parse", ~shifted
                 PROVE  Len(objects) >= before /\ IsPrefix(objects, collection[Polled])
      BY DEF PollComplete
    <2> DEFINE held == collection[Polled]
    <2>1. /\ held \in Seq(Objects) /\ Len(held) \in Nat /\ objects \in Seq(Objects)
          /\ Len(objects) \in Nat /\ before \in Nat
      BY TurnsAreFeeds DEF PollTypes, Polled
    <2>2. /\ before <= Len(objects) /\ Len(objects) <= Len(held)
          /\ \A i \in 1 .. Len(objects) : objects[i] = held[i]
      BY DEF PagesInv
    <2> HIDE DEF held
    <2>3. SubSeq(objects, 1, Len(objects)) = [i \in 1 .. Len(objects) |-> objects[i]]
      BY <2>1
    <2>4. SubSeq(held, 1, Len(objects)) = [i \in 1 .. Len(objects) |-> held[i]]
      BY <2>1, <2>2
    <2>5. IsPrefix(objects, held)
      BY <2>1, <2>2, <2>3, <2>4 DEF IsPrefix
    <2> QED
      BY <2>1, <2>2, <2>5 DEF held
  <1> QED
    BY <1>1, PagesInvHolds, PTL

-----------------------------------------------------------------------------
(* What a poll is worth *)

Domains == {o.domain : o \in Objects}
ReadableObjects == {o \in Objects : o.confidence # Unreadable /\ o.category # Unmapped}
Dicts == UNION {[E -> Kept] : E \in SUBSET Domains}

\* An indicator's entry is one, and so is the dict with it.
LEMMA KeepIsDict ==
  ASSUME NEW seen \in Dicts, NEW o \in ReadableObjects
  PROVE  Entered(seen, o) \in Dicts /\ Keep(seen, o) \in Dicts
  <1>1. PICK E \in SUBSET Domains : seen \in [E -> Kept]
    BY DEF Dicts
  <1>2. [category |-> o.category, confidence |-> o.confidence] \in Kept
    BY ObjectsAssumption DEF ReadableObjects, Kept
  <1>3. E \cup {o.domain} \in SUBSET Domains
    BY DEF ReadableObjects, Domains
  <1>4. Entered(seen, o) \in [E \cup {o.domain} -> Kept]
    BY <1>1, <1>2 DEF Entered
  <1>5. Entered(seen, o) \in Dicts
    BY <1>3, <1>4 DEF Dicts
  <1> QED
    BY <1>5 DEF Keep

\* The empty dict is one.
LEMMA NothingIsDict == Nothing \in Dicts
  <1>1. Nothing \in [{} -> Kept]
    BY DEF Nothing
  <1> QED
    BY <1>1 DEF Dicts

\* The fold of Keep has a dict after each indicator.
LEMMA KeepRuns ==
  ASSUME NEW seq \in Seq(ReadableObjects)
  PROVE  \E run \in [0 .. Len(seq) -> Dicts] :
           /\ run[0] = Nothing
           /\ \A i \in 1 .. Len(seq) : run[i] = Keep(run[i - 1], seq[i])
           /\ FoldLeft(Keep, Nothing, seq) = run[Len(seq)]
  <1> DEFINE N == Len(seq)
             Equation(g) == g = [s \in SUBSET (1 .. N) |->
                                   IF s = {} THEN Nothing ELSE Keep(g[s \ {Max(s)}], seq[Max(s)])]
             iter == CHOOSE g : Equation(g)
             step == [p \in Dicts \X (1 .. N) |-> Keep(p[1], seq[p[2]])]
  <1>1. N \in Nat /\ DOMAIN seq = 1 .. N /\ \A i \in 1 .. N : seq[i] \in ReadableObjects
    OBVIOUS
  <1>2. step \in [Dicts \X (1 .. N) -> Dicts]
    BY <1>1, KeepIsDict
  <1>3. PICK g : FoldFcn(g, N, Dicts, Nothing, step)
    <2> HIDE DEF step, N
    <2> QED
      BY <1>1, <1>2, NothingIsDict, FoldExists
  <1>4. Equation(iter)
    <2>1. \A s \in SUBSET (1 .. N) : s # {} => g[s] = Keep(g[s \ {Max(s)}], seq[Max(s)])
      BY <1>3 DEF FoldFcn
    <2>2. Equation(g)
      BY <1>3, <2>1 DEF FoldFcn
    <2> HIDE DEF Equation
    <2> QED
      BY <2>2
  <1>5. FoldLeft(Keep, Nothing, seq) = iter[1 .. N]
    BY <1>1 DEF FoldLeft, MapThenFoldSet
  <1> HIDE DEF iter
  <1>6. iter[{}] = Nothing
    BY <1>4
  <1>7. \A s \in SUBSET (1 .. N) : s # {} /\ iter[s \ {Max(s)}] \in Dicts
                                     => iter[s] = step[<<iter[s \ {Max(s)}], Max(s)>>]
    <2> SUFFICES ASSUME NEW s \in SUBSET (1 .. N), s # {}, iter[s \ {Max(s)}] \in Dicts
                 PROVE  iter[s] = step[<<iter[s \ {Max(s)}], Max(s)>>]
      OBVIOUS
    <2>1. Max(s) \in 1 .. N
      BY <1>3 DEF FoldFcn
    <2>2. iter[s] = Keep(iter[s \ {Max(s)}], seq[Max(s)])
      BY <1>4
    <2> QED
      BY <2>1, <2>2
  <1>8. PICK run : FoldRun(run, N, Dicts, Nothing, step, iter[1 .. N])
    <2> HIDE DEF step, N
    <2> QED
      BY <1>1, <1>2, <1>6, <1>7, NothingIsDict, FoldRuns
  <1>9. run \in [0 .. N -> Dicts] /\ run[0] = Nothing
    BY <1>8 DEF FoldRun
  <1>10. \A i \in 1 .. N : run[i] = Keep(run[i - 1], seq[i])
    <2> TAKE i \in 1 .. N
    <2>1. i - 1 \in 0 .. N
      BY <1>1
    <2>2. run[i] = step[<<run[i - 1], i>>] /\ run[i - 1] \in Dicts
      BY <1>8, <2>1 DEF FoldRun
    <2> QED
      BY <2>2
  <1>11. run[N] = FoldLeft(Keep, Nothing, seq)
    BY <1>5, <1>8 DEF FoldRun
  <1> QED
    BY <1>9, <1>10, <1>11

\* seen has the most confident of the first i indicators of each domain.
StrongestOf(seen, seq, i) ==
  /\ DOMAIN seen = {seq[j].domain : j \in 1 .. i}
  /\ \A j \in 1 .. i : seq[j].confidence <= seen[seq[j].domain].confidence
  /\ \A d \in DOMAIN seen : \E j \in 1 .. i :
       /\ seq[j].domain = d
       /\ seen[d] = [category |-> seq[j].category, confidence |-> seq[j].confidence]

\* One more indicator takes the place of a weaker one of its domain only.
LEMMA KeepStrongest ==
  ASSUME NEW seen \in Dicts, NEW seq \in Seq(ReadableObjects), NEW i \in 1 .. Len(seq),
         StrongestOf(seen, seq, i - 1)
  PROVE  StrongestOf(Keep(seen, seq[i]), seq, i)
  <1> DEFINE o == seq[i]
             new == Keep(seen, o)
             entry == [category |-> o.category, confidence |-> o.confidence]
  <1>1. /\ \A j \in 1 .. Len(seq) : seq[j] \in ReadableObjects /\ seq[j].confidence \in Int
        /\ o \in ReadableObjects /\ o.confidence \in Int
    BY ObjectsAssumption DEF ReadableObjects
  <1>2. /\ i \in Nat /\ i \in 1 .. i /\ 1 .. i = (1 .. i - 1) \cup {i}
        /\ \A j \in 1 .. i : j # i => j \in 1 .. i - 1
    OBVIOUS
  <1>3. /\ DOMAIN seen = {seq[j].domain : j \in 1 .. i - 1}
        /\ \A j \in 1 .. i - 1 : seq[j].confidence <= seen[seq[j].domain].confidence
        /\ \A d \in DOMAIN seen : \E j \in 1 .. i - 1 :
             /\ seq[j].domain = d
             /\ seen[d] = [category |-> seq[j].category, confidence |-> seq[j].confidence]
    BY DEF StrongestOf
  <1>4. ASSUME NEW d \in DOMAIN seen
        PROVE  seen[d].confidence \in Int
    <2>1. PICK j \in 1 .. i - 1 :
            seen[d] = [category |-> seq[j].category, confidence |-> seq[j].confidence]
      BY <1>3
    <2>2. j \in 1 .. Len(seq)
      OBVIOUS
    <2> QED
      BY <1>1, <2>1, <2>2
  <1>5. CASE o.domain \in DOMAIN seen /\ o.confidence <= seen[o.domain].confidence
    <2>1. new = seen
      BY <1>5 DEF Keep
    <2>2. DOMAIN seen = {seq[j].domain : j \in 1 .. i}
      BY <1>2, <1>3, <1>5
    <2>3. \A j \in 1 .. i : seq[j].confidence <= seen[seq[j].domain].confidence
      BY <1>2, <1>3, <1>5
    <2> HIDE DEF new
    <2>4. StrongestOf(seen, seq, i)
      BY <1>2, <1>3, <2>2, <2>3 DEF StrongestOf
    <2> QED
      BY <2>1, <2>4 DEF new
  <1>6. CASE ~(o.domain \in DOMAIN seen /\ o.confidence <= seen[o.domain].confidence)
    <2>1. new = [d \in DOMAIN seen \cup {o.domain} |-> IF d = o.domain THEN entry ELSE seen[d]]
      BY <1>6 DEF Keep, Entered
    <2>2. DOMAIN new = {seq[j].domain : j \in 1 .. i}
      BY <1>2, <1>3, <2>1
    <2>3. \A d \in DOMAIN new : new[d] = IF d = o.domain THEN entry ELSE seen[d]
      BY <2>1
    <2> HIDE DEF new
    <2>4. ASSUME NEW j \in 1 .. i
          PROVE  seq[j].confidence <= new[seq[j].domain].confidence
      <3>1. seq[j].domain \in DOMAIN new /\ seq[j].confidence \in Int
        BY <1>1, <2>2
      <3>2. CASE seq[j].domain = o.domain
        <4>1. new[seq[j].domain].confidence = o.confidence
          BY <2>3, <3>1, <3>2
        <4>2. CASE j = i
          BY <1>1, <4>1, <4>2
        <4>3. CASE j # i
          <5>1. j \in 1 .. i - 1
            BY <1>2, <4>3
          <5>2. o.domain \in DOMAIN seen /\ seq[j].confidence <= seen[o.domain].confidence
            BY <1>3, <3>2, <5>1
          <5> HIDE DEF o
          <5> QED
            BY <1>1, <1>4, <1>6, <3>1, <4>1, <5>2
        <4> QED
          BY <4>2, <4>3
      <3>3. CASE seq[j].domain # o.domain
        <4>1. j \in 1 .. i - 1
          BY <1>2, <3>3
        <4> QED
          BY <1>3, <2>3, <3>1, <3>3, <4>1
      <3> QED
        BY <3>2, <3>3
    <2>5. ASSUME NEW d \in DOMAIN new
          PROVE  \E j \in 1 .. i :
                   /\ seq[j].domain = d
                   /\ new[d] = [category |-> seq[j].category, confidence |-> seq[j].confidence]
      <3>1. CASE d = o.domain
        BY <1>2, <2>3, <3>1
      <3>2. CASE d # o.domain
        <4>1. d \in DOMAIN seen /\ new[d] = seen[d]
          BY <2>1, <2>3, <3>2 DEF new
        <4>2. PICK j \in 1 .. i - 1 :
                /\ seq[j].domain = d
                /\ seen[d] = [category |-> seq[j].category, confidence |-> seq[j].confidence]
          BY <1>3, <4>1
        <4>3. j \in 1 .. i
          BY <1>2
        <4> QED
          BY <4>1, <4>2, <4>3
      <3> QED
        BY <3>1, <3>2
    <2>6. StrongestOf(new, seq, i)
      BY <2>2, <2>4, <2>5 DEF StrongestOf
    <2> QED
      BY <2>6 DEF new
  <1> QED
    BY <1>5, <1>6

\* The indicators of a bundle that can be read are parsed to the strongest of each domain.
LEMMA ParsedIsStrongest ==
  ASSUME NEW bundle \in Seq(Objects), ~Escapes(bundle)
  PROVE  /\ ParseStix(bundle) \in Dicts
         /\ Indicators(bundle) \in Seq(Objects)
         /\ Readable(bundle) =>
              StrongestOf(ParseStix(bundle), Indicators(bundle), Len(Indicators(bundle)))
  <1> DEFINE seq == Indicators(bundle)
  <1>1. seq \in Seq(Objects)
    <2>1. {i \in DOMAIN bundle : bundle[i].domain # NoDomain} \in SUBSET DOMAIN bundle
      OBVIOUS
    <2> QED
      BY <2>1, KeptAtProperties DEF Indicators
  <1>2. CASE ~Readable(bundle)
    BY <1>1, <1>2, NothingIsDict DEF ParseStix
  <1>3. CASE Readable(bundle)
    <2>1. seq \in Seq(ReadableObjects)
      <3>1. \A i \in 1 .. Len(seq) : seq[i] \in ToSet(seq)
        BY <1>1 DEF ToSet
      <3>2. \A i \in 1 .. Len(seq) : seq[i].confidence # Unreadable
        BY <1>3, <3>1 DEF Readable
      <3>3. \A i \in 1 .. Len(seq) : seq[i].category # Unmapped
        <4>1. ~\E i \in DOMAIN seq : /\ seq[i].category = Unmapped
                                     /\ \A j \in 1 .. i : seq[j].confidence # Unreadable
          BY DEF Escapes
        <4> HIDE DEF seq
        <4> QED
          BY <1>1, <3>2, <4>1
      <3> HIDE DEF seq
      <3>4. \A i \in 1 .. Len(seq) : seq[i] \in ReadableObjects
        BY <1>1, <3>2, <3>3 DEF ReadableObjects
      <3> QED
        BY <1>1, <3>4
    <2> DEFINE N == Len(seq)
    <2>2. PICK run \in [0 .. N -> Dicts] :
            /\ run[0] = Nothing
            /\ \A i \in 1 .. N : run[i] = Keep(run[i - 1], seq[i])
            /\ FoldLeft(Keep, Nothing, seq) = run[N]
      <3> HIDE DEF seq
      <3> QED
        BY <2>1, KeepRuns
    <2> DEFINE T == {i \in 0 .. N : StrongestOf(run[i], seq, i)}
    <2> HIDE DEF seq
    <2>3. N \in Nat
      BY <2>1
    <2>4. 0 \in T
      <3>1. DOMAIN run[0] = {}
        BY <2>2 DEF Nothing
      <3>2. StrongestOf(run[0], seq, 0)
        BY <3>1 DEF StrongestOf
      <3> QED
        BY <2>3, <3>2
    <2>5. \A i \in 0 .. N - 1 : i \in T => i + 1 \in T
      <3> SUFFICES ASSUME NEW i \in 0 .. N - 1, StrongestOf(run[i], seq, i)
                   PROVE  i + 1 \in 0 .. N /\ StrongestOf(run[i + 1], seq, i + 1)
        OBVIOUS
      <3>1. /\ i + 1 \in 1 .. N /\ i + 1 \in 0 .. N /\ i + 1 - 1 = i /\ i \in 0 .. N
        BY <2>3
      <3>2. run[i] \in Dicts /\ run[i + 1] = Keep(run[i], seq[i + 1])
        BY <2>2, <3>1
      <3>3. StrongestOf(Keep(run[i], seq[i + 1]), seq, i + 1)
        BY <2>1, <3>1, <3>2, KeepStrongest
      <3> QED
        BY <3>1, <3>2, <3>3
    <2>6. 0 .. N \subseteq T
      <3> HIDE DEF T, N
      <3> QED
        BY <2>3, <2>4, <2>5, InductionUpTo
    <2>7. ParseStix(bundle) = run[N]
      BY <1>3, <2>2 DEF ParseStix, seq
    <2> QED
      BY <1>1, <2>2, <2>3, <2>6, <2>7 DEF seq
  <1> QED
    BY <1>2, <1>3

-----------------------------------------------------------------------------
(* What the feeds are merged to *)

MergedEntries == [category : Int, confidence : Int, sources : SUBSET Feeds]
MergedDicts == UNION {[E -> MergedEntries] : E \in SUBSET Domains}

ListedBy(F, d) == {f \in F : d \in DOMAIN found[f]}

\* What is merged when the feeds of F have been.
JoinOf(F) ==
  [d \in UNION {DOMAIN found[f] : f \in F} |->
     [category   |-> Max({found[f][d].category : f \in ListedBy(F, d)}),
      confidence |-> Max({found[f][d].confidence : f \in ListedBy(F, d)}),
      sources    |-> ListedBy(F, d)]]

\* What is found of a domain are numbers.
LEMMA FoundEntries ==
  ASSUME found \in [Feeds -> Dicts], NEW f \in Feeds, NEW d \in DOMAIN found[f]
  PROVE  found[f][d].category \in Int /\ found[f][d].confidence \in Int /\ d \in Domains
         /\ found[f][d] \in Kept
  <1>1. PICK E \in SUBSET Domains : found[f] \in [E -> Kept]
    BY DEF Dicts
  <1>2. found[f][d] \in Kept /\ d \in Domains
    BY <1>1
  <1>3. {o.confidence : o \in Objects} \ {Unreadable} \subseteq Int
    BY ObjectsAssumption
  <1> QED
    BY <1>2, <1>3 DEF Kept

\* A merge of dicts is one.
LEMMA MergeIsDict ==
  ASSUME found \in [Feeds -> Dicts], NEW aggregated \in MergedDicts, NEW f \in Feeds
  PROVE  MergeFeed(aggregated, f) \in MergedDicts
  <1> DEFINE new == MergeFeed(aggregated, f)
             E == DOMAIN aggregated \cup DOMAIN found[f]
  <1>1. /\ DOMAIN aggregated \subseteq Domains
        /\ \A d \in DOMAIN aggregated : aggregated[d] \in MergedEntries
    BY DEF MergedDicts
  <1>2. E \in SUBSET Domains
    BY <1>1, FoundEntries
  <1>3. ASSUME NEW d \in E
        PROVE  new[d] \in MergedEntries
    <2>1. new[d] = IF d \notin DOMAIN found[f] THEN aggregated[d]
                   ELSE IF d \in DOMAIN aggregated THEN MergeEntry(aggregated[d], found[f][d], f)
                   ELSE [category |-> found[f][d].category, confidence |-> found[f][d].confidence,
                         sources |-> {f}]
      BY DEF MergeFeed
    <2>2. CASE d \notin DOMAIN found[f]
      BY <1>1, <2>1, <2>2
    <2>3. CASE d \in DOMAIN found[f] /\ d \notin DOMAIN aggregated
      BY <2>1, <2>3, FoundEntries DEF MergedEntries
    <2>4. CASE d \in DOMAIN found[f] /\ d \in DOMAIN aggregated
      <3> DEFINE a == aggregated[d]
                 l == found[f][d]
      <3>1. a \in MergedEntries /\ l.category \in Int /\ l.confidence \in Int
        BY <1>1, <2>4, FoundEntries
      <3>2. new[d] = MergeEntry(a, l, f)
        BY <2>1, <2>4
      <3> HIDE DEF a, l, new
      <3>3. /\ a.category \in Int /\ a.confidence \in Int /\ a.sources \in SUBSET Feeds
        BY <3>1 DEF MergedEntries
      <3>4. Max({a.confidence, l.confidence}) \in Int
        <4>1. {a.confidence} \in SUBSET Int /\ {a.confidence} # {} /\ IsFiniteSet({a.confidence})
          BY <3>3, FS_Singleton
        <4>2. Max({a.confidence}) = a.confidence
          BY <3>3, <4>1, MaxOfMore
        <4>3. Max({a.confidence} \cup {l.confidence}) \in Int
          BY <3>1, <3>3, <4>1, <4>2, MaxOfMore
        <4>4. {a.confidence, l.confidence} = {a.confidence} \cup {l.confidence}
          OBVIOUS
        <4> QED
          BY <4>3, <4>4
      <3>5. ResolveCategory(a.category, l.category) \in Int
        BY <3>1, <3>3 DEF ResolveCategory
      <3>6. MergeEntry(a, l, f) \in MergedEntries
        BY <3>3, <3>4, <3>5 DEF MergeEntry, MergedEntries
      <3> QED
        BY <3>2, <3>6
    <2> QED
      BY <2>2, <2>3, <2>4
  <1>4. new \in [E -> MergedEntries]
    <2>1. DOMAIN new = E /\ new = [d \in E |-> new[d]]
      BY DEF MergeFeed
    <2> HIDE DEF new, E
    <2> QED
      BY <1>3, <2>1
  <1> QED
    BY <1>2, <1>4 DEF MergedDicts

\* One more feed is merged with the others as if all were at once.
LEMMA MergeJoins ==
  ASSUME found \in [Feeds -> Dicts], NEW F \in SUBSET Feeds, IsFiniteSet(F), NEW f \in Feeds
  PROVE  MergeFeed(JoinOf(F), f) = JoinOf(F \cup {f})
  <1> DEFINE G == F \cup {f}
             old == JoinOf(F)
             entry(d) == [category   |-> Max({found[g][d].category : g \in ListedBy(G, d)}),
                          confidence |-> Max({found[g][d].confidence : g \in ListedBy(G, d)}),
                          sources    |-> ListedBy(G, d)]
  <1>1. DOMAIN old = UNION {DOMAIN found[g] : g \in F}
    BY DEF JoinOf
  <1>2. UNION {DOMAIN found[g] : g \in G} = DOMAIN old \cup DOMAIN found[f]
    BY <1>1
  <1>3. ASSUME NEW d \in DOMAIN old \cup DOMAIN found[f]
        PROVE  MergeFeed(old, f)[d] = entry(d)
    <2> DEFINE L == ListedBy(F, d)
    <2>1. /\ L \in SUBSET Feeds /\ IsFiniteSet(L)
          /\ d \in DOMAIN old <=> L # {}
      <3>1. L \in SUBSET F
        BY DEF ListedBy
      <3>2. IsFiniteSet(L)
        BY <3>1, FS_Subset
      <3>3. d \in DOMAIN old <=> L # {}
        BY <1>1 DEF ListedBy
      <3> QED
        BY <3>1, <3>2, <3>3
    <2>2. ListedBy(G, d) = IF d \in DOMAIN found[f] THEN L \cup {f} ELSE L
      BY DEF ListedBy
    <2>3. d \in DOMAIN old => old[d] = [category   |-> Max({found[g][d].category : g \in L}),
                                        confidence |-> Max({found[g][d].confidence : g \in L}),
                                        sources    |-> L]
      BY <1>1 DEF JoinOf
    <2>4. MergeFeed(old, f)[d] =
            IF d \notin DOMAIN found[f] THEN old[d]
            ELSE IF d \in DOMAIN old THEN MergeEntry(old[d], found[f][d], f)
            ELSE [category |-> found[f][d].category, confidence |-> found[f][d].confidence,
                  sources |-> {f}]
      BY <1>3 DEF MergeFeed
    <2>5. \A g \in L : found[g][d].category \in Int /\ found[g][d].confidence \in Int
      BY <2>1, FoundEntries DEF ListedBy
    <2> DEFINE cats == {found[g][d].category : g \in L}
               confs == {found[g][d].confidence : g \in L}
    <2>6. /\ cats \in SUBSET Int /\ IsFiniteSet(cats)
          /\ confs \in SUBSET Int /\ IsFiniteSet(confs)
          /\ L # {} => cats # {} /\ confs # {}
      <3> DEFINE category == [g \in L |-> found[g][d].category]
                 confidence == [g \in L |-> found[g][d].confidence]
      <3>1. IsFiniteSet({category[g] : g \in L}) /\ IsFiniteSet({confidence[g] : g \in L})
        <4> HIDE DEF L, category, confidence
        <4> QED
          BY <2>1, ImageIsFinite
      <3>2. cats = {category[g] : g \in L} /\ confs = {confidence[g] : g \in L}
        OBVIOUS
      <3>3. cats \in SUBSET Int /\ confs \in SUBSET Int
        BY <2>5
      <3>4. L # {} => cats # {} /\ confs # {}
        OBVIOUS
      <3> HIDE DEF L, cats, confs, category, confidence
      <3> QED
        BY <3>1, <3>2, <3>3, <3>4
    <2>7. CASE d \notin DOMAIN found[f]
      <3>1. d \in DOMAIN old
        BY <1>3, <2>7
      <3> HIDE DEF L, old
      <3> QED
        BY <2>2, <2>3, <2>4, <2>7, <3>1
    <2>8. CASE d \in DOMAIN found[f] /\ d \notin DOMAIN old
      <3> DEFINE c == found[f][d].category
                 p == found[f][d].confidence
      <3>1. L = {} /\ ListedBy(G, d) = {f}
        BY <2>1, <2>2, <2>8
      <3>2. c \in Int /\ p \in Int
        BY <2>8, FoundEntries
      <3>3. Max({c}) = c /\ Max({p}) = p
        <4> HIDE DEF c, p
        <4>1. {c} \in SUBSET Int /\ c \in {c} /\ \A n \in {c} : n <= c
          BY <3>2
        <4>2. {p} \in SUBSET Int /\ p \in {p} /\ \A n \in {p} : n <= p
          BY <3>2
        <4> QED
          BY <4>1, <4>2, MaxProperties
      <3>4. {found[g][d].category : g \in {f}} = {c} /\ {found[g][d].confidence : g \in {f}} = {p}
        OBVIOUS
      <3>5. MergeFeed(old, f)[d] = [category |-> c, confidence |-> p, sources |-> {f}]
        BY <2>4, <2>8
      <3>6. entry(d) = [category |-> Max({c}), confidence |-> Max({p}), sources |-> {f}]
        BY <3>1, <3>4
      <3> HIDE DEF entry, c, p, old
      <3> QED
        BY <3>3, <3>5, <3>6
    <2>9. CASE d \in DOMAIN found[f] /\ d \in DOMAIN old
      <3> DEFINE c == found[f][d].category
                 p == found[f][d].confidence
      <3>1. L # {} /\ ListedBy(G, d) = L \cup {f}
        BY <2>1, <2>2, <2>9
      <3>2. c \in Int /\ p \in Int
        BY <2>9, FoundEntries
      <3>3. /\ {found[g][d].category : g \in L \cup {f}} = cats \cup {c}
            /\ {found[g][d].confidence : g \in L \cup {f}} = confs \cup {p}
        OBVIOUS
      <3>4. MergeFeed(old, f)[d] = MergeEntry(old[d], found[f][d], f)
        BY <2>4, <2>9
      <3>5. MergeEntry(old[d], found[f][d], f) =
              [category |-> IF Max(cats) >= c THEN Max(cats) ELSE c,
               confidence |-> Max({Max(confs), p}), sources |-> L \cup {f}]
        <4>1. /\ old[d].category = Max(cats) /\ old[d].confidence = Max(confs)
              /\ old[d].sources = L
          BY <2>3, <2>9
        <4> HIDE DEF old, cats, confs, L
        <4> QED
          BY <4>1 DEF MergeEntry, ResolveCategory
      <3>6. entry(d) = [category |-> Max(cats \cup {c}), confidence |-> Max(confs \cup {p}),
                        sources |-> L \cup {f}]
        BY <3>1, <3>3
      <3> HIDE DEF entry, c, p, cats, confs, old, L
      <3>7. Max(cats \cup {c}) = IF Max(cats) >= c THEN Max(cats) ELSE c
        <4>1. cats \in SUBSET Int /\ IsFiniteSet(cats) /\ cats # {}
          BY <2>6, <3>1
        <4> QED
          BY <3>2, <4>1, MaxOfMore
      <3>8. Max(confs \cup {p}) = Max({Max(confs), p})
        <4>1. confs \in SUBSET Int /\ IsFiniteSet(confs) /\ confs # {}
          BY <2>6, <3>1
        <4>2. Max(confs \cup {p}) = IF Max(confs) >= p THEN Max(confs) ELSE p
          BY <3>2, <4>1, MaxOfMore
        <4>3. Max({Max(confs), p}) = IF Max(confs) >= p THEN Max(confs) ELSE p
          BY <3>2, <4>1, MaxOfMore
        <4> QED
          BY <4>2, <4>3
      <3> QED
        BY <3>4, <3>5, <3>6, <3>7, <3>8
    <2> QED
      BY <1>3, <2>7, <2>8, <2>9
  <1>4. MergeFeed(old, f) = [d \in DOMAIN old \cup DOMAIN found[f] |-> MergeFeed(old, f)[d]]
    BY DEF MergeFeed
  <1>5. JoinOf(G) = [d \in DOMAIN old \cup DOMAIN found[f] |-> entry(d)]
    <2>1. JoinOf(G) = [d \in UNION {DOMAIN found[g] : g \in G} |-> entry(d)]
      BY DEF JoinOf
    <2> HIDE DEF entry, G, old
    <2> QED
      BY <1>2, <2>1
  <1> HIDE DEF entry, G, old
  <1>6. [d \in DOMAIN old \cup DOMAIN found[f] |-> MergeFeed(old, f)[d]]
          = [d \in DOMAIN old \cup DOMAIN found[f] |-> entry(d)]
    BY <1>3
  <1> QED
    BY <1>4, <1>5, <1>6 DEF old, G

\* The fold of MergeFeed has a dict after each feed.
LEMMA MergeRuns ==
  ASSUME found \in [Feeds -> Dicts]
  PROVE  \E run \in [0 .. Len(FeedOrder) -> MergedDicts] :
           /\ run[0] = Nothing
           /\ \A i \in 1 .. Len(FeedOrder) : run[i] = MergeFeed(run[i - 1], FeedOrder[i])
           /\ FoldLeft(MergeFeed, Nothing, FeedOrder) = run[Len(FeedOrder)]
  <1> DEFINE N == Len(FeedOrder)
             Equation(g) == g = [s \in SUBSET (1 .. N) |->
                                   IF s = {} THEN Nothing
                                   ELSE MergeFeed(g[s \ {Max(s)}], FeedOrder[Max(s)])]
             iter == CHOOSE g : Equation(g)
             step == [p \in MergedDicts \X (1 .. N) |-> MergeFeed(p[1], FeedOrder[p[2]])]
  <1>1. N \in Nat /\ DOMAIN FeedOrder = 1 .. N /\ \A i \in 1 .. N : FeedOrder[i] \in Feeds
    BY TurnsAreFeeds
  <1>2. step \in [MergedDicts \X (1 .. N) -> MergedDicts]
    BY <1>1, MergeIsDict
  <1>3. Nothing \in MergedDicts
    <2>1. Nothing \in [{} -> MergedEntries]
      BY DEF Nothing
    <2> QED
      BY <2>1 DEF MergedDicts
  <1>4. PICK g : FoldFcn(g, N, MergedDicts, Nothing, step)
    <2> HIDE DEF step, N
    <2> QED
      BY <1>1, <1>2, <1>3, FoldExists
  <1>5. Equation(iter)
    <2>1. \A s \in SUBSET (1 .. N) : s # {} => g[s] = MergeFeed(g[s \ {Max(s)}], FeedOrder[Max(s)])
      BY <1>4 DEF FoldFcn
    <2>2. Equation(g)
      BY <1>4, <2>1 DEF FoldFcn
    <2> HIDE DEF Equation
    <2> QED
      BY <2>2
  <1>6. FoldLeft(MergeFeed, Nothing, FeedOrder) = iter[1 .. N]
    BY <1>1 DEF FoldLeft, MapThenFoldSet
  <1> HIDE DEF iter
  <1>7. iter[{}] = Nothing
    BY <1>5
  <1>8. \A s \in SUBSET (1 .. N) : s # {} /\ iter[s \ {Max(s)}] \in MergedDicts
                                     => iter[s] = step[<<iter[s \ {Max(s)}], Max(s)>>]
    <2> SUFFICES ASSUME NEW s \in SUBSET (1 .. N), s # {}, iter[s \ {Max(s)}] \in MergedDicts
                 PROVE  iter[s] = step[<<iter[s \ {Max(s)}], Max(s)>>]
      OBVIOUS
    <2>1. Max(s) \in 1 .. N
      BY <1>4 DEF FoldFcn
    <2>2. iter[s] = MergeFeed(iter[s \ {Max(s)}], FeedOrder[Max(s)])
      BY <1>5
    <2> QED
      BY <2>1, <2>2
  <1>9. PICK run : FoldRun(run, N, MergedDicts, Nothing, step, iter[1 .. N])
    <2> HIDE DEF step, N
    <2> QED
      BY <1>1, <1>2, <1>3, <1>7, <1>8, FoldRuns
  <1>10. run \in [0 .. N -> MergedDicts] /\ run[0] = Nothing
    BY <1>9 DEF FoldRun
  <1>11. \A i \in 1 .. N : run[i] = MergeFeed(run[i - 1], FeedOrder[i])
    <2> TAKE i \in 1 .. N
    <2>1. i - 1 \in 0 .. N
      BY <1>1
    <2>2. run[i] = step[<<run[i - 1], i>>] /\ run[i - 1] \in MergedDicts
      BY <1>9, <2>1 DEF FoldRun
    <2> QED
      BY <2>2
  <1>12. run[N] = FoldLeft(MergeFeed, Nothing, FeedOrder)
    BY <1>6, <1>9 DEF FoldRun
  <1> QED
    BY <1>10, <1>11, <1>12

\* Merged one after the other, the feeds are merged as if all were at once.
LEMMA MergedIsJoin ==
  ASSUME found \in [Feeds -> Dicts]
  PROVE  FoldLeft(MergeFeed, Nothing, FeedOrder) = JoinOf(Feeds)
  <1> DEFINE N == Len(FeedOrder)
             upTo(i) == {FeedOrder[j] : j \in 1 .. i}
  <1>1. N \in Nat /\ DOMAIN FeedOrder = 1 .. N /\ \A i \in 1 .. N : FeedOrder[i] \in Feeds
    BY TurnsAreFeeds
  <1>2. PICK run \in [0 .. N -> MergedDicts] :
          /\ run[0] = Nothing
          /\ \A i \in 1 .. N : run[i] = MergeFeed(run[i - 1], FeedOrder[i])
          /\ FoldLeft(MergeFeed, Nothing, FeedOrder) = run[N]
    BY MergeRuns
  <1> DEFINE T == {i \in 0 .. N : run[i] = JoinOf(upTo(i))}
  <1>3. 0 \in T
    <2>1. upTo(0) = {}
      OBVIOUS
    <2>2. JoinOf({}) = Nothing
      BY DEF JoinOf, Nothing
    <2> HIDE DEF upTo
    <2> QED
      BY <1>1, <1>2, <2>1, <2>2
  <1>4. \A i \in 0 .. N - 1 : i \in T => i + 1 \in T
    <2> SUFFICES ASSUME NEW i \in 0 .. N - 1, run[i] = JoinOf(upTo(i))
                 PROVE  i + 1 \in 0 .. N /\ run[i + 1] = JoinOf(upTo(i + 1))
      OBVIOUS
    <2>1. i + 1 \in 1 .. N /\ i + 1 \in 0 .. N /\ i + 1 - 1 = i
      BY <1>1
    <2>2. run[i + 1] = MergeFeed(run[i], FeedOrder[i + 1])
      BY <1>2, <2>1
    <2>3. upTo(i) \in SUBSET Feeds
      BY <1>1
    <2>4. IsFiniteSet(upTo(i))
      <3>1. IsFiniteSet(1 .. i)
        BY FS_Interval
      <3> QED
        BY <3>1, ImageIsFinite
    <2>5. upTo(i + 1) = upTo(i) \cup {FeedOrder[i + 1]}
      <3>1. 1 .. i + 1 = (1 .. i) \cup {i + 1}
        OBVIOUS
      <3> QED
        BY <3>1
    <2> HIDE DEF upTo
    <2>6. FeedOrder[i + 1] \in Feeds
      BY <1>1, <2>1
    <2> QED
      BY <2>1, <2>2, <2>3, <2>4, <2>5, <2>6, MergeJoins
  <1>5. 0 .. N \subseteq T
    <2> HIDE DEF T, N
    <2> QED
      BY <1>1, <1>3, <1>4, InductionUpTo
  <1>6. upTo(N) = Feeds
    BY <1>1 DEF Feeds
  <1>7. run[N] = JoinOf(upTo(N))
    <2>1. N \in 0 .. N
      BY <1>1
    <2>2. N \in T
      BY <1>5, <2>1
    <2> QED
      BY <2>2
  <1> HIDE DEF upTo
  <1> QED
    BY <1>2, <1>6, <1>7

ResultTypes ==
  /\ stage \in {"idle", "fetch", "parse", "aggregate"}
  /\ start % Limit = 0 /\ Len(objects) >= start
  /\ status \in [Feeds -> {"none", "SUCCESS", "FAILED"}]
  /\ found \in [Feeds -> Dicts]

\* What was merged is what was found, until the next synchronisation.
MergedInv == stage = "idle" => merged = JoinOf(Feeds)

\* A multiple of the page size is one with a page more.
LEMMA NextMultiple ==
  ASSUME NEW m \in Nat, NEW n \in Nat \ {0}, m % n = 0
  PROVE  (m + n) % n = 0
  <1>1. m = n * (m \div n)
    OBVIOUS
  <1>2. m + n = n * ((m \div n) + 1)
    BY <1>1
  <1>3. \A q \in Nat : (n * q) % n = 0
    OBVIOUS
  <1> QED
    BY <1>2, <1>3

\* A poll begins at the first object.
LEMMA FinishTypes ==
  ASSUME ResultTypes, Finish
  PROVE  /\ stage' \in {"fetch", "aggregate"}
         /\ start' % Limit = 0 /\ Len(objects') >= start'
  <1>1. CASE turn = Len(FeedOrder)
    BY <1>1 DEF Finish, ResultTypes
  <1>2. CASE turn # Len(FeedOrder)
    <2>1. stage' = "fetch" /\ start' = 0 /\ objects' = <<>>
      BY <1>2 DEF Finish, BeginPoll
    <2>2. 0 % Limit = 0 /\ Len(<<>>) = 0
      BY FeedsAssumption
    <2> QED
      BY <2>1, <2>2
  <1> QED
    BY <1>1, <1>2

\* Every step keeps the results in their types and the merge what it is.
LEMMA ResultsStep ==
  ASSUME PollTypes, ResultTypes, MergedInv, [PollingNext]_pollingVars
  PROVE  ResultTypes' /\ MergedInv'
  <1>0. Feeds' = Feeds /\ Dicts' = Dicts /\ Polled \in Feeds
    BY TurnsAreFeeds DEF Feeds, Dicts, PollTypes, Polled
  <1>1. ASSUME UNCHANGED found PROVE JoinOf(Feeds)' = JoinOf(Feeds)
    BY <1>1 DEF JoinOf, ListedBy, Feeds
  <1>2. CASE BeginSync
    <2>1. /\ stage' = "fetch" /\ start' = 0 /\ objects' = <<>>
          /\ status' = [f \in Feeds |-> "none"] /\ found' = [f \in Feeds |-> Nothing]
      BY <1>2 DEF BeginSync, BeginPoll
    <2>2. 0 % Limit = 0 /\ Len(<<>>) = 0
      BY FeedsAssumption
    <2> QED
      BY <1>0, <2>1, <2>2, NothingIsDict DEF ResultTypes, MergedInv
  <1>3. CASE FetchPage
    <2>1. /\ stage = "fetch" /\ objects' = objects \o Page(start)
          /\ IF Len(Page(start)) < Limit THEN stage' = "parse" /\ start' = start
             ELSE start' = start + Limit /\ stage' = stage
          /\ UNCHANGED <<status, found, merged>>
      BY <1>3 DEF FetchPage
    <2>2. /\ objects \in Seq(Objects) /\ start \in Nat /\ Limit \in Nat \ {0}
          /\ collection[Polled] \in Seq(Objects)
      BY <1>0, FeedsAssumption DEF PollTypes
    <2>3. Page(start) \in Seq(Objects)
      BY <2>2, PageProperties DEF Page
    <2>4. Len(objects') = Len(objects) + Len(Page(start)) /\ Len(objects) >= start
      BY <2>1, <2>2, <2>3, ConcatProperties DEF ResultTypes
    <2>5. Len(objects') >= start'
      <3>1. Len(objects) \in Nat /\ Len(Page(start)) \in Nat
        BY <2>2, <2>3
      <3> HIDE DEF Page
      <3> QED
        BY <2>1, <2>2, <2>4, <3>1
    <2>6. start' % Limit = 0
      BY <2>1, <2>2, NextMultiple DEF ResultTypes
    <2>7. stage' \in {"fetch", "parse"}
      BY <2>1
    <2> QED
      BY <1>0, <2>1, <2>5, <2>6, <2>7 DEF ResultTypes, MergedInv
  <1>4. CASE FetchFails \/ ParseFails
    <2>1. Finish /\ status' = [status EXCEPT ![Polled] = "FAILED"] /\ found' = found
      BY <1>4 DEF FetchFails, ParseFails
    <2> QED
      BY <1>0, <2>1, FinishTypes DEF ResultTypes, MergedInv
  <1>5. CASE Parse
    <2>1. /\ Finish /\ status' = [status EXCEPT ![Polled] = "SUCCESS"]
          /\ found' = [found EXCEPT ![Polled] = ParseStix(objects)] /\ ~Escapes(objects)
      BY <1>5 DEF Parse
    <2>2. ParseStix(objects) \in Dicts
      BY <2>1, ParsedIsStrongest DEF PollTypes
    <2> QED
      BY <1>0, <2>1, <2>2, FinishTypes DEF ResultTypes, MergedInv
  <1>6. CASE Aggregate
    <2>1. /\ merged' = FoldLeft(MergeFeed, Nothing, FeedOrder)
          /\ stage' = "idle" /\ start' = 0 /\ objects' = <<>>
          /\ UNCHANGED <<status, found>>
      BY <1>6 DEF Aggregate
    <2>2. 0 % Limit = 0 /\ Len(<<>>) = 0
      BY FeedsAssumption
    <2>3. merged' = JoinOf(Feeds)
      BY <2>1, MergedIsJoin DEF ResultTypes
    <2> QED
      BY <1>0, <1>1, <2>1, <2>2, <2>3 DEF ResultTypes, MergedInv
  <1>7. ASSUME NEW f \in Feeds, Publish(f) \/ Withdraw(f)
        PROVE  ResultTypes' /\ MergedInv'
    <2>1. UNCHANGED <<stage, start, objects, status, found, merged>>
      BY <1>7 DEF Publish, Withdraw, poll
    <2> QED
      BY <1>0, <1>1, <2>1 DEF ResultTypes, MergedInv
  <1>8. CASE UNCHANGED pollingVars
    <2>1. UNCHANGED <<stage, start, objects, status, found, merged>>
      BY <1>8 DEF pollingVars, poll
    <2> QED
      BY <1>0, <1>1, <2>1 DEF ResultTypes, MergedInv
  <1> QED
    BY <1>2, <1>3, <1>4, <1>5, <1>6, <1>7, <1>8, Zenon DEF PollingNext

\* The results are of their types, and merged when the synchronisation is over.
LEMMA ResultsHold == PollingSpec => [](PollTypes /\ ResultTypes /\ MergedInv)
  <1>1. PollingInit => ResultTypes /\ MergedInv
    <2> SUFFICES ASSUME PollingInit PROVE ResultTypes /\ MergedInv
      OBVIOUS
    <2>1. 0 % Limit = 0 /\ Len(<<>>) = 0
      BY FeedsAssumption
    <2>2. found = [f \in Feeds |-> Nothing] /\ merged = Nothing
      BY DEF PollingInit
    <2>3. JoinOf(Feeds) = Nothing
      <3>1. UNION {DOMAIN found[f] : f \in Feeds} = {}
        BY <2>2 DEF Nothing
      <3> QED
        BY <3>1 DEF JoinOf, Nothing
    <2>4. found \in [Feeds -> Dicts]
      BY <2>2, NothingIsDict
    <2> QED
      BY <2>1, <2>2, <2>3, <2>4 DEF PollingInit, ResultTypes, MergedInv
  <1> QED
    BY <1>1, PagesInvHolds, ResultsStep, PTL DEF PollingSpec

\* Whatever the order of the feeds and however often one repeats a domain, what is
\* merged of it is its strongest confidence, its most severe category and all the
\* feeds that list it; and every variable keeps its type.
THEOREM MergeIsOrderless == PollingSpec => []MergeIsJoin
  <1>1. PollTypes /\ ResultTypes /\ MergedInv => MergeIsJoin
    <2> SUFFICES ASSUME PollTypes, ResultTypes, MergedInv PROVE MergeIsJoin
      OBVIOUS
    <2>1. \A f \in Feeds : \A d \in DOMAIN found[f] : found[f][d] \in Kept
      BY FoundEntries DEF ResultTypes
    <2>2. FeedTypeOK
      BY <2>1 DEF FeedTypeOK, PollTypes, ResultTypes
    <2>3. \A d : ListedBy(Feeds, d) = {f \in Feeds : d \in DOMAIN found[f]}
      BY DEF ListedBy
    <2> QED
      BY <2>2, <2>3 DEF MergeIsJoin, MergedInv, JoinOf
  <1> QED
    BY <1>1, ResultsHold, PTL

\* A poll that succeeds is worth the strongest indicator of every domain of its
\* bundle, however many it has and in whatever order, or nothing if one of them
\* cannot be read.
THEOREM PollsAreAllOrNothing == PollingSpec => ParsedAllOrNothing
  <1> DEFINE listed == ToSet(Indicators(objects))
             result == found'[Polled]
             whole ==
               /\ DOMAIN result = {o.domain : o \in listed}
               /\ \A o \in listed : o.confidence <= result[o.domain].confidence
               /\ \A d \in DOMAIN result : \E o \in listed :
                    /\ o.domain = d
                    /\ result[d] = [category |-> o.category, confidence |-> o.confidence]
  <1>1. ASSUME PollTypes, ResultTypes, [PollingNext]_pollingVars,
               status[Polled] = "none", status'[Polled] = "SUCCESS"
        PROVE  whole \/ (result = Nothing /\ ~Readable(objects))
    <2>0. Polled \in Feeds /\ status \in [Feeds -> {"none", "SUCCESS", "FAILED"}]
          /\ found \in [Feeds -> Dicts] /\ objects \in Seq(Objects)
      BY <1>1, TurnsAreFeeds DEF PollTypes, ResultTypes, Polled
    <2>1. Parse
      <3>1. CASE BeginSync
        BY <1>1, <2>0, <3>1 DEF BeginSync
      <3>2. CASE FetchFails \/ ParseFails
        BY <1>1, <2>0, <3>2 DEF FetchFails, ParseFails
      <3>3. CASE UNCHANGED status
        BY <1>1, <3>3
      <3> QED
        BY <1>1, <3>1, <3>2, <3>3
           DEF PollingNext, FetchPage, Aggregate, Publish, Withdraw, pollingVars
    <2>2. result = ParseStix(objects) /\ ~Escapes(objects)
      BY <2>0, <2>1 DEF Parse
    <2>3. CASE ~Readable(objects)
      BY <2>2, <2>3 DEF ParseStix
    <2>4. CASE Readable(objects)
      <3> DEFINE seq == Indicators(objects)
      <3>1. seq \in Seq(Objects) /\ StrongestOf(result, seq, Len(seq))
        BY <2>0, <2>2, <2>4, ParsedIsStrongest
      <3>2. listed = {seq[j] : j \in 1 .. Len(seq)}
        BY <3>1 DEF ToSet
      <3> HIDE DEF seq, listed, result
      <3>3. DOMAIN result = {o.domain : o \in listed}
        BY <3>1, <3>2 DEF StrongestOf
      <3>4. \A o \in listed : o.confidence <= result[o.domain].confidence
        BY <3>1, <3>2 DEF StrongestOf
      <3>5. ASSUME NEW d \in DOMAIN result
            PROVE  \E o \in listed :
                     /\ o.domain = d
                     /\ result[d] = [category |-> o.category, confidence |-> o.confidence]
        <4>1. PICK j \in 1 .. Len(seq) :
                /\ seq[j].domain = d
                /\ result[d] = [category |-> seq[j].category, confidence |-> seq[j].confidence]
          BY <3>1 DEF StrongestOf
        <4>2. seq[j] \in listed
          BY <3>2
        <4> QED
          BY <4>1, <4>2
      <3> QED
        BY <3>3, <3>4, <3>5
    <2> QED
      BY <2>3, <2>4
  <1>2. PollTypes /\ ResultTypes /\ [PollingNext]_pollingVars
          => [status[Polled] = "none" /\ status'[Polled] = "SUCCESS" =>
                whole \/ (result = Nothing /\ ~Readable(objects))]_pollingVars
    BY <1>1
  <1> QED
    BY <1>2, ResultsHold, PTL DEF PollingSpec, ParsedAllOrNothing
=============================================================================
