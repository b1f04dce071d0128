---------------------------- MODULE ConsoleProofs ----------------------------
(***************************************************************************)
(* The agreement properties of the two consoles, of DNSentinel and of      *)
(* EliteCore, for every set of rows, captures, parameters and clients and  *)
(* any number of requests under way.  Most of them say that what a         *)
(* component shows at rest is what the back end answered last; the         *)
(* invariant behind each says what is on its way when it does not yet.     *)
(***************************************************************************)
EXTENDS Consoles, LiveFeed, SequenceLemmas

-----------------------------------------------------------------------------
(* Bags of requests *)

LEMMA BagPlusOne ==
  ASSUME NEW B, IsABag(B), NEW x
  PROVE  IsABag(B (+) SetToBag({x})) /\ DOMAIN (B (+) SetToBag({x})) = DOMAIN B \cup {x}
  BY DEF IsABag, (+), SetToBag

\* One copy less takes nothing else out of a bag.
LEMMA BagMinusOne ==
  ASSUME NEW B, IsABag(B), NEW x
  PROVE  /\ IsABag(B (-) SetToBag({x}))
         /\ DOMAIN (B (-) SetToBag({x})) \subseteq DOMAIN B
         /\ DOMAIN B \ {x} \subseteq DOMAIN (B (-) SetToBag({x}))
  BY DEF IsABag, (-), SetToBag

-----------------------------------------------------------------------------
(* The stream: the badge *)

\* Whichever chain wrote the badge last, it is on while every socket is open.
BadgeInv ==
    /\ chain \in [Effects -> ChainStates]
    /\ (\A e \in Effects : chain[e] = "open") => wsConnected

\* Every event of a socket sets the badge by its own chain.
LEMMA BadgeInvHolds == LiveSpec => []BadgeInv
  <1>1. LiveInit => BadgeInv
    <2>1. Mounts \in Effects
      BY LiveFeedAssumption DEF Effects
    <2> QED
      BY <2>1 DEF LiveInit, BadgeInv, ChainStates
  <1>2. BadgeInv /\ [LiveNext]_liveVars => BadgeInv'
    <2> SUFFICES ASSUME BadgeInv, [LiveNext]_liveVars PROVE BadgeInv'
      OBVIOUS
    <2>1. CASE UNCHANGED <<chain, wsConnected>>
      BY <2>1 DEF BadgeInv
    <2>2. ASSUME NEW e \in Effects,
                 SocketOpens(e) \/ SocketFails(e) \/ SocketCloses(e) \/ Reconnect(e)
          PROVE  BadgeInv'
      BY <2>2 DEF SocketOpens, SocketFails, SocketCloses, Reconnect, BadgeInv, ChainStates
    <2>3. (\E e \in Effects : OnMessage(e)) \/ (\E d \in Decisions : LogDecision(d))
            \/ (\E n \in unsent : Broadcast(n)) \/ (\E limit \in Limits : SetTableLimit(limit))
            \/ ManualRefresh
            \/ (\E samples, limit : ReportMerged(samples, limit))
            \/ (\E r \in BagToSet(requests) :
                  QueriesRead(r) \/ QueriesAnswered(r) \/ RequestFails(r))
            \/ UNCHANGED liveVars
          => UNCHANGED <<chain, wsConnected>>
      BY Zenon DEF OnMessage, LogDecision, Broadcast, SetTableLimit, ManualRefresh, ReportMerged,
         QueriesRead, QueriesAnswered, RequestFails, liveVars
    <2> QED
      BY <2>1, <2>2, <2>3, Zenon DEF LiveNext
  <1> QED
    BY <1>1, <1>2, PTL DEF LiveSpec

\* No chain dies, and none that goes down leaves the badge off beside open sockets.
THEOREM BadgeIsTrueAtRest == LiveSpec => []BadgeTrueAtRest
  <1>1. BadgeInv => BadgeTrueAtRest
    <2>1. 1 \in Effects
      BY LiveFeedAssumption DEF Effects
    <2> QED
      BY <2>1 DEF BadgeInv, BadgeTrueAtRest, ChainStates
  <1> QED
    BY <1>1, BadgeInvHolds, PTL

-----------------------------------------------------------------------------
(* The stream: the list *)

\* Frames and requests are of what the log has had.
LogInv ==
    /\ log \in Seq(Decisions) /\ shown \in 0 .. Len(log) /\ disturbed \in BOOLEAN
    /\ second \in Seq(Nat) /\ Len(second) = Len(log) /\ unsent \subseteq 1 .. Len(log)
    /\ frames \in [Effects -> Seq(Nat)]
    /\ \A e \in Effects : \A i \in DOMAIN frames[e] : frames[e][i] <= Len(log)
    /\ IsABag(requests) /\ tableLimit \in Limits
    /\ \A r \in BagToSet(requests) :
         r \in [limit : Limits, step : {"asked", "read"}, stamp : 0 .. Len(log)]

\* A request that will put the list right: what the back end has read for it, or
\* will read, is no older than what the list was given.
Refreshing(r) == r.step = "asked" \/ r.stamp >= shown

\* Unless an answer was lost or overtaken, a list that is not the back end's is
\* going to be put right.
ListInv ==
    ~disturbed /\ shown > 0 =>
        \/ \E limit \in Limits : queries \in RecentRows(limit, shown)
        \/ \E r \in BagToSet(requests) : Refreshing(r)

\* What refreshing adds to the requests.
LEMMA SentProperties ==
  ASSUME LogInv, NEW limit \in Limits
  PROVE  /\ IsABag(Sent(limit))
         /\ DOMAIN Sent(limit) = DOMAIN requests \cup {NewRequest(limit)}
         /\ NewRequest(limit) \in [limit : Limits, step : {"asked", "read"}, stamp : 0 .. Len(log)]
         /\ NewRequest(limit).step = "asked"
  <1>1. Len(log) \in Nat
    BY DEF LogInv
  <1>2. /\ NewRequest(limit) \in [limit : Limits, step : {"asked", "read"}, stamp : 0 .. Len(log)]
        /\ NewRequest(limit).step = "asked"
    BY <1>1 DEF NewRequest
  <1>3. IsABag(requests)
    BY DEF LogInv
  <1> QED
    BY <1>2, <1>3, BagPlusOne DEF Sent

\* A refresh is sent, whatever the list has become.
LEMMA RefreshSent ==
  ASSUME LogInv, NEW limit \in Limits, requests' = Sent(limit), UNCHANGED <<backVars, disturbed>>,
         shown' \in 0 .. Len(log), tableLimit' \in Limits,
         frames' \in [Effects -> Seq(Nat)],
         \A e \in Effects : \A i \in DOMAIN frames'[e] : frames'[e][i] <= Len(log)
  PROVE  LogInv' /\ ListInv'
  <1>1. BagToSet(requests)' = BagToSet(requests) \cup {NewRequest(limit)} /\ IsABag(requests')
    BY SentProperties DEF BagToSet
  <1>2. NewRequest(limit).step = "asked" /\ NewRequest(limit) \in BagToSet(requests)'
    BY <1>1, SentProperties
  <1>3. ListInv'
    BY <1>2 DEF ListInv, Refreshing
  <1>4. \A r \in BagToSet(requests)' :
          r \in [limit : Limits, step : {"asked", "read"}, stamp : 0 .. Len(log)]
    BY <1>1, SentProperties DEF LogInv
  <1>5. LogInv'
    BY <1>1, <1>4 DEF LogInv, IsABag, backVars
  <1> QED
    BY <1>3, <1>5

\* What the back end held then does not change with what it logs later.
LEMMA RecentRowsStay ==
  ASSUME LogInv, NEW d \in Decisions, NEW t \in Nat, log' = Append(log, d),
         second' = Append(second, t), UNCHANGED shown, NEW limit
  PROVE  RecentRows(limit, shown)' = RecentRows(limit, shown)
  <1>1. Len(log) \in Nat /\ Len(second) = Len(log) /\ shown \in Nat /\ shown <= Len(log)
    BY DEF LogInv
  <1>2. SubSeq(log', 1, shown) = SubSeq(log, 1, shown)
    BY <1>1 DEF LogInv
  <1>3. SubSeq(second', 1, shown) = SubSeq(second, 1, shown)
    BY <1>1 DEF LogInv
  <1> QED
    BY <1>2, <1>3 DEF RecentRows

\* A decision is logged in the second of the one before it or in the next.
LEMMA SecondsGrow ==
  ASSUME LogInv, NEW d \in Decisions, LogDecision(d)
  PROVE  \E t \in Nat : second' = Append(second, t)
  <1>1. second \in Seq(Nat)
    BY DEF LogInv
  <1>2. CASE second = <<>>
    <2>1. second' = <<0>>
      BY <1>2 DEF LogDecision
    <2>2. <<0>> = Append(<<>>, 0) /\ 0 \in Nat
      OBVIOUS
    <2> QED
      BY <1>2, <2>1, <2>2
  <1>3. CASE second # <<>>
    <2>1. PICK later \in {0, 1} : second' = Append(second, Last(second) + later)
      BY <1>3 DEF LogDecision
    <2>2. Last(second) \in Nat
      BY <1>1, <1>3 DEF Last
    <2>3. Last(second) + later \in Nat
      BY <2>2
    <2> QED
      BY <2>1, <2>3
  <1> QED
    BY <1>2, <1>3

\* What is logged leaves the list as it was, and a frame still to be broadcast.
LEMMA LogDecisionStep ==
  ASSUME LogInv, ListInv, NEW d \in Decisions, LogDecision(d)
  PROVE  LogInv' /\ ListInv'
  <1>1. /\ log' = Append(log, d) /\ log' \in Seq(Decisions) /\ Len(log') = Len(log) + 1
        /\ Len(log) \in Nat /\ unsent' = unsent \cup {Len(log')}
        /\ UNCHANGED <<frames, queries, requests, tableLimit, shown, disturbed>>
    BY DEF LogDecision, LogInv
  <1>2. PICK t \in Nat : second' = Append(second, t)
    BY SecondsGrow
  <1>3. \A limit : RecentRows(limit, shown)' = RecentRows(limit, shown)
    BY <1>1, <1>2, RecentRowsStay
  <1>4. ListInv'
    BY <1>1, <1>3 DEF ListInv, Refreshing, BagToSet
  <1>5. second' \in Seq(Nat) /\ Len(second') = Len(log')
    BY <1>1, <1>2 DEF LogInv
  <1>6. unsent' \subseteq 1 .. Len(log')
    <2>1. unsent \subseteq 1 .. Len(log)
      BY DEF LogInv
    <2>2. \A n \in Nat : 1 .. n \subseteq 1 .. n + 1 /\ n + 1 \in 1 .. n + 1
      OBVIOUS
    <2> QED
      BY <1>1, <2>1, <2>2, Zenon
  <1>7. \A e \in Effects : \A i \in DOMAIN frames'[e] : frames'[e][i] <= Len(log')
    <2>1. \A e \in Effects : /\ frames[e] \in Seq(Nat)
                             /\ \A i \in DOMAIN frames[e] : frames[e][i] <= Len(log)
      BY DEF LogInv
    <2>2. \A e \in Effects : \A i \in DOMAIN frames[e] : frames[e][i] \in Nat
      BY <2>1
    <2> QED
      BY <1>1, <2>1, <2>2
  <1>8. \A r \in BagToSet(requests)' :
          r \in [limit : Limits, step : {"asked", "read"}, stamp : 0 .. Len(log')]
    <2>1. \A r \in BagToSet(requests) :
            r \in [limit : Limits, step : {"asked", "read"}, stamp : 0 .. Len(log)]
      BY DEF LogInv
    <2>2. BagToSet(requests)' = BagToSet(requests)
      BY <1>1 DEF BagToSet
    <2> QED
      BY <1>1, <2>1, <2>2
  <1>9. LogInv'
    <2>1. shown' \in 0 .. Len(log')
      BY <1>1 DEF LogInv
    <2>2. /\ frames' \in [Effects -> Seq(Nat)] /\ IsABag(requests') /\ tableLimit' \in Limits
          /\ disturbed' \in BOOLEAN
      BY <1>1 DEF LogInv
    <2> QED
      BY <1>1, <1>5, <1>6, <1>7, <1>8, <2>1, <2>2 DEF LogInv
  <1> QED
    BY <1>4, <1>9

\* A broadcast is a frame to come and leaves the list as it was.
LEMMA BroadcastStep ==
  ASSUME LogInv, ListInv, NEW n \in unsent, Broadcast(n)
  PROVE  LogInv' /\ ListInv'
  <1>1. /\ unsent' = unsent \ {n} /\ n \in Nat /\ n <= Len(log)
        /\ UNCHANGED <<log, second, queries, requests, tableLimit, shown, disturbed>>
    BY DEF Broadcast, LogInv
  <1>2. \A limit : RecentRows(limit, shown)' = RecentRows(limit, shown)
    BY <1>1 DEF RecentRows
  <1>3. ListInv'
    BY <1>1, <1>2 DEF ListInv, Refreshing, BagToSet
  <1>4. \A e \in Effects : /\ frames'[e] \in Seq(Nat)
                           /\ \A i \in DOMAIN frames'[e] : frames'[e][i] <= Len(log)
    <2> SUFFICES ASSUME NEW e \in Effects
                 PROVE  /\ frames'[e] \in Seq(Nat)
                        /\ \A i \in DOMAIN frames'[e] : frames'[e][i] <= Len(log)
      OBVIOUS
    <2>1. frames[e] \in Seq(Nat) /\ \A i \in DOMAIN frames[e] : frames[e][i] <= Len(log)
      BY DEF LogInv
    <2>2. frames'[e] = frames[e] \/ frames'[e] = Append(frames[e], n)
      BY DEF Broadcast
    <2>3. CASE frames'[e] = frames[e]
      BY <2>1, <2>3
    <2>4. CASE frames'[e] = Append(frames[e], n)
      <3> DEFINE f == frames[e]
                 N == Len(log)
      <3>1. f \in Seq(Nat) /\ \A i \in DOMAIN f : f[i] <= N
        BY <2>1
      <3> HIDE DEF f, N
      <3>2. n \in Nat /\ n <= N
        BY <1>1 DEF N
      <3>3. Append(f, n) \in Seq(Nat) /\ \A i \in DOMAIN Append(f, n) : Append(f, n)[i] <= N
        BY <3>1, <3>2
      <3> QED
        BY <2>4, <3>3 DEF f, N
    <2> QED
      BY <2>2, <2>3, <2>4
  <1>5. frames' \in [Effects -> Seq(Nat)]
    <2>1. frames' = [e \in Effects |-> frames'[e]]
      BY DEF Broadcast
    <2> QED
      BY <1>4, <2>1
  <1>6. LogInv'
    BY <1>1, <1>4, <1>5 DEF LogInv, IsABag, BagToSet
  <1> QED
    BY <1>3, <1>6

\* A frame changes the list and asks for it again.
LEMMA OnMessageStep ==
  ASSUME LogInv, NEW e \in Effects, OnMessage(e)
  PROVE  LogInv' /\ ListInv'
  <1>1. /\ frames[e] \in Seq(Nat) /\ frames[e] # <<>> /\ Len(log) \in Nat
        /\ \A i \in DOMAIN frames[e] : frames[e][i] <= Len(log)
    BY DEF LogInv, OnMessage
  <1>2. Head(frames[e]) \in Nat /\ Head(frames[e]) <= Len(log) /\ Tail(frames[e]) \in Seq(Nat)
    BY <1>1
  <1>3. \A i \in DOMAIN Tail(frames[e]) : Tail(frames[e])[i] <= Len(log)
    BY <1>1
  <1>4. frames' = [frames EXCEPT ![e] = Tail(frames[e])]
    BY DEF OnMessage
  <1>5. /\ frames' \in [Effects -> Seq(Nat)]
        /\ \A x \in Effects : \A i \in DOMAIN frames'[x] : frames'[x][i] <= Len(log)
    BY <1>2, <1>3, <1>4 DEF LogInv
  <1>6. shown' \in 0 .. Len(log)
    BY <1>1, <1>2 DEF OnMessage, LogInv
  <1>7. tableLimit' \in Limits /\ DefaultLimit \in Limits
    BY LiveFeedAssumption DEF OnMessage, LogInv
  <1> QED
    BY <1>5, <1>6, <1>7, RefreshSent DEF OnMessage

\* The back end reads what it has by now.
LEMMA QueriesReadStep ==
  ASSUME LogInv, ListInv, NEW r \in BagToSet(requests), QueriesRead(r)
  PROVE  LogInv' /\ ListInv'
  <1> DEFINE s == [r EXCEPT !.step = "read", !.stamp = Len(log)]
  <1>1. /\ r \in [limit : Limits, step : {"asked", "read"}, stamp : 0 .. Len(log)]
        /\ Len(log) \in Nat /\ shown \in Nat /\ shown <= Len(log) /\ IsABag(requests)
    BY DEF LogInv
  <1>2. /\ s \in [limit : Limits, step : {"asked", "read"}, stamp : 0 .. Len(log)]
        /\ s.stamp = Len(log)
    <2> DEFINE n == Len(log)
               R == [limit : Limits, step : {"asked", "read"}, stamp : 0 .. n]
    <2>1. n \in 0 .. n
      BY <1>1
    <2>2. r \in R
      BY <1>1
    <2> HIDE DEF n
    <2>3. [r EXCEPT !.step = "read", !.stamp = n] \in R
      BY <2>1, <2>2
    <2>4. [r EXCEPT !.step = "read", !.stamp = n].stamp = n
      BY <2>2
    <2> QED
      BY <2>3, <2>4 DEF n
  <1>3. /\ requests' = (requests (-) SetToBag({r})) (+) SetToBag({s})
        /\ UNCHANGED <<frames, backVars, queries, tableLimit, shown, disturbed>>
    BY DEF QueriesRead, Advanced, Without
  <1> HIDE DEF s
  <1>4. /\ IsABag(requests')
        /\ s \in DOMAIN requests' /\ DOMAIN requests' \subseteq DOMAIN requests \cup {s}
    <2> DEFINE B == requests (-) SetToBag({r})
    <2>1. IsABag(B) /\ DOMAIN B \subseteq DOMAIN requests
      BY <1>1, BagMinusOne
    <2>2. requests' = B (+) SetToBag({s})
      BY <1>3
    <2> HIDE DEF B
    <2>3. IsABag(B (+) SetToBag({s})) /\ DOMAIN (B (+) SetToBag({s})) = DOMAIN B \cup {s}
      BY <2>1, BagPlusOne
    <2> QED
      BY <2>1, <2>2, <2>3
  <1>5. ListInv'
    BY <1>1, <1>2, <1>3, <1>4 DEF ListInv, Refreshing, BagToSet, backVars
  <1>6. \A x \in BagToSet(requests)' :
          x \in [limit : Limits, step : {"asked", "read"}, stamp : 0 .. Len(log)]
    BY <1>2, <1>4 DEF LogInv, BagToSet
  <1>7. LogInv'
    BY <1>3, <1>4, <1>6 DEF LogInv, IsABag, backVars
  <1> QED
    BY <1>5, <1>7

\* An answer is taken over, or an older one is noticed, or an empty one changes
\* nothing and was not going to.
LEMMA QueriesAnsweredStep ==
  ASSUME LogInv, ListInv, NEW r \in BagToSet(requests), QueriesAnswered(r)
  PROVE  LogInv' /\ ListInv'
  <1>1. /\ r.limit \in Limits /\ r.step \in {"asked", "read"} /\ r.stamp \in Nat
        /\ r.stamp <= Len(log)
        /\ Len(log) \in Nat /\ shown \in Nat /\ shown <= Len(log) /\ IsABag(requests)
    BY DEF LogInv
  <1>2. /\ requests' = requests (-) SetToBag({r}) /\ r.step = "read"
        /\ UNCHANGED <<frames, log, second, unsent, tableLimit>>
        /\ shown' = IF r.stamp > shown THEN r.stamp ELSE shown
    BY DEF QueriesAnswered, Without, backVars
  <1>3. /\ IsABag(requests') /\ DOMAIN requests' \subseteq DOMAIN requests
        /\ DOMAIN requests \ {r} \subseteq DOMAIN requests'
    BY <1>1, <1>2, BagMinusOne
  <1>4. ListInv'
    <2>1. CASE r.stamp = 0
      <3>1. UNCHANGED <<queries, shown, disturbed>>
        BY <1>1, <1>2, <2>1 DEF QueriesAnswered
      <3>2. shown > 0 => ~Refreshing(r)
        BY <1>1, <1>2, <2>1 DEF Refreshing
      <3>3. \A limit : RecentRows(limit, shown)' = RecentRows(limit, shown)
        BY <1>2, <3>1 DEF RecentRows
      <3> QED
        BY <1>1, <1>3, <3>1, <3>2, <3>3 DEF ListInv, Refreshing, BagToSet
    <2>2. CASE r.stamp # 0 /\ r.stamp < shown
      <3>1. disturbed'
        BY <2>2 DEF QueriesAnswered
      <3> QED
        BY <3>1 DEF ListInv
    <2>3. CASE r.stamp # 0 /\ ~(r.stamp < shown)
      <3>1. shown' = r.stamp /\ queries' \in RecentRows(r.limit, r.stamp)
        BY <1>1, <1>2, <2>3 DEF QueriesAnswered
      <3>2. RecentRows(r.limit, shown)' = RecentRows(r.limit, r.stamp)
        BY <1>2, <3>1 DEF RecentRows
      <3>3. queries' \in RecentRows(r.limit, shown)'
        BY <3>1, <3>2
      <3> QED
        BY <1>1, <3>3 DEF ListInv
    <2> QED
      BY <2>1, <2>2, <2>3
  <1>5. shown' \in 0 .. Len(log') /\ disturbed' \in BOOLEAN
    <2>1. shown' \in 0 .. Len(log')
      BY <1>1, <1>2
    <2>2. disturbed' = disturbed \/ disturbed' = (r.stamp < shown)
      BY DEF QueriesAnswered
    <2>3. disturbed \in BOOLEAN /\ (r.stamp < shown) \in BOOLEAN
      BY DEF LogInv
    <2> QED
      BY <2>1, <2>2, <2>3
  <1>6. LogInv'
    BY <1>2, <1>3, <1>5 DEF LogInv, IsABag, BagToSet
  <1> QED
    BY <1>4, <1>6

\* A refresh that fails is a disturbance.
LEMMA RequestFailsStep ==
  ASSUME LogInv, NEW r \in BagToSet(requests), RequestFails(r)
  PROVE  LogInv' /\ ListInv'
  <1>1. /\ requests' = requests (-) SetToBag({r}) /\ disturbed' = TRUE
        /\ UNCHANGED <<frames, log, second, unsent, tableLimit, shown>> /\ IsABag(requests)
    BY DEF RequestFails, Without, LogInv, backVars
  <1>2. IsABag(requests') /\ DOMAIN requests' \subseteq DOMAIN requests
    BY <1>1, BagMinusOne
  <1> QED
    BY <1>1, <1>2 DEF LogInv, ListInv, IsABag, BagToSet

\* A connection goes up or down; with it go its frames.
LEMMA SocketStep ==
  ASSUME LogInv, ListInv, NEW e \in Effects,
         UNCHANGED frames \/ frames' = [frames EXCEPT ![e] = <<>>],
         UNCHANGED <<backVars, queries, requests, tableLimit, shown, disturbed>>
  PROVE  LogInv' /\ ListInv'
  <1>1. \A limit : RecentRows(limit, shown)' = RecentRows(limit, shown)
    BY DEF RecentRows, backVars
  <1>2. ListInv'
    BY <1>1 DEF ListInv, Refreshing, BagToSet
  <1>3. <<>> \in Seq(Nat) /\ DOMAIN <<>> = {}
    OBVIOUS
  <1>4. /\ frames' \in [Effects -> Seq(Nat)]
        /\ \A x \in Effects : \A i \in DOMAIN frames'[x] : frames'[x][i] <= Len(log)
    BY <1>3 DEF LogInv
  <1>5. LogInv'
    BY <1>4 DEF LogInv, IsABag, BagToSet, backVars
  <1> QED
    BY <1>2, <1>5

\* What an undisturbed list does not agree with, one of the refreshes will put right.
LEMMA ListInvHolds == LiveSpec => [](LogInv /\ ListInv)
  <1>1. LiveInit => LogInv /\ ListInv
    <2> SUFFICES ASSUME LiveInit PROVE LogInv /\ ListInv
      OBVIOUS
    <2>1. log = <<>> /\ Len(log) = 0 /\ shown = 0 /\ disturbed = FALSE /\ tableLimit \in Limits
      BY LiveFeedAssumption DEF LiveInit
    <2>2. /\ frames \in [Effects -> Seq(Nat)]
          /\ \A e \in Effects : DOMAIN frames[e] = {}
      BY DEF LiveInit
    <2>3. NewRequest(DefaultLimit) \in [limit : Limits, step : {"asked", "read"}, stamp : 0 .. Len(log)]
      BY <2>1, LiveFeedAssumption DEF NewRequest
    <2>4. IsABag(requests) /\ BagToSet(requests) = {NewRequest(DefaultLimit)}
      BY LiveFeedAssumption DEF LiveInit, IsABag, BagToSet
    <2>5. log \in Seq(Decisions) /\ shown \in 0 .. Len(log)
      BY <2>1
    <2>6. second \in Seq(Nat) /\ Len(second) = Len(log) /\ unsent \subseteq 1 .. Len(log)
      BY <2>1 DEF LiveInit
    <2>7. LogInv
      BY <2>1, <2>2, <2>3, <2>4, <2>5, <2>6 DEF LogInv
    <2>8. ListInv
      BY <2>1 DEF ListInv
    <2> QED
      BY <2>7, <2>8
  <1>2. LogInv /\ ListInv /\ [LiveNext]_liveVars => (LogInv /\ ListInv)'
    <2> SUFFICES ASSUME LogInv, ListInv, [LiveNext]_liveVars PROVE LogInv' /\ ListInv'
      OBVIOUS
    <2>1. ASSUME NEW e \in Effects,
                 SocketOpens(e) \/ SocketFails(e) \/ SocketCloses(e) \/ Reconnect(e)
          PROVE  LogInv' /\ ListInv'
      <3>1. /\ UNCHANGED frames \/ frames' = [frames EXCEPT ![e] = <<>>]
            /\ UNCHANGED <<backVars, queries, requests, tableLimit, shown, disturbed>>
        BY <2>1, Zenon DEF SocketOpens, SocketFails, SocketCloses, Reconnect
      <3> QED
        BY <3>1, SocketStep
    <2>2. ASSUME NEW limit \in Limits, SetTableLimit(limit) PROVE LogInv' /\ ListInv'
      BY <2>2, RefreshSent DEF SetTableLimit, LogInv
    <2>3. CASE ManualRefresh
      BY <2>3, RefreshSent DEF ManualRefresh, LogInv
    <2>4. ASSUME NEW samples, NEW limit \in Limits, ReportMerged(samples, limit)
          PROVE  LogInv' /\ ListInv'
      <3>1. requests' = Sent(limit) /\ UNCHANGED <<frames, backVars, tableLimit, shown, disturbed>>
        BY <2>4 DEF ReportMerged
      <3> QED
        BY <3>1, RefreshSent DEF LogInv
    <2>5. UNCHANGED liveVars => LogInv' /\ ListInv'
      BY LiveFeedAssumption, SocketStep DEF liveVars, Effects
    <2> QED
      BY <2>1, <2>2, <2>3, <2>4, <2>5, OnMessageStep, LogDecisionStep, BroadcastStep,
         QueriesReadStep, QueriesAnsweredStep, RequestFailsStep, Zenon DEF LiveNext
  <1> QED
    BY <1>1, <1>2, PTL DEF LiveSpec

\* When nothing is under way and no answer was lost or overtaken, the list is what
\* the back end held at one moment not before any frame that was delivered, newest
\* first to the second.
THEOREM QuietStreamAlwaysAgrees == LiveSpec => []QuietStreamAgrees
  <1>1. LogInv /\ ListInv => QuietStreamAgrees
    <2> SUFFICES ASSUME ListInv, Quiet, ~disturbed, shown > 0
                 PROVE  \E limit \in Limits : queries \in RecentRows(limit, shown)
      BY DEF QuietStreamAgrees
    <2>1. BagToSet(requests) = {}
      BY DEF Quiet, EmptyBag, SetToBag, BagToSet
    <2> QED
      BY <2>1 DEF ListInv
  <1> QED
    BY <1>1, ListInvHolds, PTL

-----------------------------------------------------------------------------
(* The table of the stream *)

\* The pages are as many as are needed, and one at least.
LEMMA PagesCover ==
  ASSUME NEW count \in Nat, NEW size \in Nat \ {0}
  PROVE  LET P == Pages(count, size)
         IN  /\ P \in Nat \ {0} /\ count <= P * size /\ (P - 1) * size <= count
             /\ \A p \in 1 .. P : /\ (p - 1) * size \in Nat /\ (p - 1) * size <= count
                                  /\ p < P => p * size <= count
                                  /\ count > 0 => (p - 1) * size < count
                                  /\ p * size = (p - 1) * size + size
  <1> DEFINE q == (count + size - 1) \div size
  <1>1. CASE count = 0
    <2>1. Pages(count, size) = 1
      BY <1>1 DEF Pages
    <2>2. \A p \in 1 .. 1 : p = 1
      OBVIOUS
    <2> QED
      BY <1>1, <2>1, <2>2
  <1>2. CASE count > 0
    <2>1. Pages(count, size) = q
      BY <1>2 DEF Pages
    <2>2. q \in Int /\ size * q <= count + size - 1 /\ count + size - 1 < size * q + size
      OBVIOUS
    <2>3. q \in Nat \ {0}
      <3>1. CASE q <= 0
        <4>1. size * q <= 0
          BY <2>2, <3>1
        <4> QED
          BY <1>2, <2>2, <4>1
      <3> QED
        BY <2>2, <3>1
    <2> HIDE DEF q
    <2>4. count <= q * size /\ (q - 1) * size = q * size - size /\ (q - 1) * size < count
      BY <2>2, <2>3
    <2>5. ASSUME NEW p \in 1 .. q
          PROVE  /\ (p - 1) * size \in Nat /\ (p - 1) * size < count
                 /\ p < q => p * size <= count
                 /\ p * size = (p - 1) * size + size
      <3>1. (p - 1) * size \in Nat /\ p * size = (p - 1) * size + size
        BY <2>3
      <3>2. (p - 1) * size <= (q - 1) * size
        <4>1. (q - p) * size \in Nat /\ (q - 1) * size = (p - 1) * size + (q - p) * size
          BY <2>3
        <4> QED
          BY <3>1, <4>1
      <3>3. p < q => p * size <= (q - 1) * size
        <4>1. p < q => (q - 1 - p) * size \in Nat
          BY <2>3
        <4>2. (q - 1) * size = p * size + (q - 1 - p) * size
          BY <2>3
        <4> QED
          BY <2>3, <3>1, <4>1, <4>2
      <3> QED
        BY <2>3, <2>4, <3>1, <3>2, <3>3
    <2> QED
      BY <2>1, <2>3, <2>4, <2>5
  <1> QED
    BY <1>1, <1>2

RowsTyped ==
  tableQueries \in Seq(Rows)

SearchTyped ==
  /\ searchTerm \in Terms \cup {NoTerm} /\ externalSearch \in Terms \cup {NoTerm}
  /\ filterAction \in Pills

ViewTyped ==
  /\ sortField \in Fields /\ sortAsc \in BOOLEAN
  /\ tablePage \in Nat \ {0} /\ tablePageSize \in PageSizes /\ shrunk \in BOOLEAN

ControlsTyped == SearchTyped /\ ViewTyped

TableTypes == RowsTyped /\ ControlsTyped

\* What is left after the search and the pill are the rows that pass both.
LEMMA FilteredRows ==
  ASSUME TableTypes
  PROVE  /\ Filtered \in Seq(Rows)
         /\ ToSet(Filtered) = {row \in ToSet(tableQueries) : Matches(row) /\ Passes(row)}
  <1> DEFINE P == {i \in DOMAIN tableQueries :
                     Matches(tableQueries[i]) /\ Passes(tableQueries[i])}
  <1>1. tableQueries \in Seq(Rows) /\ P \in SUBSET DOMAIN tableQueries
    BY DEF TableTypes, RowsTyped
  <1>2. Filtered = KeptAt(tableQueries, P)
    BY DEF Filtered
  <1>3. /\ Filtered \in Seq(Rows) /\ DOMAIN Filtered = 1 .. Cardinality(P)
        /\ \A n \in 1 .. Cardinality(P) : Nth(P, n) \in P /\ Filtered[n] = tableQueries[Nth(P, n)]
        /\ \A j \in P : \E n \in 1 .. Cardinality(P) : Nth(P, n) = j
    <2> HIDE DEF P
    <2> DEFINE s == tableQueries
               K == KeptAt(s, P)
    <2>1. s \in Seq(Rows) /\ P \in SUBSET DOMAIN s
      BY <1>1
    <2> HIDE DEF s
    <2>2. /\ K \in Seq(Rows) /\ DOMAIN K = 1 .. Cardinality(P)
          /\ \A n \in 1 .. Cardinality(P) : Nth(P, n) \in P /\ K[n] = s[Nth(P, n)]
          /\ \A j \in P : \E n \in 1 .. Cardinality(P) : Nth(P, n) = j
      BY <2>1, KeptAtProperties
    <2> QED
      BY <1>2, <2>2 DEF s
  <1>4. ToSet(Filtered) = {tableQueries[i] : i \in P}
    <2>1. ToSet(Filtered) = {Filtered[n] : n \in 1 .. Cardinality(P)}
      BY <1>3 DEF ToSet
    <2> HIDE DEF P
    <2>2. \A n \in 1 .. Cardinality(P) : Filtered[n] \in {tableQueries[i] : i \in P}
      BY <1>3
    <2>3. \A j \in P : \E n \in 1 .. Cardinality(P) : Filtered[n] = tableQueries[j]
      BY <1>3
    <2> QED
      BY <2>1, <2>2, <2>3
  <1>5. {tableQueries[i] : i \in P} = {row \in ToSet(tableQueries) : Matches(row) /\ Passes(row)}
    BY DEF ToSet
  <1> QED
    BY <1>3, <1>4, <1>5

\* Pairs of places, one of which comes before the other.
LEMMA BeforePairs ==
  \A i, j \in DOMAIN Filtered :
    <<i, j>> \in {p \in (DOMAIN Filtered) \X (DOMAIN Filtered) : Before(p[1], p[2])}
      <=> Before(i, j)
  <1> TAKE i, j \in DOMAIN Filtered
  <1> DEFINE p == <<i, j>>
  <1>1. p[1] = i /\ p[2] = j
    OBVIOUS
  <1>3. p \in (DOMAIN Filtered) \X (DOMAIN Filtered)
    OBVIOUS
  <1> HIDE DEF p
  <1>2. p \in {q \in (DOMAIN Filtered) \X (DOMAIN Filtered) : Before(q[1], q[2])} <=> Before(i, j)
    BY <1>1, <1>3
  <1> QED
    BY <1>2 DEF p

\* The rows are ordered by the column's value, equal ones as they are listed.
LEMMA BeforeIsOrder ==
  ASSUME TableTypes
  PROVE  StrictOrder({p \in (DOMAIN Filtered) \X (DOMAIN Filtered) : Before(p[1], p[2])},
                     1 .. Len(Filtered))
  <1> DEFINE n == Len(Filtered)
             R == {p \in (DOMAIN Filtered) \X (DOMAIN Filtered) : Before(p[1], p[2])}
             value(i) == Key[sortField][Filtered[i]]
  <1>1. /\ n \in Nat /\ DOMAIN Filtered = 1 .. n
        /\ \A i \in 1 .. n : Filtered[i] \in Rows
    BY FilteredRows
  <1>2. \A i \in 1 .. n : value(i) \in Int
    BY <1>1, StreamTableAssumption DEF TableTypes, ControlsTyped, ViewTyped
  <1>3. \A i, j \in 1 .. n :
          <<i, j>> \in R <=> \/ IF sortAsc THEN value(i) < value(j) ELSE value(i) > value(j)
                             \/ value(i) = value(j) /\ i < j
    <2> TAKE i, j \in 1 .. n
    <2>1. <<i, j>> \in R <=> Before(i, j)
      BY <1>1, BeforePairs
    <2> QED
      BY <2>1 DEF Before
  <1> HIDE DEF R, value, n
  <1>4. \A i \in 1 .. n : <<i, i>> \notin R
    BY <1>1, <1>2, <1>3
  <1>5. \A i, j, k \in 1 .. n : <<i, j>> \in R /\ <<j, k>> \in R => <<i, k>> \in R
    <2> TAKE i, j, k \in 1 .. n
    <2>1. value(i) \in Int /\ value(j) \in Int /\ value(k) \in Int /\ i \in Int /\ j \in Int /\ k \in Int
      BY <1>1, <1>2
    <2> QED
      BY <1>3, <2>1
  <1>6. \A i, j \in 1 .. n : i # j => <<i, j>> \in R \/ <<j, i>> \in R
    <2> TAKE i, j \in 1 .. n
    <2>1. value(i) \in Int /\ value(j) \in Int /\ i \in Int /\ j \in Int
      BY <1>1, <1>2
    <2> QED
      BY <1>3, <2>1
  <1> QED
    BY <1>4, <1>5, <1>6 DEF StrictOrder, R, n

\* Sorting keeps the rows.
LEMMA SortedRows ==
  ASSUME TableTypes
  PROVE  /\ Sorted \in Seq(Rows) /\ Len(Sorted) = Len(Filtered) /\ Len(Sorted) \in Nat
         /\ ToSet(Sorted) = ToSet(Filtered)
  <1> DEFINE n == Len(Filtered)
             R == {p \in (DOMAIN Filtered) \X (DOMAIN Filtered) : Before(p[1], p[2])}
             pick(k) == CHOOSE i \in 1 .. n : PlaceIn(R, 1 .. n, i) = k
  <1>1. /\ n \in Nat /\ DOMAIN Filtered = 1 .. n
        /\ \A i \in 1 .. n : Filtered[i] \in Rows
    BY FilteredRows
  <1>2. /\ \A i \in 1 .. n : PlaceIn(R, 1 .. n, i) \in 1 .. n
        /\ \A i, j \in 1 .. n : PlaceIn(R, 1 .. n, i) = PlaceIn(R, 1 .. n, j) => i = j
        /\ \A k \in 1 .. n : \E i \in 1 .. n : PlaceIn(R, 1 .. n, i) = k
    <2>1. StrictOrder(R, 1 .. n)
      BY BeforeIsOrder
    <2>2. IsFiniteSet(1 .. n) /\ Cardinality(1 .. n) = n
      BY <1>1, FS_Interval
    <2> HIDE DEF R, n
    <2> QED
      BY <1>1, <2>1, <2>2, PlacesOfOrder
  <1>3. Sorted = [k \in 1 .. n |-> Filtered[pick(k)]]
    <2>1. \A i \in 1 .. n : {j \in DOMAIN Filtered : Before(j, i)} = {j \in 1 .. n : <<j, i>> \in R}
      BY <1>1, BeforePairs
    <2>2. \A i \in 1 .. n :
            Cardinality({j \in DOMAIN Filtered : Before(j, i)}) + 1 = PlaceIn(R, 1 .. n, i)
      BY <2>1 DEF PlaceIn
    <2> DEFINE chosen(k) == CHOOSE i \in DOMAIN Filtered :
                              Cardinality({j \in DOMAIN Filtered : Before(j, i)}) + 1 = k
    <2>3. ASSUME NEW k \in 1 .. n
          PROVE  chosen(k) = pick(k)
      <3> HIDE DEF R, n
      <3>1. \A i : (/\ i \in DOMAIN Filtered
                    /\ Cardinality({j \in DOMAIN Filtered : Before(j, i)}) + 1 = k)
                     <=> (i \in 1 .. n /\ PlaceIn(R, 1 .. n, i) = k)
        BY <1>1, <2>2
      <3> QED
        BY <3>1
    <2>4. Sorted = [k \in DOMAIN Filtered |-> Filtered[chosen(k)]]
      BY DEF Sorted
    <2> HIDE DEF pick, n, chosen
    <2> QED
      BY <1>1, <2>3, <2>4
  <1>4. \A k \in 1 .. n : pick(k) \in 1 .. n /\ PlaceIn(R, 1 .. n, pick(k)) = k
    <2> HIDE DEF R, n
    <2> QED
      BY <1>2
  <1>5. \A i \in 1 .. n : pick(PlaceIn(R, 1 .. n, i)) = i
    <2> HIDE DEF R, n, pick
    <2> QED
      BY <1>2, <1>4
  <1> HIDE DEF R, n, pick
  <1>6. Sorted \in Seq(Rows) /\ Len(Sorted) = n /\ DOMAIN Sorted = 1 .. n
    BY <1>1, <1>3, <1>4
  <1>7. ToSet(Sorted) = ToSet(Filtered)
    <2>1. ToSet(Sorted) = {Filtered[pick(k)] : k \in 1 .. n}
      BY <1>3 DEF ToSet
    <2>2. ToSet(Filtered) = {Filtered[i] : i \in 1 .. n}
      BY <1>1 DEF ToSet
    <2>3. \A k \in 1 .. n : Filtered[pick(k)] \in ToSet(Filtered)
      BY <1>4, <2>2
    <2>4. \A i \in 1 .. n : Filtered[i] \in ToSet(Sorted)
      BY <1>2, <1>5, <2>1
    <2> QED
      BY <2>1, <2>2, <2>3, <2>4
  <1> QED
    BY <1>1, <1>6, <1>7 DEF n

\* The pages, one after the other, are the sorted list.
LEMMA PagesTile ==
  ASSUME TableTypes
  PROVE  /\ FlattenSeq([page \in 1 .. TablePages |-> PageRows(page)]) = Sorted
         /\ TablePages \in Nat \ {0}
         /\ \A p \in 1 .. TablePages : Filtered # <<>> => ToSet(PageRows(p)) # {}
  <1> DEFINE n == Len(Sorted)
             size == tablePageSize
             P == TablePages
             end(p) == IF p * size < n THEN p * size ELSE n
             front == [p \in 1 .. P |-> SubSeq(Sorted, 1, end(p))]
             seqs == [page \in 1 .. P |-> PageRows(page)]
  <1>1. /\ Sorted \in Seq(Rows) /\ n \in Nat /\ size \in Nat \ {0}
        /\ n = Len(Filtered) /\ Filtered \in Seq(Rows)
    BY SortedRows, FilteredRows, StreamTableAssumption DEF TableTypes, ControlsTyped, ViewTyped
  <1>2. P = Pages(n, size)
    BY DEF TablePages
  <1>3. /\ P \in Nat \ {0} /\ n <= P * size
        /\ \A p \in 1 .. P : /\ (p - 1) * size \in Nat /\ (p - 1) * size <= n
                             /\ p < P => p * size <= n
                             /\ n > 0 => (p - 1) * size < n
                             /\ p * size = (p - 1) * size + size
    <2> HIDE DEF n, size, P
    <2> QED
      BY <1>1, <1>2, PagesCover
  <1>4. \A p \in 1 .. P : PageRows(p) = SubSeq(Sorted, (p - 1) * size + 1, end(p))
    <2> TAKE p \in 1 .. P
    <2>1. PageRows(p) = SubSeq(Sorted, (p - 1) * size + 1,
                               IF (p - 1) * size + size < n THEN (p - 1) * size + size ELSE n)
      BY DEF PageRows
    <2>2. p * size = (p - 1) * size + size
      BY <1>3
    <2> QED
      BY <2>1, <2>2
  <1>5. \A p \in 1 .. P : end(p) \in Nat /\ end(p) <= n /\ (p - 1) * size <= end(p)
    <2> TAKE p \in 1 .. P
    <2> DEFINE a == (p - 1) * size
    <2>1. a \in Nat /\ a <= n /\ p * size = a + size
      BY <1>3
    <2> HIDE DEF a, n, size
    <2>2. end(p) = IF a + size < n THEN a + size ELSE n
      BY <2>1
    <2>3. end(p) \in Nat /\ end(p) <= n /\ a <= end(p)
      BY <1>1, <2>1, <2>2
    <2> QED
      BY <2>3 DEF a
  <1>6. FlattenSeq(seqs) = front[P]
    <2>1. Len(seqs) = P
      BY <1>3
    <2>2. front[1] = seqs[1]
      <3>1. 1 \in 1 .. P /\ (1 - 1) * size + 1 = 1
        BY <1>1, <1>3
      <3>2. front[1] = SubSeq(Sorted, 1, end(1)) /\ seqs[1] = PageRows(1)
        BY <3>1
      <3> HIDE DEF end, front, seqs, P, size
      <3> QED
        BY <1>4, <3>1, <3>2
    <2>3. ASSUME NEW p \in 2 .. P
          PROVE  front[p] = front[p - 1] \o seqs[p]
      <3>1. p \in 1 .. P /\ p - 1 \in 1 .. P /\ p - 1 < P
        BY <1>3
      <3>2. front[p] = SubSeq(Sorted, 1, end(p)) /\ seqs[p] = PageRows(p)
            /\ front[p - 1] = SubSeq(Sorted, 1, end(p - 1))
        BY <3>1
      <3>3. end(p - 1) = (p - 1) * size
        <4>1. (p - 1) * size <= n
          BY <1>3, <3>1
        <4>2. (p - 1) * size \in Nat
          BY <1>3, <3>1
        <4> HIDE DEF n, size
        <4> QED
          BY <1>1, <4>1, <4>2
      <3>4. /\ (p - 1) * size \in Nat /\ end(p) \in Nat
            /\ (p - 1) * size <= end(p) /\ end(p) <= Len(Sorted)
        BY <1>3, <1>5, <3>1
      <3> HIDE DEF end, front, seqs, P, size
      <3>5. SubSeq(Sorted, 1, (p - 1) * size) \o SubSeq(Sorted, (p - 1) * size + 1, end(p))
              = SubSeq(Sorted, 1, end(p))
        BY <1>1, <3>4, CutAndJoin
      <3>6. seqs[p] = SubSeq(Sorted, (p - 1) * size + 1, end(p))
        BY <1>4, <3>1, <3>2
      <3>7. front[p - 1] = SubSeq(Sorted, 1, (p - 1) * size)
        BY <3>2, <3>3
      <3> QED
        BY <3>2, <3>5, <3>6, <3>7
    <2> HIDE DEF front, seqs, P
    <2> QED
      <3>1. JoinsUp(front, seqs, P)
        BY <2>2, <2>3 DEF JoinsUp
      <3> QED
        BY <1>3, <2>1, <3>1, FlattenIs
  <1>7. front[P] = Sorted
    <2>1. P \in 1 .. P /\ end(P) = n
      BY <1>1, <1>3, <1>5
    <2>2. front[P] = SubSeq(Sorted, 1, n)
      <3> HIDE DEF end, P
      <3> QED
        BY <2>1
    <2>3. SubSeq(Sorted, 1, n) = Sorted
      <3>1. SubSeq(Sorted, 1, n) = [i \in 1 .. n |-> Sorted[i]]
        BY <1>1
      <3>2. Sorted = [i \in 1 .. n |-> Sorted[i]]
        BY <1>1, SequenceIsFunction
      <3> QED
        BY <3>1, <3>2
    <2> QED
      BY <2>2, <2>3
  <1>8. ASSUME NEW p \in 1 .. P, Filtered # <<>>
        PROVE  ToSet(PageRows(p)) # {}
    <2> DEFINE a == (p - 1) * size
    <2>1. n > 0
      BY <1>1, <1>8
    <2>2. a \in Nat /\ a < n /\ p * size = a + size
      BY <1>3, <2>1
    <2>3. PageRows(p) = SubSeq(Sorted, a + 1, end(p)) /\ end(p) \in Nat /\ end(p) <= n
      BY <1>4, <1>5
    <2>4. a + 1 <= end(p)
      <3> HIDE DEF a, n, size
      <3>1. end(p) = IF a + size < n THEN a + size ELSE n
        BY <2>2
      <3> QED
        BY <1>1, <2>2, <3>1
    <2> HIDE DEF a, end
    <2>5. \A i \in a + 1 .. end(p) : Sorted[i] \in Rows
      BY <1>1, <2>2, <2>3
    <2>6. /\ PageRows(p) \in Seq(Rows)
          /\ Len(PageRows(p)) = IF a + 1 <= end(p) THEN end(p) - (a + 1) + 1 ELSE 0
      <3> DEFINE from == a + 1
                 to == end(p)
      <3>1. from \in Int /\ to \in Int /\ \A i \in from .. to : Sorted[i] \in Rows
        BY <2>2, <2>3, <2>5
      <3> HIDE DEF from, to
      <3>2. /\ SubSeq(Sorted, from, to) \in Seq(Rows)
            /\ Len(SubSeq(Sorted, from, to)) = IF from <= to THEN to - from + 1 ELSE 0
        BY <3>1, SubSeqProperties
      <3> QED
        BY <2>3, <3>2 DEF from, to
    <2>7. 1 \in DOMAIN PageRows(p)
      <3> DEFINE m == Len(PageRows(p))
      <3>1. m \in Nat /\ DOMAIN PageRows(p) = 1 .. m
        BY <2>6, LenProperties
      <3>2. m >= 1
        BY <2>2, <2>3, <2>4, <2>6
      <3> HIDE DEF m
      <3> QED
        BY <3>1, <3>2
    <2> QED
      BY <2>7 DEF ToSet
  <1> QED
    BY <1>3, <1>6, <1>7, <1>8

\* The lists that App passes in are sequences of rows.
LEMMA ListsOfRows ==
  ASSUME NEW list \in Lists
  PROVE  list \in Seq(Rows)
  <1>1. PICK m \in 0 .. Cardinality(Rows) : list \in [1 .. m -> Rows]
    BY DEF Lists, SeqOf
  <1>2. m \in Nat
    BY <1>1
  <1> QED
    BY <1>1, <1>2

\* The table's own controls lead to a page that there is.
TablePageInv == ~shrunk => tablePage = 1 \/ tablePage <= Pages(Len(Filtered), tablePageSize)

\* The controls keep their types and the list.
LEMMA ControlsStep ==
  ASSUME ControlsTyped,
         \/ \E term \in Terms \cup {NoTerm} : SetSearch(term)
         \/ \E pill \in Pills : SetFilter(pill)
         \/ \E size \in PageSizes : SetPageSize(size)
         \/ ClearFilters
  PROVE  ControlsTyped' /\ UNCHANGED tableQueries /\ tablePage' = 1
  <1>0. SearchTyped /\ ViewTyped
    BY DEF ControlsTyped
  <1>1. /\ sortField' \in Fields /\ sortAsc' \in BOOLEAN /\ tablePageSize' \in PageSizes
        /\ tablePage' = 1 /\ shrunk' = FALSE
        => ViewTyped'
    <2>1. tablePage' = 1 => tablePage' \in Nat \ {0}
      OBVIOUS
    <2> QED
      BY <2>1 DEF ViewTyped
  <1>2. CASE \E term \in Terms \cup {NoTerm} : SetSearch(term)
    <2>1. SearchTyped' /\ UNCHANGED tableQueries
      BY <1>0, <1>2 DEF SetSearch, SearchTyped
    <2>2. sortField' \in Fields /\ sortAsc' \in BOOLEAN /\ tablePageSize' \in PageSizes
      BY <1>0, <1>2 DEF SetSearch, ViewTyped
    <2>3. tablePage' = 1 /\ shrunk' = FALSE
      BY <1>2 DEF SetSearch
    <2> QED
      BY <1>1, <2>1, <2>2, <2>3 DEF ControlsTyped
  <1>3. CASE \E pill \in Pills : SetFilter(pill)
    <2>1. SearchTyped' /\ UNCHANGED tableQueries
      BY <1>0, <1>3 DEF SetFilter, SearchTyped
    <2>2. sortField' \in Fields /\ sortAsc' \in BOOLEAN /\ tablePageSize' \in PageSizes
      BY <1>0, <1>3 DEF SetFilter, ViewTyped
    <2>3. tablePage' = 1 /\ shrunk' = FALSE
      BY <1>3 DEF SetFilter
    <2> QED
      BY <1>1, <2>1, <2>2, <2>3 DEF ControlsTyped
  <1>4. CASE \E size \in PageSizes : SetPageSize(size)
    <2>1. SearchTyped' /\ UNCHANGED tableQueries
      BY <1>0, <1>4 DEF SetPageSize, SearchTyped
    <2>2. sortField' \in Fields /\ sortAsc' \in BOOLEAN /\ tablePageSize' \in PageSizes
      BY <1>0, <1>4 DEF SetPageSize, ViewTyped
    <2>3. tablePage' = 1 /\ shrunk' = FALSE
      BY <1>4 DEF SetPageSize
    <2> QED
      BY <1>1, <2>1, <2>2, <2>3 DEF ControlsTyped
  <1>5. CASE ClearFilters
    <2>1. SearchTyped' /\ UNCHANGED tableQueries
      BY <1>0, <1>5 DEF ClearFilters, SearchTyped, Pills
    <2>2. sortField' \in Fields /\ sortAsc' \in BOOLEAN /\ tablePageSize' \in PageSizes
      BY <1>0, <1>5, StreamTableAssumption DEF ClearFilters, ViewTyped
    <2>3. tablePage' = 1 /\ shrunk' = FALSE
      BY <1>5 DEF ClearFilters
    <2> QED
      BY <1>1, <2>1, <2>2, <2>3 DEF ControlsTyped
  <1> QED
    BY <1>2, <1>3, <1>4, <1>5

\* No control makes a page that there is not, and none makes a state of another type.
LEMMA TableStep ==
  ASSUME TableTypes, TablePageInv, [TableNext]_tableVars
  PROVE  TableTypes' /\ TablePageInv'
  <1>0. RowsTyped /\ ControlsTyped /\ (UNCHANGED tableQueries => RowsTyped')
    BY DEF TableTypes, RowsTyped
  <1>1. ASSUME UNCHANGED <<tableQueries, externalSearch, searchTerm, filterAction>>
        PROVE  Filtered' = Filtered
    BY <1>1 DEF Filtered, Matches, Passes
  <1>2. CASE \/ \E term \in Terms \cup {NoTerm} : SetSearch(term)
             \/ \E pill \in Pills : SetFilter(pill)
             \/ \E size \in PageSizes : SetPageSize(size)
             \/ ClearFilters
    BY <1>0, <1>2, ControlsStep DEF TableTypes, TablePageInv
  <1>3. ASSUME NEW term \in Terms \cup {NoTerm}, ExternalSearch(term)
        PROVE  TableTypes' /\ TablePageInv'
    <2>1. ControlsTyped' /\ UNCHANGED tableQueries /\ shrunk'
      BY <1>0, <1>3 DEF ExternalSearch, ControlsTyped, SearchTyped, ViewTyped
    <2> QED
      BY <1>0, <2>1 DEF TableTypes, TablePageInv
  <1>4. ASSUME NEW field \in Fields, Sort(field)
        PROVE  TableTypes' /\ TablePageInv'
    <2>1. Filtered' = Filtered
      BY <1>1, <1>4 DEF Sort
    <2>2. ControlsTyped' /\ UNCHANGED <<tableQueries, tablePage, tablePageSize, shrunk>>
      BY <1>0, <1>4 DEF Sort, ControlsTyped, SearchTyped, ViewTyped
    <2> QED
      BY <1>0, <2>1, <2>2 DEF TableTypes, TablePageInv
  <1>5. CASE PreviousPage
    <2>1. Filtered' = Filtered
      BY <1>1, <1>5 DEF PreviousPage
    <2>2. tablePage \in Nat \ {0} /\ tablePage # 1 /\ tablePage' = tablePage - 1
      BY <1>0, <1>5 DEF PreviousPage, ControlsTyped, SearchTyped, ViewTyped
    <2>3. tablePage' \in Nat \ {0} /\ tablePage' <= tablePage
      BY <2>2
    <2>4. Pages(Len(Filtered), tablePageSize) \in Int
      BY <1>0, FilteredRows, PagesCover, StreamTableAssumption DEF ControlsTyped, ViewTyped
    <2>5. ControlsTyped' /\ UNCHANGED <<tableQueries, tablePageSize, shrunk>>
      BY <1>0, <1>5, <2>3 DEF PreviousPage, ControlsTyped, SearchTyped, ViewTyped
    <2>6. TablePageInv'
      BY <2>1, <2>2, <2>4, <2>5 DEF TablePageInv
    <2> QED
      BY <1>0, <2>5, <2>6 DEF TableTypes
  <1>6. CASE NextPage
    <2>1. Filtered' = Filtered
      BY <1>1, <1>6 DEF NextPage
    <2>2. /\ tablePage \in Nat \ {0}
          /\ tablePage' = IF tablePage < TablePages THEN tablePage + 1 ELSE TablePages
      BY <1>0, <1>6 DEF NextPage, ControlsTyped, SearchTyped, ViewTyped
    <2>3. TablePages \in Nat \ {0} /\ TablePages = Pages(Len(Filtered), tablePageSize)
      BY PagesTile, SortedRows DEF TablePages
    <2>4. tablePage' \in Nat \ {0} /\ tablePage' <= Pages(Len(Filtered), tablePageSize)
      BY <2>2, <2>3
    <2>5. ControlsTyped' /\ UNCHANGED <<tableQueries, tablePageSize, shrunk>>
      BY <1>0, <1>6, <2>4 DEF NextPage, ControlsTyped, SearchTyped, ViewTyped
    <2>6. TablePageInv'
      BY <2>1, <2>4, <2>5 DEF TablePageInv
    <2> QED
      BY <1>0, <2>5, <2>6 DEF TableTypes
  <1>7. ASSUME NEW list \in Lists, QueriesChange(list)
        PROVE  TableTypes' /\ TablePageInv'
    <2>1. list \in Seq(Rows)
      BY ListsOfRows
    <2>2. RowsTyped'
      BY <1>7, <2>1 DEF QueriesChange, RowsTyped
    <2>3. ControlsTyped' /\ shrunk'
      BY <1>0, <1>7 DEF QueriesChange, ControlsTyped, SearchTyped, ViewTyped
    <2> QED
      BY <2>2, <2>3 DEF TableTypes, TablePageInv
  <1>8. CASE UNCHANGED tableVars
    <2>1. Filtered' = Filtered
      BY <1>1, <1>8 DEF tableVars
    <2>2. ControlsTyped' /\ UNCHANGED <<tableQueries, tablePage, tablePageSize, shrunk>>
      BY <1>0, <1>8 DEF tableVars, ControlsTyped, SearchTyped, ViewTyped
    <2> QED
      BY <1>0, <2>1, <2>2 DEF TableTypes, TablePageInv
  <1> QED
    BY <1>2, <1>3, <1>4, <1>5, <1>6, <1>7, <1>8, Zenon DEF TableNext

\* The table's state keeps its types, and its page is one that there is.
LEMMA TableHolds == TableSpec => [](TableTypes /\ TablePageInv)
  <1>1. TableInit => TableTypes /\ TablePageInv
    <2> SUFFICES ASSUME TableInit PROVE TableTypes /\ TablePageInv
      OBVIOUS
    <2>1. RowsTyped
      BY ListsOfRows DEF TableInit, RowsTyped
    <2>2. tablePageSize \in PageSizes
      <3>1. \E n \in PageSizes : \A m \in PageSizes : n <= m
        BY StreamTableAssumption, LeastNumber
      <3> QED
        BY <3>1 DEF TableInit
    <2>3. ControlsTyped
      <3>1. SearchTyped
        BY DEF TableInit, SearchTyped, Pills
      <3>2. ViewTyped
        <4>1. sortField \in Fields /\ sortAsc \in BOOLEAN /\ shrunk \in BOOLEAN
          BY StreamTableAssumption DEF TableInit
        <4>2. tablePage \in Nat \ {0}
          BY DEF TableInit
        <4> QED
          BY <2>2, <4>1, <4>2 DEF ViewTyped
      <3> QED
        BY <3>1, <3>2 DEF ControlsTyped
    <2>4. TablePageInv
      BY DEF TableInit, TablePageInv
    <2> QED
      BY <2>1, <2>3, <2>4 DEF TableTypes
  <1>2. TableTypes /\ TablePageInv /\ [TableNext]_tableVars => TableTypes' /\ TablePageInv'
    BY TableStep
  <1> QED
    BY <1>1, <1>2, PTL DEF TableSpec

\* However many rows there are, whatever is searched and sorted by: the pages together
\* are the sorted list, which has every row that passes, and the table's own controls
\* never lead to a page that hides the rows it has.
THEOREM PagesAlwaysShowEverything == TableSpec => []PagesShowEverything
  <1>1. TableTypes /\ TablePageInv => PagesShowEverything
    <2> SUFFICES ASSUME TableTypes, TablePageInv PROVE PagesShowEverything
      OBVIOUS
    <2>1. ~shrunk => tablePage \in 1 .. TablePages
      <3>1. TablePages \in Nat \ {0} /\ TablePages = Pages(Len(Filtered), tablePageSize)
        BY PagesTile, SortedRows DEF TablePages
      <3>2. tablePage \in Nat \ {0}
        BY DEF TableTypes, ControlsTyped, ViewTyped
      <3> QED
        BY <3>1, <3>2 DEF TablePageInv
    <2>2. ToSet(Sorted) = {row \in ToSet(tableQueries) : Matches(row) /\ Passes(row)}
      BY SortedRows, FilteredRows
    <2>3. FlattenSeq([page \in 1 .. TablePages |-> PageRows(page)]) = Sorted
      BY PagesTile
    <2>4. ~shrunk => tablePage <= TablePages
      BY <2>1, PagesTile
    <2>5. Filtered # <<>> /\ ~shrunk => Inspectable # {}
      BY <2>1, PagesTile DEF Inspectable
    <2> QED
      BY <2>2, <2>3, <2>4, <2>5 DEF PagesShowEverything
  <1> QED
    BY <1>1, TableHolds, PTL

-----------------------------------------------------------------------------
(* The inspector *)

\* App's pair is a result and its domain once there is a result; a view that
\* shows another pair has an evaluation under way.
EvaluationInv ==
    /\ IsABag(evaluations) /\ BagToSet(evaluations) \subseteq [domain : Domains, own : BOOLEAN]
    /\ {lastDomain, inputDomain} \subseteq Domains \cup {NoDomain} /\ analyzing \in BOOLEAN
    /\ lastDomain = NoDomain => lastResult = NoResult
    /\ analyzing => \E e \in BagToSet(evaluations) : e.own
    /\ inspecting => \/ BagToSet(evaluations) # {}
                     \/ result = lastResult /\ lastResult.domain = lastDomain

\* The effect leaves the view with the last result or evaluates.
LEMMA EffectStep ==
  ASSUME EvaluationInv, NEW n \in Nat \ {0}, NEW d \in Domains \cup {NoDomain}, NEW res,
         Effect(n, d, res), d = NoDomain => lastResult = NoResult
  PROVE  /\ IsABag(evaluations')
         /\ BagToSet(evaluations)' \subseteq [domain : Domains, own : BOOLEAN]
         /\ analyzing' \in BOOLEAN /\ inputDomain' \in Domains \cup {NoDomain}
         /\ analyzing' => \E e \in BagToSet(evaluations)' : e.own
         /\ BagToSet(evaluations)' # {} \/ (result' = lastResult /\ lastResult.domain = d)
  <1>1. CASE NeedsEvaluation(d, lastResult)
    <2> DEFINE e == [domain |-> d, own |-> TRUE]
    <2>1. d \in Domains /\ e \in [domain : Domains, own : BOOLEAN] /\ e.own
      BY <1>1 DEF NeedsEvaluation
    <2>2. evaluations' = evaluations (+) [x \in {e} |-> n] /\ analyzing' = TRUE
          /\ inputDomain' = d
      BY <1>1 DEF Effect, Evaluating
    <2> HIDE DEF e
    <2>3. IsABag(evaluations')
      BY <2>2 DEF EvaluationInv, IsABag, (+)
    <2>4. BagToSet(evaluations)' = BagToSet(evaluations) \cup {e}
      BY <2>2 DEF (+), BagToSet
    <2> QED
      BY <2>1, <2>2, <2>3, <2>4 DEF EvaluationInv
  <1>2. CASE ~NeedsEvaluation(d, lastResult)
    <2>1. result' = lastResult /\ UNCHANGED <<analyzing, evaluations>>
          /\ inputDomain' \in {inputDomain, d}
      BY <1>2 DEF Effect
    <2>2. lastResult.domain = d
      BY <1>2 DEF NeedsEvaluation, NoResult
    <2> QED
      BY <2>1, <2>2 DEF EvaluationInv, BagToSet, IsABag
  <1> QED
    BY <1>1, <1>2

\* The evaluations of a view that is left stay under way.
LEMMA LeaveStep ==
  ASSUME EvaluationInv, LeaveInspector
  PROVE  EvaluationInv'
  <1> DEFINE old(x) == [x EXCEPT !.own = FALSE]
             E == [domain : Domains, own : BOOLEAN]
             S == {old(x) : x \in BagToSet(evaluations)}
             n(e) == Copies(e) + Copies([e EXCEPT !.own = TRUE])
  <1>1. evaluations' = [e \in S |-> n(e)] /\ inspecting' = FALSE /\ analyzing' = FALSE
        /\ inputDomain' = NoDomain /\ UNCHANGED <<lastDomain, lastResult>>
    BY DEF LeaveInspector
  <1>2. \A x : Copies(x) \in Nat
    BY DEF EvaluationInv, Copies, IsABag, BagIn, BagToSet
  <1>3. \A x \in BagToSet(evaluations) : x \in E /\ Copies(x) > 0
    BY DEF EvaluationInv, Copies, IsABag, BagIn, BagToSet
  <1>4. ASSUME NEW x \in BagToSet(evaluations)
        PROVE  old(x) \in E /\ n(old(x)) \in Nat /\ n(old(x)) > 0
    <2>1. x \in E /\ old(x) \in E
      BY <1>3
    <2>2. x = old(x) \/ x = [old(x) EXCEPT !.own = TRUE]
      BY <2>1
    <2> QED
      BY <1>2, <1>3, <2>1, <2>2
  <1> HIDE DEF old, n
  <1>5. \A e \in S : e \in E /\ n(e) \in Nat /\ n(e) > 0
    BY <1>4
  <1> HIDE DEF S
  <1>6. IsABag(evaluations') /\ BagToSet(evaluations)' \subseteq E
    BY <1>1, <1>5 DEF IsABag, BagToSet
  <1> QED
    BY <1>1, <1>6 DEF EvaluationInv

\* An answer becomes App's pair, and is shown by the view that is mounted.
LEMMA InspectorAnswered ==
  ASSUME EvaluationInv, NEW e \in BagToSet(evaluations), Answered(e)
  PROVE  EvaluationInv'
  <1>1. PICK res \in Outcomes(e.domain) :
          /\ lastDomain' = e.domain /\ lastResult' = res
          /\ evaluations' = evaluations (-) SetToBag({e})
          /\ analyzing' = (analyzing /\ ~e.own)
          /\ inspecting => result' = res
          /\ inputDomain' \in {inputDomain, e.domain}
          /\ UNCHANGED inspecting
    BY DEF Answered
  <1>2. res.domain = e.domain
    BY DEF Outcomes
  <1>3. e.domain \in Domains /\ e.domain # NoDomain
    BY DomainInspectorAssumption DEF EvaluationInv
  <1>4. /\ IsABag(evaluations') /\ DOMAIN evaluations' \subseteq DOMAIN evaluations
        /\ DOMAIN evaluations \ {e} \subseteq DOMAIN evaluations'
    BY <1>1, BagMinusOne DEF EvaluationInv
  <1>5. analyzing' => \E x \in BagToSet(evaluations)' : x.own
    BY <1>1, <1>4 DEF EvaluationInv, BagToSet
  <1> QED
    BY <1>1, <1>2, <1>3, <1>4, <1>5 DEF EvaluationInv, BagToSet

\* Opening, evaluating, answering and leaving keep the inspector's invariant.
LEMMA EvaluationInvHolds == InspectorSpec => []EvaluationInv
  <1>1. InspectorInit => EvaluationInv
    BY DEF InspectorInit, EvaluationInv, EmptyBag, SetToBag, IsABag, BagToSet
  <1>2. EvaluationInv /\ [InspectorNext]_inspectorVars => EvaluationInv'
    <2> SUFFICES ASSUME EvaluationInv, [InspectorNext]_inspectorVars PROVE EvaluationInv'
      OBVIOUS
    <2>1. EffectRuns \in Nat \ {0} /\ 1 \in Nat \ {0}
      BY DomainInspectorAssumption
    <2>2. CASE OpenInspector
      <3>1. /\ IsABag(evaluations')
            /\ BagToSet(evaluations)' \subseteq [domain : Domains, own : BOOLEAN]
            /\ analyzing' \in BOOLEAN /\ inputDomain' \in Domains \cup {NoDomain}
            /\ analyzing' => \E e \in BagToSet(evaluations)' : e.own
            /\ BagToSet(evaluations)' # {} \/ (result' = lastResult /\ lastResult.domain = lastDomain)
        BY <2>1, <2>2, EffectStep DEF OpenInspector, EvaluationInv
      <3> QED
        BY <2>2, <3>1 DEF OpenInspector, EvaluationInv
    <2>3. ASSUME NEW d \in Domains, CopilotEvaluates(d) PROVE EvaluationInv'
      <3>1. CASE ~inspecting \/ d # lastDomain
        <4>1. d # NoDomain
          BY DomainInspectorAssumption
        <4>2. \E n \in Nat \ {0} : \E res : Effect(n, d, res)
          <5>1. CASE ~inspecting
            BY <2>1, <2>3, <5>1 DEF CopilotEvaluates
          <5>2. CASE inspecting
            BY <2>1, <2>3, <3>1, <5>2 DEF CopilotEvaluates
          <5> QED
            BY <5>1, <5>2
        <4>3. PICK n \in Nat \ {0} : \E res : Effect(n, d, res)
          BY <4>2
        <4>4. PICK res : Effect(n, d, res)
          BY <4>3
        <4>5. /\ IsABag(evaluations')
              /\ BagToSet(evaluations)' \subseteq [domain : Domains, own : BOOLEAN]
              /\ analyzing' \in BOOLEAN /\ inputDomain' \in Domains \cup {NoDomain}
              /\ analyzing' => \E e \in BagToSet(evaluations)' : e.own
              /\ BagToSet(evaluations)' # {} \/ (result' = lastResult /\ lastResult.domain = d)
          BY <4>1, <4>3, <4>4, EffectStep
        <4>6. inspecting' = TRUE /\ lastDomain' = d /\ lastResult' = lastResult
          BY <2>3 DEF CopilotEvaluates
        <4> QED
          BY <4>1, <4>5, <4>6 DEF EvaluationInv
      <3>2. CASE inspecting /\ d = lastDomain
        <4>1. UNCHANGED <<inspecting, lastDomain, lastResult, inputDomain, analyzing, result, evaluations>>
          BY <2>3, <3>2 DEF CopilotEvaluates
        <4> QED
          BY <4>1 DEF EvaluationInv, BagToSet, IsABag
      <3> QED
        BY <3>1, <3>2
    <2>4. CASE Analyze
      <3> DEFINE e == [domain |-> inputDomain, own |-> TRUE]
      <3>1. evaluations' = evaluations (+) [x \in {e} |-> 1]
        BY <2>4 DEF Analyze, Evaluating
      <3>2. e \in [domain : Domains, own : BOOLEAN] /\ e.own
        BY <2>4 DEF Analyze, EvaluationInv
      <3> HIDE DEF e
      <3>3. IsABag(evaluations') /\ BagToSet(evaluations)' = BagToSet(evaluations) \cup {e}
        BY <3>1 DEF EvaluationInv, IsABag, (+), BagToSet
      <3> QED
        BY <2>4, <3>2, <3>3 DEF Analyze, EvaluationInv
    <2>5. /\ inputDomain' \in Domains \cup {NoDomain}
          /\ UNCHANGED <<lastDomain, lastResult, inspecting, analyzing, result, evaluations>>
          => EvaluationInv'
      BY DEF EvaluationInv, BagToSet, IsABag
    <2>6. (\E d \in Domains : TypeDomain(d)) \/ UNCHANGED inspectorVars
          => /\ inputDomain' \in Domains \cup {NoDomain}
             /\ UNCHANGED <<lastDomain, lastResult, inspecting, analyzing, result, evaluations>>
      BY DEF TypeDomain, inspectorVars, EvaluationInv
    <2> QED
      BY <2>2, <2>3, <2>4, <2>5, <2>6, LeaveStep, InspectorAnswered, Zenon DEF InspectorNext
  <1> QED
    BY <1>1, <1>2, PTL DEF InspectorSpec

\* The button waits only for an evaluation of this view, and a view without any
\* shows the result of the last domain, in whatever order evaluations answer.
THEOREM InspectorAlwaysAgrees == InspectorSpec => []InspectorAgrees
  <1>1. EvaluationInv => InspectorAgrees
    BY DEF EvaluationInv, InspectorAgrees, EmptyBag, SetToBag, BagToSet
  <1> QED
    BY <1>1, EvaluationInvHolds, PTL

-----------------------------------------------------------------------------
(* The indicator browser *)

\* With no timer running the last request was for the controls as they are: it is
\* under way, or it was answered and no other since, or it was overtaken or lost.
FetchInv ==
    /\ controls \in Controls /\ fetches \subseteq [asked : Controls, latest : BOOLEAN]
    /\ lost \in Nat
    /\ fetching => fetches # {}
    /\ browserOpen /\ ~timerSet =>
         /\ \A f \in fetches : f.latest => f.asked = controls
         /\ \/ \E f \in fetches : f.latest
            \/ overtaken \/ lost > 0 \/ indicators = Answer(controls)

\* The page starts within what matches.
PageStarts(c) == c.page = 1 \/ (c.page - 1) * c.size < Hits[c.search]

\* The count is of the rows held, and the page starts within what its search
\* matches unless it was turned early, whatever is under way.
CountInv ==
    /\ controls \in Controls /\ filteredCount \in Nat
    /\ \A c \in Controls : indicators.of = {c} => filteredCount = Scanned(c)
    /\ \A f \in fetches : f.asked \in Controls
    /\ ~early => PageStarts(controls)

\* Smallest is the minimum of two numbers.
LEMMA SmallestOfTwo ==
  ASSUME NEW m \in Nat, NEW n \in Nat
  PROVE  LET k == Smallest({m, n}) IN k \in {m, n} /\ k <= m /\ k <= n
  <1>1. \E k \in {m, n} : \A j \in {m, n} : k <= j
    <2>1. m <= n \/ n <= m
      OBVIOUS
    <2> QED
      BY <2>1
  <1>2. Smallest({m, n}) \in {m, n} /\ \A j \in {m, n} : Smallest({m, n}) <= j
    BY <1>1 DEF Smallest
  <1> QED
    BY <1>2

\* Page p of a count in pages of s is one of its pages just when it starts within.
LEMMA PageWithin ==
  ASSUME NEW count \in Nat \ {0}, NEW s \in Nat \ {0}, NEW p \in Nat \ {0}
  PROVE  p <= (count + s - 1) \div s <=> (p - 1) * s < count
  <1> DEFINE q == (count + s - 1) \div s
             qs == q * s
             ps == p * s
  <1>1. q \in Int /\ qs \in Int /\ ps \in Int
    OBVIOUS
  <1>2. qs <= count + s - 1 /\ count + s - 1 < qs + s
    OBVIOUS
  <1>3. (p - 1) * s = ps - s
    OBVIOUS
  <1>4. p <= q => ps <= qs
    OBVIOUS
  <1>5. q + 1 <= p => qs + s <= ps
    OBVIOUS
  <1> HIDE DEF qs, ps, q
  <1> QED
    BY <1>1, <1>2, <1>3, <1>4, <1>5 DEF q

\* The count is within what matches, and reaches a page that starts there.
LEMMA ScannedProperties ==
  ASSUME NEW c \in Controls
  PROVE  /\ Scanned(c) \in Nat /\ Scanned(c) <= Hits[c.search]
         /\ PageStarts(c) => /\ Hits[c.search] > 0 => (c.page - 1) * c.size < Scanned(c)
                             /\ c.page # 1 => (c.page - 1) * c.size < Scanned(c)
  <1> DEFINE before == (c.page - 1) * c.size
             upTo == c.page * c.size
  <1>1. Hits[c.search] \in Nat /\ c.page \in Nat \ {0} /\ c.size \in Nat \ {0} /\ Lookahead \in Nat
    BY IndicatorBrowserAssumption DEF Controls
  <1>2. before \in Nat /\ upTo \in Nat /\ upTo = before + c.size
    BY <1>1
  <1>3. c.page = 1 => before = 0
    BY <1>1
  <1> DEFINE n == upTo + Lookahead
             h == Hits[c.search]
  <1>4. n \in Nat /\ before < n
    BY <1>1, <1>2
  <1>5. Scanned(c) = Smallest({h, n})
    BY DEF Scanned
  <1> HIDE DEF n, h
  <1>6. Smallest({h, n}) \in {h, n} /\ Smallest({h, n}) <= h
    <2>1. h \in Nat
      BY <1>1 DEF h
    <2> QED
      BY <2>1, <1>4, SmallestOfTwo
  <1>7. PageStarts(c) <=> c.page = 1 \/ before < h
    BY DEF PageStarts, h
  <1> HIDE DEF before, upTo
  <1>8. h \in Nat /\ h = Hits[c.search]
    BY <1>1 DEF h
  <1>9. Scanned(c) \in Nat /\ Scanned(c) <= h
    BY <1>4, <1>5, <1>6, <1>8
  <1>10. PageStarts(c) /\ (h > 0 \/ c.page # 1) => before < Scanned(c)
    BY <1>2, <1>3, <1>4, <1>5, <1>6, <1>7, <1>8
  <1> QED
    BY <1>8, <1>9, <1>10 DEF before

\* The last answer shown is for the controls, if no later request was sent.
LEMMA IndicatorsAnsweredStep ==
  ASSUME FetchInv, CountInv, NEW f \in fetches, IndicatorsAnswered(f)
  PROVE  FetchInv' /\ CountInv'
  <1>1. /\ f.asked \in Controls /\ f.latest \in BOOLEAN
        /\ fetches' = fetches \ {f} /\ indicators' = Answer(f.asked)
        /\ filteredCount' = Scanned(f.asked) /\ fetching' = FALSE /\ overtaken' = ~f.latest
        /\ UNCHANGED <<browserOpen, controls, timerSet, early, lost>>
    BY DEF FetchInv, IndicatorsAnswered
  <1>2. indicators'.of = {f.asked} /\ filteredCount' \in Nat
    BY <1>1, ScannedProperties DEF Answer
  <1>3. CountInv'
    BY <1>1, <1>2 DEF CountInv, Scanned, PageStarts
  <1>4. browserOpen /\ ~timerSet => ~f.latest \/ indicators' = Answer(controls)
    BY <1>1 DEF FetchInv
  <1>5. Answer(controls)' = Answer(controls)
    BY <1>1 DEF Answer, Scanned
  <1> QED
    BY <1>1, <1>3, <1>4, <1>5 DEF FetchInv

\* A request that fails leaves the rows and their count alone.
LEMMA IndicatorsFailStep ==
  ASSUME FetchInv, CountInv, NEW f \in fetches, IndicatorsFail(f)
  PROVE  FetchInv' /\ CountInv'
  <1>1. /\ fetches' = fetches \ {f} /\ fetching' = FALSE
        /\ lost' = lost + 1 /\ lost' \in Nat /\ lost' > 0
        /\ UNCHANGED <<browserOpen, controls, timerSet, indicators, filteredCount, overtaken, early>>
    BY DEF FetchInv, IndicatorsFail
  <1>2. CountInv'
    BY <1>1 DEF CountInv, Scanned, PageStarts
  <1> QED
    BY <1>1, <1>2 DEF FetchInv

\* The timer's request is for the controls as they are, and the only latest one.
LEMMA FetchStep ==
  ASSUME FetchInv, CountInv, Fetch
  PROVE  FetchInv' /\ CountInv'
  <1> DEFINE disowned == {[f EXCEPT !.latest = FALSE] : f \in fetches}
             new == [asked |-> controls, latest |-> TRUE]
  <1>1. /\ fetches' = disowned \cup {new}
        /\ UNCHANGED <<browserOpen, controls, indicators, filteredCount, overtaken, early, lost>>
    BY DEF Fetch
  <1>2. \A f \in disowned : f \in [asked : Controls, latest : BOOLEAN] /\ ~f.latest
    BY DEF FetchInv
  <1>3. new \in [asked : Controls, latest : BOOLEAN] /\ new.latest /\ new.asked = controls
    BY DEF FetchInv
  <1> HIDE DEF disowned, new
  <1>4. CountInv'
    BY <1>1, <1>2, <1>3 DEF CountInv, Scanned, PageStarts
  <1> QED
    BY <1>1, <1>2, <1>3, <1>4 DEF FetchInv

\* The controls change; the timer is set anew.
LEMMA BecomesStep ==
  ASSUME FetchInv, CountInv, NEW c \in Controls, Becomes(c), ~early' => PageStarts(c)
  PROVE  FetchInv' /\ CountInv'
  <1>1. /\ controls' = c /\ timerSet' = TRUE
        /\ UNCHANGED <<browserOpen, fetches, indicators, filteredCount, fetching, overtaken, lost>>
    BY DEF Becomes
  <1>2. FetchInv'
    BY <1>1 DEF FetchInv
  <1>3. PageStarts(controls)' <=> PageStarts(c)
    BY <1>1 DEF PageStarts
  <1>4. CountInv'
    BY <1>1, <1>3 DEF CountInv, Scanned
  <1> QED
    BY <1>2, <1>4

\* The button goes no further than the count, and the count is of the search when
\* the rows held are.
LEMMA NextIndicatorsStep ==
  ASSUME FetchInv, CountInv, NextIndicators
  PROVE  FetchInv' /\ CountInv'
  <1> DEFINE last == TotalPages
             n == Smallest({last, controls.page + 1})
             c == [controls EXCEPT !.page = n]
  <1>1. /\ controls \in Controls /\ filteredCount \in Nat
        /\ controls.page \in Nat \ {0} /\ controls.size \in Nat \ {0}
        /\ Hits[controls.search] \in Nat
    BY IndicatorBrowserAssumption DEF CountInv, Controls
  <1>2. last \in Nat \ {0}
    <2>1. filteredCount # 0 => (filteredCount + controls.size - 1) \div controls.size \in Nat \ {0}
      BY <1>1
    <2> QED
      BY <2>1 DEF TotalPages, BrowserPages
  <1> HIDE DEF last
  <1>3. n \in Nat \ {0} /\ n <= last
    BY <1>1, <1>2, SmallestOfTwo
  <1>4. c \in Controls /\ c.page = n /\ c.size = controls.size /\ c.search = controls.search
    BY <1>1, <1>3 DEF Controls
  <1>5. Becomes(c) /\ early' = (early \/ timerSet \/ indicators.of # {controls})
    BY DEF NextIndicators, last
  <1> HIDE DEF n
  <1>6. ASSUME ~early' PROVE PageStarts(c)
    <2>1. filteredCount = Scanned(controls) /\ filteredCount <= Hits[controls.search]
      BY <1>1, <1>5, <1>6, ScannedProperties DEF CountInv
    <2>2. CASE filteredCount = 0
      <3>1. last = 1
        BY <2>2 DEF last, TotalPages, BrowserPages
      <3>2. n = 1
        BY <1>3, <3>1
      <3> QED
        BY <1>4, <3>2 DEF PageStarts
    <2>3. CASE filteredCount # 0
      <3>1. last = (filteredCount + controls.size - 1) \div controls.size
        BY <2>3 DEF last, TotalPages, BrowserPages
      <3>2. (n - 1) * controls.size < filteredCount
        BY <1>1, <1>3, <2>3, <3>1, PageWithin
      <3>3. (n - 1) * controls.size \in Int
        BY <1>1, <1>3
      <3>4. (n - 1) * controls.size < Hits[controls.search]
        BY <1>1, <2>1, <3>2, <3>3
      <3> QED
        BY <1>4, <3>4 DEF PageStarts
    <2> QED
      BY <2>2, <2>3
  <1> QED
    BY <1>4, <1>5, <1>6, BecomesStep

\* Going back a page stays within what matches.
LEMMA PreviousIndicatorsStep ==
  ASSUME FetchInv, CountInv, PreviousIndicators
  PROVE  FetchInv' /\ CountInv'
  <1> DEFINE c == [controls EXCEPT !.page = @ - 1]
  <1>1. /\ controls \in Controls /\ controls.page \in Nat \ {0} /\ controls.page # 1
        /\ controls.size \in Nat \ {0} /\ Hits[controls.search] \in Nat
    BY IndicatorBrowserAssumption DEF CountInv, Controls, PreviousIndicators
  <1>2. /\ c \in Controls /\ c.page = controls.page - 1 /\ c.size = controls.size
        /\ c.search = controls.search
    BY <1>1 DEF Controls
  <1>3. Becomes(c) /\ early' = early
    BY DEF PreviousIndicators
  <1> HIDE DEF c
  <1>4. ASSUME ~early' PROVE PageStarts(c)
    <2> DEFINE a == (controls.page - 1) * controls.size
               b == (c.page - 1) * c.size
    <2>1. a \in Int /\ b \in Int /\ b <= a
      BY <1>1, <1>2
    <2>2. a < Hits[controls.search]
      BY <1>1, <1>3, <1>4 DEF CountInv, PageStarts
    <2> HIDE DEF a
    <2>3. b < Hits[c.search]
      <3> HIDE DEF b
      <3> QED
        BY <1>1, <1>2, <2>1, <2>2
    <2> QED
      BY <2>3 DEF PageStarts
  <1> QED
    BY <1>2, <1>3, <1>4, BecomesStep

\* A new search is shown from its first page.
LEMMA FirstPageOfSearch ==
  ASSUME NEW c \in Controls, NEW s \in Searches
  PROVE  /\ [c EXCEPT !.search = s, !.page = 1] \in Controls
         /\ [c EXCEPT !.search = s, !.page = 1].page = 1
  <1>1. 1 \in Nat \ {0}
    OBVIOUS
  <1>2. [c EXCEPT !.search = s] \in Controls
    BY DEF Controls
  <1>3. [[c EXCEPT !.search = s] EXCEPT !.page = 1] \in Controls
    BY <1>1, <1>2 DEF Controls
  <1>4. [c EXCEPT !.search = s, !.page = 1] \in Controls
    BY <1>3 DEF Controls
  <1>5. [c EXCEPT !.search = s, !.page = 1].page = 1
    BY DEF Controls
  <1> QED
    BY <1>4, <1>5

\* A new page size is shown from the first page.
LEMMA FirstPageOfSize ==
  ASSUME NEW c \in Controls, NEW n \in BrowserSizes
  PROVE  /\ [c EXCEPT !.size = n, !.page = 1] \in Controls
         /\ [c EXCEPT !.size = n, !.page = 1].page = 1
  <1>1. 1 \in Nat \ {0}
    OBVIOUS
  <1>2. [c EXCEPT !.size = n] \in Controls
    BY DEF Controls
  <1>3. [[c EXCEPT !.size = n] EXCEPT !.page = 1] \in Controls
    BY <1>1, <1>2 DEF Controls
  <1>4. [c EXCEPT !.size = n, !.page = 1] \in Controls
    BY <1>3 DEF Controls
  <1>5. [c EXCEPT !.size = n, !.page = 1].page = 1
    BY DEF Controls
  <1> QED
    BY <1>4, <1>5

\* Both parts of the browser's invariant, kept by every action.
LEMMA BrowserInvHolds == BrowserSpec => [](FetchInv /\ CountInv)
  <1> DEFINE first == [search |-> NoSearch, page |-> 1, size |-> FirstSize]
  <1>1. first \in Controls /\ first.page = 1
    <2>1. NoSearch \in Searches
      BY IndicatorBrowserAssumption DEF NoSearch
    <2> QED
      BY <2>1, IndicatorBrowserAssumption DEF Controls
  <1>2. StoreSize \in Nat /\ \A c : NoIndicators.of # {c}
    BY IndicatorBrowserAssumption DEF NoIndicators
  <1>3. BrowserInit => FetchInv /\ CountInv
    <2> SUFFICES ASSUME BrowserInit PROVE FetchInv /\ CountInv
      OBVIOUS
    <2>1. controls = first /\ fetches = {} /\ lost = 0 /\ filteredCount = StoreSize
            /\ indicators = NoIndicators /\ fetching = FALSE /\ browserOpen = FALSE
      BY DEF BrowserInit
    <2> HIDE DEF first
    <2> QED
      BY <1>1, <1>2, <2>1 DEF FetchInv, CountInv, PageStarts
  <1>4. FetchInv /\ CountInv /\ [BrowserNext]_browserVars => (FetchInv /\ CountInv)'
    <2> SUFFICES ASSUME FetchInv, CountInv, [BrowserNext]_browserVars
                 PROVE  FetchInv' /\ CountInv'
      OBVIOUS
    <2>1. CASE OpenBrowser \/ CloseBrowser \/ UNCHANGED browserVars
      <3>1. /\ UNCHANGED <<controls, fetches, indicators, filteredCount, fetching, overtaken, early, lost>>
            /\ \/ browserOpen' = browserOpen /\ timerSet' = timerSet
               \/ timerSet' = TRUE
               \/ browserOpen' = FALSE
        BY <2>1 DEF OpenBrowser, CloseBrowser, browserVars
      <3> QED
        BY <3>1 DEF FetchInv, CountInv, Scanned, PageStarts, Answer
    <2>2. CASE RemountBrowser
      <3>1. /\ controls' = first /\ fetches' = {} /\ filteredCount' = StoreSize
            /\ indicators' = NoIndicators /\ fetching' = FALSE /\ browserOpen' = FALSE
            /\ lost' = lost
        BY <2>2 DEF RemountBrowser
      <3> HIDE DEF first
      <3> QED
        BY <1>1, <1>2, <3>1 DEF FetchInv, CountInv, PageStarts
    <2>3. ASSUME NEW s \in Searches, SearchIndicators(s) PROVE FetchInv' /\ CountInv'
      <3> DEFINE c == [controls EXCEPT !.search = s, !.page = 1]
      <3>1. Becomes(c)
        BY <2>3 DEF SearchIndicators
      <3>2. controls \in Controls
        BY DEF CountInv
      <3>3. c \in Controls /\ c.page = 1
        BY <2>3, <3>2, FirstPageOfSearch
      <3> HIDE DEF c
      <3> QED
        BY <3>1, <3>3, BecomesStep DEF PageStarts
    <2>4. ASSUME NEW n \in BrowserSizes, ResizePages(n) PROVE FetchInv' /\ CountInv'
      <3> DEFINE c == [controls EXCEPT !.size = n, !.page = 1]
      <3>1. Becomes(c)
        BY <2>4 DEF ResizePages
      <3>2. controls \in Controls
        BY DEF CountInv
      <3>3. c \in Controls /\ c.page = 1
        BY <2>4, <3>2, FirstPageOfSize
      <3> HIDE DEF c
      <3> QED
        BY <3>1, <3>3, BecomesStep DEF PageStarts
    <2> QED
      BY <2>1, <2>2, <2>3, <2>4, FetchStep, NextIndicatorsStep, PreviousIndicatorsStep,
         IndicatorsAnsweredStep, IndicatorsFailStep, Zenon DEF BrowserNext
  <1> QED
    BY <1>3, <1>4, PTL DEF BrowserSpec

\* At rest the open browser shows the page its own controls name, and that page
\* is one of the search's, unless an answer was overtaken or lost or the page was
\* turned too early.
THEOREM BrowserAlwaysAgrees == BrowserSpec => []BrowserAgreesAtRest
  <1>1. FetchInv /\ CountInv => BrowserAgreesAtRest
    <2> SUFFICES ASSUME FetchInv, CountInv, browserOpen, ~timerSet, fetches = {}
                 PROVE  /\ ~fetching
                        /\ ~overtaken /\ lost = 0 =>
                             /\ indicators = Answer(controls)
                             /\ ~early => /\ controls.page <= TotalPages
                                          /\ Hits[controls.search] > 0 => indicators.offsets # {}
      BY DEF BrowserAgreesAtRest
    <2>1. ~fetching
      BY DEF FetchInv
    <2>2. ASSUME ~overtaken, lost = 0
          PROVE  /\ indicators = Answer(controls) /\ indicators.of = {controls}
                 /\ filteredCount = Scanned(controls) /\ controls \in Controls
      BY <2>2 DEF FetchInv, CountInv, Answer
    <2>3. ASSUME ~overtaken, lost = 0, ~early
          PROVE  /\ controls.page <= TotalPages
                 /\ Hits[controls.search] > 0 => indicators.offsets # {}
      <3> DEFINE before == (controls.page - 1) * controls.size
                 upTo == controls.page * controls.size
                 pages == (filteredCount + controls.size - 1) \div controls.size
      <3>1. /\ controls.page \in Nat \ {0} /\ controls.size \in Nat \ {0}
            /\ filteredCount \in Nat /\ before \in Nat /\ upTo = before + controls.size
            /\ Hits[controls.search] \in Nat /\ upTo \in Nat /\ Scanned(controls) \in Nat
        BY <2>2, <2>3, IndicatorBrowserAssumption, ScannedProperties DEF Controls
      <3>2. PageStarts(controls)
        BY <2>3 DEF CountInv
      <3>3. controls.page <= TotalPages
        <4>1. CASE controls.page = 1
          <5>1. filteredCount # 0 => pages >= 1
            BY <3>1
          <5> QED
            BY <4>1, <5>1 DEF TotalPages, BrowserPages
        <4>2. CASE controls.page # 1
          <5>1. before < filteredCount
            BY <2>2, <2>3, <3>2, <4>2, ScannedProperties
          <5>2. filteredCount \in Nat \ {0}
            BY <3>1, <5>1
          <5>3. controls.page <= pages
            BY <3>1, <5>1, <5>2, PageWithin
          <5> QED
            BY <5>2, <5>3 DEF TotalPages, BrowserPages
        <4> QED
          BY <4>1, <4>2
      <3>4. ASSUME Hits[controls.search] > 0
            PROVE  before \in indicators.offsets
        <4>1. before < Scanned(controls)
          BY <2>2, <2>3, <3>2, <3>4, ScannedProperties
        <4>2. indicators.offsets = {i \in before .. upTo - 1 : i < Scanned(controls)}
          BY <2>2, <2>3 DEF Answer
        <4> HIDE DEF before, upTo
        <4>3. before \in before .. upTo - 1
          BY <3>1
        <4> QED
          BY <4>1, <4>2, <4>3
      <3> QED
        BY <3>3, <3>4
    <2> QED
      BY <2>1, <2>2, <2>3
  <1> QED
    BY <1>1, BrowserInvHolds, PTL

-----------------------------------------------------------------------------
(* The uploads *)

\* One upload of the modal at a time, with loading on exactly while it lasts
ModalInv ==
    /\ \A f, g \in modalUploads : f = g
    /\ modalLoading \in BOOLEAN
    /\ modalLoading <=> modalUploads # {}

\* The mounted investigator analyses only with an upload of its own under way,
\* and shows App's report.
ViewInv ==
    /\ analyzingCapture => \E u \in viewUploads : u.own
    /\ onForensics => report = forensicReport

\* An upload starts only when none is under way, and its end stops the loading.
LEMMA ModalInvHolds == UploadSpec => []ModalInv
  <1>1. UploadInit => ModalInv
    BY Zenon DEF UploadInit, ModalInv
  <1>2. ModalInv /\ [UploadNext]_uploadVars => ModalInv'
    <2> SUFFICES ASSUME ModalInv, [UploadNext]_uploadVars PROVE ModalInv'
      OBVIOUS
    <2>1. CASE UNCHANGED <<modalLoading, modalUploads>>
      BY <2>1, Zenon DEF ModalInv
    <2>2. CASE StartUpload
      <3>1. modalUploads' = {modalFile} /\ modalLoading' = TRUE
        BY <2>2 DEF StartUpload, ModalInv
      <3> QED
        BY <3>1 DEF ModalInv
    <2>3. ASSUME NEW f \in modalUploads, ModalAnswered(f) PROVE ModalInv'
      <3>1. modalUploads' = {} /\ modalLoading' = FALSE
        BY <2>3 DEF ModalAnswered, ModalInv
      <3> QED
        BY <3>1 DEF ModalInv
    <2>4. ASSUME UploadNext, ~StartUpload, \A f \in modalUploads : ~ModalAnswered(f)
          PROVE  UNCHANGED <<modalLoading, modalUploads>>
      BY <2>4, Zenon DEF UploadNext, OpenForensics, LeaveForensics, OpenModal, CloseModal,
         ChooseFile, DropCapture, DismissError, CaptureAnswered, modalVars
    <2>5. UNCHANGED uploadVars => UNCHANGED <<modalLoading, modalUploads>>
      BY Zenon DEF uploadVars, modalVars
    <2> QED
      BY <2>1, <2>2, <2>3, <2>4, <2>5, Zenon
  <1> QED
    BY <1>1, <1>2, PTL DEF UploadSpec

\* The investigator's part, whatever the modal does to the report.
LEMMA ViewInvHolds == UploadSpec => []ViewInv
  <1>1. UploadInit => ViewInv
    BY Zenon DEF UploadInit, ViewInv
  <1>2. ViewInv /\ [UploadNext]_uploadVars => ViewInv'
    <2> SUFFICES ASSUME ViewInv, [UploadNext]_uploadVars PROVE ViewInv'
      OBVIOUS
    <2>1. CASE UNCHANGED <<onForensics, forensicReport, report, analyzingCapture, viewUploads>>
      BY <2>1, Zenon DEF ViewInv
    <2>2. ASSUME NEW withModal, OpenForensics(withModal) PROVE ViewInv'
      BY <2>2, Zenon DEF OpenForensics, Mounted, viewVars, ViewInv
    <2>3. CASE LeaveForensics
      BY <2>3, Zenon DEF LeaveForensics, ViewInv
    <2>4. ASSUME NEW f, ModalAnswered(f) PROVE ViewInv'
      BY <2>4, Zenon DEF ModalAnswered, Succeeded, ViewInv
    <2>5. ASSUME NEW f, DropCapture(f) PROVE ViewInv'
      <3>1. CASE Accepted(f)
        <4>1. [file |-> f, own |-> TRUE] \in viewUploads'
          BY <2>5, <3>1, Zenon DEF DropCapture
        <4>2. [file |-> f, own |-> TRUE].own
          OBVIOUS
        <4> QED
          BY <2>5, <4>1, <4>2, Zenon DEF DropCapture, ViewInv
      <3>2. CASE ~Accepted(f)
        BY <2>5, <3>2, Zenon DEF DropCapture, ViewInv
      <3> QED
        BY <3>1, <3>2
    <2>6. ASSUME NEW u, CaptureAnswered(u) PROVE ViewInv'
      BY <2>6, Zenon DEF CaptureAnswered, Succeeded, ViewInv
    <2>7. StartUpload \/ OpenModal \/ CloseModal \/ DismissError
            \/ (\E f \in Files : ChooseFile(f)) \/ UNCHANGED uploadVars
          => UNCHANGED <<onForensics, forensicReport, report, analyzingCapture, viewUploads>>
      BY Zenon DEF StartUpload, OpenModal, CloseModal, DismissError, ChooseFile,
         uploadVars, viewVars
    <2> QED
      BY <2>1, <2>2, <2>3, <2>4, <2>5, <2>6, <2>7, Zenon DEF UploadNext
  <1> QED
    BY <1>1, <1>2, PTL DEF UploadSpec

\* Whatever uploads both views start, in whatever order they answer and whatever
\* is closed, left or opened meanwhile: one upload of the modal at a time, no
\* banner without an upload, one report on the page.
THEOREM UploadsAlwaysAgree == UploadSpec => []UploadsAgree
  <1>1. ModalInv => Cardinality(modalUploads) <= 1
    <2> SUFFICES ASSUME ModalInv PROVE Cardinality(modalUploads) <= 1
      OBVIOUS
    <2>1. CASE modalUploads = {}
      BY <2>1, FS_EmptySet
    <2>2. CASE modalUploads # {}
      <3>1. PICK f : modalUploads = {f}
        BY <2>2 DEF ModalInv
      <3> QED
        BY <3>1, FS_Singleton
    <2> QED
      BY <2>1, <2>2
  <1>2. ModalInv => modalLoading = (modalUploads # {})
    BY Zenon DEF ModalInv
  <1>3. ModalInv /\ ViewInv => UploadsAgree
    BY <1>1, <1>2, Zenon DEF ViewInv, UploadsAgree
  <1> QED
    BY <1>3, ModalInvHolds, ViewInvHolds, PTL

-----------------------------------------------------------------------------
(* The copilot's conversation *)

Cards == {i \in DOMAIN messages : Executable(messages[i].action)}

\* Who wrote which turn, and the request behind the last one.
TurnsInv ==
    /\ messages \in Seq(Message) /\ messages # <<>>
    /\ \A i \in DOMAIN messages : messages[i].sender = IF i % 2 = 1 THEN "ai" ELSE "user"
    /\ chatLoading = (Len(messages) % 2 = 0)
    /\ chatLoading = (chatRequests # {})
    /\ \A r, s \in chatRequests : r = s /\ r.history = Len(messages) - 1
    /\ \A r \in chatRequests : r.prompt \in Prompts
    /\ inputMsg \in Prompts \cup {NoText}

\* What was executed is what the cards show, of what can be executed.
CardsInv == executed = [i \in DOMAIN CardsExecuted |-> CardsExecuted[i].action]

\* A turn is taken: by the user when nothing is awaited, by the copilot when it is.
LEMMA TurnTaken ==
  ASSUME TurnsInv, NEW sender \in {"user", "ai"}, NEW action \in ChatActions,
         messages' = Append(messages, Says(sender, action)),
         sender = IF chatLoading THEN "ai" ELSE "user"
  PROVE  /\ messages' \in Seq(Message) /\ messages' # <<>>
         /\ Len(messages') = Len(messages) + 1 /\ Len(messages) \in Nat
         /\ \A i \in DOMAIN messages' :
              messages'[i].sender = IF i % 2 = 1 THEN "ai" ELSE "user"
         /\ (Len(messages') % 2 = 0) = ~chatLoading
  <1> DEFINE x == Says(sender, action)
  <1>1. x \in Message /\ x.sender = sender
    BY DEF Message, Says
  <1>2. /\ messages \in Seq(Message) /\ DOMAIN messages = 1 .. Len(messages)
        /\ Len(messages) \in Nat
    BY DEF TurnsInv
  <1> HIDE DEF x
  <1>3. /\ messages' \in Seq(Message) /\ messages' # <<>>
        /\ Len(messages') = Len(messages) + 1
        /\ \A i \in 1 .. Len(messages) : messages'[i] = messages[i]
        /\ messages'[Len(messages) + 1] = x
        /\ DOMAIN messages' = 1 .. Len(messages) + 1
    BY <1>1, <1>2, AppendProperties DEF x
  <1>4. chatLoading = (Len(messages) % 2 = 0)
    BY DEF TurnsInv
  <1>5. (Len(messages) + 1) % 2 = 1 <=> Len(messages) % 2 = 0
    BY <1>2
  <1>6. (Len(messages) + 1) % 2 = 0 <=> ~(Len(messages) % 2 = 0)
    BY <1>2
  <1>7. ASSUME NEW i \in 1 .. Len(messages) + 1
        PROVE  messages'[i].sender = IF i % 2 = 1 THEN "ai" ELSE "user"
    <2>1. CASE i = Len(messages) + 1
      BY <1>1, <1>3, <1>4, <1>5, <2>1
    <2>2. CASE i \in 1 .. Len(messages)
      BY <1>2, <1>3, <2>2 DEF TurnsInv
    <2> QED
      BY <1>2, <2>1, <2>2
  <1> QED
    BY <1>2, <1>3, <1>4, <1>6, <1>7

\* A turn without an action executes nothing.
LEMMA NoActionIdle == ~Executable(NoAction) /\ Executing(executed, NoAction) = executed
  <1>1. NoAction.type = "none"
    BY DEF NoAction
  <1>2. ~Executable(NoAction)
    BY <1>1 DEF Executable
  <1> QED
    BY <1>2 DEF Executing

\* A card that can be executed comes last; other turns leave them as they are.
LEMMA CardTaken ==
  ASSUME TurnsInv, CardsInv, NEW sender \in {"user", "ai"}, NEW action \in ChatActions,
         messages' = Append(messages, Says(sender, action)),
         executed' = Executing(executed, action)
  PROVE  CardsInv'
  <1> DEFINE x == Says(sender, action)
             m == Len(messages) + 1
  <1>1. x \in Message /\ x.action = action
    BY DEF Message, Says
  <1>2. /\ messages \in Seq(Message) /\ DOMAIN messages = 1 .. Len(messages)
        /\ Len(messages) \in Nat
    BY DEF TurnsInv
  <1> HIDE DEF x
  <1>3. /\ messages' \in Seq(Message) /\ DOMAIN messages' = 1 .. m
        /\ \A i \in 1 .. Len(messages) : messages'[i] = messages[i]
        /\ messages'[m] = x /\ messages' = Append(messages, x)
    BY <1>1, <1>2, AppendProperties DEF x
  <1>4. Cards \in SUBSET DOMAIN messages
    BY DEF Cards
  <1>5. /\ CardsExecuted = KeptAt(messages, Cards) /\ CardsExecuted' = KeptAt(messages', Cards')
    BY DEF CardsExecuted, Cards
  <1>6. /\ DOMAIN messages' = DOMAIN messages \cup {m}
        /\ \A i \in DOMAIN messages : messages'[i] = messages[i]
        /\ messages'[m].action = action
    BY <1>1, <1>2, <1>3
  <1>7. CASE ~Executable(action)
    <2>1. Cards' = Cards
      BY <1>7, <1>6, Zenon DEF Cards
    <2>2. CardsExecuted' = CardsExecuted
      <3>1. KeptAt(Append(messages, x), Cards) = KeptAt(messages, Cards)
        <4> DEFINE s == messages
                   P == Cards
        <4>1. s \in Seq(Message) /\ x \in Message /\ P \in SUBSET DOMAIN s
          BY <1>1, <1>2, <1>4
        <4> HIDE DEF s, P
        <4>2. KeptAt(Append(s, x), P) = KeptAt(s, P)
          BY <4>1, KeptAtAppend
        <4> QED
          BY <4>2 DEF s, P
      <3> QED
        BY <1>3, <1>5, <2>1, <3>1
    <2>3. executed' = executed
      BY <1>7 DEF Executing
    <2> QED
      BY <2>2, <2>3 DEF CardsInv
  <1>8. CASE Executable(action)
    <2>1. Cards' = Cards \cup {m}
      BY <1>8, <1>6, Zenon DEF Cards
    <2>2. CardsExecuted' = Append(CardsExecuted, x)
      BY <1>1, <1>2, <1>3, <1>4, <1>5, <2>1, KeptAtAppend
    <2>3. executed' = Append(executed, action)
      BY <1>8 DEF Executing
    <2>4. CardsExecuted \in Seq(Message) /\ Len(CardsExecuted) \in Nat
      BY <1>2, <1>4, <1>5, KeptAtProperties
    <2> DEFINE c == CardsExecuted
               n == Len(c)
    <2>5. executed = [i \in 1 .. n |-> c[i].action] /\ DOMAIN c = 1 .. n
      BY <2>4 DEF CardsInv
    <2>6. executed \in Seq(ChatActions) /\ Len(executed) = n
      <3>1. \A i \in 1 .. n : c[i].action \in ChatActions
        <4>1. \A i \in 1 .. n : c[i] \in Message
          BY <2>4, ElementOfSeq
        <4> HIDE DEF c
        <4> QED
          BY <4>1 DEF Message
      <3> HIDE DEF c, n
      <3> QED
        BY <2>4, <2>5, <3>1 DEF n, c
    <2>7. /\ Append(c, x) \in Seq(Message) /\ Len(Append(c, x)) = n + 1
          /\ \A i \in 1 .. n : Append(c, x)[i] = c[i]
          /\ Append(c, x)[n + 1] = x
      BY <1>1, <2>4, AppendProperties
    <2>8. /\ Append(executed, action) \in Seq(ChatActions)
          /\ Len(Append(executed, action)) = n + 1
          /\ \A i \in 1 .. n : Append(executed, action)[i] = executed[i]
          /\ Append(executed, action)[n + 1] = action
      BY <2>6, AppendProperties
    <2> DEFINE d == Append(c, x)
               e == Append(executed, action)
    <2>9. /\ DOMAIN d = 1 .. n + 1 /\ e = [i \in 1 .. n + 1 |-> e[i]]
          /\ n \in Nat
      <3>1. e = [i \in 1 .. Len(e) |-> e[i]]
        BY <2>8, SequenceIsFunction
      <3> HIDE DEF c, n, d, e
      <3>2. n \in Nat /\ Len(e) = n + 1 /\ d \in Seq(Message) /\ Len(d) = n + 1
        BY <2>4, <2>7, <2>8 DEF c, n, d, e
      <3> QED
        BY <3>1, <3>2
    <2>10. \A i \in 1 .. n + 1 : e[i] = d[i].action
      <3> HIDE DEF c, n, d, e
      <3> TAKE i \in 1 .. n + 1
      <3>1. CASE i \in 1 .. n
        BY <2>5, <2>7, <2>8, <3>1 DEF d, e
      <3>2. CASE i = n + 1
        BY <1>1, <2>7, <2>8, <3>2 DEF d, e
      <3> QED
        BY <2>9, <3>1, <3>2
    <2>11. e = [i \in DOMAIN d |-> d[i].action]
      <3> HIDE DEF c, n, d, e
      <3> QED
        BY <2>9, <2>10
    <2> QED
      BY <2>2, <2>3, <2>11 DEF CardsInv
  <1> QED
    BY <1>7, <1>8

\* Whoever posts a prompt takes the user's turn and sends the one request.
LEMMA PostStep ==
  ASSUME TurnsInv, CardsInv, NEW p \in Prompts, ~chatLoading, Post(p),
         inputMsg' \in Prompts \cup {NoText}
  PROVE  TurnsInv' /\ CardsInv'
  <1> DEFINE new == [prompt |-> p, history |-> Len(messages), model |-> selectedModel,
                     offline |-> offlineOnly]
  <1>1. /\ messages' = Append(messages, Says("user", NoAction)) /\ chatLoading' = TRUE
        /\ chatRequests' = chatRequests \cup {new} /\ executed' = executed
    BY DEF Post
  <1>2. new.prompt = p /\ new.history = Len(messages)
    OBVIOUS
  <1>3. NoAction \in ChatActions
    BY DEF ChatActions
  <1>4. /\ messages' \in Seq(Message) /\ messages' # <<>>
        /\ Len(messages') = Len(messages) + 1 /\ Len(messages) \in Nat
        /\ \A i \in DOMAIN messages' :
             messages'[i].sender = IF i % 2 = 1 THEN "ai" ELSE "user"
        /\ (Len(messages') % 2 = 0) = ~chatLoading
    BY <1>1, <1>3, TurnTaken
  <1>5. chatRequests = {}
    BY DEF TurnsInv
  <1> HIDE DEF new
  <1>6. TurnsInv'
    <2>1. chatLoading' = (Len(messages') % 2 = 0)
      BY <1>1, <1>4
    <2>2. chatRequests' = {new}
      BY <1>1, <1>5
    <2>3. chatLoading' = (chatRequests' # {})
      BY <1>1, <2>2
    <2>4. \A r, s \in chatRequests' : r = s /\ r.history = Len(messages') - 1
      BY <1>2, <1>4, <2>2
    <2>5. \A r \in chatRequests' : r.prompt \in Prompts
      BY <1>2, <2>2
    <2> QED
      BY <1>4, <2>1, <2>3, <2>4, <2>5 DEF TurnsInv
  <1>7. CardsInv'
    <2>1. executed' = Executing(executed, NoAction)
      BY <1>1, NoActionIdle
    <2> QED
      BY <1>1, <1>3, <2>1, CardTaken
  <1> QED
    BY <1>6, <1>7

\* An answer, or an apology for one.
LEMMA AnswerStep ==
  ASSUME TurnsInv, CardsInv, NEW r \in chatRequests, NEW action \in ChatActions,
         messages' = Append(messages, Says("ai", action)),
         executed' = Executing(executed, action),
         chatRequests' = chatRequests \ {r}, chatLoading' = FALSE, inputMsg' = inputMsg
  PROVE  TurnsInv' /\ CardsInv'
  <1>1. chatLoading /\ chatRequests = {r}
    BY DEF TurnsInv
  <1>2. /\ messages' \in Seq(Message) /\ messages' # <<>>
        /\ \A i \in DOMAIN messages' :
             messages'[i].sender = IF i % 2 = 1 THEN "ai" ELSE "user"
        /\ (Len(messages') % 2 = 0) = ~chatLoading
    BY <1>1, TurnTaken
  <1>3. chatRequests' = {}
    BY <1>1
  <1>4. inputMsg \in Prompts \cup {NoText}
    BY DEF TurnsInv
  <1>5. TurnsInv'
    BY <1>1, <1>2, <1>3, <1>4 DEF TurnsInv
  <1> QED
    BY <1>5, CardTaken

\* The turns and the executed actions, kept by every action of the chat.
LEMMA TurnsInvHolds == ChatSpec => [](TurnsInv /\ CardsInv)
  <1>1. ChatInit => TurnsInv /\ CardsInv
    <2> SUFFICES ASSUME ChatInit PROVE TurnsInv /\ CardsInv
      OBVIOUS
    <2> DEFINE x == Says("ai", NoAction)
    <2>1. x \in Message /\ x.sender = "ai" /\ x.action = NoAction
      BY DEF Message, Says, ChatActions
    <2> HIDE DEF x
    <2>2. /\ messages = <<x>> /\ chatLoading = FALSE /\ chatRequests = {} /\ executed = <<>>
          /\ inputMsg = NoText
      BY DEF ChatInit, x
    <2>3. /\ messages \in Seq(Message) /\ Len(messages) = 1 /\ DOMAIN messages = 1 .. 1
          /\ messages[1] = x /\ messages # <<>>
      BY <2>1, <2>2
    <2>4. TurnsInv
      <3>1. \A i \in DOMAIN messages : messages[i].sender = IF i % 2 = 1 THEN "ai" ELSE "user"
        BY <2>1, <2>3
      <3>2. chatLoading = (Len(messages) % 2 = 0)
        <4>1. Len(messages) = 1 /\ chatLoading = FALSE
          BY <2>2, <2>3
        <4>2. ~(1 % 2 = 0)
          OBVIOUS
        <4> QED
          BY <4>1, <4>2, Zenon
      <3>3. chatLoading = (chatRequests # {})
        BY <2>2
      <3> QED
        BY <2>2, <2>3, <3>1, <3>2, <3>3 DEF TurnsInv
    <2>5. Cards = {}
      BY <2>1, <2>3, NoActionIdle DEF Cards
    <2>6. CardsExecuted \in Seq(Message) /\ Len(CardsExecuted) = 0
      <3>1. CardsExecuted = KeptAt(messages, {}) /\ Cardinality({}) = 0
        BY <2>5, FS_EmptySet DEF CardsExecuted, Cards
      <3> QED
        BY <2>3, <3>1, KeptAtProperties
    <2>7. CardsExecuted = <<>>
      BY <2>6
    <2> QED
      BY <2>2, <2>4, <2>7 DEF CardsInv
  <1>2. ASSUME TurnsInv, CardsInv, [ChatNext]_chatVars
        PROVE  TurnsInv' /\ CardsInv'
    <2>1. CASE \/ ToggleChat \/ ModelsAnswered \/ ToggleOfflineOnly
               \/ \E m \in Offered : ChooseModel(m)
               \/ \E i \in DOMAIN messages : ClickCard(i)
               \/ UNCHANGED chatVars
      <3>1. UNCHANGED <<messages, inputMsg, chatLoading, chatRequests, executed>>
        BY <2>1 DEF ToggleChat, ModelsAnswered, ToggleOfflineOnly, ChooseModel, ClickCard, chatVars
      <3> QED
        BY <1>2, <3>1 DEF TurnsInv, CardsInv, CardsExecuted
    <2>2. ASSUME NEW p \in Prompts, TypeMessage(p) PROVE TurnsInv' /\ CardsInv'
      <3>1. UNCHANGED <<messages, chatLoading, chatRequests, executed>> /\ inputMsg' = p
        BY <2>2 DEF TypeMessage
      <3> QED
        BY <1>2, <2>2, <3>1 DEF TurnsInv, CardsInv, CardsExecuted
    <2>3. ASSUME NEW p \in Prompts, QuickPrompt(p) PROVE TurnsInv' /\ CardsInv'
      <3>1. ~chatLoading /\ Post(p) /\ inputMsg' = inputMsg
        BY <2>3 DEF QuickPrompt
      <3>2. inputMsg \in Prompts \cup {NoText}
        BY <1>2 DEF TurnsInv
      <3> QED
        BY <1>2, <2>3, <3>1, <3>2, PostStep
    <2>4. ASSUME SendInput PROVE TurnsInv' /\ CardsInv'
      <3>1. ~chatLoading /\ Post(inputMsg) /\ inputMsg' = NoText /\ inputMsg \in Prompts
        BY <1>2, <2>4 DEF SendInput, TurnsInv
      <3> QED
        BY <1>2, <3>1, PostStep
    <2>5. ASSUME NEW r \in chatRequests, ChatAnswered(r) PROVE TurnsInv' /\ CardsInv'
      <3>1. PICK action \in Answerable \cup {NoAction} :
              /\ messages' = Append(messages, Says("ai", action))
              /\ executed' = Executing(executed, action)
        BY <2>5 DEF ChatAnswered
      <3>2. action \in ChatActions
        BY <3>1, CopilotChatAssumption DEF ChatActions
      <3>3. /\ chatRequests' = chatRequests \ {r} /\ chatLoading' = FALSE
            /\ inputMsg' = inputMsg
        BY <2>5 DEF ChatAnswered
      <3> QED
        BY <1>2, <2>5, <3>1, <3>2, <3>3, AnswerStep
    <2>6. ASSUME NEW r \in chatRequests, ChatFails(r) PROVE TurnsInv' /\ CardsInv'
      <3>1. /\ messages' = Append(messages, Says("ai", NoAction))
            /\ executed' = Executing(executed, NoAction)
            /\ chatRequests' = chatRequests \ {r} /\ chatLoading' = FALSE
            /\ inputMsg' = inputMsg
        BY <2>6, NoActionIdle DEF ChatFails
      <3> QED
        BY <1>2, <2>6, <3>1, AnswerStep DEF ChatActions
    <2> QED
      BY <1>2, <2>1, <2>2, <2>3, <2>4, <2>5, <2>6, Zenon DEF ChatNext
  <1> QED
    BY <1>1, <1>2, PTL DEF ChatSpec

\* User and copilot take turns whatever is clicked meanwhile, one request is behind
\* the last turn, and each action of a card that the console can execute is executed
\* once, in the order of the cards.
THEOREM TurnsAlwaysAlternate == ChatSpec => []TurnsAlternate
  <1>1. TurnsInv /\ CardsInv => TurnsAlternate
    BY DEF TurnsInv, CardsInv, TurnsAlternate
  <1> QED
    BY <1>1, TurnsInvHolds, PTL

-----------------------------------------------------------------------------
(* The overlays *)

KeyDone ==
    LET changed == SymDiff(overlays, openBefore)
    IN  CASE key = "Ctrl+K" -> changed = {"palette"}
          [] key = "Escape" -> changed \subseteq openBefore
                               /\ Cardinality(changed) = Min({1, Cardinality(openBefore)})
          [] OTHER          -> changed = {}

\* Until a listener reacts nothing has changed.  Ctrl+K is first for App, which
\* always reacts; Escape is first for App, which does not, and then for an open
\* overlay, which does.
KeyInv ==
    /\ overlays \subseteq ToSet(OverlayOrder)
    /\ ~Idle => /\ overlays = openBefore
                /\ key \in {"Ctrl+K", "Escape", "other"}
                /\ key = "Ctrl+K" => pending = Listeners
                /\ key = "Escape" => pending = Listeners
                                     \/ (pending = OpenInOrder /\ OpenInOrder # <<>>)
    /\ Idle /\ key # "none" => KeyDone

\* The listeners are App's and those of the open overlays.
LEMMA ListenersProperties ==
  ASSUME overlays \subseteq ToSet(OverlayOrder)
  PROVE  /\ Listeners # <<>> /\ Head(Listeners) = "app" /\ Tail(Listeners) = OpenInOrder
         /\ "app" \notin overlays
         /\ OpenInOrder = <<>> => overlays = {}
         /\ OpenInOrder # <<>> => Head(OpenInOrder) \in overlays
  <1> DEFINE names == {"evidence", "upload", "palette", "settings"}
             P == {i \in DOMAIN OverlayOrder : OverlayOrder[i] \in overlays}
  <1>1. OverlayOrder \in Seq(names) /\ DOMAIN OverlayOrder = 1 .. 4
    BY DEF OverlayOrder
  <1>2. /\ OpenInOrder \in Seq(names) /\ DOMAIN OpenInOrder = 1 .. Cardinality(P)
        /\ Cardinality(P) \in Nat /\ Len(OpenInOrder) = Cardinality(P)
        /\ \A n \in 1 .. Cardinality(P) : Nth(P, n) \in P
                                          /\ OpenInOrder[n] = OverlayOrder[Nth(P, n)]
        /\ \A j \in P : \E n \in 1 .. Cardinality(P) : Nth(P, n) = j
    <2>1. P \in SUBSET DOMAIN OverlayOrder /\ OpenInOrder = KeptAt(OverlayOrder, P)
      BY DEF OpenInOrder
    <2> HIDE DEF P, names
    <2> QED
      BY <1>1, <2>1, KeptAtProperties
  <1>3. OpenInOrder = <<>> => overlays = {}
    <2>1. ASSUME OpenInOrder = <<>>, NEW o \in overlays PROVE FALSE
      <3>1. PICK i \in DOMAIN OverlayOrder : OverlayOrder[i] = o
        BY DEF ToSet
      <3>2. i \in P
        BY <3>1
      <3>3. Cardinality(P) = 0
        BY <1>2, <2>1
      <3> QED
        BY <1>2, <3>2, <3>3
    <2> QED
      BY <2>1
  <1>4. OpenInOrder # <<>> => Head(OpenInOrder) \in overlays
    <2> SUFFICES ASSUME OpenInOrder # <<>> PROVE Head(OpenInOrder) \in overlays
      OBVIOUS
    <2>1. Cardinality(P) # 0
      BY <1>2
    <2>2. 1 \in 1 .. Cardinality(P)
      BY <1>2, <2>1
    <2>3. OpenInOrder[1] \in overlays
      BY <1>2, <2>2
    <2>4. Head(OpenInOrder) = OpenInOrder[1]
      BY <1>2
    <2> QED
      BY <2>3, <2>4
  <1>5. "app" \notin overlays
    BY DEF ToSet, OverlayOrder
  <1>6. Listeners # <<>> /\ Head(Listeners) = "app" /\ Tail(Listeners) = OpenInOrder
    <2> DEFINE L == OpenInOrder
               all == names \cup {"app"}
    <2>1. L \in Seq(all) /\ Len(L) \in Nat /\ L = [i \in 1 .. Len(L) |-> L[i]]
      BY <1>2
    <2>2. /\ <<"app">> \o L \in Seq(all) /\ Len(<<"app">> \o L) = 1 + Len(L)
          /\ \A i \in 1 .. 1 + Len(L) :
               (<<"app">> \o L)[i] = IF i <= 1 THEN "app" ELSE L[i - 1]
      BY <2>1
    <2>3. Listeners = <<"app">> \o L
      BY DEF Listeners
    <2> HIDE DEF L, all
    <2>4. Listeners # <<>> /\ Head(Listeners) = "app"
      BY <2>1, <2>2, <2>3
    <2>5. /\ Tail(Listeners) \in Seq(all) /\ Len(Tail(Listeners)) = Len(L)
          /\ \A i \in 1 .. Len(L) : Tail(Listeners)[i] = L[i]
      BY <2>1, <2>2, <2>3, <2>4, HeadTailProperties
    <2>6. Tail(Listeners) = L
      BY <2>1, <2>5
    <2> QED
      BY <2>4, <2>6 DEF L
  <1> QED
    BY <1>3, <1>4, <1>5, <1>6

\* How many overlays an Escape may close.
LEMMA SmallestCount ==
  ASSUME NEW n \in Nat
  PROVE  /\ Min({1, n}) = IF n = 0 THEN 0 ELSE 1
  <1>1. \E k \in {1, n} : \A j \in {1, n} : k <= j
    <2>1. 1 <= n \/ n <= 1
      OBVIOUS
    <2> QED
      BY <2>1
  <1>2. Min({1, n}) \in {1, n} /\ \A j \in {1, n} : Min({1, n}) <= j
    BY <1>1 DEF Min
  <1> QED
    BY <1>2

\* A key that changed nothing did what it says, unless it is Ctrl+K or closes
\* nothing although something is open.
LEMMA NothingDone ==
  ASSUME overlays = openBefore, key # "Ctrl+K", key = "Escape" => openBefore = {}
  PROVE  KeyDone
  <1>1. SymDiff(overlays, openBefore) = {}
    BY DEF SymDiff
  <1>2. Cardinality({}) = 0 /\ Min({1, 0}) = 0
    BY FS_EmptySet, SmallestCount
  <1> QED
    BY <1>1, <1>2 DEF KeyDone

\* A key pressed is on its way to all listeners.
LEMMA PressKeyStep ==
  ASSUME KeyInv, NEW k \in {"Ctrl+K", "Escape", "other"}, PressKey(k)
  PROVE  KeyInv'
  <1>1. /\ key' = k /\ pending' = Listeners /\ openBefore' = overlays /\ overlays' = overlays
        /\ Listeners' = Listeners /\ OpenInOrder' = OpenInOrder
    BY DEF PressKey, Listeners, OpenInOrder
  <1>2. ~Idle'
    BY <1>1, ListenersProperties DEF KeyInv, Idle
  <1> QED
    BY <1>1, <1>2 DEF KeyInv

\* App's listener to Ctrl+K, or an overlay's to Escape: a render, and the end.
LEMMA ListenerRunsStep ==
  ASSUME KeyInv, ListenerRuns
  PROVE  KeyInv'
  <1> DEFINE h == Head(pending)
  <1>1. /\ ~Idle /\ overlays' = Reaction(h) /\ key' = key /\ openBefore' = openBefore
        /\ pending' = IF overlays' = overlays THEN Tail(pending) ELSE <<>>
    BY DEF ListenerRuns, Reacts
  <1>2. /\ overlays \subseteq ToSet(OverlayOrder) /\ overlays = openBefore
        /\ key \in {"Ctrl+K", "Escape", "other"}
    BY <1>1 DEF KeyInv
  <1>3. /\ Listeners # <<>> /\ Head(Listeners) = "app" /\ Tail(Listeners) = OpenInOrder
        /\ "app" \notin overlays
        /\ OpenInOrder = <<>> => overlays = {}
        /\ OpenInOrder # <<>> => Head(OpenInOrder) \in overlays
    BY <1>2, ListenersProperties
  <1>4. "palette" \in ToSet(OverlayOrder)
    <2>1. 3 \in DOMAIN OverlayOrder /\ OverlayOrder[3] = "palette"
      BY DEF OverlayOrder
    <2> QED
      BY <2>1 DEF ToSet
  <1>5. CASE key = "Ctrl+K"
    <2>1. h = "app"
      BY <1>1, <1>3, <1>5 DEF KeyInv
    <2>2. /\ overlays' = IF "palette" \in overlays THEN overlays \ {"palette"}
                         ELSE overlays \cup {"palette"}
          /\ key' = "Ctrl+K"
      BY <1>1, <1>5, <2>1 DEF Reaction
    <2>3. overlays' \subseteq ToSet(OverlayOrder) /\ pending' = <<>>
      BY <1>1, <1>2, <1>4, <2>2
    <2>4. SymDiff(overlays', openBefore') = {"palette"}
      BY <1>1, <1>2, <2>2 DEF SymDiff
    <2>5. KeyDone'
      BY <2>2, <2>4 DEF KeyDone
    <2> QED
      BY <2>3, <2>5 DEF KeyInv, Idle, OverlayOrder
  <1>6. CASE key = "Escape" /\ pending = Listeners
    <2>1. overlays' = overlays /\ pending' = OpenInOrder /\ key' = "Escape"
      BY <1>1, <1>3, <1>6 DEF Reaction
    <2>2. OpenInOrder' = OpenInOrder
      BY <2>1 DEF OpenInOrder
    <2>3. CASE OpenInOrder = <<>>
      <3>1. overlays' = openBefore' /\ openBefore' = {}
        BY <1>1, <1>2, <1>3, <2>1, <2>3
      <3>2. SymDiff(overlays', openBefore') = {}
        BY <3>1 DEF SymDiff
      <3>3. Cardinality({}) = 0 /\ Min({1, 0}) = 0
        BY FS_EmptySet, SmallestCount
      <3>4. KeyDone'
        BY <2>1, <3>1, <3>2, <3>3 DEF KeyDone
      <3> QED
        BY <1>2, <2>1, <2>3, <3>4 DEF KeyInv, Idle
    <2>4. CASE OpenInOrder # <<>>
      BY <1>1, <1>2, <2>1, <2>2, <2>4 DEF KeyInv, Idle
    <2> QED
      BY <2>3, <2>4
  <1>7. CASE key = "Escape" /\ pending = OpenInOrder /\ OpenInOrder # <<>>
    <2>1. h \in overlays /\ h # "app"
      BY <1>3, <1>7
    <2> HIDE DEF h
    <2>2. overlays' = overlays \ {h} /\ key' = "Escape"
      BY <1>1, <1>7, <2>1 DEF Reaction
    <2>3. pending' = <<>> /\ overlays' \subseteq ToSet(OverlayOrder)
      BY <1>1, <1>2, <2>1, <2>2
    <2>4. SymDiff(overlays', openBefore') = {h} /\ {h} \subseteq openBefore'
      BY <1>1, <1>2, <2>1, <2>2 DEF SymDiff
    <2>5. Cardinality({h}) = 1 /\ Min({1, Cardinality(openBefore')}) = 1
      <3>1. ToSet(OverlayOrder) \subseteq {"evidence", "upload", "palette", "settings"}
        BY DEF ToSet, OverlayOrder
      <3>2. IsFiniteSet({"evidence", "upload", "palette", "settings"})
        <4> DEFINE a == {"evidence"}
                   b == a \cup {"upload"}
                   c == b \cup {"palette"}
                   d == c \cup {"settings"}
        <4>1. IsFiniteSet(a)
          BY FS_Singleton
        <4>2. IsFiniteSet(b)
          BY <4>1, FS_AddElement
        <4>3. IsFiniteSet(c)
          BY <4>2, FS_AddElement
        <4>4. IsFiniteSet(d)
          BY <4>3, FS_AddElement
        <4>5. d = {"evidence", "upload", "palette", "settings"}
          OBVIOUS
        <4> QED
          BY <4>4, <4>5
      <3>3. IsFiniteSet(openBefore') /\ openBefore' # {}
        BY <1>1, <1>2, <2>1, <3>1, <3>2, FS_Subset
      <3>4. Cardinality(openBefore') \in Nat \ {0}
        BY <3>3, FS_CardinalityType, FS_EmptySet
      <3> QED
        BY <3>4, FS_Singleton, SmallestCount
    <2>6. KeyDone'
      BY <2>2, <2>4, <2>5 DEF KeyDone
    <2> QED
      BY <2>3, <2>6 DEF KeyInv, Idle
  <1>8. CASE key = "other"
    <2>1. overlays' = overlays /\ key' = "other" /\ openBefore' = overlays'
      BY <1>1, <1>2, <1>8 DEF Reaction
    <2>2. SymDiff(overlays', openBefore') = {}
      BY <2>1 DEF SymDiff
    <2>3. KeyDone'
      BY <2>1, <2>2 DEF KeyDone
    <2> QED
      BY <1>2, <2>1, <2>3 DEF KeyInv, Idle
  <1> QED
    BY <1>1, <1>2, <1>5, <1>6, <1>7, <1>8 DEF KeyInv

\* A key changes nothing but by the listener that reacts to it.
LEMMA KeyInvHolds == OverlaysSpec => []KeyInv
  <1>1. OverlaysInit => KeyInv
    BY DEF OverlaysInit, KeyInv, Idle
  <1>2. ASSUME KeyInv, [OverlaysNext]_overlayVars
        PROVE  KeyInv'
    <2> DEFINE Pointer == /\ Idle /\ key' = "none" /\ pending' = pending
                          /\ overlays' \subseteq ToSet(OverlayOrder)
    <2>1. Pointer => KeyInv'
      BY DEF KeyInv, Idle
    <2>2. overlays \subseteq ToSet(OverlayOrder)
      BY <1>2 DEF KeyInv
    <2>3. {"evidence", "upload", "palette", "settings"} \subseteq ToSet(OverlayOrder)
      <3>1. \A i \in 1 .. 4 : i \in DOMAIN OverlayOrder
        BY DEF OverlayOrder
      <3>2. /\ OverlayOrder[1] = "evidence" /\ OverlayOrder[2] = "upload"
            /\ OverlayOrder[3] = "palette" /\ OverlayOrder[4] = "settings"
        BY DEF OverlayOrder
      <3> QED
        BY <3>1, <3>2 DEF ToSet
    <2>4. CASE ClearSearch \/ UploadEnds \/ \E tab \in Tabs : CopilotNavigates(tab)
      <3>1. Pointer
        BY <2>2, <2>4 DEF ClearSearch, UploadEnds, CopilotNavigates, Elsewhere, NoKey, Hide
      <3> QED
        BY <2>1, <3>1
    <2>5. CASE \E d \in Listings : SelectRow(d) \/ PaletteOpensDecision(d)
      <3>1. Pointer
        BY <2>2, <2>3, <2>5 DEF SelectRow, PaletteOpensDecision, Elsewhere, NoKey, Show
      <3> QED
        BY <2>1, <3>1
    <2>6. CASE \E tab \in Tabs : OpenTab(tab) \/ PaletteOpensTab(tab)
      <3>1. Pointer
        BY <2>2, <2>3, <2>6 DEF OpenTab, PaletteOpensTab, Elsewhere, NoKey, Hide
      <3> QED
        BY <2>1, <3>1
    <2>7. CASE \E o \in {"upload", "settings"} : OpenFromTopbar(o)
      <3>1. Pointer
        BY <2>2, <2>3, <2>7 DEF OpenFromTopbar, Elsewhere, NoKey, Show
      <3> QED
        BY <2>1, <3>1
    <2>8. CASE \E text \in Texts \cup {NoSearchText} :
                 \/ TopbarSearch(text)
                 \/ \E filter \in PaletteFilters : PaletteSearch(text, filter)
      <3>1. Pointer
        BY <2>2, <2>3, <2>8 DEF TopbarSearch, PaletteSearch, Elsewhere, NoKey, Show
      <3> QED
        BY <2>1, <3>1
    <2>9. CASE \E o \in overlays : CloseTop(o)
      <3>1. Pointer
        BY <2>2, <2>9 DEF CloseTop, Elsewhere, NoKey, Hide
      <3> QED
        BY <2>1, <3>1
    <2>10. CASE UNCHANGED overlayVars
      <3>1. /\ overlays' = overlays /\ key' = key /\ pending' = pending
            /\ openBefore' = openBefore
        BY <2>10 DEF overlayVars
      <3> QED
        BY <1>2, <3>1 DEF KeyInv, Idle, KeyDone, Listeners, OpenInOrder
    <2> QED
      BY <1>2, <2>4, <2>5, <2>6, <2>7, <2>8, <2>9, <2>10, PressKeyStep, ListenerRunsStep, Zenon
         DEF OverlaysNext
  <1> QED
    BY <1>1, <1>2, PTL DEF OverlaysSpec

\* However many overlays listen, Ctrl+K turns the palette around once and Escape
\* closes one of those that are open, if any (the first to listen, which need not
\* be the one on top).
THEOREM KeysAlwaysActOnce == OverlaysSpec => []KeysActOnce
  <1>1. KeyInv => KeysActOnce
    BY DEF KeyInv, KeyDone, KeysActOnce
  <1> QED
    BY <1>1, KeyInvHolds, PTL

-----------------------------------------------------------------------------
(* The donut *)

\* The arithmetic: of a total of t, b and s have the nearest percentages pb and
\* ps; then a has 100 - pb - ps within one percent.
LEMMA RestIsNear ==
  ASSUME NEW b \in Nat, NEW s \in Nat, NEW a \in Nat, NEW t \in Nat, t = b + s + a, t > 0,
         NEW pb \in Int, NEW ps \in Int,
         200 * b <= 2 * t * pb + t, 2 * t * pb - t <= 200 * b,
         200 * s <= 2 * t * ps + t, 2 * t * ps - t <= 200 * s
  PROVE  LET rest == 100 - pb - ps
         IN  /\ rest >= -1
             /\ t * pb - 100 * b <= t /\ 100 * b - t * pb <= t
             /\ t * ps - 100 * s <= t /\ 100 * s - t * ps <= t
             /\ t * rest - 100 * a <= t /\ 100 * a - t * rest <= t
  <1> DEFINE tb == t * pb
             ts == t * ps
             rest == 100 - pb - ps
             tr == t * rest
  <1>1. tb \in Int /\ ts \in Int /\ tr \in Int /\ rest \in Int
    OBVIOUS
  <1>2. 2 * t * pb = 2 * tb /\ 2 * t * ps = 2 * ts
    OBVIOUS
  <1>3. tr = 100 * t - tb - ts
    OBVIOUS
  <1>4. tr >= -t => rest >= -1
    <2> SUFFICES ASSUME rest < -1 PROVE tr < -t
      BY <1>1
    <2>1. rest + 2 <= 0
      BY <1>1
    <2>2. t * (rest + 2) <= 0
      BY <1>1, <2>1
    <2>3. t * (rest + 2) = tr + 2 * t
      BY <1>1
    <2> QED
      BY <1>1, <2>2, <2>3
  <1> HIDE DEF tb, ts, tr, rest
  <1>5. /\ tb - 100 * b <= t /\ 100 * b - tb <= t
        /\ ts - 100 * s <= t /\ 100 * s - ts <= t
        /\ tr - 100 * a <= t /\ 100 * a - tr <= t
    BY <1>1, <1>2, <1>3
  <1>6. rest >= -1
    BY <1>1, <1>4, <1>5
  <1> QED
    BY <1>5, <1>6 DEF tb, ts, tr, rest

\* The percentages shown are computed from the counters shown.
DonutInv == summary \in [Kinds -> Counts] /\ donut \in Donuts(summary)

\* The chart is drawn from the summary it was given.
LEMMA DonutInvHolds == DonutSpec => []DonutInv
  <1>1. DonutInit => DonutInv
    BY DEF DonutInit, DonutInv
  <1>2. DonutInv /\ [DonutNext]_donutVars => DonutInv'
    <2>1. DonutInv /\ DonutNext => DonutInv'
      BY DEF DonutInv, DonutNext, MetricsArrive
    <2>2. DonutInv /\ UNCHANGED donutVars => DonutInv'
      BY DEF DonutInv, donutVars
    <2> QED
      BY <2>1, <2>2
  <1> QED
    BY <1>1, <1>2, PTL DEF DonutSpec

\* What a member of Donuts(c) is, with its two rounded shares named.
LEMMA DonutShape ==
  ASSUME NEW c \in [Kinds -> Nat], NEW d \in Donuts(c)
  PROVE  /\ d \in [Kinds -> Int]
         /\ d["BLOCK"] \in NearestPercents(c["BLOCK"], TotalThreats(c))
         /\ d["SUSPICIOUS"] \in NearestPercents(c["SUSPICIOUS"], TotalThreats(c))
         /\ d["ALLOW"] = 100 - d["BLOCK"] - d["SUSPICIOUS"]
  <1>1. PICK b \in NearestPercents(c["BLOCK"], TotalThreats(c)),
             a \in NearestPercents(c["SUSPICIOUS"], TotalThreats(c)) :
          d = [BLOCK |-> b, SUSPICIOUS |-> a, ALLOW |-> 100 - b - a]
    BY DEF Donuts
  <1>2. b \in Int /\ a \in Int
    BY DEF NearestPercents
  <1>3. d["BLOCK"] = b /\ d["SUSPICIOUS"] = a /\ d["ALLOW"] = 100 - b - a
    BY <1>1
  <1>4. d \in [Kinds -> Int]
    BY <1>1, <1>2 DEF Kinds
  <1> QED
    BY <1>3, <1>4

\* The donut's shares add up to one hundred and none is more than one percent
\* off, whatever the counters are.
THEOREM DonutSharesAlwaysAddUp == DonutSpec => []DonutSharesAddUp
  <1>1. DonutInv => DonutSharesAddUp
    <2> SUFFICES ASSUME DonutInv PROVE DonutSharesAddUp
      OBVIOUS
    <2> DEFINE B == summary["BLOCK"]
               S == summary["SUSPICIOUS"]
               A == summary["ALLOW"]
               pb == donut["BLOCK"]
               ps == donut["SUSPICIOUS"]
               T == B + S + A
    <2>1. summary \in [Kinds -> Nat] /\ B \in Nat /\ S \in Nat /\ A \in Nat
      BY DonutChartAssumption DEF DonutInv, Kinds
    <2>2. /\ donut \in [Kinds -> Int]
          /\ pb \in NearestPercents(B, TotalThreats(summary))
          /\ ps \in NearestPercents(S, TotalThreats(summary))
          /\ donut["ALLOW"] = 100 - pb - ps
      BY <2>1, DonutShape DEF DonutInv
    <2>3. pb \in Int /\ ps \in Int
      BY <2>2 DEF NearestPercents
    <2>4. pb + ps + donut["ALLOW"] = 100
      BY <2>2, <2>3
    <2>5. CASE T = 0
      <3>1. TotalThreats(summary) = 1 /\ B = 0 /\ S = 0
        BY <2>1, <2>5 DEF TotalThreats
      <3>2. pb = 0 /\ ps = 0
        BY <2>2, <2>3, <3>1 DEF NearestPercents
      <3>3. donut["ALLOW"] >= -1
        BY <2>2, <3>2
      <3> QED
        BY <2>4, <2>5, <3>3 DEF DonutSharesAddUp
    <2>6. CASE T > 0
      <3>1. TotalThreats(summary) = T /\ T \in Nat
        BY <2>1, <2>6 DEF TotalThreats
      <3>2. /\ 200 * B <= 2 * T * pb + T /\ 2 * T * pb - T <= 200 * B
            /\ 200 * S <= 2 * T * ps + T /\ 2 * T * ps - T <= 200 * S
        BY <2>2, <3>1 DEF NearestPercents
      <3>3. /\ donut["ALLOW"] >= -1
            /\ T * pb - 100 * B <= T /\ 100 * B - T * pb <= T
            /\ T * ps - 100 * S <= T /\ 100 * S - T * ps <= T
            /\ T * donut["ALLOW"] - 100 * A <= T /\ 100 * A - T * donut["ALLOW"] <= T
        <4> HIDE DEF B, S, A, pb, ps
        <4> QED
          BY <2>1, <2>2, <2>3, <2>6, <3>1, <3>2, RestIsNear
      <3>4. \A kind \in Kinds : /\ T * donut[kind] - 100 * summary[kind] <= T
                                /\ 100 * summary[kind] - T * donut[kind] <= T
        BY <3>3 DEF Kinds
      <3> QED
        BY <2>4, <3>3, <3>4 DEF DonutSharesAddUp
    <2>7. T = 0 \/ T > 0
      BY <2>1
    <2> QED
      BY <2>5, <2>6, <2>7
  <1> QED
    BY <1>1, DonutInvHolds, PTL

-----------------------------------------------------------------------------
(* The groups: the charts and the client addresses *)

ListedQueries == [age : Int, kind : QueryKinds, ip : Ips, risk : 0 .. 100]

\* The parts of a query
LEMMA ListedQueryIs ==
  \A q \in ListedQueries : q.age \in Int /\ q.kind \in QueryKinds /\ q.ip \in Ips /\ q.risk \in Nat
  <1> SUFFICES ASSUME NEW q \in ListedQueries
               PROVE  q.age \in Int /\ q.kind \in QueryKinds /\ q.ip \in Ips /\ q.risk \in Nat
    OBVIOUS
  <1>1. q.age \in Int /\ q.kind \in QueryKinds /\ q.ip \in Ips /\ q.risk \in 0 .. 100
    BY DEF ListedQueries
  <1> QED
    BY <1>1

\* What the groups are computed from is a list of queries.
GroupsInv == charted \in Seq(ListedQueries)

LEMMA GroupsInvHolds == GroupsSpec => []GroupsInv
  <1>1. GroupsInit => GroupsInv
    BY DEF GroupsInit, GroupsInv
  <1>2. GroupsInv /\ [GroupsNext]_groupVars => GroupsInv'
    <2> SUFFICES ASSUME GroupsInv, [GroupsNext]_groupVars PROVE GroupsInv'
      OBVIOUS
    <2>1. ASSUME NEW age \in Ages, NEW kind \in QueryKinds, NEW ip \in Ips, NEW risk \in Risks,
                 QueryListed([age |-> age, kind |-> kind, ip |-> ip, risk |-> risk])
          PROVE  GroupsInv'
      <3> DEFINE q == [age |-> age, kind |-> kind, ip |-> ip, risk |-> risk]
      <3>1. q \in ListedQueries
        BY QueryGroupsAssumption DEF ListedQueries
      <3>2. charted' = <<q>> \o charted
        BY <2>1 DEF QueryListed
      <3> HIDE DEF q
      <3>3. <<q>> \in Seq(ListedQueries)
        BY <3>1
      <3>4. <<q>> \o charted \in Seq(ListedQueries)
        BY <3>3, ConcatProperties DEF GroupsInv
      <3> QED
        BY <3>2, <3>4 DEF GroupsInv
    <2>2. CASE \/ \E text \in IpSearches \cup {NoIpSearch} :
                    SearchIps(text) \/ SearchFromTopbar(text)
               \/ \E ip \in Ips : SelectIp(ip)
               \/ RemountIps
               \/ UNCHANGED groupVars
      <3>1. UNCHANGED charted
        BY <2>2, Zenon DEF SearchIps, SearchFromTopbar, SelectIp, RemountIps, groupVars
      <3> QED
        BY <3>1 DEF GroupsInv
    <2> QED
      BY <2>1, <2>2, Zenon DEF GroupsNext
  <1> QED
    BY <1>1, <1>2, PTL DEF GroupsSpec

\* The counts of each bucket
Buckets == [0 .. 11 -> [QueryKinds -> Nat]]
NoBuckets == [i \in 0 .. 11 |-> [kind \in QueryKinds |-> 0]]

\* A query of the last minute is in the bucket whose label its age has or is short of.
LEMMA BucketIs ==
  ASSUME NEW q \in ListedQueries
  PROVE  /\ InWindow(q) => BucketOf(q) \in 0 .. 11
         /\ \A i \in 0 .. 11 :
              InWindow(q) /\ BucketOf(q) = i
                <=> /\ q.age <= 600 - 50 * i /\ q.age >= 0
                    /\ q.age > 550 - 50 * i \/ i = 11
  <1> DEFINE a == q.age
             d == (600 - a) \div 50
  <1>1. a \in Int /\ d \in Int /\ 50 * d <= 600 - a /\ 600 - a < 50 * d + 50
    BY DEF ListedQueries
  <1>2. BucketOf(q) = IF 11 < (IF 0 < d THEN d ELSE 0) THEN 11 ELSE IF 0 < d THEN d ELSE 0
    BY <1>1 DEF BucketOf, Least, Most
  <1>3. InWindow(q) <=> a >= 0 /\ a <= 600
    BY DEF InWindow
  <1> HIDE DEF a, d
  <1>4. InWindow(q) => BucketOf(q) \in 0 .. 11
    BY <1>1, <1>2, <1>3
  <1>5. ASSUME NEW i \in 0 .. 11
        PROVE  InWindow(q) /\ BucketOf(q) = i
                 <=> a <= 600 - 50 * i /\ a >= 0 /\ (a > 550 - 50 * i \/ i = 11)
    BY <1>1, <1>2, <1>3
  <1> QED
    BY <1>4, <1>5 DEF a

\* A tally is one more where the query belongs.
LEMMA TallyIs ==
  ASSUME NEW b \in Buckets, NEW q \in ListedQueries
  PROVE  /\ Tally(b, q) \in Buckets
         /\ \A i \in 0 .. 11, kind \in QueryKinds :
              Tally(b, q)[i][kind] =
                b[i][kind] + (IF InWindow(q) /\ BucketOf(q) = i /\ q.kind = kind THEN 1 ELSE 0)
  <1> DEFINE t == Tally(b, q)
             x == BucketOf(q)
  <1>1. q.kind \in QueryKinds /\ \A i \in 0 .. 11, kind \in QueryKinds : b[i][kind] \in Nat
    BY DEF ListedQueries, Buckets
  <1>2. CASE InWindow(q)
    <2>1. x \in 0 .. 11
      BY <1>2, BucketIs
    <2>2. t = [b EXCEPT ![x] = [b[x] EXCEPT ![q.kind] = b[x][q.kind] + 1]]
      BY <1>2 DEF Tally
    <2> HIDE DEF t, x
    <2>3. t = [i \in 0 .. 11 |->
                 IF i = x THEN [kind \in QueryKinds |->
                                  IF kind = q.kind THEN b[i][kind] + 1 ELSE b[i][kind]]
                 ELSE b[i]]
      BY <1>1, <2>1, <2>2 DEF Buckets
    <2>4. t \in Buckets
      BY <1>1, <2>3 DEF Buckets
    <2>5. ASSUME NEW i \in 0 .. 11, NEW kind \in QueryKinds
          PROVE  t[i][kind] = b[i][kind] + (IF x = i /\ q.kind = kind THEN 1 ELSE 0)
      BY <1>1, <2>3
    <2> QED
      BY <1>2, <2>4, <2>5 DEF t, x
  <1>3. CASE ~InWindow(q)
    BY <1>1, <1>3 DEF Tally
  <1> QED
    BY <1>2, <1>3

\* The buckets are what the tallies of the queries, one by one, come to.
LEMMA TallyRuns ==
  ASSUME GroupsInv
  PROVE  \E run \in [0 .. Len(charted) -> Buckets] :
           /\ run[0] = NoBuckets
           /\ \A n \in 1 .. Len(charted) : run[n] = Tally(run[n - 1], charted[n])
           /\ TimeBuckets = run[Len(charted)]
  <1> DEFINE N == Len(charted)
             Equation(g) == g = [s \in SUBSET (1 .. N) |->
                                   IF s = {} THEN NoBuckets
                                   ELSE Tally(g[s \ {Max(s)}], charted[Max(s)])]
             iter == CHOOSE g : Equation(g)
             step == [p \in Buckets \X (1 .. N) |-> Tally(p[1], charted[p[2]])]
  <1>1. N \in Nat /\ DOMAIN charted = 1 .. N /\ \A n \in 1 .. N : charted[n] \in ListedQueries
    BY DEF GroupsInv
  <1>2. step \in [Buckets \X (1 .. N) -> Buckets] /\ NoBuckets \in Buckets
    <2>1. step \in [Buckets \X (1 .. N) -> Buckets]
      BY <1>1, TallyIs
    <2> QED
      BY <2>1 DEF NoBuckets, Buckets
  <1>3. PICK g : FoldFcn(g, N, Buckets, NoBuckets, step)
    <2> HIDE DEF step, N
    <2> QED
      BY <1>1, <1>2, FoldExists
  <1>4. Equation(iter)
    <2>1. \A s \in SUBSET (1 .. N) : s # {} => g[s] = Tally(g[s \ {Max(s)}], charted[Max(s)])
      BY <1>3 DEF FoldFcn
    <2>2. Equation(g)
      BY <1>3, <2>1 DEF FoldFcn
    <2> HIDE DEF Equation
    <2> QED
      BY <2>2
  <1>5. TimeBuckets = iter[1 .. N]
    BY <1>1 DEF TimeBuckets, FoldLeft, MapThenFoldSet, NoBuckets
  <1> HIDE DEF iter
  <1>6. iter[{}] = NoBuckets
    BY <1>4
  <1>7. \A s \in SUBSET (1 .. N) : s # {} /\ iter[s \ {Max(s)}] \in Buckets
                                     => iter[s] = step[<<iter[s \ {Max(s)}], Max(s)>>]
    <2> SUFFICES ASSUME NEW s \in SUBSET (1 .. N), s # {}, iter[s \ {Max(s)}] \in Buckets
                 PROVE  iter[s] = step[<<iter[s \ {Max(s)}], Max(s)>>]
      OBVIOUS
    <2>1. Max(s) \in 1 .. N
      BY <1>3 DEF FoldFcn
    <2>2. iter[s] = Tally(iter[s \ {Max(s)}], charted[Max(s)])
      BY <1>4
    <2> QED
      BY <2>1, <2>2
  <1>8. PICK run : FoldRun(run, N, Buckets, NoBuckets, step, iter[1 .. N])
    <2> HIDE DEF step, N
    <2> QED
      BY <1>1, <1>2, <1>6, <1>7, FoldRuns
  <1>9. run \in [0 .. N -> Buckets] /\ run[0] = NoBuckets
    BY <1>8 DEF FoldRun
  <1>10. \A n \in 1 .. N : run[n] = Tally(run[n - 1], charted[n])
    <2> TAKE n \in 1 .. N
    <2>1. n - 1 \in 0 .. N
      BY <1>1
    <2>2. run[n] = step[<<run[n - 1], n>>] /\ run[n - 1] \in Buckets
      BY <1>8, <2>1 DEF FoldRun
    <2> QED
      BY <2>2
  <1>11. TimeBuckets = run[N]
    BY <1>5, <1>8 DEF FoldRun
  <1> QED
    BY <1>9, <1>10, <1>11

\* Each query of the last minute is counted in its bucket, and in no other.
LEMMA EachIsInItsBucket ==
  ASSUME GroupsInv
  PROVE  EachInItsBucket
  <1> DEFINE N == Len(charted)
             T(i, kind) == {j \in DOMAIN charted : /\ charted[j].kind = kind
                                                   /\ charted[j].age <= 600 - 50 * i
                                                   /\ charted[j].age >= 0
                                                   /\ charted[j].age > 550 - 50 * i \/ i = 11}
  <1>1. N \in Nat /\ DOMAIN charted = 1 .. N /\ \A n \in 1 .. N : charted[n] \in ListedQueries
    BY DEF GroupsInv
  <1>2. PICK run \in [0 .. N -> Buckets] :
          /\ run[0] = NoBuckets
          /\ \A n \in 1 .. N : run[n] = Tally(run[n - 1], charted[n])
          /\ TimeBuckets = run[N]
    BY TallyRuns
  <1>3. ASSUME NEW i \in 0 .. 11, NEW kind \in QueryKinds
        PROVE  TimeBuckets[i][kind] = Cardinality(T(i, kind))
    <2> DEFINE c == [n \in 0 .. N |-> run[n][i][kind]]
               P == T(i, kind)
    <2>1. c \in [0 .. N -> Int]
      <3>1. \A n \in 0 .. N : run[n][i][kind] \in Nat
        <4> TAKE n \in 0 .. N
        <4>1. run[n] \in [0 .. 11 -> [QueryKinds -> Nat]]
          BY <1>2 DEF Buckets
        <4> QED
          BY <4>1
      <3> QED
        BY <3>1
    <2>2. \A n \in 1 .. N : c[n] = c[n - 1] + (IF n \in P THEN 1 ELSE 0)
      <3> TAKE n \in 1 .. N
      <3> DEFINE q == charted[n]
      <3>1. n \in 0 .. N /\ n - 1 \in 0 .. N /\ q \in ListedQueries /\ run[n - 1] \in Buckets
        BY <1>1, <1>2
      <3>2. n \in P <=> InWindow(q) /\ BucketOf(q) = i /\ q.kind = kind
        <4>1. n \in P <=> /\ q.kind = kind /\ q.age <= 600 - 50 * i /\ q.age >= 0
                          /\ q.age > 550 - 50 * i \/ i = 11
          BY <1>1
        <4> HIDE DEF P, q
        <4> QED
          BY <3>1, <4>1, BucketIs
      <3>3. run[n] = Tally(run[n - 1], q)
        BY <1>2
      <3> HIDE DEF P, q
      <3>4. run[n][i][kind] = run[n - 1][i][kind] + (IF n \in P THEN 1 ELSE 0)
        <4> DEFINE b == run[n - 1]
        <4>1. b \in Buckets
          BY <3>1
        <4> HIDE DEF b
        <4>2. Tally(b, q)[i][kind] =
                b[i][kind] + (IF InWindow(q) /\ BucketOf(q) = i /\ q.kind = kind THEN 1 ELSE 0)
          BY <3>1, <4>1, TallyIs
        <4> QED
          BY <3>2, <3>3, <4>2 DEF b
      <3> QED
        BY <3>1, <3>4
    <2>3. c[N] = c[0] + Cardinality({j \in 1 .. N : j \in P})
      <3> HIDE DEF c, N, P
      <3> QED
        BY <1>1, <2>1, <2>2, CountsPlaces
    <2>4. c[0] = 0 /\ c[N] = TimeBuckets[i][kind]
      BY <1>1, <1>2 DEF NoBuckets
    <2>5. {j \in 1 .. N : j \in P} = P
      BY <1>1
    <2>6. Cardinality(P) \in Nat
      <3>1. IsFiniteSet(1 .. N) /\ P \in SUBSET (1 .. N)
        BY <1>1, FS_Interval
      <3> HIDE DEF P
      <3> QED
        BY <3>1, FS_Subset, FS_CardinalityType
    <2> HIDE DEF c, P, N
    <2>7. TimeBuckets[i][kind] = Cardinality(P)
      <3>1. c[N] = c[0] + Cardinality(P)
        BY <2>3, <2>5, Zenon
      <3> QED
        BY <2>4, <2>6, <3>1
    <2> QED
      BY <2>7 DEF P
  <1>4. ASSUME NEW i \in 0 .. 11, NEW kind \in QueryKinds
        PROVE  Cardinality(T(i, kind)) =
                 Occurrences(LAMBDA q : /\ q.kind = kind
                                        /\ q.age <= 600 - 50 * i /\ q.age >= 0
                                        /\ q.age > 550 - 50 * i \/ i = 11)
    BY DEF Occurrences
  <1> HIDE DEF T
  <1>5. ASSUME NEW i \in 0 .. 11, NEW kind \in QueryKinds
        PROVE  TimeBuckets[i][kind] =
                 Occurrences(LAMBDA q : /\ q.kind = kind
                                        /\ q.age <= 600 - 50 * i /\ q.age >= 0
                                        /\ q.age > 550 - 50 * i \/ i = 11)
    BY <1>3, <1>4
  <1> QED
    BY <1>5 DEF EachInItsBucket

\* The summaries
IpMaps == UNION {[known -> IpSummary] : known \in SUBSET Ips}

SummaryOf(summaries, ip) == IF ip \in DOMAIN summaries THEN summaries[ip] ELSE NewIp

\* What a query makes of its address's summary
More(old, q) ==
  [total |-> old.total + 1, counts |-> [old.counts EXCEPT ![q.kind] = @ + 1],
   maxRisk |-> Most(old.maxRisk, q.risk),
   status |-> StatusOf([old.counts EXCEPT ![q.kind] = @ + 1], Most(old.maxRisk, q.risk))]

\* A map of summaries has a summary for each of its addresses.
LEMMA IpMapIs ==
  ASSUME NEW s \in IpMaps
  PROVE  /\ DOMAIN s \subseteq Ips /\ s \in [DOMAIN s -> IpSummary]
         /\ \A ip : SummaryOf(s, ip) \in IpSummary
  <1>1. PICK known \in SUBSET Ips : s \in [known -> IpSummary]
    BY DEF IpMaps
  <1>2. NewIp \in IpSummary
    BY DEF NewIp, IpSummary, QueryKinds
  <1> QED
    BY <1>1, <1>2 DEF SummaryOf

\* A query is one more in its address's summary.
LEMMA MoreIs ==
  ASSUME NEW old \in IpSummary, NEW q \in ListedQueries
  PROVE  /\ More(old, q) \in IpSummary
         /\ More(old, q).total = old.total + 1
         /\ \A kind \in QueryKinds :
              More(old, q).counts[kind] = old.counts[kind] + (IF q.kind = kind THEN 1 ELSE 0)
         /\ More(old, q).maxRisk = IF old.maxRisk < q.risk THEN q.risk ELSE old.maxRisk
         /\ More(old, q).status = StatusOf(More(old, q).counts, More(old, q).maxRisk)
  <1> DEFINE counts == [old.counts EXCEPT ![q.kind] = @ + 1]
             maxRisk == Most(old.maxRisk, q.risk)
  <1>1. /\ old.total \in Nat /\ old.counts \in [QueryKinds -> Nat] /\ old.maxRisk \in Nat
        /\ q.kind \in QueryKinds /\ q.risk \in Nat
    <2>1. old.total \in Nat /\ old.counts \in [QueryKinds -> Nat] /\ old.maxRisk \in Nat
      BY DEF IpSummary
    <2>2. q.kind \in QueryKinds /\ q.risk \in Nat
      BY DEF ListedQueries
    <2> QED
      BY <2>1, <2>2
  <1>2. /\ counts \in [QueryKinds -> Nat]
        /\ \A kind \in QueryKinds :
             counts[kind] = old.counts[kind] + (IF q.kind = kind THEN 1 ELSE 0)
    BY <1>1
  <1>3. maxRisk \in Nat /\ maxRisk = IF old.maxRisk < q.risk THEN q.risk ELSE old.maxRisk
    BY <1>1 DEF Most
  <1>4. StatusOf(counts, maxRisk) \in {"HIGH RISK", "SUSPICIOUS", "NORMAL"}
    BY DEF StatusOf
  <1>5. More(old, q) = [total |-> old.total + 1, counts |-> counts, maxRisk |-> maxRisk,
                        status |-> StatusOf(counts, maxRisk)]
    BY DEF More
  <1> HIDE DEF counts, maxRisk
  <1>6. /\ More(old, q).total = old.total + 1 /\ More(old, q).counts = counts
        /\ More(old, q).maxRisk = maxRisk /\ More(old, q).status = StatusOf(counts, maxRisk)
    BY <1>5
  <1>7. More(old, q) \in IpSummary
    <2> DEFINE t == old.total + 1
               s == StatusOf(counts, maxRisk)
               C == [QueryKinds -> Nat]
               W == {"HIGH RISK", "SUSPICIOUS", "NORMAL"}
    <2>1. t \in Nat /\ counts \in C /\ maxRisk \in Nat /\ s \in W
      <3>1. t \in Nat
        BY <1>1
      <3> HIDE DEF t
      <3> QED
        BY <1>2, <1>3, <1>4, <3>1
    <2>2. /\ More(old, q) = [total |-> t, counts |-> counts, maxRisk |-> maxRisk, status |-> s]
          /\ IpSummary = [total : Nat, counts : C, maxRisk : Nat, status : W]
      BY <1>5 DEF IpSummary
    <2> HIDE DEF t, s, C, W
    <2> QED
      BY <2>1, <2>2
  <1> QED
    BY <1>2, <1>3, <1>6, <1>7

\* The summary of the query's address has one query more, the others are as they were.
LEMMA AggregateIs ==
  ASSUME NEW s \in IpMaps, NEW q \in ListedQueries
  PROVE  /\ Aggregate(s, q) \in IpMaps
         /\ DOMAIN Aggregate(s, q) = DOMAIN s \cup {q.ip}
         /\ \A ip : SummaryOf(Aggregate(s, q), ip) =
                      IF ip = q.ip THEN More(SummaryOf(s, ip), q) ELSE SummaryOf(s, ip)
  <1> DEFINE t == Aggregate(s, q)
             known == DOMAIN s \cup {q.ip}
             more == More(SummaryOf(s, q.ip), q)
  <1>1. t = [ip \in known |-> IF ip = q.ip THEN more ELSE s[ip]]
    BY DEF Aggregate, More, SummaryOf
  <1>2. /\ more \in IpSummary /\ q.ip \in Ips
        /\ DOMAIN s \subseteq Ips /\ s \in [DOMAIN s -> IpSummary]
    BY IpMapIs, MoreIs DEF ListedQueries
  <1> HIDE DEF t, more
  <1>3. t \in [known -> IpSummary] /\ known \in SUBSET Ips
    BY <1>1, <1>2
  <1>4. t \in IpMaps
    BY <1>3 DEF IpMaps
  <1>5. ASSUME NEW ip
        PROVE  SummaryOf(t, ip) = IF ip = q.ip THEN more ELSE SummaryOf(s, ip)
    BY <1>1 DEF SummaryOf
  <1> QED
    BY <1>3, <1>4, <1>5 DEF t, more

\* The summaries are what the queries, one by one, make of the seeds.
LEMMA AggregateRuns ==
  ASSUME GroupsInv
  PROVE  \E run \in [0 .. Len(charted) -> IpMaps] :
           /\ run[0] = SeedIps
           /\ \A n \in 1 .. Len(charted) : run[n] = Aggregate(run[n - 1], charted[n])
           /\ IpSummaries = run[Len(charted)]
  <1> DEFINE N == Len(charted)
             Equation(g) == g = [s \in SUBSET (1 .. N) |->
                                   IF s = {} THEN SeedIps
                                   ELSE Aggregate(g[s \ {Max(s)}], charted[Max(s)])]
             iter == CHOOSE g : Equation(g)
             step == [p \in IpMaps \X (1 .. N) |-> Aggregate(p[1], charted[p[2]])]
  <1>1. N \in Nat /\ DOMAIN charted = 1 .. N /\ \A n \in 1 .. N : charted[n] \in ListedQueries
    BY DEF GroupsInv
  <1>2. step \in [IpMaps \X (1 .. N) -> IpMaps] /\ SeedIps \in IpMaps
    <2>1. step \in [IpMaps \X (1 .. N) -> IpMaps]
      BY <1>1, AggregateIs
    <2>2. SeedIps \in [DOMAIN SeedIps -> IpSummary] /\ DOMAIN SeedIps \in SUBSET Ips
      BY QueryGroupsAssumption
    <2> QED
      BY <2>1, <2>2 DEF IpMaps
  <1>3. PICK g : FoldFcn(g, N, IpMaps, SeedIps, step)
    <2> HIDE DEF step, N
    <2> QED
      BY <1>1, <1>2, FoldExists
  <1>4. Equation(iter)
    <2>1. \A s \in SUBSET (1 .. N) : s # {} => g[s] = Aggregate(g[s \ {Max(s)}], charted[Max(s)])
      BY <1>3 DEF FoldFcn
    <2>2. Equation(g)
      BY <1>3, <2>1 DEF FoldFcn
    <2> HIDE DEF Equation
    <2> QED
      BY <2>2
  <1>5. IpSummaries = iter[1 .. N]
    BY <1>1 DEF IpSummaries, FoldLeft, MapThenFoldSet
  <1> HIDE DEF iter
  <1>6. iter[{}] = SeedIps
    BY <1>4
  <1>7. \A s \in SUBSET (1 .. N) : s # {} /\ iter[s \ {Max(s)}] \in IpMaps
                                     => iter[s] = step[<<iter[s \ {Max(s)}], Max(s)>>]
    <2> SUFFICES ASSUME NEW s \in SUBSET (1 .. N), s # {}, iter[s \ {Max(s)}] \in IpMaps
                 PROVE  iter[s] = step[<<iter[s \ {Max(s)}], Max(s)>>]
      OBVIOUS
    <2>1. Max(s) \in 1 .. N
      BY <1>3 DEF FoldFcn
    <2>2. iter[s] = Aggregate(iter[s \ {Max(s)}], charted[Max(s)])
      BY <1>4
    <2> QED
      BY <2>1, <2>2
  <1>8. PICK run : FoldRun(run, N, IpMaps, SeedIps, step, iter[1 .. N])
    <2> HIDE DEF step, N
    <2> QED
      BY <1>1, <1>2, <1>6, <1>7, FoldRuns
  <1>9. run \in [0 .. N -> IpMaps] /\ run[0] = SeedIps
    BY <1>8 DEF FoldRun
  <1>10. \A n \in 1 .. N : run[n] = Aggregate(run[n - 1], charted[n])
    <2> TAKE n \in 1 .. N
    <2>1. n - 1 \in 0 .. N
      BY <1>1
    <2>2. run[n] = step[<<run[n - 1], n>>] /\ run[n - 1] \in IpMaps
      BY <1>8, <2>1 DEF FoldRun
    <2> QED
      BY <2>2
  <1>11. IpSummaries = run[N]
    BY <1>5, <1>8 DEF FoldRun
  <1> QED
    BY <1>9, <1>10, <1>11

\* The queries of an address
OwnPlaces(ip) == {j \in DOMAIN charted : charted[j].ip = ip}

SeedOf(ip) == SummaryOf(SeedIps, ip)

\* The state of an address's summary after the first n queries
SummaryStages(stages, ip) ==
  /\ stages \in [0 .. Len(charted) -> IpSummary]
  /\ stages[0] = SeedOf(ip) /\ stages[Len(charted)] = SummaryOf(IpSummaries, ip)
  /\ \A n \in 1 .. Len(charted) :
       stages[n] = IF n \in OwnPlaces(ip) THEN More(stages[n - 1], charted[n]) ELSE stages[n - 1]

\* An address's summary changes with its own queries only.
LEMMA SummaryHasStages ==
  ASSUME GroupsInv, NEW ip
  PROVE  \E stages : SummaryStages(stages, ip)
  <1> DEFINE N == Len(charted)
  <1>1. N \in Nat /\ DOMAIN charted = 1 .. N /\ \A n \in 1 .. N : charted[n] \in ListedQueries
    BY DEF GroupsInv
  <1>2. PICK run \in [0 .. N -> IpMaps] :
          /\ run[0] = SeedIps
          /\ \A n \in 1 .. N : run[n] = Aggregate(run[n - 1], charted[n])
          /\ IpSummaries = run[N]
    BY AggregateRuns
  <1> DEFINE stages == [n \in 0 .. N |-> SummaryOf(run[n], ip)]
  <1>3. stages \in [0 .. N -> IpSummary]
    <2>1. \A n \in 0 .. N : SummaryOf(run[n], ip) \in IpSummary
      BY <1>2, IpMapIs
    <2> QED
      BY <2>1
  <1>4. stages[0] = SeedOf(ip) /\ stages[N] = SummaryOf(IpSummaries, ip)
    <2>1. 0 \in 0 .. N /\ N \in 0 .. N
      BY <1>1
    <2> QED
      BY <1>2, <2>1 DEF SeedOf
  <1>5. ASSUME NEW n \in 1 .. N
        PROVE  stages[n] = IF n \in OwnPlaces(ip) THEN More(stages[n - 1], charted[n])
                           ELSE stages[n - 1]
    <2> DEFINE q == charted[n]
               old == run[n - 1]
    <2>1. n \in 0 .. N /\ n - 1 \in 0 .. N /\ q \in ListedQueries /\ old \in IpMaps
      BY <1>1, <1>2
    <2>2. n \in OwnPlaces(ip) <=> q.ip = ip
      BY <1>1 DEF OwnPlaces
    <2>3. run[n] = Aggregate(old, q)
      BY <1>2
    <2>4. stages[n] = SummaryOf(run[n], ip) /\ stages[n - 1] = SummaryOf(old, ip)
      BY <2>1
    <2> HIDE DEF stages, q, old
    <2>5. SummaryOf(Aggregate(old, q), ip) =
            IF ip = q.ip THEN More(SummaryOf(old, ip), q) ELSE SummaryOf(old, ip)
      BY <2>1, AggregateIs
    <2>6. stages[n] = IF ip = q.ip THEN More(stages[n - 1], q) ELSE stages[n - 1]
      BY <2>3, <2>4, <2>5
    <2> QED
      BY <2>2, <2>6 DEF q
  <1> HIDE DEF stages
  <1>6. SummaryStages(stages, ip)
    BY <1>3, <1>4, <1>5 DEF SummaryStages
  <1> QED
    BY <1>6

\* A summary counts its seed and the queries of its address, all of them and by kind.
LEMMA SummaryCounts ==
  ASSUME GroupsInv, NEW ip
  PROVE  /\ SummaryOf(IpSummaries, ip).total = SeedOf(ip).total + Cardinality(OwnPlaces(ip))
         /\ \A kind \in QueryKinds :
              SummaryOf(IpSummaries, ip).counts[kind] =
                SeedOf(ip).counts[kind]
                  + Cardinality({j \in OwnPlaces(ip) : charted[j].kind = kind})
  <1> DEFINE N == Len(charted)
  <1>1. N \in Nat /\ DOMAIN charted = 1 .. N /\ \A n \in 1 .. N : charted[n] \in ListedQueries
    BY DEF GroupsInv
  <1>2. PICK stages : SummaryStages(stages, ip)
    BY SummaryHasStages
  <1>3. /\ stages \in [0 .. N -> IpSummary]
        /\ stages[0] = SeedOf(ip) /\ stages[N] = SummaryOf(IpSummaries, ip)
        /\ \A n \in 1 .. N :
             stages[n] = IF n \in OwnPlaces(ip) THEN More(stages[n - 1], charted[n])
                         ELSE stages[n - 1]
    BY <1>2 DEF SummaryStages
  <1>4. \A n \in 0 .. N : /\ stages[n].total \in Nat
                          /\ \A kind \in QueryKinds : stages[n].counts[kind] \in Nat
    <2> TAKE n \in 0 .. N
    <2>1. stages[n] \in IpSummary
      BY <1>3
    <2>2. stages[n].total \in Nat /\ stages[n].counts \in [QueryKinds -> Nat]
      BY <2>1 DEF IpSummary
    <2> QED
      BY <2>2
  <1>5. SummaryOf(IpSummaries, ip).total = SeedOf(ip).total + Cardinality(OwnPlaces(ip))
    <2> DEFINE c == [n \in 0 .. N |-> stages[n].total]
               P == OwnPlaces(ip)
    <2>1. c \in [0 .. N -> Int]
      BY <1>4
    <2>2. ASSUME NEW n \in 1 .. N
          PROVE  c[n] = c[n - 1] + (IF n \in P THEN 1 ELSE 0)
      <3> DEFINE old == stages[n - 1]
      <3>1. n \in 0 .. N /\ n - 1 \in 0 .. N /\ old \in IpSummary /\ charted[n] \in ListedQueries
        BY <1>1, <1>3
      <3>2. c[n] = stages[n].total /\ c[n - 1] = old.total /\ c[n - 1] \in Int
        BY <1>4, <3>1
      <3>3. stages[n] = IF n \in P THEN More(old, charted[n]) ELSE old
        BY <1>3
      <3> HIDE DEF c, P, old
      <3>4. More(old, charted[n]).total = old.total + 1
        BY <3>1, MoreIs
      <3> QED
        BY <3>2, <3>3, <3>4
    <2>3. c[0] = SeedOf(ip).total /\ c[N] = SummaryOf(IpSummaries, ip).total
      BY <1>1, <1>3
    <2>4. {j \in 1 .. N : j \in P} = P
      BY <1>1 DEF OwnPlaces
    <2> HIDE DEF c, P, N
    <2>5. c[N] = c[0] + Cardinality({j \in 1 .. N : j \in P})
      BY <1>1, <2>1, <2>2, CountsPlaces
    <2>6. c[N] = c[0] + Cardinality(P)
      BY <2>4, <2>5, Zenon
    <2> QED
      BY <2>3, <2>6 DEF P
  <1>6. ASSUME NEW kind \in QueryKinds
        PROVE  SummaryOf(IpSummaries, ip).counts[kind] =
                 SeedOf(ip).counts[kind]
                   + Cardinality({j \in OwnPlaces(ip) : charted[j].kind = kind})
    <2> DEFINE c == [n \in 0 .. N |-> stages[n].counts[kind]]
               P == {j \in OwnPlaces(ip) : charted[j].kind = kind}
    <2>1. c \in [0 .. N -> Int]
      BY <1>4
    <2>2. ASSUME NEW n \in 1 .. N
          PROVE  c[n] = c[n - 1] + (IF n \in P THEN 1 ELSE 0)
      <3> DEFINE old == stages[n - 1]
                 q == charted[n]
      <3>1. n \in 0 .. N /\ n - 1 \in 0 .. N /\ old \in IpSummary /\ q \in ListedQueries
        BY <1>1, <1>3
      <3>2. /\ c[n] = stages[n].counts[kind] /\ c[n - 1] = old.counts[kind]
            /\ c[n - 1] \in Int
        BY <1>4, <3>1
      <3>3. stages[n] = IF n \in OwnPlaces(ip) THEN More(old, q) ELSE old
        BY <1>3
      <3>5. n \in P <=> n \in OwnPlaces(ip) /\ q.kind = kind
        OBVIOUS
      <3> HIDE DEF c, P, old, q
      <3>4. More(old, q).counts[kind] = old.counts[kind] + (IF q.kind = kind THEN 1 ELSE 0)
        BY <3>1, MoreIs
      <3> QED
        BY <3>2, <3>3, <3>4, <3>5
    <2>3. c[0] = SeedOf(ip).counts[kind] /\ c[N] = SummaryOf(IpSummaries, ip).counts[kind]
      BY <1>1, <1>3
    <2>4. {j \in 1 .. N : j \in P} = P
      BY <1>1 DEF OwnPlaces
    <2> HIDE DEF c, P, N
    <2>5. c[N] = c[0] + Cardinality({j \in 1 .. N : j \in P})
      BY <1>1, <2>1, <2>2, CountsPlaces
    <2>6. c[N] = c[0] + Cardinality(P)
      BY <2>4, <2>5, Zenon
    <2> QED
      BY <2>3, <2>6 DEF P
  <1> QED
    BY <1>5, <1>6

\* The status is judged by the counts and by the worst query, whichever came last.
LEMMA SummaryStatus ==
  ASSUME GroupsInv, NEW ip
  PROVE  LET s == SummaryOf(IpSummaries, ip)
         IN  /\ s.maxRisk < 35 <=>
                  SeedOf(ip).maxRisk < 35 /\ \A j \in OwnPlaces(ip) : charted[j].risk < 35
             /\ OwnPlaces(ip) # {} => s.status = StatusOf(s.counts, s.maxRisk)
  <1> DEFINE N == Len(charted)
  <1>1. N \in Nat /\ DOMAIN charted = 1 .. N /\ \A n \in 1 .. N : charted[n] \in ListedQueries
    BY DEF GroupsInv
  <1>2. PICK stages : SummaryStages(stages, ip)
    BY SummaryHasStages
  <1>3. /\ stages \in [0 .. N -> IpSummary]
        /\ stages[0] = SeedOf(ip) /\ stages[N] = SummaryOf(IpSummaries, ip)
        /\ \A n \in 1 .. N :
             stages[n] = IF n \in OwnPlaces(ip) THEN More(stages[n - 1], charted[n])
                         ELSE stages[n - 1]
    BY <1>2 DEF SummaryStages
  <1> DEFINE low(n) == stages[n].maxRisk < 35
             judged(n) == stages[n].status = StatusOf(stages[n].counts, stages[n].maxRisk)
             own(n) == n \in OwnPlaces(ip)
             weak(n) == charted[n].risk < 35
             C == {n \in 0 .. N :
                     /\ low(n) <=> (low(0) /\ \A j \in 1 .. n : own(j) => weak(j))
                     /\ (\E j \in 1 .. n : own(j)) => judged(n)}
  <1>4. 0 \in C
    <2> HIDE DEF low, judged, own, weak
    <2> QED
      OBVIOUS
  <1>5. \A n \in 0 .. N - 1 :
          /\ own(n + 1) => (low(n + 1) <=> low(n) /\ weak(n + 1)) /\ judged(n + 1)
          /\ ~own(n + 1) => (low(n + 1) <=> low(n)) /\ (judged(n + 1) <=> judged(n))
    <2> TAKE n \in 0 .. N - 1
    <2> DEFINE old == stages[n]
               q == charted[n + 1]
    <2>1. /\ n + 1 \in 1 .. N /\ n + 1 - 1 = n /\ n \in 0 .. N
          /\ old \in IpSummary /\ q \in ListedQueries
      BY <1>1, <1>3
    <2>2. stages[n + 1] = IF own(n + 1) THEN More(old, q) ELSE old
      BY <1>3, <2>1
    <2>3. CASE own(n + 1)
      <3>1. stages[n + 1] = More(old, q)
        BY <2>2, <2>3
      <3>2. old.maxRisk \in Nat /\ q.risk \in Nat
        <4>1. old.maxRisk \in Nat
          BY <2>1 DEF IpSummary
        <4>2. \A x \in ListedQueries : x.risk \in Nat
          BY ListedQueryIs
        <4> QED
          BY <2>1, <4>1, <4>2
      <3> HIDE DEF old, q
      <3>3. /\ More(old, q).maxRisk = IF old.maxRisk < q.risk THEN q.risk ELSE old.maxRisk
            /\ More(old, q).status = StatusOf(More(old, q).counts, More(old, q).maxRisk)
        BY <2>1, MoreIs
      <3>4. stages[n + 1].maxRisk < 35 <=> old.maxRisk < 35 /\ q.risk < 35
        BY <3>1, <3>2, <3>3
      <3>5. judged(n + 1)
        BY <3>1, <3>3
      <3> QED
        BY <2>3, <3>4, <3>5 DEF old, q
    <2>4. CASE ~own(n + 1)
      BY <2>2, <2>4
    <2> QED
      BY <2>3, <2>4
  <1> HIDE DEF low, judged, own, weak
  <1>6. \A n \in 0 .. N - 1 : n \in C => n + 1 \in C
    <2> SUFFICES ASSUME NEW n \in 0 .. N - 1, n \in C
                 PROVE  n + 1 \in C
      OBVIOUS
    <2>1. /\ n + 1 \in 0 .. N
          /\ \A j : j \in 1 .. n + 1 <=> j \in 1 .. n \/ j = n + 1
      BY <1>1
    <2>2. /\ low(n) <=> (low(0) /\ \A j \in 1 .. n : own(j) => weak(j))
          /\ (\E j \in 1 .. n : own(j)) => judged(n)
      OBVIOUS
    <2>3. low(n + 1) <=> (low(0) /\ \A j \in 1 .. n + 1 : own(j) => weak(j))
      BY <1>5, <2>1, <2>2
    <2>4. (\E j \in 1 .. n + 1 : own(j)) => judged(n + 1)
      BY <1>5, <2>1, <2>2
    <2> QED
      BY <2>1, <2>3, <2>4
  <1>7. N \in C
    <2>1. 0 .. N \subseteq C
      <3> HIDE DEF C
      <3> QED
        BY <1>1, <1>4, <1>6, InductionUpTo
    <2> QED
      BY <1>1, <2>1
  <1>8. \A j : j \in OwnPlaces(ip) <=> j \in 1 .. N /\ own(j)
    BY <1>1 DEF OwnPlaces, own
  <1>9. low(N) <=> (low(0) /\ \A j \in OwnPlaces(ip) : weak(j))
    BY <1>7, <1>8
  <1>10. OwnPlaces(ip) # {} => judged(N)
    BY <1>7, <1>8
  <1> QED
    BY <1>3, <1>9, <1>10 DEF low, judged, weak

\* There is a summary for each address that is seeded or has a query.
LEMMA SummarisedIps ==
  ASSUME GroupsInv
  PROVE  /\ DOMAIN IpSummaries = DOMAIN SeedIps \cup {charted[j].ip : j \in DOMAIN charted}
         /\ IpSummaries \in IpMaps
  <1> DEFINE N == Len(charted)
  <1>1. N \in Nat /\ DOMAIN charted = 1 .. N /\ \A n \in 1 .. N : charted[n] \in ListedQueries
    BY DEF GroupsInv
  <1>2. PICK run \in [0 .. N -> IpMaps] :
          /\ run[0] = SeedIps
          /\ \A n \in 1 .. N : run[n] = Aggregate(run[n - 1], charted[n])
          /\ IpSummaries = run[N]
    BY AggregateRuns
  <1> DEFINE C == {n \in 0 .. N :
                     DOMAIN run[n] = DOMAIN SeedIps \cup {charted[j].ip : j \in 1 .. n}}
  <1>3. 0 \in C
    BY <1>1, <1>2
  <1>4. \A n \in 0 .. N - 1 : n \in C => n + 1 \in C
    <2> SUFFICES ASSUME NEW n \in 0 .. N - 1,
                        DOMAIN run[n] = DOMAIN SeedIps \cup {charted[j].ip : j \in 1 .. n}
                 PROVE  /\ n + 1 \in 0 .. N
                        /\ DOMAIN run[n + 1] =
                             DOMAIN SeedIps \cup {charted[j].ip : j \in 1 .. n + 1}
      OBVIOUS
    <2>1. n + 1 \in 1 .. N /\ n + 1 - 1 = n /\ n + 1 \in 0 .. N /\ n \in 0 .. N
      BY <1>1
    <2>2. run[n + 1] = Aggregate(run[n], charted[n + 1]) /\ run[n] \in IpMaps
      BY <1>2, <2>1
    <2>3. DOMAIN run[n + 1] = DOMAIN run[n] \cup {charted[n + 1].ip}
      BY <1>1, <2>1, <2>2, AggregateIs
    <2>4. {charted[j].ip : j \in 1 .. n + 1}
            = {charted[j].ip : j \in 1 .. n} \cup {charted[n + 1].ip}
      <3>1. \A j : j \in 1 .. n + 1 <=> j \in 1 .. n \/ j = n + 1
        BY <2>1
      <3> QED
        BY <3>1
    <2> QED
      BY <2>1, <2>3, <2>4
  <1>5. N \in C
    <2>1. 0 .. N \subseteq C
      <3> HIDE DEF C, N
      <3> QED
        BY <1>1, <1>3, <1>4, InductionUpTo
    <2> QED
      BY <1>1, <2>1
  <1>6. run[N] \in IpMaps
    BY <1>1, <1>2
  <1> QED
    BY <1>1, <1>2, <1>5, <1>6

\* Each summary counts its seed and its queries, and its status is by the worst of them.
LEMMA SummariesAlwaysCount ==
  ASSUME GroupsInv
  PROVE  SummariesCount
  <1> SUFFICES ASSUME NEW ip \in DOMAIN IpSummaries
               PROVE  LET own(q) == q.ip = ip
                          seed == IF ip \in DOMAIN SeedIps THEN SeedIps[ip] ELSE NewIp
                          s == IpSummaries[ip]
                      IN  /\ s.total = seed.total + Occurrences(own)
                          /\ \A kind \in QueryKinds :
                               s.counts[kind] = seed.counts[kind]
                                                  + Occurrences(LAMBDA q : own(q) /\ q.kind = kind)
                          /\ Occurrences(own) > 0 =>
                               (s.status = "NORMAL" <=>
                                  /\ s.counts["BLOCK"] = 0 /\ s.counts["SUSPICIOUS"] = 0
                                  /\ seed.maxRisk < 35
                                  /\ Occurrences(LAMBDA q : own(q) /\ q.risk >= 35) = 0)
    BY DEF SummariesCount
  <1> DEFINE own(q) == q.ip = ip
             s == IpSummaries[ip]
             seed == IF ip \in DOMAIN SeedIps THEN SeedIps[ip] ELSE NewIp
             risky == {j \in OwnPlaces(ip) : charted[j].risk >= 35}
  <1>1. s = SummaryOf(IpSummaries, ip) /\ seed = SeedOf(ip)
    BY DEF SummaryOf, SeedOf
  <1>2. DOMAIN charted = 1 .. Len(charted) /\ IsFiniteSet(DOMAIN charted)
        /\ \A j \in DOMAIN charted : charted[j] \in ListedQueries
    <2>1. Len(charted) \in Nat /\ DOMAIN charted = 1 .. Len(charted)
          /\ \A j \in DOMAIN charted : charted[j] \in ListedQueries
      BY DEF GroupsInv
    <2> QED
      BY <2>1, FS_Interval
  <1>3. Occurrences(own) = Cardinality(OwnPlaces(ip))
    BY DEF Occurrences, OwnPlaces
  <1>4. ASSUME NEW kind \in QueryKinds
        PROVE  Occurrences(LAMBDA q : own(q) /\ q.kind = kind)
                 = Cardinality({j \in OwnPlaces(ip) : charted[j].kind = kind})
    <2>1. {j \in OwnPlaces(ip) : charted[j].kind = kind}
            = {j \in DOMAIN charted : charted[j].ip = ip /\ charted[j].kind = kind}
      BY DEF OwnPlaces
    <2>2. Occurrences(LAMBDA q : own(q) /\ q.kind = kind)
            = Cardinality({j \in DOMAIN charted : charted[j].ip = ip /\ charted[j].kind = kind})
      BY DEF Occurrences
    <2> QED
      BY <2>1, <2>2, Zenon
  <1>5. Occurrences(LAMBDA q : own(q) /\ q.risk >= 35) = Cardinality(risky)
    <2>1. risky = {j \in DOMAIN charted : charted[j].ip = ip /\ charted[j].risk >= 35}
      BY DEF OwnPlaces
    <2>2. Occurrences(LAMBDA q : own(q) /\ q.risk >= 35)
            = Cardinality({j \in DOMAIN charted : charted[j].ip = ip /\ charted[j].risk >= 35})
      BY DEF Occurrences
    <2> QED
      BY <2>1, <2>2, Zenon
  <1>6. /\ IsFiniteSet(OwnPlaces(ip)) /\ IsFiniteSet(risky)
    <2>1. OwnPlaces(ip) \in SUBSET DOMAIN charted /\ risky \in SUBSET DOMAIN charted
      BY DEF OwnPlaces
    <2> QED
      BY <1>2, <2>1, FS_Subset
  <1>7. s.total = seed.total + Occurrences(own)
    BY <1>1, <1>3, SummaryCounts
  <1>8. ASSUME NEW kind \in QueryKinds
        PROVE  s.counts[kind] = seed.counts[kind]
                                  + Occurrences(LAMBDA q : own(q) /\ q.kind = kind)
    BY <1>1, <1>4, SummaryCounts
  <1>9. ASSUME Occurrences(own) > 0
        PROVE  s.status = "NORMAL" <=>
                 /\ s.counts["BLOCK"] = 0 /\ s.counts["SUSPICIOUS"] = 0
                 /\ seed.maxRisk < 35
                 /\ Cardinality(risky) = 0
    <2>1. OwnPlaces(ip) # {}
      BY <1>3, <1>9, FS_EmptySet
    <2>2. s \in IpSummary
      BY <1>1, SummarisedIps, IpMapIs
    <2>3. s.counts \in [QueryKinds -> Nat] /\ s.maxRisk \in Nat
      BY <2>2 DEF IpSummary
    <2>4. s.counts["BLOCK"] \in Nat /\ s.counts["SUSPICIOUS"] \in Nat
      BY <2>3 DEF QueryKinds
    <2>5. /\ s.maxRisk < 35 <=> (seed.maxRisk < 35 /\ \A j \in OwnPlaces(ip) : charted[j].risk < 35)
          /\ s.status = StatusOf(s.counts, s.maxRisk)
      <3> HIDE DEF s, seed
      <3> QED
        BY <1>1, <2>1, SummaryStatus
    <2>6. Cardinality(risky) = 0 <=> \A j \in OwnPlaces(ip) : charted[j].risk < 35
      <3>1. Cardinality(risky) = 0 <=> risky = {}
        BY <1>6, FS_EmptySet
      <3>2. \A j \in OwnPlaces(ip) : charted[j].risk \in Nat
        BY <1>2, ListedQueryIs DEF OwnPlaces
      <3>3. risky = {} <=> \A j \in OwnPlaces(ip) : charted[j].risk < 35
        BY <3>2
      <3> HIDE DEF risky
      <3> QED
        BY <3>1, <3>3
    <2> DEFINE b == s.counts["BLOCK"]
               p == s.counts["SUSPICIOUS"]
               m == s.maxRisk
    <2>7. StatusOf(s.counts, m) = "NORMAL" <=> b = 0 /\ p = 0 /\ m < 35
      <3>1. /\ b > 0 \/ m >= 70 => StatusOf(s.counts, m) = "HIGH RISK"
            /\ ~(b > 0 \/ m >= 70) /\ (p > 0 \/ m >= 35) => StatusOf(s.counts, m) = "SUSPICIOUS"
            /\ ~(b > 0 \/ m >= 70) /\ ~(p > 0 \/ m >= 35) => StatusOf(s.counts, m) = "NORMAL"
        BY Zenon DEF StatusOf
      <3>2. b \in Nat /\ p \in Nat /\ m \in Nat
        BY <2>3, <2>4
      <3> HIDE DEF b, p, m
      <3>3. b = 0 /\ p = 0 /\ m < 35 <=> ~(b > 0 \/ m >= 70) /\ ~(p > 0 \/ m >= 35)
        BY <3>2
      <3> QED
        BY <3>1, <3>3
    <2> HIDE DEF risky, s, seed
    <2> QED
      BY <2>5, <2>6, <2>7
  <1> HIDE DEF s, seed, risky
  <1> QED
    BY <1>5, <1>7, <1>8, <1>9 DEF s, seed

ShownIps == {ip \in DOMAIN IpSummaries : IpMatches(ip, IpSummaries[ip].status)}

CardPairs == {p \in ShownIps \X ShownIps : CardBefore(IpSummaries, p[1], p[2])}

\* Each address of a summary has a place in the order in which the map got them.
LEMMA FirstSeenIs ==
  ASSUME GroupsInv
  PROVE  /\ \A ip \in DOMAIN IpSummaries : FirstSeen(ip) \in Nat
         /\ \A a, b \in DOMAIN IpSummaries : FirstSeen(a) = FirstSeen(b) => a = b
  <1> DEFINE ips == [i \in DOMAIN charted |-> charted[i].ip]
             seen == SeedOrder \o ips
             at(ip) == {i \in DOMAIN seen : seen[i] = ip}
             m == Len(SeedOrder)
             N == Len(charted)
  <1>1. /\ N \in Nat /\ DOMAIN charted = 1 .. N /\ \A n \in 1 .. N : charted[n].ip \in Ips
        /\ m \in Nat /\ DOMAIN SeedOrder = 1 .. m
    <2>1. N \in Nat /\ DOMAIN charted = 1 .. N /\ \A n \in 1 .. N : charted[n] \in ListedQueries
      BY DEF GroupsInv
    <2> QED
      BY <2>1, ListedQueryIs, QueryGroupsAssumption
  <1>2. ips \in Seq(Ips) /\ Len(ips) = N /\ \A n \in 1 .. N : ips[n] = charted[n].ip
    BY <1>1
  <1>3. /\ DOMAIN seen = 1 .. m + N
        /\ \A i \in 1 .. m : seen[i] = SeedOrder[i]
        /\ \A n \in 1 .. N : seen[m + n] = charted[n].ip
    <2> HIDE DEF ips
    <2>1. /\ seen \in Seq(Ips) /\ Len(seen) = m + N
          /\ \A i \in 1 .. m + N : seen[i] = IF i <= m THEN SeedOrder[i] ELSE ips[i - m]
      <3> DEFINE s == SeedOrder
      <3>1. s \in Seq(Ips) /\ ips \in Seq(Ips)
        BY <1>2, QueryGroupsAssumption
      <3>2. Len(s) = m /\ Len(ips) = N
        BY <1>2
      <3> HIDE DEF s, m, N
      <3>3. /\ s \o ips \in Seq(Ips) /\ Len(s \o ips) = Len(s) + Len(ips)
            /\ \A i \in 1 .. Len(s) + Len(ips) :
                 (s \o ips)[i] = IF i <= Len(s) THEN s[i] ELSE ips[i - Len(s)]
        BY <3>1, ConcatProperties
      <3> QED
        BY <3>2, <3>3 DEF s
    <2>2. \A n \in 1 .. N : m + n \in 1 .. m + N /\ ~(m + n <= m) /\ m + n - m = n
      BY <1>1
    <2>3. \A i \in 1 .. m : i \in 1 .. m + N /\ i <= m
      BY <1>1
    <2> HIDE DEF seen, m, N
    <2> QED
      BY <1>1, <1>2, <2>1, <2>2, <2>3
  <1> HIDE DEF seen
  <1>4. \A ip \in DOMAIN IpSummaries : at(ip) # {}
    <2> TAKE ip \in DOMAIN IpSummaries
    <2>1. CASE ip \in DOMAIN SeedIps
      <3>1. PICK i \in 1 .. m : SeedOrder[i] = ip
        BY <1>1, <2>1, QueryGroupsAssumption DEF ToSet
      <3>2. i \in 1 .. m + N
        BY <1>1
      <3> QED
        BY <1>3, <3>1, <3>2
    <2>2. CASE ip \notin DOMAIN SeedIps
      <3>1. PICK n \in 1 .. N : charted[n].ip = ip
        BY <1>1, <2>2, SummarisedIps
      <3>2. m + n \in 1 .. m + N
        BY <1>1
      <3> QED
        BY <1>3, <3>1, <3>2
    <2> QED
      BY <2>1, <2>2
  <1>5. ASSUME NEW ip \in DOMAIN IpSummaries
        PROVE  FirstSeen(ip) \in at(ip)
    <2>1. FirstSeen(ip) = Min(at(ip))
      BY DEF FirstSeen, seen
    <2>2. at(ip) \in SUBSET Nat /\ at(ip) # {}
      BY <1>1, <1>3, <1>4
    <2> HIDE DEF at
    <2>3. \E i \in at(ip) : \A j \in at(ip) : i <= j
      BY <2>2, LeastNumber
    <2> QED
      BY <2>1, <2>3 DEF Min
  <1> QED
    BY <1>1, <1>3, <1>5

\* Finitely many addresses have a card.
LEMMA ShownIpsAreFinite ==
  ASSUME GroupsInv
  PROVE  IsFiniteSet(ShownIps)
  <1> DEFINE seeded == {SeedOrder[i] : i \in DOMAIN SeedOrder}
             ips == [i \in DOMAIN charted |-> charted[i].ip]
             listed == {ips[i] : i \in DOMAIN charted}
  <1>1. IsFiniteSet(DOMAIN SeedOrder) /\ IsFiniteSet(DOMAIN charted)
    <2>1. Len(SeedOrder) \in Nat /\ DOMAIN SeedOrder = 1 .. Len(SeedOrder)
      BY QueryGroupsAssumption
    <2>2. Len(charted) \in Nat /\ DOMAIN charted = 1 .. Len(charted)
      BY DEF GroupsInv
    <2> QED
      BY <2>1, <2>2, FS_Interval
  <1>2. IsFiniteSet(seeded) /\ IsFiniteSet(listed)
    <2> HIDE DEF ips
    <2> QED
      BY <1>1, ImageIsFinite
  <1>3. DOMAIN SeedIps = seeded
    BY QueryGroupsAssumption DEF ToSet
  <1>4. {charted[j].ip : j \in DOMAIN charted} = listed
    OBVIOUS
  <1> HIDE DEF seeded, listed
  <1>5. IsFiniteSet(seeded \cup listed)
    BY <1>2, FS_Union
  <1>6. ShownIps \in SUBSET (seeded \cup listed)
    BY <1>3, <1>4, SummarisedIps DEF ShownIps
  <1> QED
    BY <1>5, <1>6, FS_Subset

\* The worst first, of equals the one that the map got first: a strict order.
LEMMA CardsAreOrdered ==
  ASSUME GroupsInv
  PROVE  /\ StrictOrder(CardPairs, ShownIps)
         /\ \A a, b \in ShownIps : <<a, b>> \in CardPairs <=> CardBefore(IpSummaries, a, b)
         /\ \A ip \in ShownIps : IpSummaries[ip].maxRisk \in Nat
  <1> DEFINE risk(ip) == IpSummaries[ip].maxRisk
             R == CardPairs
  <1>1. \A ip \in ShownIps : ip \in DOMAIN IpSummaries /\ risk(ip) \in Nat
    <2> TAKE ip \in ShownIps
    <2>1. ip \in DOMAIN IpSummaries /\ IpSummaries \in [DOMAIN IpSummaries -> IpSummary]
      BY SummarisedIps, IpMapIs DEF ShownIps
    <2>2. IpSummaries[ip] \in IpSummary
      BY <2>1
    <2> QED
      BY <2>1, <2>2 DEF IpSummary
  <1>2. \A ip \in ShownIps : FirstSeen(ip) \in Nat
    BY <1>1, FirstSeenIs
  <1>3. \A a, b \in ShownIps : FirstSeen(a) = FirstSeen(b) => a = b
    BY <1>1, FirstSeenIs
  <1>4. \A a, b \in ShownIps : <<a, b>> \in R <=> CardBefore(IpSummaries, a, b)
    <2> TAKE a, b \in ShownIps
    <2> DEFINE p == <<a, b>>
    <2>1. p[1] = a /\ p[2] = b /\ p \in ShownIps \X ShownIps
      OBVIOUS
    <2> HIDE DEF p
    <2>2. p \in R <=> CardBefore(IpSummaries, a, b)
      BY <2>1 DEF CardPairs
    <2> QED
      BY <2>2 DEF p
  <1>5. \A a, b \in ShownIps :
          <<a, b>> \in R <=>
            \/ risk(a) > risk(b)
            \/ risk(a) = risk(b) /\ FirstSeen(a) < FirstSeen(b)
    BY <1>4 DEF CardBefore
  <1> HIDE DEF risk, R
  <1>6. \A a \in ShownIps : <<a, a>> \notin R
    BY <1>1, <1>2, <1>5
  <1>7. ASSUME NEW a \in ShownIps, NEW b \in ShownIps, NEW c \in ShownIps,
               <<a, b>> \in R, <<b, c>> \in R
        PROVE  <<a, c>> \in R
    <2>1. /\ risk(a) \in Nat /\ risk(b) \in Nat /\ risk(c) \in Nat
          /\ FirstSeen(a) \in Nat /\ FirstSeen(b) \in Nat /\ FirstSeen(c) \in Nat
      BY <1>1, <1>2
    <2> QED
      BY <1>5, <1>7, <2>1
  <1>8. ASSUME NEW a \in ShownIps, NEW b \in ShownIps, a # b
        PROVE  <<a, b>> \in R \/ <<b, a>> \in R
    <2>1. /\ risk(a) \in Nat /\ risk(b) \in Nat
          /\ FirstSeen(a) \in Nat /\ FirstSeen(b) \in Nat /\ FirstSeen(a) # FirstSeen(b)
      BY <1>1, <1>2, <1>3, <1>8
    <2> QED
      BY <1>5, <2>1
  <1> QED
    BY <1>1, <1>4, <1>6, <1>7, <1>8 DEF StrictOrder, R, risk

\* The cards are the addresses shown; no card exceeds the first.
LEMMA CardsOfIps ==
  ASSUME GroupsInv
  PROVE  /\ ToSet(IpCards) = ShownIps
         /\ ShownIps = {} => IpCards = <<>>
         /\ ShownIps # {} => /\ IpCards # <<>> /\ Head(IpCards) \in ShownIps
                             /\ \A ip \in ShownIps :
                                  IpSummaries[ip].maxRisk <= IpSummaries[Head(IpCards)].maxRisk
  <1> DEFINE S == ShownIps
             R == CardPairs
             n == Cardinality(S)
             pick(k) == CHOOSE ip \in S : PlaceIn(R, S, ip) = k
  <1>1. /\ IsFiniteSet(S) /\ n \in Nat
        /\ \A a, b \in S : <<a, b>> \in R <=> CardBefore(IpSummaries, a, b)
        /\ \A ip \in S : IpSummaries[ip].maxRisk \in Nat
    BY ShownIpsAreFinite, CardsAreOrdered, FS_CardinalityType
  <1>2. /\ \A i \in S : PlaceIn(R, S, i) \in 1 .. n
        /\ \A i, j \in S : <<i, j>> \in R => PlaceIn(R, S, i) < PlaceIn(R, S, j)
        /\ \A i, j \in S : PlaceIn(R, S, i) = PlaceIn(R, S, j) => i = j
        /\ \A k \in 1 .. n : \E i \in S : PlaceIn(R, S, i) = k
    <2>1. StrictOrder(R, S)
      BY CardsAreOrdered
    <2> HIDE DEF R, S
    <2> QED
      BY <1>1, <2>1, PlacesOfOrder
  <1>3. IpCards = [k \in 1 .. n |-> pick(k)]
    <2> DEFINE place == [ip \in S |->
                           Cardinality({other \in S : CardBefore(IpSummaries, other, ip)}) + 1]
               chosen(k) == CHOOSE ip \in S : place[ip] = k
    <2>1. IpCards = [k \in 1 .. n |-> chosen(k)]
      BY DEF IpCards, ShownIps
    <2>2. \A ip \in S : place[ip] = PlaceIn(R, S, ip)
      <3> TAKE ip \in S
      <3>1. {other \in S : CardBefore(IpSummaries, other, ip)} = {other \in S : <<other, ip>> \in R}
        BY <1>1
      <3> QED
        BY <3>1 DEF PlaceIn
    <2> HIDE DEF place, R, S
    <2>3. ASSUME NEW k \in 1 .. n
          PROVE  chosen(k) = pick(k)
      <3>1. \A ip : (ip \in S /\ place[ip] = k) <=> (ip \in S /\ PlaceIn(R, S, ip) = k)
        BY <2>2
      <3> QED
        BY <3>1
    <2> HIDE DEF chosen, pick, n
    <2> QED
      BY <2>1, <2>3
  <1>4. \A k \in 1 .. n : pick(k) \in S /\ PlaceIn(R, S, pick(k)) = k
    <2> HIDE DEF R, S
    <2> QED
      BY <1>2
  <1>5. \A ip \in S : pick(PlaceIn(R, S, ip)) = ip
    <2> HIDE DEF R, S, pick, n
    <2> QED
      BY <1>2, <1>4
  <1>6. DOMAIN IpCards = 1 .. n /\ IpCards \in Seq(S) /\ Len(IpCards) = n
    <2> HIDE DEF S, R, pick, n
    <2> QED
      BY <1>1, <1>3, <1>4
  <1>7. ToSet(IpCards) = S
    <2>1. ToSet(IpCards) = {pick(k) : k \in 1 .. n}
      BY <1>3 DEF ToSet
    <2> HIDE DEF S, R, pick, n
    <2>2. \A ip \in S : ip \in {pick(k) : k \in 1 .. n}
      BY <1>2, <1>5
    <2> QED
      BY <1>4, <2>1, <2>2
  <1>8. ASSUME S = {}
        PROVE  IpCards = <<>>
    <2>1. n = 0
      BY <1>8, FS_EmptySet
    <2> QED
      BY <1>6, <2>1
  <1>9. ASSUME S # {}
        PROVE  /\ IpCards # <<>> /\ Head(IpCards) \in S
               /\ \A ip \in S : IpSummaries[ip].maxRisk <= IpSummaries[Head(IpCards)].maxRisk
    <2>1. n # 0 /\ 1 \in 1 .. n
      <3>1. n # 0
        BY <1>1, <1>9, FS_EmptySet
      <3> HIDE DEF n
      <3> QED
        BY <1>1, <3>1
    <2> DEFINE h == pick(1)
    <2>2. IpCards # <<>> /\ Head(IpCards) = h
      <3>1. IpCards[1] = h
        BY <1>3, <2>1
      <3> HIDE DEF h, S, n
      <3> QED
        BY <1>6, <2>1, <3>1
    <2>3. h \in S /\ PlaceIn(R, S, h) = 1
      BY <1>4, <2>1
    <2> HIDE DEF h, R, S, n
    <2>4. ASSUME NEW ip \in S
          PROVE  IpSummaries[ip].maxRisk <= IpSummaries[h].maxRisk
      <3>1. <<ip, h>> \notin R
        <4>1. PlaceIn(R, S, ip) \in 1 .. n
          BY <1>2
        <4>2. ~(PlaceIn(R, S, ip) < 1)
          BY <1>1, <4>1
        <4> QED
          BY <1>2, <2>3, <4>2
      <3>2. ~(IpSummaries[ip].maxRisk > IpSummaries[h].maxRisk)
        BY <1>1, <2>3, <3>1 DEF CardBefore
      <3>3. IpSummaries[ip].maxRisk \in Nat /\ IpSummaries[h].maxRisk \in Nat
        BY <1>1, <2>3
      <3> QED
        BY <3>2, <3>3
    <2> QED
      BY <2>2, <2>3, <2>4
  <1> QED
    BY <1>7, <1>8, <1>9

\* The table is of a card shown, with the queries that its summary counted.
LEMMA AuditIsAlwaysOfACard ==
  ASSUME GroupsInv
  PROVE  AuditIsOfACard
  <1> DEFINE cards == ToSet(IpCards)
             audited == Audited
  <1>1. Len(Audit) = Cardinality(OwnPlaces(audited)) /\ Audit = KeptAt(charted, OwnPlaces(audited))
    <2>1. Audit = KeptAt(charted, OwnPlaces(audited))
      BY DEF Audit, OwnPlaces
    <2>2. OwnPlaces(audited) \in SUBSET DOMAIN charted /\ charted \in Seq(ListedQueries)
      BY DEF OwnPlaces, GroupsInv
    <2> HIDE DEF audited
    <2>3. Len(KeptAt(charted, OwnPlaces(audited))) = Cardinality(OwnPlaces(audited))
      BY <2>2, KeptAtProperties
    <2> QED
      BY <2>1, <2>3
  <1>2. cards = ShownIps /\ cards \subseteq DOMAIN IpSummaries
    BY CardsOfIps DEF ShownIps
  <1>3. CASE cards = {}
    <2>1. audited = NoIp
      BY <1>2, <1>3, CardsOfIps DEF Audited
    <2>2. OwnPlaces(audited) = {}
      <3>1. \A j \in DOMAIN charted : charted[j].ip \in Ips
        <4>1. \A j \in DOMAIN charted : charted[j] \in ListedQueries
          BY DEF GroupsInv
        <4> QED
          BY <4>1, ListedQueryIs
      <3> QED
        BY <2>1, <3>1, QueryGroupsAssumption DEF OwnPlaces
    <2>3. Audit = <<>>
      <3>1. KeptAt(charted, {}) = <<>>
        BY FS_EmptySet DEF KeptAt
      <3> QED
        BY <1>1, <2>2, <3>1
    <2> QED
      BY <1>3, <2>1, <2>3 DEF AuditIsOfACard
  <1>4. CASE cards # {}
    <2>1. /\ IpCards # <<>> /\ Head(IpCards) \in cards
          /\ \A ip \in cards : IpSummaries[ip].maxRisk <= IpSummaries[Head(IpCards)].maxRisk
      BY <1>2, <1>4, CardsOfIps
    <2>2. /\ audited \in cards
          /\ \/ audited = selectedIp
             \/ /\ selectedIp \notin cards
                /\ \A ip \in cards : IpSummaries[ip].maxRisk <= IpSummaries[audited].maxRisk
      <3>1. CASE selectedIp \in cards
        BY <3>1 DEF Audited
      <3>2. CASE selectedIp \notin cards
        <4>1. audited = Head(IpCards)
          BY <2>1, <3>2 DEF Audited
        <4> QED
          BY <2>1, <3>2, <4>1
      <3> QED
        BY <3>1, <3>2
    <2>3. Len(Audit) = IpSummaries[audited].total
                        - IF audited \in DOMAIN SeedIps THEN SeedIps[audited].total ELSE 0
      <3> DEFINE seed == IF audited \in DOMAIN SeedIps THEN SeedIps[audited].total ELSE 0
      <3>1. audited \in DOMAIN IpSummaries
        BY <1>2, <2>2
      <3>2. SummaryOf(IpSummaries, audited) = IpSummaries[audited]
        BY <3>1 DEF SummaryOf
      <3>3. SeedOf(audited).total = seed
        BY DEF SeedOf, SummaryOf, NewIp
      <3>4. IpSummaries[audited].total = seed + Cardinality(OwnPlaces(audited))
        BY <3>2, <3>3, SummaryCounts
      <3>5. seed \in Nat /\ Cardinality(OwnPlaces(audited)) \in Nat
        <4>1. seed \in Nat
          <5>1. SeedOf(audited) \in IpSummary
            <6>1. SeedIps \in IpMaps
              <7>1. SeedIps \in [DOMAIN SeedIps -> IpSummary] /\ DOMAIN SeedIps \in SUBSET Ips
                BY QueryGroupsAssumption
              <7> QED
                BY <7>1 DEF IpMaps
            <6> QED
              BY <6>1, IpMapIs DEF SeedOf
          <5>2. SeedOf(audited).total \in Nat
            BY <5>1 DEF IpSummary
          <5> QED
            BY <3>3, <5>2
        <4>2. Cardinality(OwnPlaces(audited)) \in Nat
          <5>1. OwnPlaces(audited) \in SUBSET DOMAIN charted /\ charted \in Seq(ListedQueries)
            BY DEF OwnPlaces, GroupsInv
          <5> HIDE DEF audited
          <5> QED
            BY <5>1, KeptAtProperties
        <4> QED
          BY <4>1, <4>2
      <3> HIDE DEF seed, audited
      <3>6. Len(Audit) = IpSummaries[audited].total - seed
        BY <1>1, <3>4, <3>5
      <3> QED
        BY <3>6 DEF seed
    <2> QED
      BY <1>4, <2>2, <2>3 DEF AuditIsOfACard
  <1> QED
    BY <1>3, <1>4

\* However many queries are listed, of whatever ages, addresses and scores: the charts
\* and the summaries count each of them once, and the table audits a card that is shown.
THEOREM GroupingsAlwaysCount == GroupsSpec => []GroupingsCount
  <1>1. GroupsInv => GroupingsCount
    BY EachIsInItsBucket, SummariesAlwaysCount, AuditIsAlwaysOfACard DEF GroupingsCount
  <1> QED
    BY <1>1, GroupsInvHolds, PTL

-----------------------------------------------------------------------------
(* EliteCore: the event stream *)

\* What the list of events, the rows and the toasts are: no id stands twice
\* anywhere, and what has been raised is remembered.
Distinct(s) == s \in Seq(EventIds) /\ IsInjective(s)

StreamInv ==
    /\ posted \in Seq(EventIds) /\ inbox \in [Hooks -> Seq(EventIds)]
    /\ Distinct(liveEvents) /\ Distinct(initialRows)
    /\ \A rows \in refreshes : Distinct(rows)

ToastInv ==
    /\ Distinct(toasts) /\ ToSet(toasts) \subseteq toastedIds
    /\ raised \in [EventIds -> Nat]
    /\ \A id \in EventIds : raised[id] <= IF id \in toastedIds THEN 1 ELSE 0

StatusInv ==
    /\ wires \in [Hooks -> {"connecting", "open", "closing", "waiting"}]
    /\ (\A e \in Hooks : wires[e] = "open") => status = "CONNECTED"

-----------------------------------------------------------------------------
\* The back end lists each decision once, whatever was posted again.
LEMMA StoredDistinct == posted \in Seq(EventIds) => Distinct(Stored)
  <1> SUFFICES ASSUME posted \in Seq(EventIds) PROVE Distinct(Stored)
    OBVIOUS
  <1> DEFINE P == {i \in DOMAIN posted : \A j \in 1 .. i - 1 : posted[j] # posted[i]}
             r == KeptAt(posted, P)
  <1>1. DOMAIN posted = 1 .. Len(posted) /\ Len(posted) \in Nat
    OBVIOUS
  <1>2. ASSUME NEW i \in P, NEW j \in P, posted[i] = posted[j] PROVE i = j
    <2>1. i \in Nat /\ j \in Nat /\ i >= 1 /\ j >= 1
      BY <1>1
    <2>2. ~(i < j) /\ ~(j < i)
      BY <1>2, <2>1
    <2> QED
      BY <2>1, <2>2
  <1>3. P \in SUBSET DOMAIN posted
    OBVIOUS
  <1>4. Stored = Reverse(r)
    BY DEF Stored
  <1> HIDE DEF P
  <1>5. r \in Seq(EventIds) /\ IsInjective(r)
    BY <1>2, <1>3, KeptAtInjective
  <1> QED
    BY <1>4, <1>5, ReverseInjective DEF Distinct

\* Cutting a list adds no id twice.
LEMMA FirstOfDistinct ==
  ASSUME NEW s, Distinct(s), NEW n \in Nat
  PROVE  Distinct(FirstOf(n, s))
  <1> DEFINE m == IF Len(s) < n THEN Len(s) ELSE n
  <1>1. m \in Nat /\ m <= Len(s)
    BY DEF Distinct
  <1>2. FirstOf(n, s) = SubSeq(s, 1, m)
    BY DEF FirstOf
  <1> HIDE DEF m
  <1> QED
    BY <1>1, <1>2, PrefixInjective DEF Distinct

-----------------------------------------------------------------------------
\* No delivery, answer or cut puts an id twice in the list or the rows.
LEMMA StreamInvHolds == EliteSpec => []StreamInv
  <1>1. EliteInit => StreamInv
    <2>1. Distinct(<<>>)
      BY DEF Distinct, IsInjective
    <2> QED
      BY <2>1 DEF EliteInit, StreamInv
  <1>2. StreamInv /\ [EliteNext]_eliteVars => StreamInv'
    <2> SUFFICES ASSUME StreamInv, [EliteNext]_eliteVars PROVE StreamInv'
      OBVIOUS
    <2>1. CASE /\ inbox' \in [Hooks -> Seq(EventIds)]
               /\ UNCHANGED <<posted, liveEvents, initialRows, refreshes>>
      BY <2>1 DEF StreamInv, Distinct
    <2>2. ASSUME NEW id \in EventIds, PostDecision(id) PROVE StreamInv'
      <3>1. posted' \in Seq(EventIds)
        BY <2>2 DEF PostDecision, StreamInv
      <3>2. ASSUME NEW e \in Hooks PROVE Append(inbox[e], id) \in Seq(EventIds)
        BY DEF StreamInv
      <3>3. inbox' \in [Hooks -> Seq(EventIds)]
        BY <2>2, <3>2 DEF PostDecision, StreamInv
      <3> QED
        BY <2>2, <3>1, <3>3 DEF PostDecision, StreamInv, Distinct, rowVars
    <2>3. ASSUME NEW e \in Hooks, FrameArrives(e) PROVE StreamInv'
      <3> DEFINE id == Head(inbox[e])
      <3>1. id \in EventIds /\ Tail(inbox[e]) \in Seq(EventIds)
        BY <2>3 DEF FrameArrives, StreamInv
      <3>2. inbox' \in [Hooks -> Seq(EventIds)]
        BY <2>3, <3>1 DEF FrameArrives, StreamInv
      <3>3. Distinct(liveEvents')
        <4>1. CASE id \in ToSet(liveEvents)
          BY <2>3, <4>1 DEF FrameArrives, StreamInv
        <4>2. CASE id \notin ToSet(liveEvents)
          <5>1. Distinct(<<id>>)
            BY <3>1 DEF Distinct, IsInjective
          <5>2. \A n \in DOMAIN liveEvents : liveEvents[n] \notin ToSet(<<id>>)
            BY <4>2 DEF ToSet
          <5>3. Distinct(<<id>> \o liveEvents)
            BY <5>1, <5>2, ConcatInjective DEF StreamInv, Distinct
          <5>4. EventCap \in Nat
            BY EliteTelemetryAssumption
          <5> QED
            BY <2>3, <4>2, <5>3, <5>4, FirstOfDistinct DEF FrameArrives
        <4> QED
          BY <4>1, <4>2
      <3> QED
        BY <2>3, <3>2, <3>3 DEF FrameArrives, StreamInv, Distinct, rowVars
    <2>4. CASE RefreshRead
      <3>1. Distinct(Stored)
        BY StoredDistinct DEF StreamInv
      <3> QED
        BY <2>4, <3>1 DEF RefreshRead, StreamInv, Distinct, socketVars
    <2>5. ASSUME NEW rows \in refreshes, RefreshAnswered(rows) PROVE StreamInv'
      BY <2>5 DEF RefreshAnswered, StreamInv, Distinct, socketVars
    <2>6. ASSUME NEW e \in Hooks, WireOpens(e) \/ WireFails(e) \/ WireCloses(e) \/ WireReconnects(e)
          PROVE  /\ inbox' \in [Hooks -> Seq(EventIds)]
                 /\ UNCHANGED <<posted, liveEvents, initialRows, refreshes>>
      <3>1. <<>> \in Seq(EventIds)
        OBVIOUS
      <3>2. UNCHANGED inbox \/ inbox' = [inbox EXCEPT ![e] = <<>>]
        BY <2>6, Zenon DEF WireOpens, WireFails, WireCloses, WireReconnects
      <3>3. UNCHANGED <<posted, liveEvents, initialRows, refreshes>>
        BY <2>6, Zenon DEF WireOpens, WireFails, WireCloses, WireReconnects, rowVars
      <3> QED
        BY <3>1, <3>2, <3>3 DEF StreamInv
    <2>7. ToastEffect \/ ToastExpires \/ (\E id \in EventIds : DismissToast(id))
            \/ UNCHANGED eliteVars
          => UNCHANGED <<inbox, posted, liveEvents, initialRows, refreshes>>
      BY Zenon DEF ToastEffect, ToastExpires, DismissToast, eliteVars, rowVars, socketVars
    <2>8. UNCHANGED inbox => inbox' \in [Hooks -> Seq(EventIds)]
      BY DEF StreamInv
    <2> QED
      BY <2>1, <2>2, <2>3, <2>4, <2>5, <2>6, <2>7, <2>8, Zenon DEF EliteNext
  <1> QED
    BY <1>1, <1>2, PTL DEF EliteSpec

\* Closing a toast leaves the others.
LEMMA WithoutToastDistinct ==
  ASSUME ToastInv, NEW id
  PROVE  Distinct(WithoutToast(id)) /\ ToSet(WithoutToast(id)) \subseteq ToSet(toasts)
  <1> DEFINE P == {i \in DOMAIN toasts : toasts[i] # id}
  <1>1. toasts \in Seq(EventIds) /\ P \in SUBSET DOMAIN toasts
        /\ \A i, j \in P : toasts[i] = toasts[j] => i = j
    BY DEF ToastInv, Distinct, IsInjective
  <1>2. WithoutToast(id) = KeptAt(toasts, P)
    BY DEF WithoutToast
  <1> HIDE DEF P
  <1>3. /\ Distinct(KeptAt(toasts, P))
        /\ \A n \in DOMAIN KeptAt(toasts, P) : \E i \in P : KeptAt(toasts, P)[n] = toasts[i]
    BY <1>1, KeptAtInjective DEF Distinct
  <1> QED
    BY <1>1, <1>2, <1>3 DEF ToSet

\* A blocked decision is remembered with its toast.
LEMMA ToastRaised ==
  ASSUME ToastInv, ToastEffect
  PROVE  ToastInv'
  <1> DEFINE latest == Head(liveEvents)
  <1>1. CASE latest \notin BlockIds \ toastedIds
    BY <1>1 DEF ToastEffect, ToastInv, Distinct, ToSet
  <1>2. CASE latest \in BlockIds \ toastedIds
    <2>1. latest \in EventIds /\ latest \notin toastedIds /\ latest \notin ToSet(toasts)
      BY <1>2, EliteTelemetryAssumption DEF ToastInv
    <2>2. /\ toastedIds' = toastedIds \cup {latest} /\ toasts' = Append(toasts, latest)
          /\ raised' = [raised EXCEPT ![latest] = @ + 1]
      BY <1>2 DEF ToastEffect
    <2> HIDE DEF latest
    <2>3. toasts' = toasts \o <<latest>>
      BY <2>2 DEF ToastInv, Distinct
    <2>4. Distinct(<<latest>>) /\ ToSet(<<latest>>) = {latest}
      BY <2>1 DEF Distinct, IsInjective, ToSet
    <2>5. Distinct(toasts')
      <3>1. \A n \in DOMAIN <<latest>> : <<latest>>[n] \notin ToSet(toasts)
        BY <2>1
      <3> QED
        BY <2>3, <2>4, <3>1, ConcatInjective DEF ToastInv, Distinct
    <2>6. ToSet(toasts') \subseteq toastedIds'
      <3>1. Len(toasts) \in Nat /\ DOMAIN toasts = 1 .. Len(toasts)
        BY DEF ToastInv, Distinct
      <3>2. \A i \in DOMAIN toasts' : toasts'[i] = latest \/ toasts'[i] \in ToSet(toasts)
        BY <2>2, <3>1 DEF ToastInv, Distinct, ToSet
      <3> QED
        BY <2>2, <3>2 DEF ToastInv, ToSet
    <2>7. /\ raised' \in [EventIds -> Nat]
          /\ \A id \in EventIds : raised'[id] <= IF id \in toastedIds' THEN 1 ELSE 0
      BY <2>1, <2>2 DEF ToastInv
    <2> QED
      BY <2>5, <2>6, <2>7 DEF ToastInv, Distinct, ToSet
  <1> QED
    BY <1>1, <1>2

\* An id that has been raised is not raised again.
LEMMA ToastInvHolds == EliteSpec => []ToastInv
  <1>1. EliteInit => ToastInv
    BY DEF EliteInit, ToastInv, Distinct, IsInjective, ToSet
  <1>2. ToastInv /\ [EliteNext]_eliteVars => ToastInv'
    <2> SUFFICES ASSUME ToastInv, [EliteNext]_eliteVars PROVE ToastInv'
      OBVIOUS
    <2>1. CASE UNCHANGED <<toasts, toastedIds, raised>>
      BY <2>1 DEF ToastInv, Distinct, ToSet
    <2>2. ASSUME NEW id, toasts' = WithoutToast(id), UNCHANGED <<toastedIds, raised>>
          PROVE  ToastInv'
      BY <2>2, WithoutToastDistinct DEF ToastInv, Distinct, ToSet
    <2>3. CASE ToastExpires
      BY <2>2, <2>3 DEF ToastExpires
    <2>4. ASSUME NEW id, DismissToast(id) PROVE ToastInv'
      BY <2>2, <2>4 DEF DismissToast
    <2>5. (\E e \in Hooks : WireOpens(e) \/ WireFails(e) \/ WireCloses(e) \/ WireReconnects(e)
                            \/ FrameArrives(e))
            \/ (\E id \in EventIds : PostDecision(id)) \/ RefreshRead
            \/ (\E rows \in refreshes : RefreshAnswered(rows)) \/ UNCHANGED eliteVars
          => UNCHANGED <<toasts, toastedIds, raised>>
      BY Zenon DEF WireOpens, WireFails, WireCloses, WireReconnects, FrameArrives, PostDecision,
         RefreshRead, RefreshAnswered, eliteVars, toastVars
    <2> QED
      BY <2>1, <2>3, <2>4, <2>5, ToastRaised, Zenon DEF EliteNext
  <1> QED
    BY <1>1, <1>2, PTL DEF EliteSpec

\* While every socket is open the status says so.
LEMMA StatusInvHolds == EliteSpec => []StatusInv
  <1>1. EliteInit => StatusInv
    <2>1. HookRuns \in Hooks
      BY EliteTelemetryAssumption DEF Hooks
    <2> QED
      BY <2>1 DEF EliteInit, StatusInv
  <1>2. StatusInv /\ [EliteNext]_eliteVars => StatusInv'
    <2> SUFFICES ASSUME StatusInv, [EliteNext]_eliteVars PROVE StatusInv'
      OBVIOUS
    <2>1. CASE UNCHANGED <<wires, status>>
      BY <2>1 DEF StatusInv
    <2>2. ASSUME NEW e \in Hooks, WireOpens(e) \/ WireFails(e) \/ WireCloses(e) \/ WireReconnects(e)
          PROVE  StatusInv'
      BY <2>2 DEF WireOpens, WireFails, WireCloses, WireReconnects, StatusInv
    <2>3. (\E e \in Hooks : FrameArrives(e)) \/ ToastEffect \/ ToastExpires \/ RefreshRead
            \/ (\E id \in EventIds : PostDecision(id) \/ DismissToast(id))
            \/ (\E rows \in refreshes : RefreshAnswered(rows)) \/ UNCHANGED eliteVars
          => UNCHANGED <<wires, status>>
      BY Zenon DEF FrameArrives, ToastEffect, ToastExpires, RefreshRead, PostDecision, DismissToast,
         RefreshAnswered, eliteVars, socketVars
    <2> QED
      BY <2>1, <2>2, <2>3, Zenon DEF EliteNext
  <1> QED
    BY <1>1, <1>2, PTL DEF EliteSpec

\* Whatever both chains of sockets deliver twice, late or after the list has
\* dropped it: no row stands twice, no decision raises a second toast, and at rest
\* the status is that of an open socket.
THEOREM EliteFeedAlwaysAgrees == EliteSpec => []EliteFeedAgrees
  <1>1. StreamInv => IsInjective(EliteRows)
    <2> SUFFICES ASSUME StreamInv PROVE Distinct(EliteRows)
      BY DEF Distinct
    <2> DEFINE P == {i \in DOMAIN initialRows : initialRows[i] \notin ToSet(liveEvents)}
               r == KeptAt(initialRows, P)
    <2>1. /\ initialRows \in Seq(EventIds) /\ P \in SUBSET DOMAIN initialRows
          /\ \A i, j \in P : initialRows[i] = initialRows[j] => i = j
      BY DEF StreamInv, Distinct, IsInjective
    <2>2. \A i \in P : initialRows[i] \notin ToSet(liveEvents)
      OBVIOUS
    <2>3. EliteRows = FirstOf(RowCap, liveEvents \o r)
      BY DEF EliteRows
    <2> HIDE DEF P
    <2>4. Distinct(r) /\ \A n \in DOMAIN r : r[n] \notin ToSet(liveEvents)
      BY <2>1, <2>2, KeptAtInjective DEF Distinct
    <2>5. Distinct(liveEvents \o r)
      BY <2>4, ConcatInjective DEF StreamInv, Distinct
    <2>6. RowCap \in Nat
      BY EliteTelemetryAssumption
    <2> QED
      BY <2>3, <2>5, <2>6, FirstOfDistinct
  <1>2. ToastInv => IsInjective(toasts) /\ \A id \in EventIds : raised[id] <= 1
    BY DEF ToastInv, Distinct
  <1>3. StatusInv => ((\A e \in Hooks : wires[e] \notin {"connecting", "closing", "waiting"}) =>
                        status = "CONNECTED" /\ \E e \in Hooks : wires[e] = "open")
    <2>1. 1 \in Hooks
      BY EliteTelemetryAssumption DEF Hooks
    <2> QED
      BY <2>1 DEF StatusInv
  <1>4. StreamInv /\ ToastInv /\ StatusInv => EliteFeedAgrees
    BY <1>1, <1>2, <1>3 DEF EliteFeedAgrees
  <1> QED
    BY <1>4, StreamInvHolds, ToastInvHolds, StatusInvHolds, PTL

-----------------------------------------------------------------------------
(* EliteCore: the table of decisions *)

\* Requests are of the parameters' own only while these last; the rows come with
\* the total of what they answer; and when no request of their own is under way
\* they are the parameters'.
LoadsInv ==
    /\ searchInput \in TableSearches /\ params \in Params
    /\ loads \subseteq [asked : Params, current : BOOLEAN]
    /\ total \in Nat /\ failed \in Nat /\ ahead \in BOOLEAN /\ tableLoading \in BOOLEAN
    /\ \A r \in loads : r.current => r.asked = params
    /\ tableLoading => \E r \in loads : r.current
    /\ failed = 0 /\ (\A r \in loads : ~r.current) =>
         items = PageOf(params) /\ total = HitsOf(params)

\* The page is one of the search's own unless it was chosen ahead of them,
\* whatever is under way.
PageInv ==
    /\ \A p \in items.of : p \in Params /\ total = HitsOf(p)
    /\ ~ahead => params.page <= PagesFor(HitsOf(params))

\* A search has a number of hits.
LEMMA HitsAreCounted == \A p \in Params : HitsOf(p) \in Nat
  BY EliteQueryTableAssumption DEF Params, HitsOf

\* The page the table opens with is one of its pages.
LEMMA FirstParamsAreParams == FirstParams \in Params
  BY EliteQueryTableAssumption DEF FirstParams, Params

\* There is at least one page, also of nothing.
LEMMA PagesForIsPositive == \A count \in Nat : PagesFor(count) \in Nat /\ PagesFor(count) >= 1
  <1> SUFFICES ASSUME NEW count \in Nat, count # 0
               PROVE  LET q == (count + PAGE_SIZE - 1) \div PAGE_SIZE IN q \in Nat /\ q >= 1
    BY DEF PagesFor
  <1>1. PAGE_SIZE \in Nat /\ PAGE_SIZE >= 1
    BY EliteQueryTableAssumption
  <1> QED
    BY <1>1

\* The parameters change; every request under way is disowned.
LEMMA ReloadsStep ==
  ASSUME LoadsInv, NEW p \in Params, Reloads(p), UNCHANGED <<failed, items, total>>, ahead' \in BOOLEAN,
         searchInput' \in TableSearches
  PROVE  LoadsInv'
  <1>1. CASE p = params
    BY <1>1 DEF LoadsInv, Reloads, PageOf, HitsOf
  <1>2. CASE p # params
    <2>1. /\ loads' = Cancelled \cup {Load(p)} /\ params' = p /\ tableLoading' = TRUE
      BY <1>2 DEF Reloads, LoadsInv
    <2>2. Load(p) \in [asked : Params, current : BOOLEAN] /\ Load(p).current /\ Load(p).asked = p
      BY DEF Load
    <2>3. \A r \in Cancelled : r \in [asked : Params, current : BOOLEAN] /\ ~r.current
      BY DEF Cancelled, LoadsInv
    <2> QED
      BY <2>1, <2>2, <2>3 DEF LoadsInv
  <1> QED
    BY <1>1, <1>2

\* Another search or decision leaves one request of the parameters' own, for the first page.
LEMMA ReloadsFromFirstStep ==
  ASSUME LoadsInv, NEW p \in Params, ReloadsFromFirst(p), UNCHANGED <<failed, items, total>>,
         ahead' = FALSE, searchInput' \in TableSearches
  PROVE  LoadsInv' /\ params' \in Params /\ params'.page = 1
  <1> DEFINE first == [p EXCEPT !.page = 1]
  <1>1. first \in Params /\ first.page = 1
    BY DEF Params
  <1>2. /\ params' = first /\ tableLoading' = TRUE
        /\ \E old \in SUBSET {[asked |-> p, current |-> FALSE]} :
             loads' = Cancelled \cup old \cup {Load(first)}
    BY DEF ReloadsFromFirst
  <1>3. /\ Load(first) \in [asked : Params, current : BOOLEAN]
        /\ Load(first).current /\ Load(first).asked = first
    BY <1>1 DEF Load
  <1>4. \A r \in Cancelled \cup {[asked |-> p, current |-> FALSE]} :
          r \in [asked : Params, current : BOOLEAN] /\ ~r.current
    <2>1. \A r \in Cancelled : r \in [asked : Params, current : BOOLEAN] /\ ~r.current
      BY DEF Cancelled, LoadsInv
    <2>2. LET old == [asked |-> p, current |-> FALSE]
          IN  old \in [asked : Params, current : BOOLEAN] /\ ~old.current
      OBVIOUS
    <2> QED
      BY <2>1, <2>2
  <1> HIDE DEF first
  <1>5. loads' \subseteq [asked : Params, current : BOOLEAN] /\ Load(first) \in loads'
    BY <1>2, <1>3, <1>4
  <1>6. \A r \in loads' : r.current => r = Load(first)
    BY <1>2, <1>4
  <1>7. LoadsInv'
    BY <1>1, <1>2, <1>3, <1>5, <1>6 DEF LoadsInv
  <1> QED
    BY <1>1, <1>2, <1>7

\* The rows stay and the parameters are on their first page.
LEMMA FirstPageStep ==
  ASSUME PageInv, UNCHANGED <<items, total>>, params' \in Params, params'.page = 1
  PROVE  PageInv'
  <1>1. HitsOf(params)' \in Nat /\ HitsOf(params)' = HitsOf(params')
    BY HitsAreCounted DEF HitsOf
  <1>2. PagesFor(HitsOf(params))' >= 1 /\ PagesFor(HitsOf(params))' \in Nat
    BY <1>1, PagesForIsPositive DEF PagesFor
  <1>3. \A p \in items'.of : p \in Params /\ total' = HitsOf(p)
    BY DEF PageInv
  <1> QED
    BY <1>2, <1>3 DEF PageInv, HitsOf

\* The arrows and numbers reach no page beyond the total's.
LEMMA ChoosePageStep ==
  ASSUME LoadsInv, PageInv, NEW n \in Nat, n >= 1, ChoosePage(n)
  PROVE  LoadsInv' /\ PageInv'
  <1> DEFINE last == TotalTablePages
             p == [params EXCEPT !.page = n]
  <1>1. params \in Params /\ params.page \in Nat /\ params.page >= 1
    BY DEF LoadsInv, Params
  <1>2. p \in Params /\ p.page = n /\ HitsOf(p) = HitsOf(params) /\ HitsOf(params) \in Nat
    BY <1>1, HitsAreCounted DEF Params, HitsOf
  <1>3. n <= last \/ n = params.page - 1
    <2>1. \/ n \in PageList(params.page, last)
          \/ n = params.page - 1
          \/ n <= last
      BY DEF ChoosePage
    <2>2. last \in Nat /\ last >= 1
      BY PagesForIsPositive DEF TotalTablePages, LoadsInv
    <2> HIDE DEF last
    <2> QED
      BY <1>1, <2>1, <2>2 DEF PageList
  <1>4. Reloads(p) /\ params' = p /\ UNCHANGED <<failed, items, total>>
    BY DEF ChoosePage, Reloads
  <1>5. ahead' \in BOOLEAN /\ searchInput' \in TableSearches
    BY DEF ChoosePage, LoadsInv
  <1>6. LoadsInv'
    BY <1>2, <1>4, <1>5, ReloadsStep
  <1>7. ASSUME ~ahead'
        PROVE  n <= PagesFor(HitsOf(params))
    <2>1. ~ahead /\ \E q \in items.of : q.search = params.search /\ q.decision = params.decision
      BY <1>7 DEF ChoosePage
    <2>2. params.page <= PagesFor(HitsOf(params)) /\ PagesFor(HitsOf(params)) \in Nat
      BY <1>2, <2>1, PagesForIsPositive DEF PageInv
    <2>3. total = HitsOf(params)
      BY <2>1 DEF PageInv, HitsOf
    <2> QED
      BY <1>1, <1>3, <2>2, <2>3 DEF TotalTablePages
  <1>8. PageInv'
    <2>1. HitsOf(params)' = HitsOf(params)
      BY <1>2, <1>4 DEF HitsOf
    <2>2. PagesFor(HitsOf(params))' = PagesFor(HitsOf(params))
      BY <2>1 DEF PagesFor
    <2>3. ~ahead' => params'.page <= PagesFor(HitsOf(params))
      BY <1>2, <1>4, <1>7
    <2>4. \A q \in items'.of : q \in Params /\ total' = HitsOf(q)
      BY <1>4 DEF PageInv
    <2> QED
      BY <2>2, <2>3, <2>4 DEF PageInv, HitsOf
  <1> QED
    BY <1>6, <1>8

\* An answer to a request of the parameters' own brings their rows, any other
\* brings none.
LEMMA LoadAnsweredStep ==
  ASSUME LoadsInv, PageInv, NEW r \in loads, LoadAnswered(r)
  PROVE  LoadsInv' /\ PageInv'
  <1>1. CASE r.current
    <2>1. /\ r.asked = params /\ params \in Params /\ HitsOf(params) \in Nat
      BY <1>1, HitsAreCounted DEF LoadsInv
    <2>2. /\ items' = PageOf(params) /\ total' = HitsOf(params) /\ tableLoading' = FALSE
          /\ loads' \subseteq loads /\ UNCHANGED <<searchInput, params, failed, ahead>>
      BY <1>1, <2>1 DEF LoadAnswered
    <2>3. LoadsInv'
      BY <2>1, <2>2 DEF LoadsInv, PageOf, HitsOf
    <2>4. items'.of = {params}
      BY <2>2 DEF PageOf
    <2>5. PageInv'
      BY <2>1, <2>2, <2>4 DEF PageInv, HitsOf, PagesFor
    <2> QED
      BY <2>3, <2>5
  <1>2. CASE ~r.current
    <2>1. /\ UNCHANGED <<searchInput, params, items, total, tableLoading, ahead, failed>>
          /\ loads' = loads \ {r}
      BY <1>2 DEF LoadAnswered
    <2> QED
      BY <1>2, <2>1 DEF LoadsInv, PageInv, PageOf, HitsOf, PagesFor
  <1> QED
    BY <1>1, <1>2

\* A load that fails leaves the rows of an earlier one.
LEMMA LoadFailsStep ==
  ASSUME LoadsInv, PageInv, NEW r \in loads, LoadFails(r)
  PROVE  LoadsInv' /\ PageInv'
  <1>1. /\ failed' = failed + 1 /\ failed' # 0 /\ failed' \in Nat
        /\ UNCHANGED <<searchInput, params, items, total, ahead>>
        /\ loads' = loads \ {r} /\ tableLoading' = (tableLoading /\ ~r.current)
    BY DEF LoadFails, LoadsInv
  <1>2. PageInv'
    BY <1>1 DEF PageInv, HitsOf, PagesFor
  <1>3. tableLoading' => \E s \in loads' : s.current
    BY <1>1 DEF LoadsInv
  <1> QED
    BY <1>1, <1>2, <1>3 DEF LoadsInv

\* Both parts of the table's invariant, kept by every action.
LEMMA TableInvHolds == QueryTableSpec => [](LoadsInv /\ PageInv)
  <1>1. QueryTableInit => LoadsInv /\ PageInv
    <2> SUFFICES ASSUME QueryTableInit PROVE LoadsInv /\ PageInv
      OBVIOUS
    <2>1. params \in Params /\ HitsOf(params) \in Nat /\ params.page = 1
      BY FirstParamsAreParams, HitsAreCounted DEF QueryTableInit, FirstParams
    <2>2. Load(FirstParams) \in loads /\ Load(FirstParams).current
      BY DEF QueryTableInit, Load
    <2>3. /\ loads \subseteq [asked : Params, current : BOOLEAN]
          /\ \A r \in loads : r.asked = params
      <3>1. loads = {Load(FirstParams), [Load(FirstParams) EXCEPT !.current = FALSE]}
        BY DEF QueryTableInit
      <3>2. /\ Load(FirstParams) \in [asked : Params, current : BOOLEAN]
            /\ Load(FirstParams).asked = FirstParams
        BY FirstParamsAreParams DEF Load
      <3>3. LET r == [Load(FirstParams) EXCEPT !.current = FALSE]
            IN  r \in [asked : Params, current : BOOLEAN] /\ r.asked = FirstParams
        BY <3>2
      <3>4. params = FirstParams
        BY DEF QueryTableInit
      <3> QED
        BY <3>1, <3>2, <3>3, <3>4
    <2>4. LoadsInv
      BY <2>1, <2>2, <2>3, EliteQueryTableAssumption DEF QueryTableInit, LoadsInv
    <2>5. PageInv
      BY <2>1, PagesForIsPositive DEF QueryTableInit, PageInv, NoItems
    <2> QED
      BY <2>4, <2>5
  <1>2. LoadsInv /\ PageInv /\ [QueryTableNext]_queryTableVars => (LoadsInv /\ PageInv)'
    <2> SUFFICES ASSUME LoadsInv, PageInv, [QueryTableNext]_queryTableVars
                 PROVE  LoadsInv' /\ PageInv'
      OBVIOUS
    <2>1. CASE /\ searchInput' \in TableSearches
               /\ UNCHANGED <<params, loads, items, total, tableLoading, ahead, failed>>
      BY <2>1 DEF LoadsInv, PageInv, PageOf, HitsOf, PagesFor
    <2>2. (\E text \in TableSearches : TypeSearch(text)) \/ UNCHANGED queryTableVars
          => /\ searchInput' \in TableSearches
             /\ UNCHANGED <<params, loads, items, total, tableLoading, ahead, failed>>
      BY DEF TypeSearch, queryTableVars, LoadsInv
    <2>3. CASE SearchDue
      <3>1. CASE searchInput = params.search
        BY <2>1, <2>3, <3>1 DEF SearchDue, LoadsInv
      <3>2. CASE searchInput # params.search
        <4>1. [params EXCEPT !.search = searchInput] \in Params
          BY DEF LoadsInv, Params
        <4> QED
          BY <2>3, <3>2, <4>1, ReloadsFromFirstStep, FirstPageStep DEF SearchDue, LoadsInv
      <3> QED
        BY <3>1, <3>2
    <2>4. ASSUME NEW d \in Decided, FilterDecision(d) PROVE LoadsInv' /\ PageInv'
      <3>1. [params EXCEPT !.decision = d] \in Params
        BY DEF LoadsInv, Params
      <3> QED
        BY <2>4, <3>1, ReloadsFromFirstStep, FirstPageStep DEF FilterDecision, LoadsInv
    <2>5. CASE ClearTable
      <3>1. /\ params' = FirstParams /\ Reloads(FirstParams) /\ ahead' = FALSE
            /\ searchInput' \in TableSearches /\ UNCHANGED <<failed, items, total>>
        BY <2>5, EliteQueryTableAssumption DEF ClearTable, Reloads
      <3>2. FirstParams \in Params /\ FirstParams.page = 1
        BY FirstParamsAreParams DEF FirstParams
      <3> QED
        BY <3>1, <3>2, ReloadsStep, FirstPageStep
    <2>6. CASE LoadAgain
      <3>1. /\ Load(params) \in [asked : Params, current : BOOLEAN]
            /\ Load(params).current /\ Load(params).asked = params
        BY DEF Load, LoadsInv
      <3>2. /\ loads' = loads \cup {Load(params)}
            /\ UNCHANGED <<searchInput, params, items, total, tableLoading, ahead, failed>>
        BY <2>6 DEF LoadAgain
      <3> QED
        BY <3>1, <3>2 DEF LoadsInv, PageInv, HitsOf, PagesFor
    <2>7. ASSUME NEW n \in 1 .. TotalTablePages + params.page, ChoosePage(n)
          PROVE  LoadsInv' /\ PageInv'
      <3>1. n \in Nat /\ n >= 1
        OBVIOUS
      <3> QED
        BY <2>7, <3>1, ChoosePageStep
    <2> QED
      BY <2>1, <2>2, <2>3, <2>4, <2>5, <2>6, <2>7, LoadAnsweredStep, LoadFailsStep, Zenon
      DEF QueryTableNext
  <1> QED
    BY <1>1, <1>2, PTL DEF QueryTableSpec

\* Once no request of the parameters' own is under way and none failed, the rows
\* are those of the page, search and decision shown, whichever requests answered
\* last and however they were counted.
THEOREM TableAlwaysAgrees == QueryTableSpec => []EliteTableAgrees
  <1>1. LoadsInv /\ PageInv => EliteTableAgrees
    BY DEF LoadsInv, PageInv, EliteTableAgrees, TotalTablePages
  <1> QED
    BY <1>1, TableInvHolds, PTL

-----------------------------------------------------------------------------
(* EliteCore: the dialogs *)

\* The evidence half of the property, and that a request under way is counted
\* until it is answered.
EvidenceInv ==
    /\ IsABag(details)
    /\ evidenceLoading => details # EmptyBag
    /\ selectedId # NoRow /\ ~upset =>
          shownId = selectedId \/ selectedId \in BagToSet(details)

\* One upload by the mounted dialog, of the capture it sent last
CaptureInv ==
    /\ captureSent = IF phase = "uploading" THEN {lastSent} ELSE {}
    /\ phase = "complete" => captureResult = lastSent

\* What is added to a bag is in it.
LEMMA BagWithMore ==
  ASSUME NEW B, IsABag(B), NEW x
  PROVE  /\ IsABag(B (+) SetToBag({x})) /\ x \in BagToSet(B (+) SetToBag({x}))
         /\ B (+) SetToBag({x}) # EmptyBag
  <1>1. IsABag(B (+) SetToBag({x})) /\ DOMAIN (B (+) SetToBag({x})) = DOMAIN B \cup {x}
    BY BagPlusOne
  <1>2. DOMAIN EmptyBag = {}
    BY DEF EmptyBag, SetToBag
  <1> QED
    BY <1>1, <1>2 DEF BagToSet

\* What is taken from a bag leaves the others in it.
LEMMA BagWithLess ==
  ASSUME NEW B, IsABag(B), NEW x
  PROVE  /\ IsABag(B (-) SetToBag({x}))
         /\ \A y \in BagToSet(B) : y # x => y \in BagToSet(B (-) SetToBag({x}))
  <1>1. DOMAIN SetToBag({x}) = {x} /\ SetToBag({x})[x] = 1
    BY DEF SetToBag
  <1>2. \A y \in DOMAIN B : B[y] \in Nat /\ B[y] > 0
    BY DEF IsABag
  <1> DEFINE C == [y \in DOMAIN B |-> IF y \in {x} THEN B[y] - SetToBag({x})[y] ELSE B[y]]
             D == {y \in DOMAIN C : C[y] > 0}
  <1>3. B (-) SetToBag({x}) = [y \in D |-> C[y]]
    BY <1>1 DEF (-)
  <1>4. \A y \in D : C[y] \in Nat /\ C[y] > 0
    BY <1>1, <1>2
  <1>5. \A y \in DOMAIN B : y # x => y \in D
    BY <1>2
  <1> HIDE DEF C, D
  <1>6. IsABag([y \in D |-> C[y]]) /\ DOMAIN [y \in D |-> C[y]] = D
    BY <1>4 DEF IsABag
  <1> QED
    BY <1>3, <1>5, <1>6 DEF BagToSet

\* The empty bag is the same in every state.
LEMMA EmptyBagStays == EmptyBag' = EmptyBag
  BY DEF EmptyBag, SetToBag

\* Opening shows a row that is held, and asks for the details of one that is not.
LEMMA OpenEvidenceStep ==
  ASSUME EvidenceInv, NEW id, OpenEvidence(id)
  PROVE  EvidenceInv'
  <1>1. CASE id \in liveIds
    BY <1>1 DEF EvidenceInv, OpenEvidence
  <1>2. CASE id \notin liveIds
    <2>1. IsABag(details') /\ id \in BagToSet(details') /\ details' # EmptyBag
      BY <1>2, BagWithMore DEF OpenEvidence, EvidenceInv
    <2> QED
      BY <1>2, <2>1, EmptyBagStays DEF EvidenceInv, OpenEvidence, BagToSet, IsABag
  <1> QED
    BY <1>1, <1>2

\* The evidence dialog, whichever answer comes when.
LEMMA EvidenceInvHolds == DialogsSpec => []EvidenceInv
  <1>1. DialogsInit => EvidenceInv
    <2>1. IsABag(EmptyBag)
      BY DEF IsABag, EmptyBag, SetToBag
    <2> QED
      BY <2>1 DEF DialogsInit, EvidenceInv
  <1>2. EvidenceInv /\ [DialogsNext]_dialogVars => EvidenceInv'
    <2> SUFFICES ASSUME EvidenceInv, [DialogsNext]_dialogVars PROVE EvidenceInv'
      OBVIOUS
    <2>1. ASSUME NEW id, OpenFromRow(id) PROVE EvidenceInv'
      BY <2>1, OpenEvidenceStep DEF OpenFromRow
    <2>2. ASSUME NEW id, OpenFromToast(id) PROVE EvidenceInv'
      BY <2>2, OpenEvidenceStep DEF OpenFromToast
    <2>3. ASSUME NEW id, DetailAnswered(id) PROVE EvidenceInv'
      <3>1. IsABag(details')
        BY <2>3, BagWithLess DEF DetailAnswered, EvidenceInv
      <3> QED
        BY <2>3, <3>1 DEF DetailAnswered, EvidenceInv, IsABag
    <2>4. ASSUME NEW id, DetailFails(id) PROVE EvidenceInv'
      <3>1. /\ IsABag(details')
            /\ \A y \in BagToSet(details) : y # id => y \in BagToSet(details')
        BY <2>4, BagWithLess DEF DetailFails, EvidenceInv
      <3>2. selectedId # NoRow /\ ~upset' =>
              shownId = selectedId \/ selectedId \in BagToSet(details')
        BY <2>4, <3>1 DEF DetailFails, EvidenceInv
      <3> QED
        BY <2>4, <3>1, <3>2 DEF DetailFails, EvidenceInv, IsABag, BagToSet
    <2>5. CASE CloseEvidence
      BY <2>5, EmptyBagStays DEF CloseEvidence, EvidenceInv, IsABag
    <2>6. UNCHANGED <<selectedId, shownId, evidenceLoading, details, upset>> => EvidenceInv'
      BY EmptyBagStays DEF EvidenceInv, IsABag, BagToSet
    <2>7. (\E ids \in SUBSET RowIds : EventsChange(ids)) \/ OpenUpload \/ CloseUpload
            \/ AnalyzeCapture \/ (\E f \in Captures : PickCapture(f))
            \/ (\E f \in captureSent : CaptureAnalyzed(f)) \/ UNCHANGED dialogVars
          => UNCHANGED <<selectedId, shownId, evidenceLoading, details, upset>>
      BY DEF EventsChange, OpenUpload, CloseUpload, MountedUpload, AnalyzeCapture, PickCapture,
         CaptureAnalyzed, dialogVars, evidenceVars
    <2> QED
      BY <2>1, <2>2, <2>3, <2>4, <2>5, <2>6, <2>7, Zenon DEF DialogsNext
  <1> QED
    BY <1>1, <1>2, PTL DEF DialogsSpec

\* The upload dialog, whichever answer comes when.
LEMMA CaptureInvHolds == DialogsSpec => []CaptureInv
  <1>1. DialogsInit => CaptureInv
    BY DEF DialogsInit, CaptureInv
  <1>2. CaptureInv /\ [DialogsNext]_dialogVars => CaptureInv'
    <2> SUFFICES ASSUME CaptureInv, [DialogsNext]_dialogVars PROVE CaptureInv'
      OBVIOUS
    <2>1. CASE OpenUpload \/ CloseUpload
      BY <2>1 DEF OpenUpload, CloseUpload, MountedUpload, CaptureInv
    <2>2. CASE AnalyzeCapture
      BY <2>2 DEF AnalyzeCapture, CaptureInv
    <2>3. ASSUME NEW f \in captureSent, CaptureAnalyzed(f) PROVE CaptureInv'
      <3>1. phase = "uploading" /\ f = lastSent /\ captureSent' = {}
        BY <2>3 DEF CaptureAnalyzed, CaptureInv
      <3> QED
        BY <2>3, <3>1 DEF CaptureAnalyzed, CaptureInv
    <2>4. UNCHANGED <<phase, captureResult, captureSent, lastSent>> => CaptureInv'
      BY DEF CaptureInv
    <2>5. (\E id \in RowIds : OpenFromRow(id) \/ OpenFromToast(id))
            \/ (\E id \in BagToSet(details) : DetailAnswered(id) \/ DetailFails(id))
            \/ CloseEvidence \/ (\E ids \in SUBSET RowIds : EventsChange(ids))
            \/ (\E f \in Captures : PickCapture(f)) \/ UNCHANGED dialogVars
          => UNCHANGED <<phase, captureResult, captureSent, lastSent>>
      BY DEF OpenFromRow, OpenFromToast, OpenEvidence, DetailAnswered, DetailFails,
         CloseEvidence, EventsChange, PickCapture, dialogVars, captureVars
    <2> QED
      BY <2>1, <2>2, <2>3, <2>4, <2>5, Zenon DEF DialogsNext
  <1> QED
    BY <1>1, <1>2, PTL DEF DialogsSpec

\* While a row is selected its own evidence is shown or asked for, unless its own
\* request failed or an answer for another row came after it was opened; the dialog
\* waits only for details under way, and a result is of the capture sent last.
THEOREM DialogsAlwaysAgree == DialogsSpec => []DialogsAgree
  <1>1. EvidenceInv /\ CaptureInv => DialogsAgree
    BY DEF EvidenceInv, CaptureInv, DialogsAgree
  <1> QED
    BY <1>1, EvidenceInvHolds, CaptureInvHolds, PTL

-----------------------------------------------------------------------------
(* The types: what the invariants above leave open *)

\* What a list on the page may hold
Shownable == Decisions \cup Range(Seeds) \cup {MadeUp}

\* The rest of the types of the stream: what LogInv and BadgeInv do not say.
LiveTypes ==
    /\ wsConnected \in BOOLEAN
    /\ \A e \in Effects : \A i \in DOMAIN frames[e] : frames[e][i] >= 1
    /\ queries \in Seq(Shownable)
    /\ Len(log) <= MaxLogged

\* The rows of the back end are decisions it has logged.
LEMMA RecentRowsTyped ==
  ASSUME log \in Seq(Decisions), NEW limit \in Nat, NEW stamp \in 0 .. Len(log),
         NEW answered \in RecentRows(limit, stamp)
  PROVE  answered \in Seq(Decisions)
  <1> DEFINE held == SubSeq(log, 1, stamp)
             rows == {i \in DOMAIN held : \A j \in i + 1 .. Len(held) : held[j] # held[i]}
             n == IF Cardinality(rows) < limit THEN Cardinality(rows) ELSE limit
  <1>1. held \in Seq(Decisions)
    <2>1. \A i \in 1 .. stamp : log[i] \in Decisions
      OBVIOUS
    <2> QED
      BY <2>1, SubSeqProperties
  <1>2. rows \in SUBSET (1 .. Len(held)) /\ Len(held) \in Nat
    BY <1>1
  <1>3. PICK place \in [1 .. n -> rows] : answered = [i \in 1 .. n |-> held[place[i]]]
    BY DEF RecentRows, NewestFirst, Injection
  <1> HIDE DEF held, rows
  <1>4. IsFiniteSet(1 .. Len(held))
    BY <1>2, FS_Interval
  <1>5. Cardinality(rows) \in Nat
    BY <1>2, <1>4, FS_Subset, FS_CardinalityType
  <1>6. n \in Nat
    BY <1>5
  <1> HIDE DEF n
  <1>7. \A i \in 1 .. n : held[place[i]] \in Decisions
    <2> SUFFICES ASSUME NEW i \in 1 .. n PROVE held[place[i]] \in Decisions
      OBVIOUS
    <2>1. place[i] \in rows
      BY <1>3
    <2>2. place[i] \in 1 .. Len(held)
      BY <1>2, <2>1
    <2> QED
      BY <1>1, <2>2
  <1> QED
    BY <1>3, <1>6, <1>7

\* Every step keeps the list of what it may hold.
LEMMA LiveTypesStep ==
  ASSUME LogInv, BadgeInv, LiveTypes, [LiveNext]_liveVars PROVE LiveTypes'
  <1> USE LiveFeedAssumption
  <1>1. ASSUME NEW e \in Effects,
               SocketOpens(e) \/ SocketFails(e) \/ SocketCloses(e) \/ Reconnect(e)
        PROVE  LiveTypes'
    <2>1. UNCHANGED <<log, queries>> /\ wsConnected' \in BOOLEAN
      BY <1>1, Zenon DEF SocketOpens, SocketFails, SocketCloses, Reconnect, backVars, LiveTypes
    <2>2. UNCHANGED frames \/ frames' = [frames EXCEPT ![e] = <<>>]
      BY <1>1, Zenon DEF SocketOpens, SocketFails, SocketCloses, Reconnect
    <2>3. \A g \in Effects : frames'[g] = frames[g] \/ DOMAIN frames'[g] = {}
      BY <2>2 DEF LogInv
    <2>4. \A g \in Effects : \A i \in DOMAIN frames'[g] : frames'[g][i] >= 1
      BY <2>3 DEF LiveTypes
    <2> QED
      BY <2>1, <2>4 DEF LiveTypes
  <1>2. ASSUME NEW e \in Effects, OnMessage(e) PROVE LiveTypes'
    <2> DEFINE f == frames[e]
               n == Head(f)
               k == IF Len(queries) < DefaultLimit THEN Len(queries) ELSE DefaultLimit - 1
    <2>1. f \in Seq(Nat) /\ f # <<>>
      BY <1>2 DEF OnMessage, LogInv
    <2>2. /\ queries' = Prepended(log[n], queries)
          /\ frames' = [frames EXCEPT ![e] = Tail(f)] /\ UNCHANGED <<wsConnected, log>>
      BY <1>2 DEF OnMessage, backVars
    <2>3. n = f[1] /\ 1 \in DOMAIN f
      BY <2>1
    <2>4. n \in Nat /\ n >= 1 /\ n <= Len(log) /\ log \in Seq(Decisions)
      BY <2>1, <2>3 DEF LiveTypes, LogInv
    <2> HIDE DEF n, f
    <2>5. log[n] \in Shownable
      BY <2>4 DEF Shownable
    <2>6. SubSeq(queries, 1, k) \in Seq(Shownable)
      <3> DEFINE l == Len(queries)
      <3>1. l \in Nat /\ \A i \in 1 .. l : queries[i] \in Shownable
        BY DEF LiveTypes
      <3> HIDE DEF l
      <3>2. k = (IF l < DefaultLimit THEN l ELSE DefaultLimit - 1) /\ DefaultLimit \in Nat
        BY LiveFeedAssumption DEF l
      <3> HIDE DEF k
      <3>3. k \in Int /\ k <= l
        BY <3>1, <3>2, SMT
      <3>4. k \in Int /\ \A i \in 1 .. k : queries[i] \in Shownable
        BY <3>1, <3>3
      <3> QED
        BY <3>4, SubSeqProperties
    <2>7. queries' \in Seq(Shownable)
      <3> DEFINE s == SubSeq(queries, 1, k)
      <3>1. queries' = <<log[n]>> \o s
        BY <2>2 DEF Prepended
      <3>2. s \in Seq(Shownable) /\ <<log[n]>> \in Seq(Shownable)
        BY <2>5, <2>6
      <3> HIDE DEF s
      <3> QED
        BY <3>1, <3>2, ConcatProperties
    <2>8. /\ Tail(f) \in Seq(Nat)
          /\ \A i \in DOMAIN Tail(f) : i + 1 \in DOMAIN f /\ Tail(f)[i] = f[i + 1]
      BY <2>1
    <2>9. \A g \in Effects : \A i \in DOMAIN frames'[g] : frames'[g][i] >= 1
      BY <2>2, <2>8 DEF LiveTypes, LogInv, f
    <2> QED
      BY <2>2, <2>7, <2>9 DEF LiveTypes
  <1>3. ASSUME NEW d \in Decisions, LogDecision(d) PROVE LiveTypes'
    <2>1. /\ log' = Append(log, d) /\ Len(log) < MaxLogged
          /\ UNCHANGED <<wsConnected, queries, frames>>
      BY <1>3 DEF LogDecision
    <2>2. Len(log') = Len(log) + 1 /\ Len(log) \in Nat
      BY <2>1 DEF LogInv
    <2>3. Len(log') <= MaxLogged
      BY <2>1, <2>2
    <2> QED
      BY <2>1, <2>3 DEF LiveTypes
  <1>8. ASSUME NEW n \in unsent, Broadcast(n) PROVE LiveTypes'
    <2>1. /\ n \in Nat /\ n >= 1 /\ UNCHANGED <<wsConnected, queries, log>>
          /\ frames' = [e \in Effects |->
                          IF chain[e] = "open" THEN Append(frames[e], n) ELSE frames[e]]
      BY <1>8 DEF Broadcast, LogInv
    <2>2. ASSUME NEW g \in Effects, NEW i \in DOMAIN frames'[g] PROVE frames'[g][i] >= 1
      <3> DEFINE f == frames[g]
      <3>1. f \in Seq(Nat) /\ \A j \in DOMAIN f : f[j] >= 1
        BY DEF LogInv, LiveTypes
      <3>2. frames'[g] = f \/ frames'[g] = Append(f, n)
        BY <2>1
      <3> HIDE DEF f
      <3>3. \A j \in DOMAIN Append(f, n) : Append(f, n)[j] >= 1
        BY <2>1, <3>1
      <3> QED
        BY <2>2, <3>1, <3>2, <3>3
    <2> QED
      BY <2>1, <2>2 DEF LiveTypes
  <1>4. ASSUME NEW samples \in {<<>>, <<MadeUp>>} \cup {<<d>> : d \in Range(log)},
               NEW limit \in Limits, ReportMerged(samples, limit)
        PROVE  LiveTypes'
    <2> DEFINE all == samples \o queries
    <2>1. samples \in Seq(Shownable)
      <3>1. Range(log) \subseteq Decisions
        BY DEF LogInv, Range
      <3>2. samples = <<>> \/ \E x \in Shownable : samples = <<x>>
        BY <3>1 DEF Shownable
      <3>3. \A x \in Shownable : <<x>> \in Seq(Shownable)
        OBVIOUS
      <3>4. <<>> \in Seq(Shownable)
        OBVIOUS
      <3> QED
        BY <3>2, <3>3, <3>4, Zenon
    <2>2. all \in Seq(Shownable)
      <3>1. queries \in Seq(Shownable)
        BY DEF LiveTypes
      <3> QED
        BY <2>1, <3>1, ConcatProperties
    <2>3. queries' = IF Len(all) > DefaultLimit THEN SubSeq(all, 1, DefaultLimit) ELSE all
      BY <1>4 DEF ReportMerged
    <2> HIDE DEF all
    <2>4. CASE Len(all) > DefaultLimit
      <3>1. DefaultLimit \in Int /\ \A i \in 1 .. DefaultLimit : all[i] \in Shownable
        BY <2>2, <2>4
      <3>2. queries' \in Seq(Shownable)
        BY <2>3, <2>4, <3>1, SubSeqProperties
      <3> QED
        BY <1>4, <3>2 DEF ReportMerged, backVars, LiveTypes
    <2>5. CASE ~(Len(all) > DefaultLimit)
      BY <1>4, <2>2, <2>3, <2>5 DEF ReportMerged, backVars, LiveTypes
    <2> QED
      BY <2>4, <2>5
  <1>5. ASSUME NEW r \in BagToSet(requests), QueriesAnswered(r) PROVE LiveTypes'
    <2>1. r.limit \in Nat /\ r.stamp \in 0 .. Len(log) /\ log \in Seq(Decisions)
      BY DEF LogInv
    <2>2. CASE queries' = queries
      BY <1>5, <2>2 DEF QueriesAnswered, backVars, LiveTypes
    <2>3. CASE queries' \in RecentRows(r.limit, r.stamp)
      <3>1. queries' \in Seq(Decisions)
        BY <2>1, <2>3, RecentRowsTyped
      <3>2. queries' \in Seq(Shownable)
        BY <3>1 DEF Shownable
      <3> QED
        BY <1>5, <3>2 DEF QueriesAnswered, backVars, LiveTypes
    <2> QED
      BY <1>5, <2>2, <2>3 DEF QueriesAnswered
  <1>6. ASSUME UNCHANGED <<wsConnected, frames, log, queries>> PROVE LiveTypes'
    BY <1>6 DEF LiveTypes
  <1>7. (\E limit \in Limits : SetTableLimit(limit)) \/ ManualRefresh
          \/ (\E r \in BagToSet(requests) : QueriesRead(r) \/ RequestFails(r))
          \/ UNCHANGED liveVars
        => UNCHANGED <<wsConnected, frames, log, queries>>
    BY Zenon DEF SetTableLimit, ManualRefresh, QueriesRead, RequestFails, liveVars, backVars
  <1> QED
    BY <1>1, <1>2, <1>3, <1>4, <1>5, <1>6, <1>7, <1>8, Zenon DEF LiveNext

\* Frames are of logged decisions, the list shows what a console may, and a refresh is of
\* one of the limits, whatever the sockets, the reports and the back end do.
THEOREM LiveTypesHold == LiveSpec => []LiveTypeOK
  <1>1. LiveInit => LiveTypes
    <2> SUFFICES ASSUME LiveInit PROVE LiveTypes
      OBVIOUS
    <2>1. queries \in Seq(Shownable)
      <3>1. \A i \in 1 .. Len(Seeds) : Seeds[i] \in Range(Seeds)
        BY LiveFeedAssumption DEF Range
      <3>2. Seeds \in Seq(Range(Seeds))
        BY LiveFeedAssumption
      <3> HIDE DEF Shownable
      <3>3. Seeds \in Seq(Shownable)
        <4> DEFINE R == Range(Seeds)
        <4>1. Seeds \in Seq(R) /\ R \subseteq Shownable
          BY <3>2 DEF Shownable
        <4> HIDE DEF R
        <4> QED
          BY <4>1
      <3> QED
        BY <3>3 DEF LiveInit
    <2>2. /\ log = <<>> /\ Len(log) = 0 /\ wsConnected \in BOOLEAN
          /\ frames = [e \in Effects |-> <<>>]
      BY DEF LiveInit
    <2>3. \A e \in Effects : DOMAIN frames[e] = {}
      BY <2>2
    <2>4. Len(log) <= MaxLogged
      BY <2>2, LiveFeedAssumption
    <2>5. \A e \in Effects : \A i \in DOMAIN frames[e] : frames[e][i] >= 1
      BY <2>3, Zenon
    <2> QED
      BY <2>1, <2>2, <2>4, <2>5, Zenon DEF LiveTypes
  <1>2. LogInv /\ BadgeInv /\ LiveTypes /\ [LiveNext]_liveVars => LiveTypes'
    BY LiveTypesStep
  <1>3. LogInv /\ BadgeInv /\ LiveTypes => LiveTypeOK
    <2> SUFFICES ASSUME LogInv, BadgeInv, LiveTypes PROVE LiveTypeOK
      OBVIOUS
    <2>1. Len(log) \in Nat /\ DOMAIN log = 1 .. Len(log)
      BY DEF LogInv
    <2>2. \A e \in Effects : \A i \in DOMAIN frames[e] : frames[e][i] \in DOMAIN log
      <3> SUFFICES ASSUME NEW e \in Effects, NEW i \in DOMAIN frames[e]
                   PROVE  frames[e][i] \in 1 .. Len(log)
        BY <2>1
      <3>1. frames[e] \in Seq(Nat) /\ frames[e][i] <= Len(log) /\ frames[e][i] >= 1
        BY DEF LogInv, LiveTypes
      <3> QED
        BY <2>1, <3>1
    <2>3. Range(queries) \subseteq Shownable
      BY DEF LiveTypes, Range
    <2>4. BagToSet(requests) \subseteq Request
      <3> SUFFICES ASSUME NEW r \in BagToSet(requests) PROVE r \in Request
        OBVIOUS
      <3>1. r \in [limit : Limits, step : {"asked", "read"}, stamp : 0 .. Len(log)]
        BY DEF LogInv
      <3>2. 0 .. Len(log) \subseteq 0 .. MaxLogged
        BY <2>1, LiveFeedAssumption DEF LiveTypes
      <3> QED
        BY <3>1, <3>2 DEF Request
    <2> QED
      BY <2>2, <2>3, <2>4 DEF LiveTypeOK, LogInv, BadgeInv, LiveTypes, Shownable
  <1> QED
    BY <1>1, <1>2, <1>3, BadgeInvHolds, ListInvHolds, PTL DEF LiveSpec

\* The types of the table
LEMMA TableTypesHold == TableSpec => []TableTypeOK
  <1>1. TableTypes => TableTypeOK
    BY Zenon DEF TableTypes, RowsTyped, ControlsTyped, SearchTyped, ViewTyped, TableTypeOK
  <1> QED
    BY <1>1, TableHolds, PTL

\* The results that the inspector and App hold
ResultsTyped == lastResult \in Result /\ result \in Result /\ inspecting \in BOOLEAN

\* What an evaluation ends with is a result.
LEMMA OutcomesAreResults ==
  ASSUME NEW d \in Domains
  PROVE  Outcomes(d) \subseteq Result
  <1>1. GuessedVerdict(d) \in Verdicts
    BY DEF GuessedVerdict, Verdicts
  <1>2. BackendVerdicts \cup {GuessedVerdict(d), "SUSPICIOUS"} \subseteq Verdicts
    BY <1>1, DomainInspectorAssumption DEF Verdicts
  <1>3. \A v \in Verdicts : [domain |-> d, verdict |-> v] \in Result
    BY DEF Result
  <1> QED
    BY <1>2, <1>3 DEF Outcomes

\* The types of the inspector
LEMMA InspectorTypesHold == InspectorSpec => []InspectorTypeOK
  <1>1. InspectorInit => ResultsTyped
    BY DEF InspectorInit, ResultsTyped, Result
  <1>2. EvaluationInv /\ ResultsTyped /\ [InspectorNext]_inspectorVars => ResultsTyped'
    <2> SUFFICES ASSUME EvaluationInv, ResultsTyped, [InspectorNext]_inspectorVars
                 PROVE  ResultsTyped'
      OBVIOUS
    <2>1. ASSUME NEW n, NEW d, NEW res \in Result, Effect(n, d, res) PROVE result' \in Result
      BY <2>1 DEF Effect, ResultsTyped
    <2>2. NoResult \in Result
      BY DEF Result
    <2>3. CASE OpenInspector
      BY <2>1, <2>3 DEF OpenInspector, ResultsTyped
    <2>4. CASE LeaveInspector
      BY <2>2, <2>4 DEF LeaveInspector, ResultsTyped
    <2>5. ASSUME NEW d \in Domains, CopilotEvaluates(d) PROVE ResultsTyped'
      <3>1. inspecting' = TRUE /\ lastResult' = lastResult
        BY <2>5 DEF CopilotEvaluates
      <3>2. result' \in Result
        <4>1. CASE ~inspecting
          BY <2>1, <2>5, <4>1 DEF CopilotEvaluates, ResultsTyped
        <4>2. CASE inspecting /\ d # lastDomain
          BY <2>1, <2>5, <4>2 DEF CopilotEvaluates, ResultsTyped
        <4>3. CASE inspecting /\ d = lastDomain
          BY <2>5, <4>3 DEF CopilotEvaluates, ResultsTyped
        <4> QED
          BY <4>1, <4>2, <4>3
      <3> QED
        BY <3>1, <3>2 DEF ResultsTyped
    <2>6. ASSUME NEW e \in BagToSet(evaluations), Answered(e) PROVE ResultsTyped'
      <3>1. e.domain \in Domains
        BY DEF EvaluationInv
      <3>2. lastResult' \in Result /\ result' \in {lastResult', result} /\ inspecting' = inspecting
        BY <2>6, <3>1, OutcomesAreResults DEF Answered
      <3> QED
        BY <3>2 DEF ResultsTyped
    <2>7. UNCHANGED <<lastResult, result, inspecting>> => ResultsTyped'
      BY DEF ResultsTyped
    <2>8. Analyze \/ (\E d \in Domains : TypeDomain(d)) \/ UNCHANGED inspectorVars
          => UNCHANGED <<lastResult, result, inspecting>>
      BY Zenon DEF Analyze, TypeDomain, inspectorVars
    <2> QED
      BY <2>3, <2>4, <2>5, <2>6, <2>7, <2>8, Zenon DEF InspectorNext
  <1>3. EvaluationInv /\ ResultsTyped => InspectorTypeOK
    BY DEF EvaluationInv, ResultsTyped, InspectorTypeOK
  <1> QED
    BY <1>1, <1>2, <1>3, EvaluationInvHolds, PTL DEF InspectorSpec

\* A timer runs only in an open browser, and the count is one of the store's.
BrowserTyped ==
    /\ browserOpen \in BOOLEAN /\ timerSet \in BOOLEAN /\ fetching \in BOOLEAN
    /\ filteredCount \in 0 .. StoreSize
    /\ timerSet => browserOpen

\* The types of the browser
LEMMA BrowserTypesHold == BrowserSpec => []BrowserTypeOK
  <1>0. StoreSize \in Nat /\ StoreSize \in 0 .. StoreSize
    BY IndicatorBrowserAssumption
  <1>1. BrowserInit => BrowserTyped
    <2> SUFFICES ASSUME BrowserInit PROVE BrowserTyped
      OBVIOUS
    <2>1. browserOpen = FALSE /\ timerSet = FALSE /\ fetching = FALSE /\ filteredCount = StoreSize
      BY DEF BrowserInit
    <2> QED
      BY <1>0, <2>1 DEF BrowserTyped
  <1>2. CountInv /\ BrowserTyped /\ [BrowserNext]_browserVars => BrowserTyped'
    <2> SUFFICES ASSUME CountInv, BrowserTyped, [BrowserNext]_browserVars PROVE BrowserTyped'
      OBVIOUS
    <2>1. ASSUME NEW c, Becomes(c) PROVE BrowserTyped'
      BY <2>1 DEF Becomes, BrowserTyped
    <2>2. PreviousIndicators \/ NextIndicators \/ (\E s \in Searches : SearchIndicators(s))
            \/ (\E n \in BrowserSizes : ResizePages(n))
          => \E c : Becomes(c)
      BY Zenon DEF PreviousIndicators, NextIndicators, SearchIndicators, ResizePages
    <2>3. CASE OpenBrowser \/ CloseBrowser \/ Fetch
      BY <2>3 DEF OpenBrowser, CloseBrowser, Fetch, BrowserTyped
    <2>4. CASE RemountBrowser
      BY <1>0, <2>4 DEF RemountBrowser, BrowserTyped
    <2>5. ASSUME NEW f \in fetches, IndicatorsAnswered(f) PROVE BrowserTyped'
      <3>1. Scanned(f.asked) \in Nat /\ Scanned(f.asked) <= Hits[f.asked.search]
            /\ f.asked.search \in Searches
        <4>1. f.asked \in Controls
          BY DEF CountInv
        <4> QED
          BY <4>1, ScannedProperties DEF Controls
      <3>2. Scanned(f.asked) \in 0 .. StoreSize
        <4>1. Hits[f.asked.search] \in Nat /\ Hits[f.asked.search] <= StoreSize /\ StoreSize \in Nat
          BY <3>1, IndicatorBrowserAssumption
        <4> QED
          BY <3>1, <4>1
      <3> QED
        BY <2>5, <3>2 DEF IndicatorsAnswered, BrowserTyped
    <2>6. ASSUME NEW f \in fetches, IndicatorsFail(f) PROVE BrowserTyped'
      BY <2>6 DEF IndicatorsFail, BrowserTyped
    <2>7. UNCHANGED browserVars => BrowserTyped'
      BY DEF browserVars, BrowserTyped
    <2> QED
      BY <2>1, <2>2, <2>3, <2>4, <2>5, <2>6, <2>7, Zenon DEF BrowserNext
  <1>3. CountInv /\ BrowserTyped => BrowserTypeOK
    BY DEF CountInv, BrowserTyped, BrowserTypeOK
  <1> QED
    BY <1>1, <1>2, <1>3, BrowserInvHolds, PTL DEF BrowserSpec

\* What the modal and the investigator hold
ModalTyped ==
    /\ onForensics \in BOOLEAN /\ uploadOpen \in BOOLEAN /\ modalLoading \in BOOLEAN
    /\ modalFile \in Files \cup {NoFile} /\ modalUploads \subseteq Files
ViewTypedUploads ==
    /\ analyzingCapture \in BOOLEAN /\ errorShown \in BOOLEAN
    /\ selectedFile \in Files \cup {NoFile}
    /\ viewUploads \subseteq [file : Files, own : BOOLEAN]

\* The types of the uploads
LEMMA UploadTypesHold == UploadSpec => []UploadTypeOK
  <1>1. UploadInit => ModalTyped /\ ViewTypedUploads
    BY DEF UploadInit, ModalTyped, ViewTypedUploads
  <1>2. ModalTyped /\ ViewTypedUploads /\ [UploadNext]_uploadVars
          => (ModalTyped /\ ViewTypedUploads)'
    <2> SUFFICES ASSUME ModalTyped, ViewTypedUploads, [UploadNext]_uploadVars
                 PROVE  ModalTyped' /\ ViewTypedUploads'
      OBVIOUS
    <2>1. ASSUME UNCHANGED viewVars PROVE ViewTypedUploads'
      BY <2>1 DEF viewVars, ViewTypedUploads
    <2>2. ASSUME UNCHANGED modalVars, UNCHANGED onForensics PROVE ModalTyped'
      BY <2>2 DEF modalVars, ModalTyped
    <2>3. ASSUME Mounted PROVE ViewTypedUploads'
      BY <2>3 DEF Mounted, ViewTypedUploads
    <2>4. ASSUME NEW withModal \in BOOLEAN, OpenForensics(withModal)
          PROVE  ModalTyped' /\ ViewTypedUploads'
      <3>1. (uploadOpen \/ withModal) \in BOOLEAN
        OBVIOUS
      <3>2. ModalTyped'
        BY <2>4, <3>1 DEF OpenForensics, ModalTyped
      <3>3. UNCHANGED viewVars \/ Mounted
        BY <2>4 DEF OpenForensics
      <3> QED
        BY <2>1, <2>3, <3>2, <3>3
    <2>5. CASE LeaveForensics
      <3>1. ModalTyped'
        BY <2>5 DEF LeaveForensics, modalVars, ModalTyped
      <3>2. \A u \in viewUploads : [u EXCEPT !.own = FALSE] \in [file : Files, own : BOOLEAN]
        BY DEF ViewTypedUploads
      <3>3. ViewTypedUploads'
        BY <2>5, <3>2 DEF LeaveForensics, ViewTypedUploads
      <3> QED
        BY <3>1, <3>3
    <2>6. CASE OpenModal \/ CloseModal \/ StartUpload \/ \E f \in Files : ChooseFile(f)
      <3>1. UNCHANGED viewVars
        BY <2>6, Zenon DEF OpenModal, CloseModal, StartUpload, ChooseFile
      <3>2. ModalTyped'
        BY <2>6 DEF OpenModal, CloseModal, StartUpload, ChooseFile, ModalTyped
      <3> QED
        BY <2>1, <3>1, <3>2
    <2>7. ASSUME NEW f \in Files, DropCapture(f) PROVE ModalTyped' /\ ViewTypedUploads'
      <3>1. ModalTyped'
        BY <2>2, <2>7 DEF DropCapture
      <3>2. CASE Accepted(f)
        <4>1. /\ errorShown' = FALSE /\ selectedFile' = f /\ analyzingCapture' = TRUE
              /\ viewUploads' = viewUploads \cup {[file |-> f, own |-> TRUE]}
          BY <2>7, <3>2 DEF DropCapture
        <4>2. [file |-> f, own |-> TRUE] \in [file : Files, own : BOOLEAN]
          OBVIOUS
        <4>3. viewUploads' \subseteq [file : Files, own : BOOLEAN]
          BY <4>1, <4>2 DEF ViewTypedUploads
        <4> QED
          BY <3>1, <4>1, <4>3 DEF ViewTypedUploads
      <3>3. CASE ~Accepted(f)
        <4>1. errorShown' = TRUE /\ UNCHANGED <<selectedFile, analyzingCapture, viewUploads>>
          BY <2>7, <3>3 DEF DropCapture
        <4> QED
          BY <3>1, <4>1 DEF ViewTypedUploads
      <3> QED
        BY <3>2, <3>3
    <2>8. CASE DismissError
      <3>1. ModalTyped'
        BY <2>2, <2>8 DEF DismissError
      <3>2. ViewTypedUploads'
        BY <2>8 DEF DismissError, ViewTypedUploads
      <3> QED
        BY <3>1, <3>2
    <2>9. ASSUME NEW r, Succeeded(r) PROVE onForensics' \in BOOLEAN
      BY <2>9 DEF Succeeded
    <2>10. ASSUME NEW f \in modalUploads, ModalAnswered(f) PROVE ModalTyped' /\ ViewTypedUploads'
      <3>1. onForensics' \in BOOLEAN
        BY <2>9, <2>10 DEF ModalAnswered
      <3> QED
        BY <2>10, <3>1 DEF ModalAnswered, ModalTyped, ViewTypedUploads
    <2>11. ASSUME NEW u \in viewUploads, CaptureAnswered(u)
           PROVE  ModalTyped' /\ ViewTypedUploads'
      <3>1. onForensics' \in BOOLEAN
        BY <2>9, <2>11 DEF CaptureAnswered
      <3>2. ModalTyped'
        BY <2>11, <3>1 DEF CaptureAnswered, modalVars, ModalTyped
      <3>3. (analyzingCapture /\ ~u.own) \in BOOLEAN
        OBVIOUS
      <3>4. ViewTypedUploads'
        BY <2>11, <3>3 DEF CaptureAnswered, ViewTypedUploads
      <3> QED
        BY <3>2, <3>4
    <2>12. CASE UNCHANGED uploadVars
      BY <2>1, <2>2, <2>12 DEF uploadVars
    <2> QED
      BY <2>4, <2>5, <2>6, <2>7, <2>8, <2>10, <2>11, <2>12, Zenon DEF UploadNext
  <1>3. ModalTyped /\ ViewTypedUploads => UploadTypeOK
    BY DEF ModalTyped, ViewTypedUploads, UploadTypeOK
  <1> QED
    BY <1>1, <1>2, <1>3, PTL DEF UploadSpec

\* What the conversation holds beside its turns
ChatTyped ==
    /\ executed \in Seq({a \in ChatActions : Executable(a)}) /\ clicks \in Seq(ChatActions)
    /\ selectedModel \in Models \cup Offered /\ chatRequests \subseteq ChatRequest
    /\ chatOpen \in BOOLEAN /\ chatLoading \in BOOLEAN
    /\ isOnline \in BOOLEAN /\ offlineOnly \in BOOLEAN
    /\ modelsRequested \in 0 .. ModelFetches

\* The types of the conversation
LEMMA ChatTypesHold == ChatSpec => []ChatTypeOK
  <1>1. ChatInit => ChatTyped
    <2> SUFFICES ASSUME ChatInit PROVE ChatTyped
      OBVIOUS
    <2>1. executed = <<>> /\ clicks = <<>> /\ chatRequests = {}
      BY DEF ChatInit
    <2>2. executed \in Seq({a \in ChatActions : Executable(a)}) /\ clicks \in Seq(ChatActions)
      BY <2>1
    <2>3. selectedModel \in Models \cup Offered
      BY CopilotChatAssumption DEF ChatInit
    <2>4. modelsRequested \in 0 .. ModelFetches
      BY CopilotChatAssumption DEF ChatInit
    <2> QED
      BY <2>1, <2>2, <2>3, <2>4 DEF ChatInit, ChatTyped
  <1>2. TurnsInv /\ ChatTyped /\ [ChatNext]_chatVars => ChatTyped'
    <2> SUFFICES ASSUME TurnsInv, ChatTyped, [ChatNext]_chatVars PROVE ChatTyped'
      OBVIOUS
    <2>1. messages \in Seq(Message) /\ Len(messages) \in Nat
      BY DEF TurnsInv
    <2>2. ASSUME NEW p \in Prompts, Post(p) PROVE ChatTyped'
      <3>1. [prompt |-> p, history |-> Len(messages), model |-> selectedModel,
             offline |-> offlineOnly] \in ChatRequest
        BY <2>1 DEF ChatTyped, ChatRequest
      <3> QED
        BY <2>2, <3>1 DEF Post, ChatTyped
    <2>3. CASE SendInput
      <3>1. inputMsg \in Prompts /\ Post(inputMsg)
        BY <2>3 DEF SendInput, TurnsInv
      <3> QED
        BY <2>2, <3>1
    <2>4. ASSUME NEW p \in Prompts, QuickPrompt(p) PROVE ChatTyped'
      BY <2>2, <2>4 DEF QuickPrompt
    <2>5. CASE ToggleChat
      BY <2>5 DEF ToggleChat, ChatTyped
    <2>6. CASE ToggleOfflineOnly
      BY <2>6 DEF ToggleOfflineOnly, ChatTyped
    <2>7. ASSUME NEW p \in Prompts, TypeMessage(p) PROVE ChatTyped'
      BY <2>7 DEF TypeMessage, ChatTyped
    <2>8. ASSUME NEW m \in Offered, ChooseModel(m) PROVE ChatTyped'
      BY <2>8 DEF ChooseModel, ChatTyped
    <2>9. CASE ModelsAnswered
      <3>1. modelsRequested' \in 0 .. ModelFetches
        <4>1. modelsRequested > 0 /\ modelsRequested' = modelsRequested - 1
          BY <2>9, Zenon DEF ModelsAnswered
        <4>2. modelsRequested \in 0 .. ModelFetches
          BY DEF ChatTyped
        <4> QED
          BY <4>1, <4>2, CopilotChatAssumption
      <3>2. isOnline' \in BOOLEAN
        BY <2>9 DEF ModelsAnswered, ChatTyped
      <3>3. selectedModel' \in Models \cup Offered
        BY <2>9, CopilotChatAssumption DEF ModelsAnswered, ChatTyped
      <3> QED
        BY <2>9, <3>1, <3>2, <3>3 DEF ModelsAnswered, ChatTyped
    <2>10. ASSUME NEW r \in chatRequests, ChatAnswered(r) PROVE ChatTyped'
      <3>2. PICK action \in Answerable \cup {NoAction}, online \in BOOLEAN :
              executed' = Executing(executed, action) /\ isOnline' = online
        BY <2>10 DEF ChatAnswered
      <3>3. action \in ChatActions
        BY <3>2, CopilotChatAssumption DEF ChatActions
      <3>4. executed' \in Seq({a \in ChatActions : Executable(a)})
        <4>1. CASE Executable(action)
          BY <3>2, <3>3, <4>1 DEF Executing, ChatTyped
        <4>2. CASE ~Executable(action)
          BY <3>2, <4>2 DEF Executing, ChatTyped
        <4> QED
          BY <4>1, <4>2
      <3> QED
        BY <2>10, <3>2, <3>4 DEF ChatAnswered, ChatTyped
    <2>11. ASSUME NEW r \in chatRequests, ChatFails(r) PROVE ChatTyped'
      BY <2>11 DEF ChatFails, ChatTyped
    <2>12. ASSUME NEW i \in DOMAIN messages, ClickCard(i) PROVE ChatTyped'
      <3>1. messages[i].action \in ChatActions
        <4>1. messages[i] \in Message
          BY <2>1
        <4> QED
          BY <4>1 DEF Message
      <3>2. clicks' \in Seq(ChatActions)
        BY <2>12, <3>1 DEF ClickCard, Executing, ChatTyped
      <3> QED
        BY <2>12, <3>2 DEF ClickCard, ChatTyped
    <2>13. CASE UNCHANGED chatVars
      BY <2>13 DEF chatVars, ChatTyped
    <2> QED
      BY <2>3, <2>4, <2>5, <2>6, <2>7, <2>8, <2>9, <2>10, <2>11, <2>12, <2>13, Zenon DEF ChatNext
  <1>3. TurnsInv /\ ChatTyped => ChatTypeOK
    BY DEF TurnsInv, ChatTyped, ChatTypeOK
  <1> QED
    BY <1>1, <1>2, <1>3, TurnsInvHolds, PTL DEF ChatSpec

\* What is selected is the decision whose evidence is open.
OverlaysTyped ==
    /\ selected \in Listings \cup {NoSelection}
    /\ "evidence" \in overlays <=> selected # NoSelection
    /\ activeTab \in Tabs /\ globalSearch \in Texts \cup {NoSearchText}
    /\ paletteFilter \in PaletteFilters

\* The types of the overlays
LEMMA OverlaysTypesHold == OverlaysSpec => []OverlaysTypeOK
  <1>1. OverlaysInit => OverlaysTyped
    BY DEF OverlaysInit, OverlaysTyped, Tabs, PaletteFilters
  <1>2. OverlaysTyped /\ [OverlaysNext]_overlayVars => OverlaysTyped'
    <2> SUFFICES ASSUME OverlaysTyped, [OverlaysNext]_overlayVars PROVE OverlaysTyped'
      OBVIOUS
    <2>1. CASE \E k \in {"Ctrl+K", "Escape", "other"} : PressKey(k)
      BY <2>1 DEF PressKey, OverlaysTyped
    <2>2. CASE ListenerRuns
      <3> DEFINE listener == Head(pending)
      <3>1. Reacts(listener)
        BY <2>2 DEF ListenerRuns
      <3> HIDE DEF listener
      <3>2. Reaction(listener) \subseteq overlays \cup {"palette"}
        BY DEF Reaction
      <3>3. "evidence" \in overlays' => "evidence" \in overlays
        BY <3>1, <3>2 DEF Reacts
      <3> QED
        BY <3>1, <3>3 DEF Reacts, OverlaysTyped
    <2>3. CASE ClearSearch
      BY <2>3 DEF ClearSearch, Elsewhere, OverlaysTyped
    <2>4. CASE UploadEnds
      BY <2>4 DEF UploadEnds, Elsewhere, Hide, OverlaysTyped, Tabs
    <2>5. ASSUME NEW d \in Listings, SelectRow(d) \/ PaletteOpensDecision(d)
          PROVE  OverlaysTyped'
      <3>1. d # NoSelection
        BY OverlaysAssumption
      <3> QED
        BY <2>5, <3>1 DEF SelectRow, PaletteOpensDecision, Elsewhere, Show, OverlaysTyped
    <2>6. ASSUME NEW tab \in Tabs, OpenTab(tab) \/ PaletteOpensTab(tab) \/ CopilotNavigates(tab)
          PROVE  OverlaysTyped'
      BY <2>6 DEF OpenTab, PaletteOpensTab, CopilotNavigates, Elsewhere, Hide, OverlaysTyped
    <2>7. CASE \E o \in {"upload", "settings"} : OpenFromTopbar(o)
      BY <2>7 DEF OpenFromTopbar, Elsewhere, Show, OverlaysTyped
    <2>8. ASSUME NEW text \in Texts \cup {NoSearchText}, TopbarSearch(text) PROVE OverlaysTyped'
      BY <2>8 DEF TopbarSearch, Elsewhere, Show, OverlaysTyped
    <2>9. ASSUME NEW text \in Texts \cup {NoSearchText}, NEW filter \in PaletteFilters,
                 PaletteSearch(text, filter)
          PROVE  OverlaysTyped'
      BY <2>9 DEF PaletteSearch, OverlaysTyped
    <2>10. ASSUME NEW o \in overlays, CloseTop(o) PROVE OverlaysTyped'
      BY <2>10 DEF CloseTop, Elsewhere, Hide, OverlaysTyped
    <2>11. CASE UNCHANGED overlayVars
      BY <2>11 DEF overlayVars, OverlaysTyped
    <2> QED
      BY <2>1, <2>2, <2>3, <2>4, <2>5, <2>6, <2>7, <2>8, <2>9, <2>10, <2>11, Zenon
         DEF OverlaysNext
  <1>3. KeyInv /\ OverlaysTyped => OverlaysTypeOK
    BY DEF KeyInv, OverlaysTyped, OverlaysTypeOK
  <1> QED
    BY <1>1, <1>2, <1>3, KeyInvHolds, PTL DEF OverlaysSpec

\* The types of the donut
LEMMA DonutTypesHold == DonutSpec => []DonutTypeOK
  <1>1. DonutInv => DonutTypeOK
    <2> SUFFICES ASSUME DonutInv PROVE DonutTypeOK
      OBVIOUS
    <2>1. summary \in [Kinds -> Nat]
      BY DonutChartAssumption DEF DonutInv
    <2> QED
      BY <2>1, DonutShape DEF DonutInv, DonutTypeOK
  <1> QED
    BY <1>1, DonutInvHolds, PTL

\* The types of EliteCore's table
LEMMA QueryTableTypesHold == QueryTableSpec => []QueryTableTypeOK
  <1>1. QueryTableInit => debouncing \in BOOLEAN
    BY DEF QueryTableInit
  <1>2. debouncing \in BOOLEAN /\ [QueryTableNext]_queryTableVars => (debouncing \in BOOLEAN)'
    <2> SUFFICES ASSUME debouncing \in BOOLEAN, [QueryTableNext]_queryTableVars
                 PROVE  debouncing' \in BOOLEAN
      OBVIOUS
    <2>1. CASE ClearTable
      <3>1. (debouncing \/ searchInput # NoSearchTyped) \in BOOLEAN
        OBVIOUS
      <3> QED
        BY <2>1, <3>1 DEF ClearTable
    <2>2. CASE (\E text \in TableSearches : TypeSearch(text)) \/ SearchDue
      BY <2>2 DEF TypeSearch, SearchDue
    <2>3. LoadAgain \/ (\E d \in Decided : FilterDecision(d))
            \/ (\E n \in 1 .. TotalTablePages + params.page : ChoosePage(n))
            \/ (\E r \in loads : LoadAnswered(r) \/ LoadFails(r)) \/ UNCHANGED queryTableVars
          => UNCHANGED debouncing
      BY Zenon DEF LoadAgain, FilterDecision, ChoosePage, LoadAnswered, LoadFails, queryTableVars
    <2> QED
      BY <2>1, <2>2, <2>3, Zenon DEF QueryTableNext
  <1>3. LoadsInv /\ debouncing \in BOOLEAN => QueryTableTypeOK
    BY DEF LoadsInv, QueryTableTypeOK
  <1> QED
    BY <1>1, <1>2, <1>3, TableInvHolds, PTL DEF QueryTableSpec

\* What the two dialogs hold
EvidenceTyped ==
    /\ liveIds \subseteq RowIds /\ BagToSet(details) \subseteq RowIds
    /\ selectedId \in RowIds \cup {NoRow} /\ shownId \in RowIds \cup {NoRow}
CaptureTyped ==
    /\ phase \in {"idle", "uploading", "complete", "error"}
    /\ captureSent \subseteq Captures
    /\ captureFile \in Captures \cup {NoCapture} /\ captureResult \in Captures \cup {NoCapture}
    /\ lastSent \in Captures \cup {NoCapture}

\* The types of EliteCore's dialogs
LEMMA DialogsTypesHold == DialogsSpec => []DialogsTypeOK
  <1>1. DialogsInit => EvidenceTyped /\ CaptureTyped
    BY DEF DialogsInit, EvidenceTyped, CaptureTyped, EmptyBag, SetToBag, BagToSet
  <1>2. EvidenceTyped /\ CaptureTyped /\ [DialogsNext]_dialogVars
          => (EvidenceTyped /\ CaptureTyped)'
    <2> SUFFICES ASSUME EvidenceTyped, CaptureTyped, [DialogsNext]_dialogVars
                 PROVE  EvidenceTyped' /\ CaptureTyped'
      OBVIOUS
    <2>1. ASSUME UNCHANGED evidenceVars PROVE EvidenceTyped'
      BY <2>1 DEF evidenceVars, EvidenceTyped, BagToSet
    <2>2. ASSUME UNCHANGED captureVars PROVE CaptureTyped'
      BY <2>2 DEF captureVars, CaptureTyped
    <2>3. ASSUME NEW id \in RowIds, OpenEvidence(id) PROVE EvidenceTyped' /\ CaptureTyped'
      <3>1. BagToSet(details (+) SetToBag({id})) \subseteq RowIds
        BY DEF EvidenceTyped, BagToSet, SetToBag, (+)
      <3> QED
        BY <2>2, <2>3, <3>1 DEF OpenEvidence, EvidenceTyped, BagToSet
    <2>4. ASSUME NEW id \in RowIds, OpenFromRow(id) \/ OpenFromToast(id)
          PROVE  EvidenceTyped' /\ CaptureTyped'
      BY <2>3, <2>4 DEF OpenFromRow, OpenFromToast
    <2>5. ASSUME NEW id \in BagToSet(details), DetailAnswered(id) \/ DetailFails(id)
          PROVE  EvidenceTyped' /\ CaptureTyped'
      <3>1. BagToSet(details (-) SetToBag({id})) \subseteq RowIds
        BY DEF EvidenceTyped, BagToSet, SetToBag, (-)
      <3>2. id \in RowIds
        BY DEF EvidenceTyped
      <3> QED
        BY <2>2, <2>5, <3>1, <3>2 DEF DetailAnswered, DetailFails, EvidenceTyped, BagToSet
    <2>6. CASE CloseEvidence
      BY <2>2, <2>6 DEF CloseEvidence, EvidenceTyped, BagToSet
    <2>7. ASSUME NEW ids \in SUBSET RowIds, EventsChange(ids)
          PROVE  EvidenceTyped' /\ CaptureTyped'
      BY <2>2, <2>7 DEF EventsChange, EvidenceTyped, BagToSet
    <2>8. CASE OpenUpload \/ CloseUpload
      BY <2>1, <2>8 DEF OpenUpload, CloseUpload, MountedUpload, CaptureTyped
    <2>9. CASE AnalyzeCapture
      BY <2>1, <2>9 DEF AnalyzeCapture, CaptureTyped
    <2>10. ASSUME NEW f \in Captures, PickCapture(f) PROVE EvidenceTyped' /\ CaptureTyped'
      BY <2>1, <2>10 DEF PickCapture, CaptureTyped
    <2>11. ASSUME NEW f \in captureSent, CaptureAnalyzed(f)
           PROVE  EvidenceTyped' /\ CaptureTyped'
      BY <2>1, <2>11 DEF CaptureAnalyzed, CaptureTyped
    <2>12. CASE UNCHANGED dialogVars
      BY <2>1, <2>2, <2>12 DEF dialogVars
    <2> QED
      BY <2>4, <2>5, <2>6, <2>7, <2>8, <2>9, <2>10, <2>11, <2>12, Zenon DEF DialogsNext
  <1>3. EvidenceTyped /\ CaptureTyped => DialogsTypeOK
    BY DEF EvidenceTyped, CaptureTyped, DialogsTypeOK
  <1> QED
    BY <1>1, <1>2, <1>3, PTL DEF DialogsSpec

\* What is on its way to the list of events, and in it, has been posted.
EliteTyped ==
    /\ status \in {"CONNECTED", "RECONNECTING", "OFFLINE"} /\ backoff \in 0 .. 4
    /\ ToSet(liveEvents) \subseteq ToSet(posted) /\ Len(liveEvents) <= EventCap
    /\ \A e \in Hooks : ToSet(inbox[e]) \subseteq ToSet(posted)
    /\ toastedIds \subseteq BlockIds

\* The front of a list is of the list, and as long as wanted or shorter.
LEMMA FirstOfList ==
  ASSUME NEW n \in Nat, NEW S, NEW s \in Seq(S)
  PROVE  ToSet(FirstOf(n, s)) \subseteq ToSet(s) /\ Len(FirstOf(n, s)) <= n
  <1> DEFINE k == IF Len(s) < n THEN Len(s) ELSE n
             front == SubSeq(s, 1, k)
  <1>1. k \in Nat /\ k <= Len(s) /\ k <= n
    OBVIOUS
  <1>2. \A i \in 1 .. k : s[i] \in S
    BY <1>1
  <1> HIDE DEF k
  <1>3. /\ front \in Seq(S) /\ Len(front) = k
        /\ \A i \in 1 .. k : front[i] = s[i]
    BY <1>1, <1>2, SubSeqProperties
  <1>4. FirstOf(n, s) = front
    BY DEF FirstOf, k
  <1> HIDE DEF front
  <1> QED
    BY <1>1, <1>3, <1>4 DEF ToSet

\* An event arrives.
LEMMA FrameTyped ==
  ASSUME StreamInv, EliteTyped, NEW e \in Hooks, FrameArrives(e)
  PROVE  EliteTyped'
  <1> DEFINE frames1 == inbox[e]
             x == Head(frames1)
             more == <<x>> \o liveEvents
  <1>1. frames1 \in Seq(EventIds) /\ frames1 # <<>>
    BY DEF StreamInv, FrameArrives
  <1>2. liveEvents \in Seq(EventIds)
    BY DEF StreamInv, Distinct
  <1>3. /\ inbox' = [inbox EXCEPT ![e] = Tail(frames1)]
        /\ liveEvents' = IF x \in ToSet(liveEvents) THEN liveEvents ELSE FirstOf(EventCap, more)
        /\ UNCHANGED <<status, backoff, posted, toastedIds>>
    BY DEF FrameArrives, toastVars
  <1>4. ToSet(frames1) \subseteq ToSet(posted)
    BY DEF EliteTyped
  <1> HIDE DEF frames1
  <1>5. x \in EventIds /\ x \in ToSet(posted) /\ ToSet(Tail(frames1)) \subseteq ToSet(posted)
    <2>1. x = frames1[1] /\ 1 \in DOMAIN frames1
      BY <1>1
    <2>2. \A i \in DOMAIN Tail(frames1) :
            i + 1 \in DOMAIN frames1 /\ Tail(frames1)[i] = frames1[i + 1]
      BY <1>1
    <2>3. x \in EventIds
      BY <1>1, <2>1
    <2> HIDE DEF x
    <2> QED
      BY <1>4, <2>1, <2>2, <2>3 DEF ToSet
  <1> HIDE DEF x
  <1>6. more \in Seq(EventIds) /\ ToSet(more) \subseteq ToSet(posted)
    <2>1. <<x>> \in Seq(EventIds) /\ Len(<<x>>) = 1 /\ <<x>>[1] = x
      BY <1>5
    <2>2. /\ more \in Seq(EventIds) /\ Len(more) = 1 + Len(liveEvents)
          /\ \A i \in 1 .. 1 + Len(liveEvents) :
               more[i] = IF i <= 1 THEN <<x>>[i] ELSE liveEvents[i - 1]
      BY <1>2, <2>1, ConcatProperties
    <2> HIDE DEF more
    <2>3. ASSUME NEW i \in DOMAIN more PROVE more[i] \in ToSet(posted)
      <3>1. CASE i = 1
        BY <1>5, <2>1, <2>2, <3>1
      <3>2. CASE i # 1
        <4>1. i - 1 \in DOMAIN liveEvents /\ more[i] = liveEvents[i - 1]
          BY <1>2, <2>2, <3>2
        <4> QED
          BY <4>1 DEF EliteTyped, ToSet
      <3> QED
        BY <3>1, <3>2
    <2> QED
      BY <2>2, <2>3 DEF ToSet
  <1> HIDE DEF more
  <1>7. EventCap \in Nat
    BY EliteTelemetryAssumption
  <1>8. /\ ToSet(FirstOf(EventCap, more)) \subseteq ToSet(more)
        /\ Len(FirstOf(EventCap, more)) <= EventCap
    BY <1>6, <1>7, FirstOfList
  <1>9. ToSet(liveEvents)' \subseteq ToSet(posted) /\ Len(liveEvents') <= EventCap
    BY <1>3, <1>6, <1>8 DEF EliteTyped
  <1>10. \A g \in Hooks : ToSet(inbox'[g]) \subseteq ToSet(posted)
    BY <1>3, <1>5 DEF EliteTyped, StreamInv
  <1> QED
    BY <1>3, <1>9, <1>10 DEF EliteTyped

\* A decision is posted and sent.
LEMMA PostTyped ==
  ASSUME StreamInv, EliteTyped, NEW id \in EventIds, PostDecision(id)
  PROVE  EliteTyped'
  <1>1. posted \in Seq(EventIds) /\ posted' = Append(posted, id)
    BY DEF PostDecision, StreamInv
  <1>2. ToSet(posted') = ToSet(posted) \cup {id}
    BY <1>1 DEF ToSet
  <1>3. ASSUME NEW e \in Hooks PROVE ToSet(inbox'[e]) \subseteq ToSet(posted')
    <2> DEFINE f == inbox[e]
    <2>1. f \in Seq(EventIds) /\ ToSet(f) \subseteq ToSet(posted)
      BY DEF StreamInv, EliteTyped
    <2>2. inbox'[e] = f \/ inbox'[e] = Append(f, id)
      BY DEF PostDecision
    <2> HIDE DEF f
    <2>3. ToSet(Append(f, id)) \subseteq ToSet(f) \cup {id}
      <3>1. \A i \in DOMAIN Append(f, id) :
              IF i = Len(f) + 1 THEN Append(f, id)[i] = id
              ELSE i \in DOMAIN f /\ Append(f, id)[i] = f[i]
        BY <2>1
      <3> QED
        BY <3>1 DEF ToSet
    <2> QED
      BY <1>2, <2>1, <2>2, <2>3
  <1>4. UNCHANGED <<status, backoff, liveEvents, toastedIds>>
    BY DEF PostDecision, toastVars
  <1> QED
    BY <1>2, <1>3, <1>4 DEF EliteTyped

\* The types of EliteCore's stream
LEMMA EliteTypesHold == EliteSpec => []EliteTypeOK
  <1>1. EliteInit => EliteTyped
    <2> SUFFICES ASSUME EliteInit PROVE EliteTyped
      OBVIOUS
    <2>1. liveEvents = <<>> /\ inbox = [e \in Hooks |-> <<>>] /\ ToSet(<<>>) = {} /\ Len(<<>>) = 0
      BY DEF EliteInit, ToSet
    <2>2. \A e \in Hooks : ToSet(inbox[e]) = {}
      BY <2>1
    <2>3. ToSet(liveEvents) \subseteq ToSet(posted) /\ Len(liveEvents) <= EventCap
      <3>1. ToSet(liveEvents) = {} /\ Len(liveEvents) = 0
        BY <2>1
      <3>2. 0 <= EventCap
        BY EliteTelemetryAssumption
      <3> HIDE DEF ToSet
      <3> QED
        BY <3>1, <3>2
    <2>4. \A e \in Hooks : ToSet(inbox[e]) \subseteq ToSet(posted)
      BY <2>2
    <2>5. status = "RECONNECTING" /\ backoff = 0 /\ toastedIds = {}
      BY DEF EliteInit
    <2> QED
      BY <2>3, <2>4, <2>5 DEF EliteTyped
  <1>2. StreamInv /\ EliteTyped /\ [EliteNext]_eliteVars => EliteTyped'
    <2> SUFFICES ASSUME StreamInv, EliteTyped, [EliteNext]_eliteVars PROVE EliteTyped'
      OBVIOUS
    <2> DEFINE stream == <<status, backoff, inbox, posted, liveEvents, toastedIds>>
    <2>1. ASSUME UNCHANGED stream PROVE EliteTyped'
      BY <2>1 DEF EliteTyped
    <2>2. ASSUME NEW e \in Hooks, WireOpens(e) \/ WireCloses(e) PROVE EliteTyped'
      BY <2>2 DEF WireOpens, WireCloses, toastVars, EliteTyped
    <2>3. ASSUME NEW e \in Hooks, WireFails(e) PROVE EliteTyped'
      <3>1. ToSet(<<>>) = {}
        BY DEF ToSet
      <3>2. \A g \in Hooks : inbox'[g] = inbox[g] \/ inbox'[g] = <<>>
        BY <2>3 DEF WireFails, StreamInv
      <3>3. \A g \in Hooks : ToSet(inbox'[g]) \subseteq ToSet(posted)
        BY <3>1, <3>2 DEF EliteTyped
      <3> QED
        BY <2>3, <3>3 DEF WireFails, toastVars, EliteTyped
    <2>4. CASE ToastEffect
      <3>1. toastedIds' \subseteq BlockIds
        BY <2>4 DEF ToastEffect, EliteTyped
      <3> QED
        BY <2>4, <3>1 DEF ToastEffect, socketVars, EliteTyped
    <2>5. (\E e \in Hooks : WireReconnects(e)) \/ ToastExpires \/ RefreshRead
            \/ (\E id \in EventIds : DismissToast(id))
            \/ (\E rows \in refreshes : RefreshAnswered(rows)) \/ UNCHANGED eliteVars
          => UNCHANGED stream
      BY Zenon DEF WireReconnects, ToastExpires, RefreshRead, DismissToast, RefreshAnswered,
         eliteVars, socketVars, toastVars
    <2> HIDE DEF stream
    <2> QED
      BY <2>1, <2>2, <2>3, <2>4, <2>5, FrameTyped, PostTyped, Zenon DEF EliteNext
  <1>3. StatusInv /\ ToastInv /\ EliteTyped => EliteTypeOK
    BY DEF StatusInv, ToastInv, EliteTyped, EliteTypeOK
  <1> QED
    BY <1>1, <1>2, <1>3, StatusInvHolds, ToastInvHolds, StreamInvHolds, PTL DEF EliteSpec

-----------------------------------------------------------------------------
(* The consoles together *)

\* Each component's part of a behaviour of the consoles is a behaviour of the
\* component: what is proved of one holds of the page it is mounted on.
THEOREM ConsolesAreTheirComponents ==
  Spec => /\ TableSpec /\ InspectorSpec /\ BrowserSpec /\ UploadSpec /\ ChatSpec
          /\ OverlaysSpec /\ DonutSpec /\ GroupsSpec /\ EliteSpec /\ QueryTableSpec
          /\ DialogsSpec
  <1>0. Init => /\ TableInit /\ InspectorInit /\ BrowserInit /\ UploadInit /\ ChatInit
                /\ OverlaysInit /\ DonutInit /\ GroupsInit /\ EliteInit /\ QueryTableInit
                /\ DialogsInit
    BY DEF Init
  <1>1. [Next]_<<view, consoleVars>> => [TableNext]_tableVars
    BY DEF Next, consoleVars
  <1>2. [Next]_<<view, consoleVars>> => [InspectorNext]_inspectorVars
    BY DEF Next, consoleVars
  <1>3. [Next]_<<view, consoleVars>> => [BrowserNext]_browserVars
    BY DEF Next, consoleVars
  <1>4. [Next]_<<view, consoleVars>> => [UploadNext]_uploadVars
    BY DEF Next, consoleVars
  <1>5. [Next]_<<view, consoleVars>> => [ChatNext]_chatVars
    BY DEF Next, consoleVars
  <1>6. [Next]_<<view, consoleVars>> => [OverlaysNext]_overlayVars
    BY DEF Next, consoleVars
  <1>7. [Next]_<<view, consoleVars>> => [DonutNext]_donutVars
    BY DEF Next, consoleVars
  <1>8. [Next]_<<view, consoleVars>> => [GroupsNext]_groupVars
    BY DEF Next, consoleVars
  <1>9. [Next]_<<view, consoleVars>> => [EliteNext]_eliteVars
    BY DEF Next, consoleVars
  <1>10. [Next]_<<view, consoleVars>> => [QueryTableNext]_queryTableVars
    BY DEF Next, consoleVars
  <1>11. [Next]_<<view, consoleVars>> => [DialogsNext]_dialogVars
    BY DEF Next, consoleVars
  <1> QED
    BY <1>0, <1>1, <1>2, <1>3, <1>4, <1>5, <1>6, <1>7, <1>8, <1>9, <1>10, <1>11, PTL
       DEF Spec, TableSpec, InspectorSpec, BrowserSpec, UploadSpec, ChatSpec,
           OverlaysSpec, DonutSpec, GroupsSpec, EliteSpec, QueryTableSpec, DialogsSpec

\* Whatever a user, the back end and the network do to any of the components, in
\* any order, its state stays of its types.
THEOREM ConsolesAlwaysTyped == Spec => []ConsolesTypeOK
  <1>1. /\ TableTypeOK /\ InspectorTypeOK /\ BrowserTypeOK /\ UploadTypeOK
        /\ ChatTypeOK /\ OverlaysTypeOK /\ DonutTypeOK /\ EliteTypeOK /\ QueryTableTypeOK
        /\ DialogsTypeOK
        => ConsolesTypeOK
    BY DEF ConsolesTypeOK
  <1> QED
    BY <1>1, ConsolesAreTheirComponents, TableTypesHold, InspectorTypesHold,
       BrowserTypesHold, UploadTypesHold, ChatTypesHold, OverlaysTypesHold, DonutTypesHold,
       EliteTypesHold, QueryTableTypesHold, DialogsTypesHold, PTL
=============================================================================
