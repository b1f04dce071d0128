------------------------------ MODULE LiveFeed ------------------------------
(***************************************************************************)
(* The telemetry stream of the DNSentinel console (frontend/src/App.tsx):  *)
(* the WebSocket with its reconnection timer, the frames it delivers, and  *)
(* the list of recent queries that both the frames and overlapping REST    *)
(* answers write.                                                          *)
(*                                                                         *)
(* A run of the WebSocket effect is a chain of sockets: each close event   *)
(* schedules the next connection.  React's StrictMode, in which main.tsx   *)
(* mounts the App, runs the effect, its cleanup and the effect again; the  *)
(* cleanup closes the first socket, whose close event then still           *)
(* schedules a reconnection.  Mounts is the number of runs of the effect.  *)
(*                                                                         *)
(* The metrics that each refresh fetches first are display data and left   *)
(* out: whatever their answer, the list is asked for next, so their request *)
(* is part of the time before the back end reads the rows, and of what can *)
(* fail.                                                                   *)
(***************************************************************************)
EXTENDS Subsequence, Sequences, SequencesExt, Bags

CONSTANTS
    Decisions,      \* the decision_ids the back end may log
    Seeds,          \* the sequence of decisions the page starts with
    Limits,         \* the values of the Settings slider that are tried
    DefaultLimit,   \* tableLimit of the first render
    Mounts,         \* runs of the WebSocket effect
    MaxLogged,      \* bound on decisions logged
    MaxRequests,    \* bound on refreshes in flight
    MaxEvents       \* bound on socket failures, limit changes and lost requests

MadeUp == "made up"     \* the sample decision of a report made up without the back end

ASSUME LiveFeedAssumption ==
    /\ Limits \subseteq Nat \ {0} /\ DefaultLimit \in Limits
    /\ Mounts \in Nat \ {0} /\ MaxLogged \in Nat
    /\ Seeds \in Seq(Range(Seeds))

VARIABLES
    chain,          \* chain[e]: where the sockets of the e-th effect run are
    wsConnected,    \* the badge of the sidebar and the header
    frames,         \* frames[e]: decisions broadcast to that socket, not yet delivered
    log,            \* decisions in the order the back end logged them
    second,         \* the second in which each of them was logged, its created_at
    unsent,         \* places in log of the decisions that are still to be broadcast
    queries,        \* the list on the page
    requests,       \* bag of refreshes in flight
    tableLimit,     \* the setting
    shown,          \* position in log of the newest data the list was given
    disturbed,      \* an answer was lost, or an older one came after a newer one
    events          \* events used up

backVars == <<log, second, unsent>>
liveVars == <<chain, wsConnected, frames, backVars, queries, requests, tableLimit,
              shown, disturbed, events>>

Effects == 1 .. Mounts
ChainStates == {"connecting", "open", "closing", "waiting"}

\* A refresh: metrics or list asked for, or list read by the back end when its
\* log had stamp entries.
Request == [limit : Limits, step : {"asked", "read"}, stamp : 0 .. MaxLogged]
NewRequest(limit) == [limit |-> limit, step |-> "asked", stamp |-> 0]

Sent(limit) == requests (+) SetToBag({NewRequest(limit)})
Without(r) == requests (-) SetToBag({r})
Advanced(r, s) == Without(r) (+) SetToBag({s})
MayRefresh == BagCardinality(requests) < MaxRequests

\* ORDER BY created_at DESC LIMIT over rows keyed by decision_id: a decision
\* that is logged again replaces its row.  created_at is CURRENT_TIMESTAMP, in
\* whole seconds, and nothing orders the rows of one second: every newer row
\* stands before an older one, and that is all.
NewestFirst(held, times, limit) ==
    LET rows == {i \in DOMAIN held : \A j \in i + 1 .. Len(held) : held[j] # held[i]}
        n == IF Cardinality(rows) < limit THEN Cardinality(rows) ELSE limit
    IN  {[i \in 1 .. n |-> held[place[i]]] :
            place \in {q \in Injection(1 .. n, rows) :
                         \A i \in 1 .. n, j \in rows :
                            times[j] > times[q[i]] => \E k \in 1 .. i - 1 : q[k] = j}}

\* The lists that the back end may have answered when its log had stamp entries.
RecentRows(limit, stamp) ==
    NewestFirst(SubSeq(log, 1, stamp), SubSeq(second, 1, stamp), limit)

\* Each run of the two effects that refresh has started one; StrictMode's first
\* socket has been closed and its close event is to come.
LiveInit ==
    /\ chain = [e \in Effects |-> IF e = Mounts THEN "connecting" ELSE "closing"]
    /\ wsConnected = FALSE
    /\ frames = [e \in Effects |-> <<>>]
    /\ log = <<>> /\ second = <<>> /\ unsent = {}
    /\ queries = Seeds
    /\ requests = [r \in {NewRequest(DefaultLimit)} |-> 2 * Mounts]
    /\ tableLimit = DefaultLimit
    /\ shown = 0
    /\ disturbed = FALSE
    /\ events = 0

-----------------------------------------------------------------------------
\* ws.onopen
SocketOpens(e) ==
    /\ chain[e] = "connecting"
    /\ chain' = [chain EXCEPT ![e] = "open"]
    /\ wsConnected' = TRUE
    /\ UNCHANGED <<frames, backVars, queries, requests, tableLimit, shown, disturbed, events>>

\* ws.onerror: the badge goes off before the close event does the rest.  The
\* frames under way are lost with the connection.
SocketFails(e) ==
    /\ chain[e] \in {"connecting", "open"} /\ events < MaxEvents
    /\ chain' = [chain EXCEPT ![e] = "closing"]
    /\ wsConnected' = FALSE
    /\ frames' = [frames EXCEPT ![e] = <<>>]
    /\ events' = events + 1
    /\ UNCHANGED <<backVars, queries, requests, tableLimit, shown, disturbed>>

\* Mutant: onclose schedules no reconnection.
SocketGivesUp(e) ==
    /\ chain[e] \in {"closing", "open"}
    /\ chain' = [chain EXCEPT ![e] = "ended"]
    /\ wsConnected' = FALSE
    /\ frames' = [frames EXCEPT ![e] = <<>>]
    /\ UNCHANGED <<backVars, queries, requests, tableLimit, shown, disturbed, events>>

\* ws.onclose, after an error, by the server, or of the socket that the
\* cleanup closed
SocketCloses(e) ==
    /\ \/ chain[e] = "closing" /\ events' = events
       \/ chain[e] = "open" /\ events < MaxEvents /\ events' = events + 1
    /\ chain' = [chain EXCEPT ![e] = "waiting"]
    /\ wsConnected' = FALSE
    /\ frames' = [frames EXCEPT ![e] = <<>>]
    /\ UNCHANGED <<backVars, queries, requests, tableLimit, shown, disturbed>>

\* The timer of onclose calls connectWS.
Reconnect(e) ==
    /\ chain[e] = "waiting"
    /\ chain' = [chain EXCEPT ![e] = "connecting"]
    /\ UNCHANGED <<wsConnected, frames, backVars, queries, requests, tableLimit, shown,
                   disturbed, events>>

\* The back end commits the decision's row, in the second of the row before it or
\* a later one.
LogDecision(d) ==
    /\ Len(log) < MaxLogged
    /\ log' = Append(log, d)
    /\ second' \in IF second = <<>> THEN {<<0>>}
                   ELSE {Append(second, Last(second) + later) : later \in {0, 1}}
    /\ unsent' = unsent \cup {Len(log')}
    /\ UNCHANGED <<chain, wsConnected, frames, queries, requests, tableLimit, shown,
                   disturbed, events>>

\* Only then is it broadcast to the sockets that are open; other requests may have
\* logged or broadcast theirs in between.
Broadcast(n) ==
    /\ unsent' = unsent \ {n}
    /\ frames' = [e \in Effects |->
                    IF chain[e] = "open" THEN Append(frames[e], n) ELSE frames[e]]
    /\ UNCHANGED <<chain, wsConnected, log, second, queries, requests, tableLimit, shown,
                   disturbed, events>>

\* [decision, ...prev.slice(0, Math.max(0, tableLimit - 1))]
Prepended(d, list) ==
    <<d>> \o SubSeq(list, 1, IF Len(list) < DefaultLimit THEN Len(list) ELSE DefaultLimit - 1)

\* Mutant: onmessage does not refresh.
OnMessageNoRefresh(e) ==
    /\ frames[e] # <<>>
    /\ LET n == Head(frames[e])
       IN  /\ queries' = Prepended(log[n], queries)
           /\ shown' = IF n > shown THEN n ELSE shown
    /\ frames' = [frames EXCEPT ![e] = Tail(@)]
    /\ UNCHANGED <<chain, wsConnected, backVars, requests, tableLimit, disturbed, events>>

\* ws.onmessage.  The effect ran once, so its handler sees the first render's
\* tableLimit for ever: DefaultLimit cuts the list and is asked for.
OnMessage(e) ==
    /\ frames[e] # <<>> /\ MayRefresh
    /\ LET n == Head(frames[e])
       IN  /\ queries' = Prepended(log[n], queries)
           /\ shown' = IF n > shown THEN n ELSE shown
    /\ frames' = [frames EXCEPT ![e] = Tail(@)]
    /\ requests' = Sent(DefaultLimit)
    /\ UNCHANGED <<chain, wsConnected, backVars, tableLimit, disturbed, events>>

-----------------------------------------------------------------------------
\* Settings: the effect on tableLimit refreshes with the new value.
SetTableLimit(limit) ==
    /\ limit # tableLimit /\ MayRefresh /\ events < MaxEvents
    /\ tableLimit' = limit
    /\ requests' = Sent(limit)
    /\ events' = events + 1
    /\ UNCHANGED <<chain, wsConnected, frames, backVars, queries, shown, disturbed>>

\* handleManualRefresh: the topbar, the sidebar, the settings and the copilot.
ManualRefresh ==
    /\ MayRefresh /\ events < MaxEvents
    /\ requests' = Sent(tableLimit)
    /\ events' = events + 1
    /\ UNCHANGED <<chain, wsConnected, frames, backVars, queries, tableLimit, shown, disturbed>>

\* handleUploadSuccess: a report's sample decisions, of logged decisions or made
\* up, are put in front of the list, which is cut to the 50 of DefaultLimit.  The
\* handler is of the render in which the upload began, and so is its limit.
ReportMerged(samples, limit) ==
    /\ MayRefresh /\ events < MaxEvents
    /\ queries' = LET all == samples \o queries
                  IN  IF Len(all) > DefaultLimit THEN SubSeq(all, 1, DefaultLimit) ELSE all
    /\ requests' = Sent(limit)
    /\ events' = events + 1
    /\ UNCHANGED <<chain, wsConnected, frames, backVars, tableLimit, shown, disturbed>>

\* The metrics were answered, well or not; the back end reads the rows; the answer is under way.
QueriesRead(r) ==
    /\ r.step = "asked"
    /\ requests' = Advanced(r, [r EXCEPT !.step = "read", !.stamp = Len(log)])
    /\ UNCHANGED <<chain, wsConnected, frames, backVars, queries, tableLimit, shown, disturbed,
                   events>>

\* The answer replaces the list unless it is empty, however old it is.
QueriesAnswered(r) ==
    /\ r.step = "read"
    /\ requests' = Without(r)
    /\ IF r.stamp = 0 THEN queries' = queries ELSE queries' \in RecentRows(r.limit, r.stamp)
    /\ shown' = IF r.stamp > shown THEN r.stamp ELSE shown
    /\ disturbed' = IF r.stamp = 0 THEN disturbed ELSE r.stamp < shown
    /\ UNCHANGED <<chain, wsConnected, frames, backVars, tableLimit, events>>

\* fetch or json() throws, or the list's answer is not ok: nothing is shown.
RequestFails(r) ==
    /\ events < MaxEvents
    /\ requests' = Without(r)
    /\ disturbed' = TRUE
    /\ events' = events + 1
    /\ UNCHANGED <<chain, wsConnected, frames, backVars, queries, tableLimit, shown>>

LiveNext ==
    \/ \E e \in Effects :
         SocketOpens(e) \/ SocketFails(e) \/ SocketCloses(e) \/ Reconnect(e) \/ OnMessage(e)
    \/ \E d \in Decisions : LogDecision(d)
    \/ \E n \in unsent : Broadcast(n)
    \/ \E limit \in Limits : SetTableLimit(limit)
    \/ ManualRefresh
    \/ \E samples \in {<<>>, <<MadeUp>>} \cup {<<d>> : d \in Range(log)}, limit \in Limits :
         ReportMerged(samples, limit)
    \/ \E r \in BagToSet(requests) :
         QueriesRead(r) \/ QueriesAnswered(r) \/ RequestFails(r)

LiveSpec == LiveInit /\ [][LiveNext]_liveVars

-----------------------------------------------------------------------------
LiveTypeOK ==
    /\ chain \in [Effects -> ChainStates]
    /\ wsConnected \in BOOLEAN
    /\ second \in Seq(Nat) /\ Len(second) = Len(log) /\ unsent \subseteq DOMAIN log
    /\ \A e \in Effects : \A i \in DOMAIN frames[e] : frames[e][i] \in DOMAIN log
    /\ Range(queries) \subseteq Decisions \cup Range(Seeds) \cup {MadeUp}
    /\ BagToSet(requests) \subseteq Request
    /\ tableLimit \in Limits
    /\ shown \in 0 .. Len(log)

Quiet == requests = EmptyBag /\ \A e \in Effects : frames[e] = <<>>

\* When the list has been given data, no frame and no refresh is under way, and
\* no answer was lost or came after a newer one, the list is what the back end
\* held at one moment, newest first (to the second: rows of one second in any
\* order) and each decision once, and that moment is not before any frame that was
\* delivered: what frames and reports put in front, twice with two sockets or after
\* an answer that already had it, is put right by the refresh each starts.
QuietStreamAgrees ==
    Quiet /\ ~disturbed /\ shown > 0 =>
        \E limit \in Limits : queries \in RecentRows(limit, shown)

\* When no socket is on its way up or down and no timer is running, the stream
\* is live and the badge says so, although every chain writes the badge on its
\* own and the cleanup has closed one of the sockets: no chain dies, and none
\* that goes down last leaves the badge off beside an open socket.
BadgeTrueAtRest ==
    (\A e \in Effects : chain[e] \notin {"connecting", "closing", "waiting"}) =>
        wsConnected /\ \E e \in Effects : chain[e] = "open"

\* SettingsModal.tsx:192, "Maximum recent DNS evaluation records displayed in
\* stream": a frame does not make a list that keeps to the setting exceed it.
StreamLimitHonoured ==
    [][(\E e \in Effects : frames[e] # <<>> /\ frames'[e] = Tail(frames[e]))
         /\ Len(queries) <= tableLimit
       => Len(queries') <= tableLimit]_liveVars
=============================================================================
