--------------------------- MODULE EliteTelemetry ---------------------------
(***************************************************************************)
(* The event stream of the EliteCore dashboard: useTelemetry's WebSocket   *)
(* with its backoff, the events it keeps, the toasts that Dashboard.tsx    *)
(* raises for blocked ones, and the rows of the incidents panel, events    *)
(* first and then the rows of the last refresh.                            *)
(*                                                                         *)
(* StrictMode runs the hook's effect, its cleanup and the effect again: by *)
(* the time the first socket's close event comes, mountedRef is true again *)
(* and the event starts a second chain of sockets.                         *)
(***************************************************************************)
EXTENDS Subsequence, Sequences, SequencesExt

CONSTANTS
    EventIds,       \* the ids of decisions posted to the back end
    BlockIds,       \* the blocked ones
    EventCap,       \* MAX_EVENTS
    RowCap,         \* rows kept by Dashboard, 100
    HookRuns,       \* runs of the hook's effect
    MaxPosts,       \* bound on decisions posted
    MaxFaults       \* bound on connections that fail

NoId == "no id"

ASSUME EliteTelemetryAssumption ==
    /\ BlockIds \subseteq EventIds /\ NoId \notin EventIds
    /\ EventCap \in Nat \ {0} /\ RowCap \in Nat \ {0} /\ HookRuns \in Nat \ {0}

VARIABLES
    wires,          \* wires[e]: where the sockets of the e-th effect run are
    status, backoff,    \* shared by all: backoff counts the doublings of 1000 ms
    inbox,          \* inbox[e]: events sent to that socket, not yet delivered
    posted,         \* decisions posted, in order; an id posted again is an upsert
    liveEvents,     \* events
    unrendered,     \* events changed since the toast effect last ran
    toasts, toastedIds,
    toastTimer,     \* the toast whose timer is running
    raised,         \* raised[id]: how often its toast was raised
    initialRows,
    refreshes,      \* rows read by the back end for refreshes not yet answered
    faults

eliteVars == <<wires, status, backoff, inbox, posted, liveEvents, unrendered, toasts,
               toastedIds, toastTimer, raised, initialRows, refreshes, faults>>

socketVars == <<wires, status, backoff, inbox, faults>>
toastVars == <<toasts, toastedIds, toastTimer, raised>>
rowVars == <<initialRows, refreshes>>

Hooks == 1 .. HookRuns
FirstOf(n, s) == SubSeq(s, 1, IF Len(s) < n THEN Len(s) ELSE n)

\* ORDER BY timestamp DESC: an upsert keeps its place.
Stored ==
    Reverse(KeptAt(posted, {i \in DOMAIN posted : \A j \in 1 .. i - 1 : posted[j] # posted[i]}))

EliteRows ==
    LET older == {i \in DOMAIN initialRows : initialRows[i] \notin ToSet(liveEvents)}
    IN  FirstOf(RowCap, liveEvents \o KeptAt(initialRows, older))

EliteInit ==
    /\ wires = [e \in Hooks |-> IF e = HookRuns THEN "connecting" ELSE "closing"]
    /\ status = "RECONNECTING" /\ backoff = 0
    /\ inbox = [e \in Hooks |-> <<>>]
    /\ posted = <<>> /\ liveEvents = <<>> /\ unrendered = FALSE
    /\ toasts = <<>> /\ toastedIds = {} /\ toastTimer = NoId
    /\ raised = [id \in EventIds |-> 0]
    /\ initialRows = <<>> /\ refreshes = {}
    /\ faults = 0

-----------------------------------------------------------------------------
WireOpens(e) ==
    /\ wires[e] = "connecting"
    /\ wires' = [wires EXCEPT ![e] = "open"]
    /\ status' = "CONNECTED" /\ backoff' = 0
    /\ UNCHANGED <<inbox, faults, posted, liveEvents, unrendered, toastVars, rowVars>>

\* The server or the network ends a connection, or onerror closes it: its close
\* event is to come.
WireFails(e) ==
    /\ wires[e] \in {"connecting", "open"} /\ faults < MaxFaults
    /\ wires' = [wires EXCEPT ![e] = "closing"]
    /\ inbox' = [inbox EXCEPT ![e] = <<>>]
    /\ faults' = faults + 1
    /\ UNCHANGED <<status, backoff, posted, liveEvents, unrendered, toastVars, rowVars>>

\* onclose: the next connection is due after the delay, and that doubles up to
\* sixteen seconds.
WireCloses(e) ==
    /\ wires[e] = "closing"
    /\ wires' = [wires EXCEPT ![e] = "waiting"]
    /\ status' = "RECONNECTING"
    /\ backoff' = IF backoff < 4 THEN backoff + 1 ELSE 4
    /\ UNCHANGED <<inbox, faults, posted, liveEvents, unrendered, toastVars, rowVars>>

WireReconnects(e) ==
    /\ wires[e] = "waiting"
    /\ wires' = [wires EXCEPT ![e] = "connecting"]
    /\ UNCHANGED <<status, backoff, inbox, faults, posted, liveEvents, unrendered, toastVars,
                   rowVars>>

\* persist_and_broadcast
PostDecision(id) ==
    /\ Len(posted) < MaxPosts
    /\ posted' = Append(posted, id)
    /\ inbox' = [e \in Hooks |-> IF wires[e] = "open" THEN Append(inbox[e], id) ELSE inbox[e]]
    /\ UNCHANGED <<wires, status, backoff, faults, liveEvents, unrendered, toastVars, rowVars>>

\* onmessage: an event that the list has is not added again.
FrameArrives(e) ==
    /\ inbox[e] # <<>>
    /\ inbox' = [inbox EXCEPT ![e] = Tail(@)]
    /\ liveEvents' = IF Head(inbox[e]) \in ToSet(liveEvents) THEN liveEvents
                     ELSE FirstOf(EventCap, <<Head(inbox[e])>> \o liveEvents)
    /\ unrendered' = (unrendered \/ liveEvents' # liveEvents)
    /\ UNCHANGED <<wires, status, backoff, faults, posted, toastVars, rowVars>>

-----------------------------------------------------------------------------
\* Mutant: the effect does not remember the toasts that it has raised.
ToastEffectForgets ==
    /\ unrendered
    /\ unrendered' = FALSE
    /\ LET latest == Head(liveEvents)
       IN  IF latest \in BlockIds
           THEN /\ toastedIds' = toastedIds \cup {latest}
                /\ toasts' = Append(toasts, latest)
                /\ toastTimer' = latest
                /\ raised' = [raised EXCEPT ![latest] = @ + 1]
           ELSE toastTimer' = NoId /\ UNCHANGED <<toasts, toastedIds, raised>>
    /\ UNCHANGED <<socketVars, posted, liveEvents, rowVars>>

\* React renders, after one or several frames, and runs the toast effect.  Its
\* cleanup stops the timer of the toast raised before, which then stays until it
\* is dismissed; only the newest event can raise one.
ToastEffect ==
    /\ unrendered
    /\ unrendered' = FALSE
    /\ LET latest == Head(liveEvents)
       IN  IF latest \in BlockIds \ toastedIds
           THEN /\ toastedIds' = toastedIds \cup {latest}
                /\ toasts' = Append(toasts, latest)
                /\ toastTimer' = latest
                /\ raised' = [raised EXCEPT ![latest] = @ + 1]
           ELSE /\ toastTimer' = NoId
                /\ UNCHANGED <<toasts, toastedIds, raised>>
    /\ UNCHANGED <<socketVars, posted, liveEvents, rowVars>>

WithoutToast(id) == KeptAt(toasts, {i \in DOMAIN toasts : toasts[i] # id})

ToastExpires ==
    /\ toastTimer # NoId
    /\ toasts' = WithoutToast(toastTimer)
    /\ toastTimer' = NoId
    /\ UNCHANGED <<socketVars, posted, liveEvents, unrendered, toastedIds, raised, rowVars>>

\* The toast's cross or the toast itself, which also opens the evidence
DismissToast(id) ==
    /\ id \in ToSet(toasts)
    /\ toasts' = WithoutToast(id)
    /\ UNCHANGED <<socketVars, posted, liveEvents, unrendered, toastedIds, toastTimer, raised,
                   rowVars>>

\* refresh: every five seconds, and half a second after the connection was lost
RefreshRead ==
    /\ refreshes' = refreshes \cup {Stored}
    /\ UNCHANGED <<socketVars, posted, liveEvents, unrendered, toastVars, initialRows>>

\* Answers come in any order; one of the three that fails drops the refresh.
RefreshAnswered(rows) ==
    /\ refreshes' = refreshes \ {rows}
    /\ initialRows' \in {rows, initialRows}
    /\ UNCHANGED <<socketVars, posted, liveEvents, unrendered, toastVars>>

EliteNext ==
    \/ \E e \in Hooks : WireOpens(e) \/ WireFails(e) \/ WireCloses(e) \/ WireReconnects(e)
                        \/ FrameArrives(e)
    \/ \E id \in EventIds : PostDecision(id) \/ DismissToast(id)
    \/ ToastEffect \/ ToastExpires \/ RefreshRead
    \/ \E rows \in refreshes : RefreshAnswered(rows)

EliteSpec == EliteInit /\ [][EliteNext]_eliteVars

-----------------------------------------------------------------------------
EliteTypeOK ==
    /\ wires \in [Hooks -> {"connecting", "open", "closing", "waiting"}]
    /\ status \in {"CONNECTED", "RECONNECTING", "OFFLINE"} /\ backoff \in 0 .. 4
    /\ ToSet(liveEvents) \subseteq ToSet(posted) /\ Len(liveEvents) <= EventCap
    /\ ToSet(toasts) \subseteq toastedIds /\ toastedIds \subseteq BlockIds

\* Whatever two chains of sockets deliver twice, late or after the list has
\* dropped it, and whenever refreshes answer: no row stands twice, no blocked
\* decision raises a second toast, and a toast that was closed never comes back.
\* When no socket is on its way up or down the status is CONNECTED.
EliteFeedAgrees ==
    /\ IsInjective(EliteRows) /\ IsInjective(toasts)
    /\ \A id \in EventIds : raised[id] <= 1
    /\ (\A e \in Hooks : wires[e] \notin {"connecting", "closing", "waiting"}) =>
          status = "CONNECTED" /\ \E e \in Hooks : wires[e] = "open"
=============================================================================
