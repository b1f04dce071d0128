----------------------------- MODULE FeedWorker -----------------------------
(***************************************************************************)
(* The life of the synchronisation thread (BackgroundWorker): start, stop, *)
(* _run_loop and the shape of sync_all_feeds, whose effects on the store   *)
(* are the subject of ThreatIntel.                                         *)
(*                                                                         *)
(* Controllers call start and stop, each of which works on _is_running,    *)
(* the event and the thread under _state_lock; stop then waits for the     *)
(* thread without the lock, and not for ever.  So a loop may outlive its   *)
(* stop, and a start may clear the event before that loop has seen it.     *)
(***************************************************************************)
EXTENDS Integers, FiniteSets

CONSTANTS
    Controllers,    \* threads that call start and stop
    Threads,        \* thread objects; one that has ended stands for a new one
    NoThread,
    NumFeeds,       \* how many feeds there are to poll
    MaxFaults       \* bound on exceptions out of sync_all_feeds

ASSUME ThreadsAssumption ==
    NoThread \notin Threads /\ NumFeeds \in Nat /\ MaxFaults \in Nat

VARIABLES
    running,    \* _is_running
    shutdown,   \* _shutdown_event
    thread,     \* _thread
    lock,       \* who holds _sync_lock
    pc,         \* where each thread stands in _run_loop
    todo,       \* the feeds that each thread has still to poll
    joining,    \* what each controller waits for in stop
    faults

vars == <<running, shutdown, thread, lock, pc, todo, joining, faults>>

-----------------------------------------------------------------------------
Alive(t) == pc[t] # "ended"

Init ==
    /\ running = FALSE
    /\ shutdown = FALSE
    /\ thread = NoThread
    /\ lock = NoThread
    /\ pc = [t \in Threads |-> "ended"]
    /\ todo = [t \in Threads |-> 0]
    /\ joining = [c \in Controllers |-> "nothing"]
    /\ faults = 0

-----------------------------------------------------------------------------
(* start and stop *)

\* A start while _is_running is set returns at once, alive or not.
Start(c) ==
    /\ joining[c] = "nothing"
    /\ ~running
    /\ running' = TRUE
    /\ shutdown' = FALSE
    /\ \E t \in Threads :
         /\ ~Alive(t)
         /\ thread' = t
         /\ pc' = [pc EXCEPT ![t] = "top"]
    /\ UNCHANGED <<lock, todo, joining, faults>>

\* Mutant: the event is not set.
StopQuietly(c) ==
    /\ joining[c] = "nothing"
    /\ running
    /\ running' = FALSE
    /\ joining' = [joining EXCEPT ![c] = "pending"]
    /\ UNCHANGED <<shutdown, thread, lock, pc, todo, faults>>

\* The part of stop under the lock.
Stop(c) ==
    /\ joining[c] = "nothing"
    /\ running
    /\ running' = FALSE
    /\ shutdown' = TRUE
    /\ joining' = [joining EXCEPT ![c] = "pending"]
    /\ UNCHANGED <<thread, lock, pc, todo, faults>>

\* self._thread is read only now: it may be one that was started meanwhile.
Join(c) ==
    /\ joining[c] = "pending"
    /\ joining' = [joining EXCEPT ![c] = thread]
    /\ UNCHANGED <<running, shutdown, thread, lock, pc, todo, faults>>

\* The thread has ended, or five seconds have passed.
Joined(c) ==
    /\ joining[c] \in Threads
    /\ joining' = [joining EXCEPT ![c] = "nothing"]
    /\ UNCHANGED <<running, shutdown, thread, lock, pc, todo, faults>>

-----------------------------------------------------------------------------
(* _run_loop and sync_all_feeds *)

At(t, here, there) == pc[t] = here /\ pc' = [pc EXCEPT ![t] = there]

Controlled == UNCHANGED <<running, shutdown, thread, joining>>

\* Mutant: `while True`.
LoopForever(t) ==
    /\ At(t, "top", "sync")
    /\ Controlled /\ UNCHANGED <<lock, todo, faults>>

\* `while not self._shutdown_event.is_set()`
LoopTest(t) ==
    /\ At(t, "top", IF shutdown THEN "ended" ELSE "sync")
    /\ Controlled /\ UNCHANGED <<lock, todo, faults>>

\* Mutant: the lock is taken without looking whether somebody holds it.
AcquireAlways(t) ==
    /\ At(t, "sync", "poll")
    /\ lock' = t
    /\ todo' = [todo EXCEPT ![t] = NumFeeds]
    /\ Controlled /\ UNCHANGED faults

Acquire(t) ==
    /\ At(t, "sync", "poll")
    /\ lock = NoThread
    /\ lock' = t
    /\ todo' = [todo EXCEPT ![t] = NumFeeds]
    /\ Controlled /\ UNCHANGED faults

\* "Overlapping feed update skipped"
Skip(t) ==
    /\ At(t, "sync", "sleep")
    /\ lock # NoThread
    /\ Controlled /\ UNCHANGED <<lock, todo, faults>>

\* One feed is polled, successfully or not.
PollFeed(t) ==
    /\ pc[t] = "poll"
    /\ todo[t] > 0 /\ ~shutdown
    /\ todo' = [todo EXCEPT ![t] = @ - 1]
    /\ Controlled /\ UNCHANGED <<lock, pc, faults>>

\* The loop is through, or breaks off at a shutdown.
EndPolling(t) ==
    /\ At(t, "poll", "update")
    /\ todo[t] = 0 \/ shutdown
    /\ todo' = [todo EXCEPT ![t] = 0]
    /\ Controlled /\ UNCHANGED <<lock, faults>>

\* Mutant: the lock is not released.
UpdateKeepsLock(t) ==
    /\ At(t, "update", "sleep")
    /\ Controlled /\ UNCHANGED <<lock, todo, faults>>

\* The store and the health rows are written; `finally` releases the lock.
Update(t) ==
    /\ At(t, "update", "sleep")
    /\ lock' = NoThread
    /\ Controlled /\ UNCHANGED <<todo, faults>>

\* update_feed_health raises where nothing catches it: `finally` releases the
\* lock, and the exception ends the thread.  _is_running stays as it is.
UpdateRaises(t) ==
    /\ At(t, "update", "ended")
    /\ faults < MaxFaults
    /\ faults' = faults + 1
    /\ lock' = NoThread
    /\ Controlled /\ UNCHANGED todo

\* The interval is over, or one of the short sleeps ends and sees the event.
Wake(t) ==
    /\ At(t, "sleep", "top")
    /\ Controlled /\ UNCHANGED <<lock, todo, faults>>

\* What a loop does next when nothing raises.
LoopStep(t) ==
    \/ LoopTest(t)
    \/ Acquire(t)
    \/ Skip(t)
    \/ PollFeed(t)
    \/ EndPolling(t)
    \/ Update(t)
    \/ Wake(t)

Next ==
    \/ \E c \in Controllers : Start(c) \/ Stop(c) \/ Join(c) \/ Joined(c)
    \/ \E t \in Threads : LoopStep(t) \/ UpdateRaises(t)

\* The operating system runs every thread, sleeps end, requests and database
\* calls return, and join has a timeout.  Nobody owes us a start or a stop.
Fairness ==
    /\ \A t \in Threads : WF_vars(LoopStep(t))
    /\ \A c \in Controllers : WF_vars(Join(c) \/ Joined(c))

Spec == Init /\ [][Next]_vars /\ Fairness

-----------------------------------------------------------------------------
(* Correctness *)

\* Types; a worker that is not running has been told to end, and there is a
\* thread to join.
WorkerTypeOK ==
    /\ running \in BOOLEAN /\ shutdown \in BOOLEAN
    /\ thread \in Threads \cup {NoThread}
    /\ lock \in Threads \cup {NoThread}
    /\ pc \in [Threads -> {"ended", "top", "sync", "poll", "update", "sleep"}]
    /\ todo \in [Threads -> 0 .. NumFeeds]
    /\ joining \in [Controllers -> Threads \cup {"nothing", "pending"}]
    /\ faults \in 0 .. MaxFaults
    /\ ~running => shutdown \/ thread = NoThread
    /\ running => thread # NoThread
    /\ \A c \in Controllers : joining[c] = "pending" => thread # NoThread

\* However many loops have outlived their stop, one synchronisation runs at a
\* time, and the lock is never held by a loop that has left it
\* (background_worker.py: "Prevent overlapping runs").
SyncsNeverOverlap ==
    \A t \in Threads : pc[t] \in {"poll", "update"} <=> lock = t

\* A worker that is stopped and not started again comes to rest: every loop
\* ends, also those that an earlier stop gave up waiting for.
StoppedLoopsEnd ==
    <>[]~running => <>[](\A t \in Threads : ~Alive(t))

\* As long as the worker runs and its thread has not died of an exception, the
\* feeds are polled again and again: by this loop or, while it skips, by an
\* older one.
RunningKeepsPolling ==
    <>[](running /\ \E t \in Threads : thread = t /\ Alive(t))
        => []<>(\E t \in Threads : pc[t] = "poll")
=============================================================================
