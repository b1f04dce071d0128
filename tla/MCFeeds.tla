------------------------------ MODULE MCFeeds ------------------------------
(***************************************************************************)
(* The synchronisation thread and the poll of two feeds in one instance:   *)
(* part says which of the two a behaviour is about.  A thread reads no     *)
(* object and a poll starts no thread, so the two share no state.          *)
(***************************************************************************)
EXTENDS MCFeedWorker, MCFeedPolling

VARIABLE part

FeedsInit == part \in {"worker", "polling"} /\ Init /\ PollingInit

FeedsNext ==
    /\ UNCHANGED part
    /\ \/ part = "worker" /\ Next /\ UNCHANGED pollingVars
       \/ part = "polling" /\ PollingNext /\ UNCHANGED vars

FeedsSpec == FeedsInit /\ [][FeedsNext]_<<part, vars, pollingVars>> /\ Fairness
=============================================================================
