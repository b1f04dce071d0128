---------------------------- MODULE MCFeedPolling ----------------------------
(***************************************************************************)
(* Two feeds, two objects to a page: up to three objects in the first, so  *)
(* that its last page may be short, full or empty, and one in the second.  *)
(* An object is an indicator that is severe but uncertain, one that is     *)
(* certain but mild, both of one domain, one whose confidence or one whose *)
(* category cannot be read, or something else.                             *)
(***************************************************************************)
EXTENDS FeedPolling, TLC

CONSTANTS f1, f2, evil

MCFeedOrder == <<f1, f2>>

MCMaxObjects == f1 :> 3 @@ f2 :> 1

MCObjects ==
    {[domain |-> evil, category |-> 6, confidence |-> 50],
     [domain |-> evil, category |-> 1, confidence |-> 80],
     [domain |-> evil, category |-> 1, confidence |-> Unreadable],
     [domain |-> evil, category |-> Unmapped, confidence |-> 80],
     [domain |-> NoDomain, category |-> 1, confidence |-> 80]}
=============================================================================
