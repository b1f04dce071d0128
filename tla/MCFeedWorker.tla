---------------------------- MODULE MCFeedWorker ----------------------------
(***************************************************************************)
(* Two controllers, and as many threads as two stops that gave up joining  *)
(* and a start after each leave behind.                                    *)
(***************************************************************************)
EXTENDS FeedWorker

CONSTANTS t1, t2, t3
=============================================================================
