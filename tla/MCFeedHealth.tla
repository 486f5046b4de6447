---------------------------- MODULE MCFeedHealth ----------------------------
(* Two topics share one feed. *)
EXTENDS FeedHealth
CONSTANTS t1, t2
=============================================================================
