---------------------------- MODULE MCHeartbeat ----------------------------
(* Small instances of the Silence Heartbeat for TLC. *)
EXTENDS Heartbeat, TLC

CONSTANTS c1, c2, t1

\* No definition tells one checker from another.
CheckerSymmetry == Permutations(Checkers)

\* Bound: one message at a time is in the queue or being sent.
OneUnderWay == Cardinality({m \in Messages : intents[m] \in {"pending", "sending"}}) <= 1
============================================================================
