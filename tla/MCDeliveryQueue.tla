-------------------------- MODULE MCDeliveryQueue --------------------------
(* Small instances of the delivery queue for TLC. *)
EXTENDS DeliveryQueue

CONSTANTS a1, b1

\* Messages of two topics.
MCTopicOf == [m \in Msgs |-> IF m = b1 THEN "B" ELSE "A"]
============================================================================
