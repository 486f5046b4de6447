---------------------------- MODULE MCDelivery ----------------------------
(* The delivery queue in four small instances, one per behaviour: two       *)
(* processes whose sends all have a known outcome (the webhook queue, and   *)
(* the instance the configuration gives); one process whose clock steps and *)
(* whose sends end with their tasks; one whose sends outlive their tasks;   *)
(* rows left by an older release in a server that keeps draining.           *)
EXTENDS MCDeliveryQueue

VARIABLE scenario
allVars == <<scenario, vars>>

Stepping == INSTANCE DeliveryQueue WITH
    Procs <- {"server"}, CountCap <- 1, Faults <- FaultKinds \ {"topic_delete"}
Hanging == INSTANCE DeliveryQueue WITH
    Procs <- {"server"}, CountCap <- 1, TimesOut <- TRUE,
    Faults <- FaultKinds \ {"topic_delete", "clock_step"}
Drained == INSTANCE DeliveryQueue WITH
    Procs <- {"server"}, Heartbeats <- {}, Legacy <- {b1}, MaxRows <- 2, DrainLimit <- 1,
    Concurrency <- 1, CountCap <- 1,
    Faults <- {"crash", "cancel", "db_error", "lost_ack", "send_raises"}

Of(s, A) == scenario = s /\ A /\ UNCHANGED scenario

MCInit ==
    \/ scenario = "known outcomes" /\ Init
    \/ scenario = "clock steps" /\ Stepping!Init
    \/ scenario = "sends hang" /\ Hanging!Init
    \/ scenario = "drained" /\ Drained!Init

MCNext ==
    \/ Of("known outcomes", Next) \/ Of("clock steps", Stepping!Next)
    \/ Of("sends hang", Hanging!Next) \/ Of("drained", Drained!Next)

\* The fairness of DeliveryQueue, for the behaviours that ask for it.
MCSpec ==
    /\ MCInit /\ [][MCNext]_allVars
    /\ WF_allVars(Of("drained", Drained!Drain("server")))
    /\ \A l \in Drained!Lanes, r \in Drained!Rows :
         WF_allVars(Of("drained", Drained!TaskStep(l, r)))
    /\ \A r \in Drained!Rows : WF_allVars(Of("drained", Drained!Ripen(r)))

\* Every committed intent is sent, abandoned, revoked or deleted in the end; see
\* DeliveryQueue.
DrainedIntentsSettle ==
    \A m \in Msgs : LET owed == scenario = "drained" /\ Drained!Owed(m) IN owed ~> ~owed
=============================================================================
