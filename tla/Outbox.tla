------------------------------- MODULE Outbox -------------------------------
(***************************************************************************)
(* What the durable delivery queue promises the code that queues messages  *)
(* in it: one status per message instead of a table, lanes, coroutines and *)
(* tokens.  DeliveryQueue implements this specification, and Heartbeat is  *)
(* built on its actions.                                                   *)
(*                                                                         *)
(* A message is claimed before it is sent, its target takes it only while  *)
(* it is claimed, and it is recorded as sent only after that; what is      *)
(* claimed cannot be revoked, forgotten or queued a second time.           *)
(***************************************************************************)
EXTENDS Naturals

CONSTANT Messages

VARIABLES
  status,  \* of the message's row; "none" while the table has none
  told     \* history: the messages whose target took them

vars == <<status, told>>

Statuses == {"none", "pending", "sending", "sent", "abandoned", "revoked"}

\* One transaction of the code that owns the messages: it revokes some that are queued,
\* forgets some that are neither queued nor claimed, and queues some that have no row.
Write(revoked, forgotten, queued) ==
  /\ \A m \in revoked : status[m] = "pending"
  /\ \A m \in forgotten : status[m] \notin {"pending", "sending"}
  /\ \A m \in queued : status[m] = "none" \/ m \in forgotten
  /\ status' = [m \in Messages |->
                  IF m \in queued THEN "pending"
                  ELSE IF m \in forgotten THEN "none"
                  ELSE IF m \in revoked THEN "revoked" ELSE status[m]]
  /\ told' = told \ forgotten

\* A sender takes the message.
Claim(m) ==
  /\ status[m] = "pending"
  /\ status' = [status EXCEPT ![m] = "sending"]
  /\ UNCHANGED told

\* The target takes it too: nobody in the program sees this happen.
Accept(m) ==
  /\ status[m] = "sending"
  /\ told' = told \cup {m}
  /\ UNCHANGED status

\* The sender records a success.
Sent(m) ==
  /\ status[m] = "sending" /\ m \in told
  /\ status' = [status EXCEPT ![m] = "sent"]
  /\ UNCHANGED told

\* It records a failure, whatever became of the message: the row is queued again or given up.
Fail(m, s) ==
  /\ status[m] = "sending" /\ s \in {"pending", "abandoned"}
  /\ status' = [status EXCEPT ![m] = s]
  /\ UNCHANGED told

\* A drain queues claims that grew stale again, and gives up rows without attempts left.
Sweep(stale, spent) ==
  /\ \A m \in stale : status[m] = "sending"
  /\ \A m \in spent : status[m] = "pending"
  /\ status' = [m \in Messages |->
                  CASE m \in stale -> "pending"
                    [] m \in spent -> "abandoned"
                    [] OTHER       -> status[m]]
  /\ UNCHANGED told

Settle(m) == Sent(m) \/ \E s \in {"pending", "abandoned"} : Fail(m, s)

Init ==
  /\ status \in [Messages -> {"none", "pending"}]
  /\ told = {}

Next ==
  \/ \E m \in Messages : Claim(m) \/ Accept(m) \/ Settle(m)
  \/ \E stale, spent \in SUBSET Messages : Sweep(stale, spent)
  \/ \E revoked, forgotten, queued \in SUBSET Messages : Write(revoked, forgotten, queued)

Spec == Init /\ [][Next]_vars
=============================================================================
