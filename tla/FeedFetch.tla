----------------------------- MODULE FeedFetch -----------------------------
(***************************************************************************)
(* One fetch of one feed: what the source answers, when the answer is      *)
(* tried again, and the status every consumer decides by.  The streak of a *)
(* feed, the health of a provider, the cascade to the next provider and    *)
(* the coverage of the check each ask a different question of the status.  *)
(***************************************************************************)
EXTENDS Naturals

CONSTANT MaxAttempts    \* feed_max_retries: requests one fetch may send
FetchAssumption == MaxAttempts \in Nat \ {0}

OK == "ok"
NOT_MODIFIED == "not_modified"
EMPTY == "empty"
FAILED == "failed"
ABORTED == "aborted"

succeeded(s) == s \in {OK, NOT_MODIFIED, EMPTY}
is_source_failure(s) == s = FAILED
should_cascade(s) == s \in {EMPTY, FAILED}

Transient == {"server_error", "timeout", "network_error"}
\* "saturated": no resolver slot; "deadline": the topic's source budget ran out.
Replies == {"entries", "no_entries", "unusable", "unparseable", "not_modified",
            "client_error", "blocked", "saturated", "deadline"} \union Transient

Status(reply) ==
    CASE reply = "entries" -> OK
      [] reply = "no_entries" -> EMPTY
      [] reply = "not_modified" -> NOT_MODIFIED
      [] reply \in {"saturated", "deadline"} -> ABORTED
      [] OTHER -> FAILED

\* Another attempt is owed and the pause between them does not use up the budget.
Retries(reply, attempt, budgetLeft) ==
    reply \in Transient /\ attempt < MaxAttempts /\ budgetLeft
=============================================================================
