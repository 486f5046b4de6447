----------------------------- MODULE GoogleNews -----------------------------
(***************************************************************************)
(* Resolving the redirect links of Google News: the gate all batches of    *)
(* the process share, and the cooldown a 429 puts the process into.        *)
(*                                                                         *)
(* A batch asks whether the process is in cooldown once, when it begins.   *)
(* Its links then wait at the gate; one that is let in sees whether its    *)
(* own batch was refused or is out of budget, pauses, and asks Google in   *)
(* up to three requests.                                                   *)
(*                                                                         *)
(* Monotonic time passes in units of the shortest cooldown.                *)
(***************************************************************************)
EXTENDS Naturals, FiniteSets

CONSTANTS
    Batches,     \* batches of links, one per topic check
    Links,       \* distinct links of a batch
    Width,       \* _RESOLVE_CONCURRENCY
    Cooldowns,   \* what a 429 may ask for, the default included
    MaxCooldown, \* _MAX_RATE_LIMIT_COOLDOWN_SECONDS
    MaxMinutes   \* bound: time that passes

GoogleAssumption == Width \in Nat \ {0} /\ Cooldowns \subseteq Nat \ {0}

Tasks == Batches \X Links

VARIABLES
    batch,     \* per batch: "idle", "running", "returned"; refused (aborted), out of budget
    link,      \* per task: where it is; what it got is left out, a redirect is a valid link
    cooldown,  \* time left until _rate_limited_until
    late,      \* history: per batch, links that started to ask after its own 429
    minutes

vars == <<batch, link, cooldown, late, minutes>>

Requests == {"articles", "rss/articles", "batchexecute"}
InGate == {t \in Tasks : link[t] \in {"pause"} \union Requests}
Asking == {t \in Tasks : link[t] \in Requests}

Moved(t, at) == link' = [link EXCEPT ![t] = at]

-----------------------------------------------------------------------------
(* resolve_google_news_urls *)

\* In a cooldown the batch returns at once: every link keeps its redirect.
Begin(b) ==
    /\ batch[b].at = "idle"
    /\ IF cooldown > 0
       THEN batch' = [batch EXCEPT ![b].at = "returned"] /\ UNCHANGED link
       ELSE /\ batch' = [batch EXCEPT ![b].at = "running"]
            /\ link' = [t \in Tasks |-> IF t[1] = b THEN "gate" ELSE link[t]]
    /\ UNCHANGED <<cooldown, late, minutes>>

\* Mutant: a link let in looks at the budget only.
BudgetOnly(b) == batch[b].expired
StandsBack(b) == batch[b].aborted \/ batch[b].expired

\* The gate lets a link in, in any order.
Enter(t) ==
    /\ link[t] = "gate" /\ Cardinality(InGate) < Width
    /\ IF StandsBack(t[1]) THEN Moved(t, "done") ELSE Moved(t, "pause")
    /\ UNCHANGED <<batch, cooldown, late, minutes>>

\* The pause is over; a batch out of budget sends nothing (bounded).
Ask(t) ==
    /\ link[t] = "pause"
    /\ IF batch[t[1]].expired THEN Moved(t, "done") ELSE Moved(t, "articles")
    /\ late' = IF batch[t[1]].aborted /\ ~batch[t[1]].expired
               THEN [late EXCEPT ![t[1]] = @ + 1] ELSE late
    /\ UNCHANGED <<batch, cooldown, minutes>>

\* A page without the parameters, or an error: the second address is tried.
Page(t) ==
    /\ link[t] \in {"articles", "rss/articles"}
    /\ \/ Moved(t, "batchexecute")
       \/ link[t] = "articles" /\ Moved(t, "rss/articles")
       \/ link[t] = "rss/articles" /\ Moved(t, "done")
    /\ UNCHANGED <<batch, cooldown, late, minutes>>

\* Google answers with a link, with none, or in a form nobody knows.
Decode(t) ==
    /\ link[t] = "batchexecute"
    /\ Moved(t, "done")
    /\ UNCHANGED <<batch, cooldown, late, minutes>>

\* _enter_rate_limit_cooldown: a cooldown is never cut short.
Cooldown(asked) ==
    LET c == IF asked > MaxCooldown THEN MaxCooldown ELSE asked IN
    IF cooldown > c THEN cooldown ELSE c

TooMany(t) ==
    /\ t \in Asking
    /\ Moved(t, "done")
    /\ batch' = [batch EXCEPT ![t[1]].aborted = TRUE]
    /\ \E asked \in Cooldowns : cooldown' = Cooldown(asked)
    /\ UNCHANGED <<late, minutes>>

\* The source budget of the topic's check runs out: requests in flight are cut.
Expire(b) ==
    /\ batch[b].at = "running" /\ ~batch[b].expired
    /\ batch' = [batch EXCEPT ![b].expired = TRUE]
    /\ link' = [t \in Tasks |-> IF t[1] = b /\ t \in Asking
                                THEN "done" ELSE link[t]]
    /\ UNCHANGED <<cooldown, late, minutes>>

Return(b) ==
    /\ batch[b].at = "running"
    /\ \A l \in Links : link[<<b, l>>] = "done"
    /\ batch' = [batch EXCEPT ![b].at = "returned"]
    /\ UNCHANGED <<link, cooldown, late, minutes>>

Elapse ==
    /\ cooldown > 0 /\ minutes < MaxMinutes
    /\ cooldown' = cooldown - 1 /\ minutes' = minutes + 1
    /\ UNCHANGED <<batch, link, late>>

-----------------------------------------------------------------------------
Init ==
    /\ batch = [b \in Batches |-> [at |-> "idle", aborted |-> FALSE, expired |-> FALSE]]
    /\ link = [t \in Tasks |-> "idle"]
    /\ cooldown = 0 /\ minutes = 0
    /\ late = [b \in Batches |-> 0]

Next ==
    \/ \E b \in Batches : Begin(b) \/ Expire(b) \/ Return(b)
    \/ \E t \in Tasks : Enter(t) \/ Ask(t) \/ Page(t) \/ Decode(t) \/ TooMany(t)
    \/ Elapse

Spec == Init /\ [][Next]_vars

-----------------------------------------------------------------------------
(* Properties *)

\* A batch that was refused is all but stopped: only the links that were in the
\* gate already start to ask afterwards.
RefusedBatchStops == \A b \in Batches : late[b] < Width

=============================================================================
