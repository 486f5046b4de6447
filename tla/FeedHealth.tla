----------------------------- MODULE FeedHealth -----------------------------
(***************************************************************************)
(* The health row of one manually configured feed, and the topics that     *)
(* share it.                                                               *)
(*                                                                         *)
(* A check reads the row to decide whether the feed is backed off and      *)
(* which validator to send, fetches with no connection open, applies the   *)
(* outcome (C1), and only then stores what the feed carried (C2).  The row *)
(* belongs to the feed; articles belong to a topic.                        *)
(*                                                                         *)
(* The feed has numbered versions; version v carries the entries v-1 and   *)
(* v, and its validator, if the server issues one, is v.  Ages are in      *)
(* units of the backoff base and count no further than the cap; the age of *)
(* the last error is by the wall clock, so a clock set back makes it       *)
(* negative (last_error_at lies in the future).                            *)
(***************************************************************************)
EXTENDS FeedFetch, Integers, FiniteSets

CONSTANTS
    Topics,       \* topics that list the feed
    None,         \* no error recorded
    Threshold,    \* BACKOFF_THRESHOLD
    Cap,          \* cap_hours, in units of base_minutes
    MaxArticles,  \* articles one check may store
    MaxVersions,  \* bound: versions the feed publishes
    MaxFaults,    \* bound: source failures, aborted fetches, cancellations, crashes
    MaxJumps,     \* bound: backward jumps of the wall clock
    Jump,         \* bound: how far one jump goes
    MaxPrunes     \* bound: runs of article retention

BackoffAssumption == Threshold \in Nat \ {0} /\ Jump \in Nat

VARIABLES
    version,    \* what the feed publishes now
    health,     \* the feed_health row: fails, errAge, tag (0 for none)
    sinceError, \* history: time since last_error_at was written, by no clock
    holds,      \* per topic: entries with an article row
    had,        \* history: entries that ever had one
    check,      \* per topic: the check in flight
    faults, jumps, prunes

vars == <<version, health, sinceError, holds, had, check, faults, jumps, prunes>>

Idle == [pc |-> "idle", sent |-> 0, attempt |-> 0, status |-> EMPTY,
         tag |-> 0, entries |-> {}]

Entries(v) == {e \in {v - 1, v} : e > 0}

-----------------------------------------------------------------------------
(* feed_backoff.py *)

Delay(fails) ==
    IF 2 ^ (fails - Threshold) < Cap THEN 2 ^ (fails - Threshold) ELSE Cap

\* feed_backoff_until > now.  An anchor in the future is clamped to now.
Anchor == IF health.errAge < 0 THEN 0 ELSE health.errAge
Skipped ==
    /\ health.errAge # None
    /\ health.fails >= Threshold
    /\ Delay(health.fails) > Anchor

-----------------------------------------------------------------------------
(* The check of a topic, as far as the feed is concerned *)

\* Mutant: the row's validator is sent whatever the topic holds.
SharedValidator(t) == health.tag

\* _conditional_validators
Validator(t) == IF holds[t] = {} THEN 0 ELSE health.tag

FetchBegins(t) ==
    /\ check[t].pc = "idle" /\ ~Skipped
    /\ check' = [check EXCEPT ![t] = [Idle EXCEPT !.pc = "fetching", !.attempt = 1,
                                                  !.sent = Validator(t)]]
    /\ UNCHANGED <<version, health, sinceError, holds, had, faults, jumps, prunes>>

\* The server answers 304 exactly when the validator is that of the version.
Possible(t, reply) ==
    /\ reply \in {"entries", "no_entries"} => check[t].sent # version
    /\ reply = "not_modified" => check[t].sent = version

Faulty(reply) == reply \notin {"entries", "not_modified"}
Charged(reply) == IF Faulty(reply) THEN 1 ELSE 0

Retry(t, reply) ==
    /\ check[t].pc = "fetching" /\ faults < MaxFaults
    /\ Retries(reply, check[t].attempt, TRUE)
    /\ check' = [check EXCEPT ![t].attempt = @ + 1]
    /\ faults' = faults + 1
    /\ UNCHANGED <<version, health, sinceError, holds, had, jumps, prunes>>

\* The outcome goes to the collector; nothing is written yet.
Answer(t, reply) ==
    /\ check[t].pc = "fetching" /\ Possible(t, reply)
    /\ faults + Charged(reply) <= MaxFaults
    /\ ~Retries(reply, check[t].attempt, FALSE)
    /\ faults' = faults + Charged(reply)
    /\ \E tag \in {0, version} :
          check' = [check EXCEPT ![t] =
                      [@ EXCEPT !.pc = "collected", !.attempt = 0, !.status = Status(reply),
                                !.tag = IF succeeded(Status(reply)) THEN tag ELSE 0,
                                !.entries = IF reply = "entries" THEN Entries(version) ELSE {}]]
    /\ UNCHANGED <<version, health, sinceError, holds, had, jumps, prunes>>

\* Mutant: a fetch we gave up counts against the feed.
AppliedCharging(c) ==
    CASE succeeded(c.status) -> [health EXCEPT !.fails = 0, !.tag = c.tag]
      [] OTHER -> [health EXCEPT !.fails = @ + 1, !.errAge = 0]

\* apply_feed_health: a 200 replaces the validator, a 304 refreshes it at most;
\* an aborted fetch stamps the error and spares the streak.
Applied(c) ==
    CASE succeeded(c.status) ->
            [health EXCEPT !.fails = 0,
                           !.tag = IF c.status = NOT_MODIFIED /\ c.tag = 0 THEN @ ELSE c.tag]
      [] c.status = ABORTED -> [health EXCEPT !.errAge = 0]
      [] OTHER -> [health EXCEPT !.fails = @ + 1, !.errAge = 0]

HealthApplied(t) ==
    /\ health' = Applied(check[t])
    /\ sinceError' = IF succeeded(check[t].status) THEN sinceError ELSE 0

\* C1: the outcome is committed with the dedup reads.  The newest entries the
\* topic does not hold, as many as a check may store, go on to extraction.
Candidates(t) ==
    {e \in check[t].entries \ holds[t] :
        Cardinality({f \in check[t].entries \ holds[t] : f > e}) < MaxArticles}

ApplyHealth(t) ==
    /\ check[t].pc = "collected"
    /\ HealthApplied(t)
    /\ check' = [check EXCEPT ![t] = IF Candidates(t) = {} THEN Idle
                                       ELSE [Idle EXCEPT !.pc = "storing", !.entries = Candidates(t)]]
    /\ UNCHANGED <<version, holds, had, faults, jumps, prunes>>

\* C2
Store(t) ==
    /\ check[t].pc = "storing"
    /\ holds' = [holds EXCEPT ![t] = @ \union check[t].entries]
    /\ had' = [had EXCEPT ![t] = @ \union check[t].entries]
    /\ check' = [check EXCEPT ![t] = Idle]
    /\ UNCHANGED <<version, health, sinceError, faults, jumps, prunes>>

\* Cancelled: what was collected is committed all the same, nothing is stored.
Cancel(t) ==
    /\ check[t].pc # "idle" /\ faults < MaxFaults
    /\ faults' = faults + 1
    /\ IF check[t].pc = "collected" THEN HealthApplied(t) ELSE UNCHANGED <<health, sinceError>>
    /\ check' = [check EXCEPT ![t] = Idle]
    /\ UNCHANGED <<version, holds, had, jumps, prunes>>

-----------------------------------------------------------------------------
(* The environment *)

Crash ==
    /\ faults < MaxFaults /\ \E t \in Topics : check[t].pc # "idle"
    /\ faults' = faults + 1
    /\ check' = [t \in Topics |-> Idle]
    /\ UNCHANGED <<version, health, sinceError, holds, had, jumps, prunes>>

Publish ==
    /\ version < MaxVersions
    /\ version' = version + 1
    /\ UNCHANGED <<health, sinceError, holds, had, check, faults, jumps, prunes>>

\* delete_old_articles takes every article of a topic from the feed.
Retention(t) ==
    /\ prunes < MaxPrunes /\ holds[t] # {}
    /\ prunes' = prunes + 1
    /\ holds' = [holds EXCEPT ![t] = {}]
    /\ UNCHANGED <<version, health, sinceError, had, check, faults, jumps>>

Tick ==
    /\ health.errAge # None /\ health.errAge < Cap
    /\ health' = [health EXCEPT !.errAge = @ + 1]
    /\ sinceError' = IF sinceError < Cap THEN sinceError + 1 ELSE sinceError
    /\ UNCHANGED <<version, holds, had, check, faults, jumps, prunes>>

\* The wall clock was ahead when the error was stamped, and is set right.
ClockJump ==
    /\ jumps < MaxJumps /\ health.errAge # None
    /\ jumps' = jumps + 1
    /\ health' = [health EXCEPT !.errAge = @ - Jump]
    /\ UNCHANGED <<version, sinceError, holds, had, check, faults, prunes>>

-----------------------------------------------------------------------------
Init ==
    /\ version = 1
    /\ health = [fails |-> 0, errAge |-> None, tag |-> 0]
    /\ sinceError = 0
    /\ holds = [t \in Topics |-> {}] /\ had = [t \in Topics |-> {}]
    /\ check = [t \in Topics |-> Idle]
    /\ faults = 0 /\ jumps = 0 /\ prunes = 0

Served(t) == Answer(t, "entries") \/ Answer(t, "not_modified") \/ ApplyHealth(t) \/ Store(t)

Next ==
    \/ \E t \in Topics :
          \/ FetchBegins(t) \/ ApplyHealth(t) \/ Store(t) \/ Cancel(t) \/ Retention(t)
          \/ \E r \in Replies : Retry(t, r) \/ Answer(t, r)
    \/ Crash \/ Publish \/ Tick \/ ClockJump

Spec == Init /\ [][Next]_vars

\* Every topic is checked again and again, and once the faults are used up the
\* feed answers.
Fairness ==
    /\ \A t \in Topics : WF_vars(FetchBegins(t)) /\ WF_vars(Served(t))
    /\ WF_vars(Tick)
FairSpec == Spec /\ Fairness

-----------------------------------------------------------------------------
(* Properties *)

\* Every topic gets articles of the feed in the end, also one that subscribes to a
\* feed other topics already poll, and also through backoff: a 304 or a skip is
\* never the last word on a topic that holds nothing.
EveryTopicFed == \A t \in Topics : <>(had[t] # {})


\* A feed is put in backoff by failures of its own: a fetch this process gave up
\* (ABORTED) may prolong a backoff, by the error it stamps, but never starts one.
BackoffBegins == ~Skipped /\ Skipped'
OwnFailure == \/ \E t \in Topics : check[t].status = FAILED /\ check'[t] = Idle
              \/ health.fails >= Threshold
BackoffIsEarned == [][BackoffBegins => OwnFailure]_vars
=============================================================================
