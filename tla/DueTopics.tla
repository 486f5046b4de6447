----------------------------- MODULE DueTopics -----------------------------
(***************************************************************************)
(* When a topic is due: the scheduling anchor and the wall clock.          *)
(*                                                                         *)
(* Every check leaves a row stamped with the wall clock.  The minute tick  *)
(* checks an active, ready topic whose interval has passed since its       *)
(* anchor, the newest row that is not stamped in the future.  The clock    *)
(* may be set forward and back between two checks.                         *)
(*                                                                         *)
(* One topic; the wall clock counts minutes.                               *)
(***************************************************************************)
EXTENDS Naturals, FiniteSets, FiniteSetsExt

CONSTANTS
    Default,    \* settings.check_interval_minutes
    Intervals,  \* what check_interval_minutes of the topic may hold, 0 included
    Skew,       \* FUTURE_ANCHOR_SKEW_MINUTES
    Leap,       \* minutes the clock is set wrong by
    MaxLeaps,   \* bound: how often it is set
    MaxNow      \* bound: the last minute of a behaviour

DueAssumption == Default \in Nat \ {0} /\ Intervals \subseteq Nat /\ {Skew, Leap} \subseteq Nat

VARIABLES
    now,     \* the wall clock
    rows,    \* checked_at of the topic's check_results
    topic,   \* the topic: active (and ready), its own interval
    since,   \* history: monitored minutes since the last check, or the clock was set
    future,  \* history: the rows stamped in the future when the clock was set
    leaps

vars == <<now, rows, topic, since, future, leaps>>

-----------------------------------------------------------------------------
(* get_topics_due_for_check *)

\* A stored 0 means the default, as NULL does.
Interval == IF topic.interval = 0 THEN Default ELSE topic.interval

\* Mutant: the newest row is the anchor, whatever its stamp.
AllRows(t) == rows

SaneRows(t) == {r \in rows : r <= t + Skew}

Due ==
    /\ topic.active
    /\ SaneRows(now) # {} => Max(SaneRows(now)) + Interval <= now

-----------------------------------------------------------------------------
(* The minute tick, the clock, the user *)

Check ==
    /\ Due
    /\ rows' = rows \union {now} /\ since' = 0
    /\ UNCHANGED <<now, topic, future, leaps>>

\* The tick of this minute is over: what was due has been checked.
Minute ==
    /\ ~Due /\ now < MaxNow
    /\ now' = now + 1
    /\ since' = IF topic.active THEN since + 1 ELSE 0
    /\ UNCHANGED <<rows, topic, future, leaps>>

SetClock ==
    /\ leaps < MaxLeaps
    /\ \/ now + Leap <= MaxNow /\ now' = now + Leap
       \/ now >= Leap /\ now' = now - Leap
    /\ leaps' = leaps + 1 /\ since' = 0
    /\ future' = Cardinality({r \in rows : r > now'})
    /\ UNCHANGED <<rows, topic>>

\* Pause, resume, or a change of status that takes the topic out of the schedule.
Toggle ==
    /\ topic' = [topic EXCEPT !.active = ~@] /\ since' = 0
    /\ UNCHANGED <<now, rows, future, leaps>>

Init ==
    /\ now \in 0..Leap /\ rows = {}
    /\ topic \in [active : {TRUE}, interval : Intervals]
    /\ since = 0 /\ future = 0 /\ leaps = 0

Next == Check \/ Minute \/ SetClock \/ Toggle
Spec == Init /\ [][Next]_vars

-----------------------------------------------------------------------------
(* Properties *)

\* A stamp from the future delays a monitored topic, but no row does so twice: an
\* interval and the skew pass at most between two checks, and once more for every
\* row that was in the future when the clock was set.
CheckedInTime == topic.active /\ ~Due => since < (future + 1) * (Interval + Skew)
=============================================================================
