----------------------------- MODULE Heartbeat -----------------------------
(***************************************************************************)
(* The Silence Heartbeat of one topic (app/heartbeat.py, and _finish_check *)
(* and _run_heartbeat in app/checker.py): each recorded check is an        *)
(* observation of the sources; once Threshold observations in a row failed *)
(* the outage is announced to every target, and the first good one         *)
(* announces the recovery to the targets that were told.                   *)
(*                                                                         *)
(* The checks of one topic may overlap: the server and a CLI command each  *)
(* run one, and share only the database.  A check's row is ordered by      *)
(* checked_at, which it takes when it starts, so a slow check files its    *)
(* row below rows that are already there; `log` holds the place of a       *)
(* running check with stage "running", which no query sees and which a     *)
(* check that dies leaves without an id.                                   *)
(*                                                                         *)
(* A check that analyzed something writes its row in one transaction with  *)
(* the rest of its outcome; one that had nothing to analyze reads the      *)
(* topic's generation in one transaction and inserts its row in another,   *)
(* and the row id can go to a new topic in between.                        *)
(***************************************************************************)
EXTENDS Naturals, Sequences, FiniteSets

CONSTANTS
  Checkers,        \* processes that can be checking the topic at once
  CheckIds,        \* ids of check_results rows; one no row or check uses is taken
  NoId,
  Generations,     \* topics.generation: fresh for every topic created
  Targets,         \* notification URLs
  Outages,         \* values of heartbeat_alerted_at, which name the outages
  NoOutage,
  Articles,        \* articles the topic can hold unprocessed at once
  Threshold,       \* silence_heartbeat_checks, when the feature is on
  Window,          \* max(threshold + 1, 50), the LIMIT of the streak query
  MaxArticles,     \* max_articles_per_check
  MaxAttempts,     \* MAX_ANALYSIS_ATTEMPTS
  Events,          \* the misfortunes and user actions this instance includes
  MaxLosses        \* bound on the checks that die

EventKinds ==
  {"replace", "configure", "loss", "pipeline_failure", "analysis_failure",
   "send_failure", "send_retry"}

ASSUME HeartbeatAssumption ==
  /\ Threshold \in Nat \ {0} /\ Window \in Nat /\ Window > Threshold
  /\ MaxArticles \in Nat \ {0} /\ MaxAttempts \in Nat \ {0} /\ MaxLosses \in Nat
  /\ NoId \notin CheckIds /\ NoOutage \notin Outages /\ Generations # {}
  /\ Events \subseteq EventKinds

VARIABLES
  world,      \* whether the sources can be reached
  settings,   \* app.state.settings: the feature's switch and the notification URLs
  generation, \* the generation of the topic that now has the row
  log,        \* the topic's checks in _LATEST_CHECK_ORDER, the newest first
  left,       \* analysis attempts each unprocessed article has left; 0: none stored
  latch,      \* topics.heartbeat_alerted_at
  intents,    \* status of the pending_notifications row of each heartbeat message
  told,       \* history: the messages their target accepted
  check,      \* the checks in progress
  losses,     \* checks that died so far
  missed      \* history: the last row filed has had no heartbeat of this topic, as its check
              \* died first or was a check of the topic that had the row id before

vars == <<world, settings, generation, log, left, latch, intents, told, check,
          losses, missed>>

outbox == <<latch, intents, told>>
environment == <<world, settings, generation, losses>>

Messages == {"alert", "recovery"} \X Outages \X Targets
ToSend(kind, o, S) == {kind} \X {o} \X S

\* What the delivery queue makes of the messages (DeliveryQueue implements it).
Queue == INSTANCE Outbox WITH status <- intents

\* "none" stands for every stage_error that is neither of the other two.
Stages == {"none", "source_failure", "internal"}
Sights == {"up", "dark", "unknown"}

\* seen is history: the sources as the check found them.
Entry == [id : CheckIds \cup {NoId}, stage : Stages \cup {"running"}, seen : Sights]

Settings == [on : BOOLEAN, urls : SUBSET Targets]

\* A check, what it captured when it began, what it will record, and its HeartbeatDecision
\* (kind, head_check_id, latch_value, and whom the intents built from it address).
CheckRec ==
  [pc : {"idle", "fetching", "fetched", "confirmed", "recorded", "deciding"},
   id : CheckIds \cup {NoId}, generation : Generations, settings : Settings,
   stage : Stages, seen : Sights, batch : SUBSET Articles, finished : BOOLEAN,
   kind : {"alert", "recovered", "none"}, head : CheckIds \cup {NoId},
   outage : Outages \cup {NoOutage}, addressees : SUBSET Targets]

NoCheck ==
  [pc |-> "idle", id |-> NoId, generation |-> CHOOSE g \in Generations : TRUE,
   settings |-> [on |-> FALSE, urls |-> {}],
   stage |-> "none", seen |-> "unknown", batch |-> {}, finished |-> FALSE,
   kind |-> "none", head |-> NoId, outage |-> NoOutage, addressees |-> {}]

(***************************************************************************)
(* heartbeat.py                                                            *)
(***************************************************************************)

\* The places of a log that hold a row
Recorded(s) == {i \in DOMAIN s : s[i].stage # "running"}

Above(s, i) == {j \in Recorded(s) : j < i}

\* The checks among the Window newest that learned something about the sources
Observed(s) ==
  {i \in Recorded(s) : s[i].stage # "internal" /\ Cardinality(Above(s, i)) < Window}

\* _leading_failures
Streak(s) ==
  LET seen == Observed(s)
  IN  Cardinality({i \in seen : \A j \in seen : j <= i => s[j].stage = "source_failure"})

Newest(I) == CHOOSE i \in I : \A j \in I : i <= j

HeadId(s) == IF Recorded(s) = {} THEN NoId ELSE s[Newest(Recorded(s))].id

OutageSeen(s) == Streak(s) >= Threshold
HealthSeen(s) == Observed(s) # {} /\ Streak(s) = 0

\* evaluate_heartbeat
Verdict(s, l) ==
  CASE OutageSeen(s) /\ l = NoOutage -> "alert"
    [] HealthSeen(s) /\ l # NoOutage -> "recovered"
    [] OTHER                         -> "none"

(***************************************************************************)
(* A check                                                                 *)
(***************************************************************************)

\* The ids of a deleted topic's rows come back, a decision may still name one.
FreeIds ==
  CheckIds \ ({log[i].id : i \in DOMAIN log}
              \cup {check[c].id : c \in Checkers}
              \cup {check[c].head : c \in {c \in Checkers : check[c].generation = generation}})

FreshId == CHOOSE id \in FreeIds : TRUE

\* What no query reaches any more is forgotten: the rows past the window, and the ids of
\* the rows below the head, which never become the head again.
Trimmed(s) ==
  [i \in 1..Cardinality({i \in DOMAIN s : Cardinality(Above(s, i)) < Window}) |->
     IF i \in Recorded(s) /\ Above(s, i) # {} THEN [s[i] EXCEPT !.id = NoId] ELSE s[i]]

Begin(c) ==
  /\ check[c].pc = "idle"
  /\ FreeIds # {}
  /\ check' = [check EXCEPT ![c] =
                 [NoCheck EXCEPT !.pc = "fetching", !.id = FreshId,
                    !.generation = generation, !.settings = settings]]
  /\ log' = <<[id |-> FreshId, stage |-> "running", seen |-> "unknown"]>> \o log
  /\ UNCHANGED <<environment, left, outbox, missed>>

\* The fetch breaks inside the pipeline: nothing was learned about the sources.
FetchRaises(c) ==
  /\ "pipeline_failure" \in Events
  /\ check[c].pc = "fetching"
  /\ check' = [check EXCEPT ![c] = [@ EXCEPT !.pc = "fetched", !.stage = "internal"]]
  /\ UNCHANGED <<environment, log, left, outbox, missed>>

\* What a check analyzes: as much as its limit allows of what is stored and unprocessed.
Batch(stored) ==
  LET open == {a \in Articles : stored[a] > 0}
  IN  {b \in SUBSET open : Cardinality(b) <= MaxArticles
                            /\ (b = open \/ Cardinality(b) = MaxArticles)}

\* Fetch, store what is new, and analyze it with whatever earlier checks did not finish.
\* A failed analysis or merge replaces the stage_error the fetch had set.
Fetch(c) ==
  /\ check[c].pc = "fetching"
  /\ \E new \in {{}} \cup {{a} : a \in {a \in Articles : world = "up" /\ left[a] = 0}} :
       LET stored == [a \in Articles |-> IF a \in new THEN MaxAttempts ELSE left[a]]
       IN \E batch \in Batch(stored), finished \in BOOLEAN :
            /\ finished \/ ("analysis_failure" \in Events /\ batch # {})
            /\ left' = stored
            /\ check' = [check EXCEPT ![c] =
                 [@ EXCEPT !.pc = "fetched", !.seen = world, !.batch = batch,
                    !.finished = finished,
                    !.stage = IF finished /\ world = "dark" THEN "source_failure" ELSE "none"]]
  /\ UNCHANGED <<environment, log, outbox, missed>>

\* Mutant: a failed analysis costs an article nothing.
UnboundedAttempts(me) ==
  [a \in Articles |-> IF a \in me.batch /\ me.finished THEN 0 ELSE left[a]]

\* mark_articles_processed, record_article_analysis_failure
Attempted(me) ==
  [a \in Articles |-> IF a \notin me.batch THEN left[a]
                     ELSE IF me.finished \/ left[a] = 0 THEN 0 ELSE left[a] - 1]

\* The log with the row of a check in the place that was held for it
Written(me) ==
  [i \in DOMAIN log |->
     IF log[i].id = me.id THEN [log[i] EXCEPT !.stage = me.stage, !.seen = me.seen] ELSE log[i]]

\* The log once a check that filed no row is gone
Vacated(me) ==
  [i \in DOMAIN log |-> IF log[i].id = me.id THEN [log[i] EXCEPT !.id = NoId] ELSE log[i]]

\* What the heartbeat of a recorded check goes by
Filed(me) ==
  [NoCheck EXCEPT !.pc = "recorded", !.generation = me.generation, !.settings = me.settings]

\* CheckTransitionAborted, on either path: the topic was deleted or replaced.
Abort(c) ==
  /\ check[c].pc = "fetched" /\ check[c].generation # generation
  /\ log' = Vacated(check[c])
  /\ check' = [check EXCEPT ![c] = NoCheck]
  /\ UNCHANGED <<environment, left, outbox, missed>>

\* The C3 transaction of a check that analyzed something.
Commit(c) ==
  /\ check[c].pc = "fetched" /\ check[c].generation = generation /\ check[c].batch # {}
  /\ log' = Trimmed(Written(check[c]))
  /\ left' = Attempted(check[c])
  /\ check' = [check EXCEPT ![c] = Filed(check[c])]
  /\ missed' = FALSE
  /\ UNCHANGED <<environment, outbox>>

\* A check with nothing to analyze finds its topic's generation in place, ...
Confirm(c) ==
  /\ check[c].pc = "fetched" /\ check[c].generation = generation /\ check[c].batch = {}
  /\ check' = [check EXCEPT ![c].pc = "confirmed"]
  /\ UNCHANGED <<environment, log, left, outbox, missed>>

\* ... and files its row under the topic's row id, whose topic may by now be another one ...
RecordResult(c) ==
  /\ check[c].pc = "confirmed"
  /\ log' = Trimmed(Written(check[c]))
  /\ check' = [check EXCEPT ![c] = Filed(check[c])]
  /\ missed' = (check[c].generation # generation)
  /\ UNCHANGED <<environment, left, outbox>>

\* ... or there was no topic at that moment, and the foreign key refused the row.
Orphaned(c) ==
  /\ check[c].pc = "confirmed" /\ check[c].generation # generation
  /\ log' = Vacated(check[c])
  /\ check' = [check EXCEPT ![c] = NoCheck]
  /\ UNCHANGED <<environment, left, outbox, missed>>

(***************************************************************************)
(* _run_heartbeat                                                          *)
(***************************************************************************)

\* revoke_heartbeat_intents: only what no sender has claimed.
Revoked(m) == IF intents[m] = "pending" THEN "revoked" ELSE intents[m]

\* Mutant: the all-clear goes to everybody.
ToldEverybody(o) == Targets

\* The targets whose alert for this outage is 'sent'.
Told(o) == {t \in Targets : o # NoOutage /\ intents[<<"alert", o, t>>] = "sent"}

\* The feature was off when this check began.
DisableHere(c) ==
  /\ check[c].pc = "recorded" /\ ~check[c].settings.on
  /\ latch' = IF check[c].generation = generation THEN NoOutage ELSE latch
  /\ intents' = [m \in Messages |-> Revoked(m)]
  /\ check' = [check EXCEPT ![c] = NoCheck]
  /\ UNCHANGED <<environment, log, left, told, missed>>

\* Mutant: a transition with nobody to tell is not made, whichever it is.
Untold(kind, to) == to = {}

\* An alert without a target leaves the latch alone.
Unaddressed(kind, to) == kind = "alert" /\ to = {}

\* evaluate_heartbeat and the list of targets, read before the write transaction.
Decide(c) ==
  LET me   == check[c]
      kind == Verdict(log, latch)
      to   == CASE kind = "alert"     -> me.settings.urls
                [] kind = "recovered" -> Told(latch) \cap me.settings.urls
                [] OTHER              -> {}
  IN /\ me.pc = "recorded" /\ me.settings.on
     /\ check' = [check EXCEPT ![c] =
          IF kind = "none" \/ Unaddressed(kind, to)
            THEN NoCheck
            ELSE [me EXCEPT !.pc = "deciding", !.kind = kind, !.head = HeadId(log),
                    !.outage = IF kind = "alert" THEN NoOutage ELSE latch,
                    !.addressees = to]]
     /\ UNCHANGED <<environment, log, left, outbox, missed>>

\* Mutant: the fence lacks its second conjunct.
FenceGenerationOnly(c) == check[c].generation = generation

\* The generation and the head the decision was computed from must still stand.
Fence(c) == check[c].generation = generation /\ check[c].head = HeadId(log)

\* The names a new outage can take: heartbeat_alerted_at is the moment of the decision.
FreeOutages ==
  {o \in Outages : /\ o # latch /\ \A c \in Checkers : check[c].outage # o
                   /\ \A m \in Messages : m[2] = o => intents[m] \notin {"pending", "sending"}}

\* Revoke what is queued, then insert one intent per target (the rows of an outage whose
\* name is taken again are long gone).
AlertIntents(o, to) ==
  [m \in Messages |->
     IF m \in ToSend("alert", o, to) THEN "pending"
     ELSE IF m[2] = o THEN "none" ELSE Revoked(m)]

ClaimAlert(c) ==
  /\ check[c].pc = "deciding" /\ check[c].kind = "alert"
  /\ Fence(c) /\ latch = NoOutage
  /\ FreeOutages # {}
  /\ LET o == CHOOSE o \in FreeOutages : TRUE
     IN /\ latch' = o
        /\ intents' = AlertIntents(o, check[c].addressees)
        /\ told' = {m \in told : m[2] # o}
  /\ check' = [check EXCEPT ![c] = NoCheck]
  /\ UNCHANGED <<environment, log, left, missed>>

ClearAlert(c) ==
  /\ check[c].pc = "deciding" /\ check[c].kind = "recovered"
  /\ Fence(c) /\ latch # NoOutage
  /\ latch' = NoOutage
  /\ intents' = [m \in Messages |->
                   IF m \in ToSend("recovery", check[c].outage, check[c].addressees)
                     THEN "pending" ELSE Revoked(m)]
  /\ check' = [check EXCEPT ![c] = NoCheck]
  /\ UNCHANGED <<environment, log, left, told, missed>>

\* Somebody else announced it, or a newer check superseded the decision: rollback.
LoseClaim(c) ==
  /\ check[c].pc = "deciding"
  /\ ~Fence(c) \/ (check[c].kind = "alert") = (latch # NoOutage)
  /\ check' = [check EXCEPT ![c] = NoCheck]
  /\ UNCHANGED <<environment, log, left, outbox, missed>>

CheckStep(c) ==
  \/ Begin(c) \/ Fetch(c) \/ FetchRaises(c)
  \/ Abort(c) \/ Commit(c) \/ Confirm(c) \/ RecordResult(c) \/ Orphaned(c)
  \/ DisableHere(c) \/ Decide(c) \/ ClaimAlert(c)
  \/ ClearAlert(c) \/ LoseClaim(c)

(***************************************************************************)
(* Delivery: the steps that Outbox has for one message                     *)
(***************************************************************************)

Send(m) ==
  /\ Queue!Claim(m)
  /\ UNCHANGED <<environment, log, left, latch, check, missed>>

\* The target takes the message, which the program may never learn.
Accept(m) ==
  /\ Queue!Accept(m)
  /\ UNCHANGED <<environment, log, left, latch, check, missed>>

Sent(m) ==
  /\ Queue!Sent(m)
  /\ UNCHANGED <<environment, log, left, latch, check, missed>>

\* The attempt fails, and was the last one.
GivenUp(m) ==
  /\ "send_failure" \in Events
  /\ Queue!Fail(m, "abandoned")
  /\ UNCHANGED <<environment, log, left, latch, check, missed>>

\* It fails with attempts left, or nobody learns how it ended and the stale release has
\* queued the row again.
QueuedAgain(m) ==
  /\ "send_retry" \in Events
  /\ Queue!Fail(m, "pending")
  /\ UNCHANGED <<environment, log, left, latch, check, missed>>

Deliver(m) ==
  \/ Send(m) \/ Accept(m) \/ Sent(m)
  \/ GivenUp(m) \/ QueuedAgain(m)

(***************************************************************************)
(* Around the checks                                                       *)
(***************************************************************************)

\* A check dies: a crash, its deadline, or an exception its caller logs.
Lose(c) ==
  /\ "loss" \in Events /\ losses < MaxLosses
  /\ check[c].pc # "idle"
  /\ losses' = losses + 1
  /\ missed' = (missed \/ check[c].pc \in {"recorded", "deciding"})
  /\ log' = Vacated(check[c])
  /\ check' = [check EXCEPT ![c] = NoCheck]
  /\ UNCHANGED <<world, settings, generation, left, outbox>>

WorldTurns ==
  /\ world' = IF world = "up" THEN "dark" ELSE "up"
  /\ UNCHANGED <<settings, generation, log, left, outbox, check, losses, missed>>

\* Mutant: switching the feature off revokes what is queued and keeps the latches.
SaveSettingsKeepingLatch ==
  /\ "configure" \in Events
  /\ \E s \in Settings \ {settings} :
       /\ settings' = s
       /\ intents' = IF settings.on /\ ~s.on THEN [m \in Messages |-> Revoked(m)] ELSE intents
  /\ UNCHANGED <<world, generation, log, left, latch, told, check, losses, missed>>

\* The settings page; switching the feature off resets every latch and queued message.
SaveSettings ==
  /\ "configure" \in Events
  /\ \E s \in Settings \ {settings} :
       /\ settings' = s
       /\ IF settings.on /\ ~s.on
            THEN latch' = NoOutage /\ intents' = [m \in Messages |-> Revoked(m)]
            ELSE UNCHANGED <<latch, intents>>
  /\ UNCHANGED <<world, generation, log, left, told, check, losses, missed>>

\* The places that the checks in progress hold
Held == {i \in DOMAIN log : log[i].stage = "running" /\ log[i].id # NoId}

\* The topic is deleted and the next topic created takes its row id.  Its log is empty; a
\* check of the old topic keeps the place its checked_at gives it.
Replace ==
  /\ "replace" \in Events
  /\ \E g \in Generations \ {generation} :
       /\ \A c \in Checkers : check[c].pc # "idle" => check[c].generation # g
       /\ generation' = g
  /\ \E f \in [1..Cardinality(Held) -> Held] :
       /\ \A k, l \in DOMAIN f : k < l => f[k] < f[l]
       /\ log' = [k \in DOMAIN f |-> log[f[k]]]
  /\ left' = [a \in Articles |-> 0] /\ latch' = NoOutage
  /\ intents' = [m \in Messages |-> "none"] /\ told' = {}
  /\ missed' = FALSE
  /\ UNCHANGED <<world, settings, check, losses>>

Init ==
  /\ world = "up"
  /\ settings = [on |-> TRUE, urls |-> Targets]
  /\ generation = CHOOSE g \in Generations : TRUE
  /\ log = <<>> /\ left = [a \in Articles |-> 0]
  /\ latch = NoOutage /\ intents = [m \in Messages |-> "none"] /\ told = {}
  /\ check = [c \in Checkers |-> NoCheck]
  /\ losses = 0 /\ missed = FALSE

Next ==
  \/ \E c \in Checkers : CheckStep(c)
  \/ \E m \in Messages : Deliver(m)
  \/ \E c \in Checkers : Lose(c)
  \/ WorldTurns
  \/ SaveSettings
  \/ Replace

Spec == Init /\ [][Next]_vars

\* The scheduler checks the topic again and again, a check that runs goes on, and a message
\* that is queued or claimed moves on (MCDelivery, DrainedIntentsSettle).
Fairness ==
  /\ \A c \in Checkers : WF_vars(CheckStep(c))
  /\ \A m \in Messages : WF_vars(Send(m) \/ Sent(m) \/ GivenUp(m))

FairSpec == Spec /\ Fairness

(***************************************************************************)
(* Properties                                                              *)
(***************************************************************************)

\* Every variable keeps its range, and no two places of the log have one id.
TypeOK ==
  /\ world \in {"up", "dark"} /\ settings \in Settings /\ generation \in Generations
  /\ log \in Seq(Entry)
  /\ \A i, j \in DOMAIN log : log[i].id = log[j].id /\ log[i].id # NoId => i = j
  /\ left \in [Articles -> 0..MaxAttempts]
  /\ latch \in Outages \cup {NoOutage}
  /\ intents \in [Messages -> Queue!Statuses] /\ told \in SUBSET Messages
  /\ check \in [Checkers -> CheckRec]
  /\ losses \in 0..MaxLosses /\ missed \in BOOLEAN

\* An all-clear reaches only a target that received that outage's alert
\* (list_sent_heartbeat_alert_targets), whatever attempts and outages came between.
RecoveryOnlyToTold ==
  \A o \in Outages, t \in Targets :
    <<"recovery", o, t>> \in told => <<"alert", o, t>> \in told

\* While an outage stands announced, no target's announcement of it has been revoked: the
\* revocations that ride on a transition never catch what the latch still promises.
LatchIsOwed ==
  \A o \in Outages, t \in Targets : latch = o => intents[<<"alert", o, t>>] # "revoked"

RecoveryCommitted ==
  \E o \in Outages, t \in Targets :
    /\ intents[<<"recovery", o, t>>] \notin {"pending", "sending"}
    /\ intents'[<<"recovery", o, t>>] = "pending"

Quiet ==
  /\ ~missed
  /\ \A c \in Checkers : check[c].pc \notin {"recorded", "deciding"}

\* Once the heartbeats of the recorded checks are done, the latch says what the rows say:
\* a check that lost its claim or filed late leaves no outage unannounced and none announced
\* that is over, and what one that died, or one of the topic that had the row id before,
\* left undone is made good by the next check.
LatchTracksLog ==
  Quiet => /\ OutageSeen(log) => latch # NoOutage
           /\ HealthSeen(log) => latch = NoOutage

\* A recovery is announced by a check that saw a working source.
RecoveryMeansUp == [][RecoveryCommitted => log[Newest(Observed(log))].seen = "up"]_vars

\* If the sources stay dark, the outage is announced for good: the unfinished articles that
\* let a check look healthy run out of attempts.
OutageAnnounced == <>[](world = "dark") => <>[](latch # NoOutage)

\* If they stay up, no outage stays announced.
RecoveryAnnounced == <>[](world = "up") => <>[](latch = NoOutage)
============================================================================
