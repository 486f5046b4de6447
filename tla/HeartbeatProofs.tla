-------------------------- MODULE HeartbeatProofs --------------------------
(***************************************************************************)
(* What the heartbeat tells its targets: an all-clear only to who heard    *)
(* the alarm, no alarm revoked that still stands, and a latch that says    *)
(* what the rows say; and that it asks of its queue what Outbox promises.  *)
(***************************************************************************)
EXTENDS Heartbeat, FiniteSetTheorems, WellFoundedInduction, TLAPS

(***************************************************************************)
(* The ranges the proofs need                                              *)
(***************************************************************************)

CheckFields ==
  {"pc", "id", "generation", "settings", "stage", "seen", "batch", "finished", "kind",
   "head", "outage", "addressees"}

Shaped(k) ==
  /\ DOMAIN k = CheckFields
  /\ k.pc \in {"idle", "fetching", "fetched", "confirmed", "recorded", "deciding"}
  /\ k.generation \in Generations /\ k.settings \in Settings
  /\ k.stage \in Stages /\ k.seen \in Sights
  /\ k.kind \in {"alert", "recovered", "none"}
  /\ k.addressees \in SUBSET Targets

CheckType ==
  /\ check = [c \in Checkers |-> check[c]]
  /\ \A c \in Checkers : Shaped(check[c])

TypeInv ==
  /\ world \in {"up", "dark"}
  /\ generation \in Generations
  /\ settings \in Settings
  /\ latch \in Outages \cup {NoOutage}
  /\ intents \in [Messages -> Queue!Statuses] /\ told \in SUBSET Messages
  /\ CheckType

(***************************************************************************)
(* An all-clear goes to who heard the alarm                                *)
(***************************************************************************)

\* What is on its way, or has arrived, was preceded by the alert.
ToldInv ==
  \A o \in Outages, t \in Targets :
    /\ intents[<<"alert", o, t>>] = "sent" => <<"alert", o, t>> \in told
    /\ \/ intents[<<"recovery", o, t>>] \in {"pending", "sending", "sent"}
       \/ <<"recovery", o, t>> \in told
       => <<"alert", o, t>> \in told

\* The decision to recover addresses those who were told.
AddresseesInv ==
  \A c \in Checkers :
    check[c].pc = "deciding" /\ check[c].kind = "recovered" /\ check[c].generation = generation =>
      \A t \in check[c].addressees :
        check[c].outage \in Outages /\ <<"alert", check[c].outage, t>> \in told

RecoveryInv == TypeInv /\ ToldInv /\ AddresseesInv

(***************************************************************************)
(* An alarm that stands was not revoked                                    *)
(***************************************************************************)

\* A check that will switch the feature off does so for its own topic, or finds no alarm.
DisablingInv ==
  \A c \in Checkers :
    check[c].pc # "idle" /\ ~check[c].settings.on =>
      check[c].generation = generation \/ latch = NoOutage

\* Without settings changes the feature is on; without deletions a check's topic is there.
OnInv ==
  "configure" \notin Events =>
    settings.on /\ \A c \in Checkers : check[c].pc # "idle" => check[c].settings.on
CurrentInv ==
  "replace" \notin Events => \A c \in Checkers : check[c].pc # "idle" => check[c].generation = generation

OwedInv == TypeInv /\ OnInv /\ CurrentInv /\ DisablingInv /\ LatchIsOwed

(***************************************************************************)
(* The latch says what the rows say                                        *)
(***************************************************************************)

Running(c) == check[c].pc \in {"fetching", "fetched", "confirmed"}
Deciding(c) == check[c].pc = "deciding" /\ check[c].generation = generation

\* A log of rows and of places without one, none of them an internal failure.
Log(s) == s \in Seq(Entry) /\ \A i \in DOMAIN s : s[i].stage # "internal"

\* Ids name one row; only rows below the newest have lost theirs.
LogInv ==
  /\ Log(log)
  /\ \A i, j \in DOMAIN log : log[i].id = log[j].id /\ log[i].id # NoId => i = j
  /\ \A i \in Recorded(log) : log[i].id = NoId => Above(log, i) # {}

\* A running check's id names no row, and is no other check's.
RunningInv ==
  \A c \in Checkers :
    /\ check[c].pc \in {"recorded", "deciding"} => check[c].id = NoId
    /\ Running(c) =>
         /\ check[c].id \in CheckIds /\ check[c].stage # "internal"
         /\ \A i \in Recorded(log) : log[i].id # check[c].id
         /\ \A d \in Checkers : /\ Running(d) /\ check[d].id = check[c].id => d = c
                                /\ Deciding(d) => check[d].head # check[c].id

\* A decision is right about the row it was computed from.
HeadInv ==
  \A c \in Checkers : Deciding(c) =>
    /\ check[c].kind \in {"alert", "recovered"}
    /\ check[c].head \in CheckIds
    /\ \A i \in Recorded(log) : log[i].id = check[c].head =>
         (check[c].kind = "alert" <=> log[i].stage = "source_failure")

\* The decisions that a claim may still carry out
Armed(c) ==
  Deciding(c) /\ check[c].head = HeadId(log) /\ (check[c].kind = "alert" <=> latch = NoOutage)

Waiting(c) == (check[c].pc = "recorded" /\ check[c].generation = generation) \/ Armed(c)

Tracks ==
  /\ OutageSeen(log) => latch # NoOutage
  /\ HealthSeen(log) => latch = NoOutage

\* Nobody changes the settings.
AllOn ==
  /\ settings = [on |-> TRUE, urls |-> Targets]
  /\ \A c \in Checkers : check[c].pc # "idle" => check[c].settings = settings

SettledInv == missed \/ (\E c \in Checkers : Waiting(c)) \/ Tracks

TrackInv == TypeInv /\ AllOn /\ LogInv /\ RunningInv /\ HeadInv /\ SettledInv

(***************************************************************************)
(* Ranges                                                                  *)
(***************************************************************************)

LEMMA NoCheckShaped ==
  /\ Shaped(NoCheck)
  /\ NoCheck.pc = "idle" /\ NoCheck.id = NoId /\ NoCheck.stage = "none"
  /\ NoCheck.outage = NoOutage
<1>1. (CHOOSE g \in Generations : TRUE) \in Generations
  BY HeartbeatAssumption
<1> QED
  BY <1>1 DEF Shaped, NoCheck, CheckFields, Stages, Sights, Settings

\* One check comes to hold k.
Moves(c, k) == check' = [check EXCEPT ![c] = k]

LEMMA OneMoves ==
  ASSUME CheckType, NEW c \in Checkers, NEW k, Shaped(k), Moves(c, k)
  PROVE  /\ CheckType'
         /\ check'[c] = k
         /\ \A d \in Checkers : d # c => check'[d] = check[d]
<1>1. check'[c] = k /\ \A d \in Checkers : d # c => check'[d] = check[d]
  BY DEF CheckType, Moves
<1>2. check' = [d \in Checkers |-> check'[d]]
  BY DEF CheckType, Moves
<1>3. \A d \in Checkers : Shaped(check'[d])
  BY <1>1 DEF CheckType
<1> QED
  BY <1>1, <1>2, <1>3 DEF CheckType, Shaped

\* What a check holds when it began.
Begun(id) ==
  [NoCheck EXCEPT !.pc = "fetching", !.id = id, !.generation = generation, !.settings = settings]

LEMMA BegunShape ==
  ASSUME TypeInv, NEW id
  PROVE  /\ Shaped(Begun(id))
         /\ Begun(id).pc = "fetching" /\ Begun(id).id = id
         /\ Begun(id).generation = generation /\ Begun(id).settings = settings
         /\ Begun(id).stage = "none" /\ Begun(id).outage = NoOutage
<1>1. \A k : k = Begun(id) =>
        /\ DOMAIN k = DOMAIN NoCheck /\ k.pc = "fetching" /\ k.id = id
        /\ k.generation = generation /\ k.settings = settings
        /\ k.stage = NoCheck.stage /\ k.outage = NoCheck.outage /\ k.kind = NoCheck.kind
        /\ k.addressees = NoCheck.addressees /\ k.seen = NoCheck.seen
  BY NoCheckShaped DEF Begun, Shaped, CheckFields
<1> QED
  BY <1>1, NoCheckShaped DEF Shaped, TypeInv

LEMMA FiledShape ==
  ASSUME NEW me, Shaped(me)
  PROVE  /\ Shaped(Filed(me))
         /\ Filed(me).pc = "recorded" /\ Filed(me).id = NoId /\ Filed(me).outage = NoOutage
         /\ Filed(me).generation = me.generation /\ Filed(me).settings = me.settings
<1>1. \A k : k = Filed(me) =>
        /\ DOMAIN k = DOMAIN NoCheck /\ k.pc = "recorded" /\ k.id = NoCheck.id
        /\ k.generation = me.generation /\ k.settings = me.settings
        /\ k.stage = NoCheck.stage /\ k.outage = NoCheck.outage /\ k.kind = NoCheck.kind
        /\ k.addressees = NoCheck.addressees /\ k.seen = NoCheck.seen
  BY NoCheckShaped DEF Filed, Shaped, CheckFields
<1> QED
  BY <1>1, NoCheckShaped DEF Shaped

\* What a check holds once it fetched.
Fetched(me, stage, seen, batch, finished) ==
  [me EXCEPT !.pc = "fetched", !.seen = seen, !.batch = batch, !.finished = finished,
             !.stage = stage]

LEMMA FetchedShape ==
  ASSUME NEW me, Shaped(me), NEW stage \in Stages, NEW seen \in Sights, NEW batch, NEW finished
  PROVE  LET k == Fetched(me, stage, seen, batch, finished)
         IN  /\ Shaped(k) /\ k.pc = "fetched" /\ k.stage = stage
             /\ k.id = me.id /\ k.generation = me.generation /\ k.settings = me.settings
             /\ k.outage = me.outage
<1>1. \A k : k = Fetched(me, stage, seen, batch, finished) =>
        /\ DOMAIN k = DOMAIN me /\ k.pc = "fetched" /\ k.stage = stage
        /\ k.id = me.id /\ k.generation = me.generation /\ k.settings = me.settings
        /\ k.outage = me.outage /\ k.kind = me.kind /\ k.addressees = me.addressees
        /\ k.seen = seen
  BY DEF Fetched, Shaped, CheckFields
<1> QED
  BY <1>1 DEF Shaped

Raised(me) == [me EXCEPT !.pc = "fetched", !.stage = "internal"]

LEMMA RaisedShape ==
  ASSUME NEW me, Shaped(me)
  PROVE  /\ Shaped(Raised(me)) /\ Raised(me).pc = "fetched"
         /\ Raised(me).generation = me.generation /\ Raised(me).settings = me.settings
         /\ Raised(me).outage = me.outage
<1>1. \A k : k = Raised(me) =>
        /\ DOMAIN k = DOMAIN me /\ k.pc = "fetched" /\ k.stage = "internal"
        /\ k.generation = me.generation /\ k.settings = me.settings
        /\ k.outage = me.outage /\ k.kind = me.kind /\ k.addressees = me.addressees
        /\ k.seen = me.seen
  BY DEF Raised, Shaped, CheckFields
<1> QED
  BY <1>1 DEF Shaped, Stages

Confirmed(me) == [me EXCEPT !.pc = "confirmed"]

LEMMA ConfirmedShape ==
  ASSUME NEW me, Shaped(me)
  PROVE  /\ Shaped(Confirmed(me)) /\ Confirmed(me).pc = "confirmed"
         /\ Confirmed(me).id = me.id /\ Confirmed(me).stage = me.stage
         /\ Confirmed(me).generation = me.generation /\ Confirmed(me).settings = me.settings
         /\ Confirmed(me).outage = me.outage
<1>1. \A k : k = Confirmed(me) =>
        /\ DOMAIN k = DOMAIN me /\ k.pc = "confirmed" /\ k.id = me.id /\ k.stage = me.stage
        /\ k.generation = me.generation /\ k.settings = me.settings
        /\ k.outage = me.outage /\ k.kind = me.kind /\ k.addressees = me.addressees
        /\ k.seen = me.seen
  BY DEF Confirmed, Shaped, CheckFields
<1> QED
  BY <1>1 DEF Shaped

\* What a check decided.
Decided(me, kind, head, outage, to) ==
  [me EXCEPT !.pc = "deciding", !.kind = kind, !.head = head, !.outage = outage,
             !.addressees = to]

LEMMA DecidedShape ==
  ASSUME NEW me, Shaped(me), NEW kind \in {"alert", "recovered", "none"}, NEW head, NEW outage,
         NEW to \in SUBSET Targets
  PROVE  LET k == Decided(me, kind, head, outage, to)
         IN  /\ Shaped(k) /\ k.pc = "deciding" /\ k.kind = kind /\ k.head = head
             /\ k.outage = outage /\ k.addressees = to
             /\ k.id = me.id /\ k.generation = me.generation /\ k.settings = me.settings
<1>1. \A k : k = Decided(me, kind, head, outage, to) =>
        /\ DOMAIN k = DOMAIN me /\ k.pc = "deciding" /\ k.kind = kind /\ k.head = head
        /\ k.outage = outage /\ k.addressees = to /\ k.stage = me.stage /\ k.seen = me.seen
        /\ k.id = me.id /\ k.generation = me.generation /\ k.settings = me.settings
  BY DEF Decided, Shaped, CheckFields
<1> QED
  BY <1>1 DEF Shaped

(***************************************************************************)
(* What each step makes of the checks                                      *)
(***************************************************************************)

\* Only c's check moves, and stays a check.
OnlyMoves(c) == CheckType' /\ \A d \in Checkers : d # c => check'[d] = check[d]

\* Its topic, settings and outage stay.
Same(c) ==
  /\ check'[c].generation = check[c].generation
  /\ check'[c].settings = check[c].settings
  /\ check'[c].outage = check[c].outage

LEMMA BeginMoves ==
  ASSUME TypeInv, NEW c \in Checkers, Begin(c)
  PROVE  /\ OnlyMoves(c)
         /\ check'[c].pc = "fetching" /\ check'[c].stage = "none"
         /\ check'[c].id = FreshId /\ FreshId \in FreeIds
         /\ check'[c].generation = generation /\ check'[c].settings = settings
         /\ check'[c].outage = NoOutage
<1>1. Moves(c, Begun(FreshId))
  BY DEF Begin, Moves, Begun
<1>2. FreshId \in FreeIds
  BY DEF Begin, FreshId
<1> QED
  BY <1>1, <1>2, BegunShape, OneMoves DEF OnlyMoves, TypeInv

LEMMA FetchMoves ==
  ASSUME TypeInv, NEW c \in Checkers, Fetch(c)
  PROVE  /\ OnlyMoves(c) /\ Same(c)
         /\ check[c].pc = "fetching" /\ check'[c].pc = "fetched"
         /\ check'[c].id = check[c].id /\ check'[c].stage \in {"source_failure", "none"}
<1>1. \E stage \in {"source_failure", "none"} : \E batch, finished :
        Moves(c, Fetched(check[c], stage, world, batch, finished))
  <2>1. PICK batch, finished : check' = [check EXCEPT ![c] =
                 [@ EXCEPT !.pc = "fetched", !.seen = world, !.batch = batch,
                    !.finished = finished,
                    !.stage = IF finished /\ world = "dark" THEN "source_failure" ELSE "none"]]
    BY DEF Fetch
  <2> DEFINE stage == IF finished /\ world = "dark" THEN "source_failure" ELSE "none"
  <2>2. Moves(c, Fetched(check[c], stage, world, batch, finished))
    BY <2>1 DEF Moves, Fetched
  <2>3. stage \in {"source_failure", "none"}
    OBVIOUS
  <2> QED
    BY <2>2, <2>3
<1>2. PICK stage \in {"source_failure", "none"} : \E batch, finished :
        Moves(c, Fetched(check[c], stage, world, batch, finished))
  BY <1>1
<1>3. PICK batch, finished : Moves(c, Fetched(check[c], stage, world, batch, finished))
  BY <1>2
<1>4. stage \in Stages /\ world \in Sights /\ Shaped(check[c]) /\ check[c].pc = "fetching"
  BY DEF Stages, Sights, TypeInv, CheckType, Fetch
<1>5. LET k == Fetched(check[c], stage, world, batch, finished)
      IN  /\ Shaped(k) /\ k.pc = "fetched" /\ k.stage = stage
          /\ k.id = check[c].id /\ k.generation = check[c].generation
          /\ k.settings = check[c].settings /\ k.outage = check[c].outage
  BY <1>4, FetchedShape
<1> QED
  BY <1>3, <1>4, <1>5, OneMoves DEF OnlyMoves, Same, TypeInv

LEMMA RaisesMoves ==
  ASSUME TypeInv, NEW c \in Checkers, FetchRaises(c)
  PROVE  OnlyMoves(c) /\ Same(c) /\ check'[c].pc = "fetched" /\ check[c].pc = "fetching"
<1>1. Moves(c, Raised(check[c])) /\ Shaped(check[c]) /\ check[c].pc = "fetching"
  BY DEF FetchRaises, Moves, Raised, CheckType, TypeInv
<1> QED
  BY <1>1, RaisedShape, OneMoves DEF OnlyMoves, Same, TypeInv

LEMMA OverMoves ==
  ASSUME TypeInv, NEW c \in Checkers, check' = [check EXCEPT ![c] = NoCheck]
  PROVE  OnlyMoves(c) /\ check'[c].pc = "idle" /\ check'[c].outage = NoOutage
<1>1. Moves(c, NoCheck)
  BY DEF Moves
<1> QED
  BY <1>1, NoCheckShaped, OneMoves DEF OnlyMoves, TypeInv

LEMMA ConfirmMoves ==
  ASSUME TypeInv, NEW c \in Checkers, Confirm(c)
  PROVE  /\ OnlyMoves(c) /\ Same(c)
         /\ check[c].pc = "fetched" /\ check'[c].pc = "confirmed"
         /\ check'[c].id = check[c].id /\ check'[c].stage = check[c].stage
<1>1. Moves(c, Confirmed(check[c])) /\ Shaped(check[c]) /\ check[c].pc = "fetched"
  BY DEF Confirm, Moves, Confirmed, CheckType, TypeInv
<1> QED
  BY <1>1, ConfirmedShape, OneMoves DEF OnlyMoves, Same, TypeInv

\* The row of c's check is filed, in one transaction with the outcome or on its own.
Files(c) == Commit(c) \/ RecordResult(c)

LEMMA FilesMoves ==
  ASSUME TypeInv, NEW c \in Checkers, Files(c)
  PROVE  /\ OnlyMoves(c) /\ check'[c].outage = NoOutage /\ check'[c].id = NoId
         /\ check[c].pc \in {"fetched", "confirmed"} /\ check'[c].pc = "recorded"
         /\ check'[c].generation = check[c].generation /\ check'[c].settings = check[c].settings
         /\ log' = Trimmed(Written(check[c]))
         /\ check[c].generation # generation => missed'
         /\ UNCHANGED <<environment, outbox>>
<1>1. /\ Moves(c, Filed(check[c])) /\ check[c].pc \in {"fetched", "confirmed"}
      /\ log' = Trimmed(Written(check[c])) /\ UNCHANGED <<environment, outbox>>
      /\ check[c].generation # generation => missed'
  BY DEF Files, Commit, RecordResult, Moves
<1>2. Shaped(check[c])
  BY DEF CheckType, TypeInv
<1> QED
  BY <1>1, <1>2, FiledShape, OneMoves DEF OnlyMoves, TypeInv

\* The check of a topic that is gone ends without a row.
Vanishes(c) == Abort(c) \/ Orphaned(c)

LEMMA VanishesMoves ==
  ASSUME TypeInv, NEW c \in Checkers, Vanishes(c)
  PROVE  /\ OnlyMoves(c) /\ check'[c].outage = NoOutage
         /\ check[c].pc \in {"fetched", "confirmed"} /\ check'[c].pc = "idle"
         /\ log' = Vacated(check[c]) /\ UNCHANGED <<environment, outbox, missed>>
<1>1. /\ check' = [check EXCEPT ![c] = NoCheck] /\ check[c].pc \in {"fetched", "confirmed"}
      /\ log' = Vacated(check[c]) /\ UNCHANGED <<environment, outbox, missed>>
  BY DEF Vanishes, Abort, Orphaned
<1> QED
  BY <1>1, OverMoves

\* What a check decides, and for whom.
Addressed(c) ==
  LET kind == Verdict(log, latch)
  IN  CASE kind = "alert"     -> check[c].settings.urls
        [] kind = "recovered" -> Told(latch) \cap check[c].settings.urls
        [] OTHER              -> {}

LEMMA DecideMoves ==
  ASSUME TypeInv, NEW c \in Checkers, Decide(c)
  PROVE  /\ OnlyMoves(c) /\ check[c].pc = "recorded" /\ check[c].settings.on
         /\ \/ /\ check'[c].pc = "idle" /\ check'[c].outage = NoOutage
               /\ Verdict(log, latch) = "none" \/ Unaddressed(Verdict(log, latch), Addressed(c))
            \/ /\ check'[c].pc = "deciding" /\ check'[c].id = check[c].id
               /\ check'[c].generation = check[c].generation
               /\ check'[c].settings = check[c].settings
               /\ check'[c].kind = Verdict(log, latch) /\ Verdict(log, latch) \in {"alert", "recovered"}
               /\ check'[c].head = HeadId(log)
               /\ check'[c].addressees = Addressed(c)
               /\ check'[c].outage = IF Verdict(log, latch) = "alert" THEN NoOutage ELSE latch
<1> DEFINE kind == Verdict(log, latch)
           to == Addressed(c)
<1>1. check' = [check EXCEPT ![c] =
          IF kind = "none" \/ Unaddressed(kind, to)
            THEN NoCheck
            ELSE Decided(check[c], kind, HeadId(log), IF kind = "alert" THEN NoOutage ELSE latch, to)]
      /\ check[c].pc = "recorded" /\ check[c].settings.on
  BY DEF Decide, Decided, Addressed
<1>2. kind \in {"alert", "recovered", "none"}
  BY DEF Verdict
<1>3. to \in SUBSET Targets
  BY DEF Addressed, Settings, Told, TypeInv, CheckType, Shaped
<1> HIDE DEF kind, to
<1>4. CASE kind = "none" \/ Unaddressed(kind, to)
  <2>1. check' = [check EXCEPT ![c] = NoCheck]
    BY <1>1, <1>4
  <2> QED
    BY <1>1, <1>4, <2>1, OverMoves DEF kind, to
<1>5. CASE ~(kind = "none" \/ Unaddressed(kind, to))
  <2> DEFINE k == Decided(check[c], kind, HeadId(log), IF kind = "alert" THEN NoOutage ELSE latch, to)
  <2>1. Moves(c, k)
    BY <1>1, <1>5 DEF Moves
  <2>2. Shaped(check[c])
    BY DEF TypeInv, CheckType
  <2>3. /\ Shaped(k) /\ k.pc = "deciding" /\ k.kind = kind /\ k.head = HeadId(log)
        /\ k.outage = (IF kind = "alert" THEN NoOutage ELSE latch) /\ k.addressees = to
        /\ k.id = check[c].id
        /\ k.generation = check[c].generation /\ k.settings = check[c].settings
    BY <1>2, <1>3, <2>2, DecidedShape
  <2> HIDE DEF k
  <2>4. /\ CheckType' /\ check'[c] = k
        /\ \A d \in Checkers : d # c => check'[d] = check[d]
    BY <2>1, <2>3, OneMoves DEF TypeInv
  <2>5. kind \in {"alert", "recovered"}
    BY <1>2, <1>5
  <2> QED
    BY <1>1, <2>3, <2>4, <2>5 DEF OnlyMoves, kind, to
<1> QED
  BY <1>4, <1>5

(***************************************************************************)
(* Every step keeps the ranges                                             *)
(***************************************************************************)

Outside == <<world, settings, generation, latch, intents, told>>

LEMMA RevokedStatus == ASSUME TypeInv, NEW m \in Messages PROVE Revoked(m) \in Queue!Statuses
BY DEF TypeInv, Revoked, Queue!Statuses

LEMMA CheckTypes ==
  ASSUME TypeInv, NEW c \in Checkers, CheckStep(c)
  PROVE  TypeInv'
<1>1. ASSUME OnlyMoves(c), UNCHANGED Outside PROVE TypeInv'
  BY <1>1 DEF OnlyMoves, Outside, TypeInv
<1>2. CASE Begin(c)
  BY <1>1, <1>2, BeginMoves DEF Begin, Outside, outbox, environment
<1>3. CASE Fetch(c)
  BY <1>1, <1>3, FetchMoves DEF Fetch, Outside, outbox, environment
<1>4. CASE FetchRaises(c)
  BY <1>1, <1>4, RaisesMoves DEF FetchRaises, Outside, outbox, environment
<1>5. CASE Files(c) \/ Vanishes(c)
  BY <1>1, <1>5, FilesMoves, VanishesMoves DEF Outside, outbox, environment
<1>11. CASE Confirm(c)
  BY <1>1, <1>11, ConfirmMoves DEF Confirm, Outside, outbox, environment
<1>6. CASE Decide(c)
  BY <1>1, <1>6, DecideMoves DEF Decide, Outside, outbox, environment
<1>7. CASE LoseClaim(c)
  BY <1>1, <1>7, OverMoves DEF LoseClaim, Outside, outbox, environment
<1>8. CASE DisableHere(c)
  <2>1. OnlyMoves(c)
    BY <1>8, OverMoves DEF DisableHere
  <2>2. intents' \in [Messages -> Queue!Statuses]
    BY <1>8, RevokedStatus DEF DisableHere
  <2> QED
    BY <1>8, <2>1, <2>2 DEF DisableHere, OnlyMoves, environment, TypeInv
<1>9. CASE ClaimAlert(c)
  <2>1. OnlyMoves(c)
    BY <1>9, OverMoves DEF ClaimAlert
  <2>2. PICK o \in Outages : /\ latch' = o /\ intents' = AlertIntents(o, check[c].addressees)
                             /\ told' = {m \in told : m[2] # o}
    BY <1>9 DEF ClaimAlert, FreeOutages
  <2>3. intents' \in [Messages -> Queue!Statuses]
    BY <2>2, RevokedStatus DEF AlertIntents, Queue!Statuses
  <2> QED
    BY <1>9, <2>1, <2>2, <2>3 DEF ClaimAlert, OnlyMoves, environment, TypeInv
<1>10. CASE ClearAlert(c)
  <2>1. OnlyMoves(c)
    BY <1>10, OverMoves DEF ClearAlert
  <2>2. intents' \in [Messages -> Queue!Statuses]
    BY <1>10, RevokedStatus DEF ClearAlert, Queue!Statuses
  <2> QED
    BY <1>10, <2>1, <2>2 DEF ClearAlert, OnlyMoves, environment, TypeInv
<1> QED
  BY <1>2, <1>3, <1>4, <1>5, <1>6, <1>7, <1>8, <1>9, <1>10, <1>11
     DEF CheckStep, Files, Vanishes

LEMMA CheckTypeStays == ASSUME TypeInv, check' = check PROVE CheckType'
BY DEF TypeInv, CheckType, Shaped

\* What the queue does with one message: no revocation, and 'sent' only if it was taken.
LEMMA DeliverStep ==
  ASSUME TypeInv, NEW m \in Messages, Deliver(m)
  PROVE  /\ intents[m] \in {"pending", "sending"}
         /\ intents'[m] \in Queue!Statuses \ {"revoked"}
         /\ intents' = [n \in Messages |-> IF n = m THEN intents'[m] ELSE intents[n]]
         /\ told' = told \/ told' = told \cup {m}
         /\ intents'[m] = "sent" => m \in told
<1>1. intents \in [Messages -> Queue!Statuses]
  BY DEF TypeInv
<1>2. CASE Send(m)
  BY <1>1, <1>2 DEF Send, Queue!Claim, Queue!Statuses
<1>3. CASE Accept(m)
  BY <1>1, <1>3 DEF Accept, Queue!Accept, Queue!Statuses
<1>4. CASE Sent(m)
  BY <1>1, <1>4 DEF Sent, Queue!Sent, Queue!Statuses
<1>5. CASE GivenUp(m) \/ QueuedAgain(m)
  BY <1>1, <1>5 DEF GivenUp, QueuedAgain, Queue!Fail, Queue!Statuses
<1> QED
  BY <1>2, <1>3, <1>4, <1>5 DEF Deliver

LEMMA DeliverTypes ==
  ASSUME TypeInv, NEW m \in Messages, Deliver(m)
  PROVE  /\ TypeInv'
         /\ UNCHANGED <<environment, log, latch, check, missed>>
         /\ intents' \in [Messages -> Queue!Statuses] /\ told' \in SUBSET Messages
<1>1. UNCHANGED <<environment, log, latch, check, missed>>
  BY DEF Deliver, Send, Accept, Sent, GivenUp, QueuedAgain
<1>2. intents' \in [Messages -> Queue!Statuses] /\ told' \in SUBSET Messages
  BY DeliverStep DEF TypeInv
<1> QED
  BY <1>1, <1>2, CheckTypeStays DEF TypeInv, environment

LEMMA StepTypes == TypeInv /\ [Next]_vars => TypeInv'
<1> SUFFICES ASSUME TypeInv, [Next]_vars PROVE TypeInv'
  OBVIOUS
<1>1. ASSUME NEW c \in Checkers, Lose(c) PROVE TypeInv'
  BY <1>1, OverMoves DEF Lose, OnlyMoves, TypeInv, outbox
<1>2. CASE WorldTurns \/ UNCHANGED vars
  BY <1>2, CheckTypeStays DEF WorldTurns, vars, outbox, TypeInv
<1>3. CASE SaveSettings
  <2>1. intents' \in [Messages -> Queue!Statuses] /\ latch' \in Outages \cup {NoOutage}
    BY <1>3, RevokedStatus DEF SaveSettings, TypeInv
  <2> QED
    BY <1>3, <2>1, CheckTypeStays DEF SaveSettings, TypeInv
<1>4. CASE Replace
  BY <1>4, CheckTypeStays DEF Replace, TypeInv, Queue!Statuses
<1> QED
  BY <1>1, <1>2, <1>3, <1>4, CheckTypes, DeliverTypes DEF Next

LEMMA InitTypes == Init => TypeInv
<1> SUFFICES ASSUME Init PROVE TypeInv
  OBVIOUS
<1>1. generation \in Generations
  BY HeartbeatAssumption DEF Init
<1>2. CheckType
  BY NoCheckShaped DEF Init, CheckType
<1> QED
  BY <1>1, <1>2 DEF Init, TypeInv, Settings, Queue!Statuses

(***************************************************************************)
(* RecoveryOnlyToTold                                                      *)
(***************************************************************************)

LEMMA MessageShape ==
  ASSUME NEW kind \in {"alert", "recovery"}, NEW o \in Outages, NEW t \in Targets
  PROVE  <<kind, o, t>> \in Messages /\ <<kind, o, t>>[2] = o
BY DEF Messages

LEMMA MessageFor ==
  ASSUME NEW kind, NEW o, NEW S, NEW k, NEW p, NEW t
  PROVE  <<k, p, t>> \in ToSend(kind, o, S) <=> k = kind /\ p = o /\ t \in S
BY DEF ToSend

\* A step by which nothing is queued, nothing arrives, and no check decides.
LEMMA NothingSaid ==
  ASSUME RecoveryInv, TypeInv', generation' = generation, told' = told,
         \A m \in Messages : intents'[m] = intents[m] \/ intents'[m] = "revoked",
         \A d \in Checkers : check'[d] = check[d] \/ check'[d].pc # "deciding"
  PROVE  RecoveryInv'
<1>1. ToldInv'
  BY MessageShape DEF RecoveryInv, ToldInv
<1>2. AddresseesInv'
  BY DEF RecoveryInv, AddresseesInv
<1> QED
  BY <1>1, <1>2 DEF RecoveryInv

LEMMA DecideTold ==
  ASSUME RecoveryInv, TypeInv', NEW c \in Checkers, Decide(c)
  PROVE  RecoveryInv'
<1>1. TypeInv
  BY DEF RecoveryInv
<1>2. UNCHANGED <<generation, intents, told, latch>>
  BY DEF Decide, environment, outbox
<1>3. ToldInv'
  BY <1>2 DEF RecoveryInv, ToldInv
<1>4. AddresseesInv'
  <2> SUFFICES ASSUME NEW d \in Checkers, check'[d].pc = "deciding", check'[d].kind = "recovered",
                      check'[d].generation = generation, NEW t \in check'[d].addressees
               PROVE  check'[d].outage \in Outages /\ <<"alert", check'[d].outage, t>> \in told
    BY <1>2 DEF AddresseesInv
  <2>1. CASE d # c
    <3>1. check'[d] = check[d]
      BY <1>1, <2>1, DecideMoves DEF OnlyMoves
    <3> QED
      BY <3>1 DEF RecoveryInv, AddresseesInv
  <2>2. CASE d = c
    <3>1. /\ Verdict(log, latch) = "recovered" /\ check'[c].outage = latch
          /\ check'[c].addressees = Addressed(c)
      BY <1>1, <2>2, DecideMoves
    <3>2. latch # NoOutage /\ t \in Told(latch)
      BY <2>2, <3>1 DEF Verdict, Addressed
    <3>3. latch \in Outages /\ t \in Targets /\ intents[<<"alert", latch, t>>] = "sent"
      BY <1>1, <3>2 DEF Told, TypeInv
    <3> QED
      BY <2>2, <3>1, <3>3 DEF RecoveryInv, ToldInv
  <2> QED
    BY <2>1, <2>2
<1> QED
  BY <1>3, <1>4 DEF RecoveryInv

\* A new outage takes a name that no decision, and nothing on its way, still uses.
LEMMA ClaimTold ==
  ASSUME RecoveryInv, TypeInv', NEW c \in Checkers, ClaimAlert(c)
  PROVE  RecoveryInv'
<1> DEFINE to == check[c].addressees
<1>1. PICK o \in FreeOutages : /\ latch' = o /\ intents' = AlertIntents(o, to)
                               /\ told' = {m \in told : m[2] # o}
  BY DEF ClaimAlert
<1>2. o \in Outages /\ \A d \in Checkers : check[d].outage # o
  BY DEF FreeOutages
<1>3. OnlyMoves(c) /\ check'[c].pc = "idle" /\ generation' = generation
  BY OverMoves DEF ClaimAlert, environment, RecoveryInv
<1>4. ASSUME NEW p \in Outages, NEW t \in Targets
      PROVE  /\ intents[<<"alert", p, t>>] = "sent" => <<"alert", p, t>> \in told
             /\ \/ intents[<<"recovery", p, t>>] \in {"pending", "sending", "sent"}
                \/ <<"recovery", p, t>> \in told
                => <<"alert", p, t>> \in told
  BY DEF RecoveryInv, ToldInv
<1>5. ASSUME NEW p \in Outages, NEW t \in Targets
      PROVE  /\ intents'[<<"alert", p, t>>] = "sent" => <<"alert", p, t>> \in told'
             /\ \/ intents'[<<"recovery", p, t>>] \in {"pending", "sending", "sent"}
                \/ <<"recovery", p, t>> \in told'
                => <<"alert", p, t>> \in told'
  <2> DEFINE a == <<"alert", p, t>>
             r == <<"recovery", p, t>>
  <2>1. a \in Messages /\ r \in Messages /\ a[2] = p /\ r[2] = p
    BY MessageShape
  <2>2. r \notin ToSend("alert", o, to)
    BY MessageFor
  <2>3. CASE p = o
    <3>1. intents'[r] = "none" /\ r \notin told'
      BY <1>1, <2>1, <2>2, <2>3 DEF AlertIntents
    <3>2. intents'[a] \in {"pending", "none"}
      BY <1>1, <2>1, <2>3 DEF AlertIntents
    <3> QED
      BY <3>1, <3>2
  <2>4. CASE p # o
    <3>1. a \notin ToSend("alert", o, to)
      BY <2>4, MessageFor
    <3>2. intents'[r] = Revoked(r) /\ intents'[a] = Revoked(a)
      <4> HIDE DEF a, r, to
      <4> QED
        BY <1>1, <2>1, <2>2, <2>4, <3>1 DEF AlertIntents
    <3>3. /\ intents'[r] = intents[r] \/ intents'[r] = "revoked"
          /\ intents'[a] = intents[a] \/ intents'[a] = "revoked"
      BY <3>2 DEF Revoked
    <3>4. (a \in told' <=> a \in told) /\ (r \in told' <=> r \in told)
      BY <1>1, <2>1, <2>4
    <3> QED
      BY <1>4, <3>3, <3>4
  <2> QED
    BY <2>3, <2>4
<1>6. ToldInv'
  BY <1>5 DEF ToldInv
<1>7. AddresseesInv'
  <2> SUFFICES ASSUME NEW d \in Checkers, check'[d].pc = "deciding", check'[d].kind = "recovered",
                      check'[d].generation = generation, NEW t \in check'[d].addressees
               PROVE  check'[d].outage \in Outages /\ <<"alert", check'[d].outage, t>> \in told'
    BY <1>3 DEF AddresseesInv
  <2>1. check'[d] = check[d]
    BY <1>3 DEF OnlyMoves
  <2>2. check[d].outage \in Outages /\ <<"alert", check[d].outage, t>> \in told
    BY <2>1 DEF RecoveryInv, AddresseesInv
  <2>3. t \in Targets
    BY <2>1 DEF RecoveryInv, TypeInv, CheckType, Shaped
  <2>4. <<"alert", check[d].outage, t>>[2] = check[d].outage
    OBVIOUS
  <2> QED
    BY <1>1, <1>2, <2>1, <2>2, <2>4
<1> QED
  BY <1>6, <1>7 DEF RecoveryInv

LEMMA ClearTold ==
  ASSUME RecoveryInv, TypeInv', NEW c \in Checkers, ClearAlert(c)
  PROVE  RecoveryInv'
<1> DEFINE o == check[c].outage
           to == check[c].addressees
<1>1. /\ OnlyMoves(c) /\ check'[c].pc = "idle" /\ generation' = generation /\ told' = told
      /\ intents' = [m \in Messages |-> IF m \in ToSend("recovery", o, to) THEN "pending" ELSE Revoked(m)]
  BY OverMoves DEF ClearAlert, environment, RecoveryInv
<1>2. \A t \in to : <<"alert", o, t>> \in told
  BY DEF ClearAlert, Fence, RecoveryInv, AddresseesInv
<1>3. ASSUME NEW p \in Outages, NEW t \in Targets
      PROVE  /\ intents'[<<"alert", p, t>>] = "sent" => <<"alert", p, t>> \in told
             /\ \/ intents'[<<"recovery", p, t>>] \in {"pending", "sending", "sent"}
                \/ <<"recovery", p, t>> \in told
                => <<"alert", p, t>> \in told
  <2> DEFINE a == <<"alert", p, t>>
             r == <<"recovery", p, t>>
  <2>1. a \in Messages /\ r \in Messages
    BY MessageShape
  <2>2. a \notin ToSend("recovery", o, to)
    BY MessageFor
  <2>3. CASE r \in ToSend("recovery", o, to)
    <3>1. p = o /\ t \in to
      BY <2>3, MessageFor
    <3> QED
      BY <1>2, <3>1
  <2>4. CASE r \notin ToSend("recovery", o, to)
    <3>1. intents'[a] = Revoked(a) /\ intents'[r] = Revoked(r)
      <4> HIDE DEF a, r, o, to
      <4> QED
        BY <1>1, <2>1, <2>2, <2>4
    <3>2. /\ intents'[r] = intents[r] \/ intents'[r] = "revoked"
          /\ intents'[a] = intents[a] \/ intents'[a] = "revoked"
      BY <3>1 DEF Revoked
    <3> QED
      BY <3>2 DEF RecoveryInv, ToldInv
  <2>5. intents'[a] = "sent" => a \in told
    <3>1. intents'[a] = Revoked(a)
      <4> HIDE DEF a, r, o, to
      <4> QED
        BY <1>1, <2>1, <2>2
    <3>2. intents'[a] = "sent" => intents[a] = "sent"
      BY <3>1 DEF Revoked
    <3> QED
      BY <3>2 DEF RecoveryInv, ToldInv
  <2> QED
    BY <2>3, <2>4, <2>5
<1>4. ToldInv'
  BY <1>1, <1>3 DEF ToldInv
<1>5. AddresseesInv'
  BY <1>1 DEF RecoveryInv, AddresseesInv, OnlyMoves
<1> QED
  BY <1>4, <1>5 DEF RecoveryInv

LEMMA DeliverTold ==
  ASSUME RecoveryInv, NEW m \in Messages, Deliver(m)
  PROVE  RecoveryInv'
<1>1. /\ TypeInv' /\ generation' = generation /\ check' = check
  BY DeliverTypes DEF RecoveryInv, environment
<1>2. /\ intents[m] \in {"pending", "sending"}
      /\ \A n \in Messages : n # m => intents'[n] = intents[n]
      /\ told' = told \/ told' = told \cup {m}
      /\ intents'[m] = "sent" => m \in told
  BY DeliverStep DEF RecoveryInv
<1>3. ASSUME NEW p \in Outages, NEW t \in Targets
      PROVE  /\ intents'[<<"alert", p, t>>] = "sent" => <<"alert", p, t>> \in told'
             /\ \/ intents'[<<"recovery", p, t>>] \in {"pending", "sending", "sent"}
                \/ <<"recovery", p, t>> \in told'
                => <<"alert", p, t>> \in told'
  <2> DEFINE a == <<"alert", p, t>>
             r == <<"recovery", p, t>>
  <2>1. a \in Messages /\ r \in Messages
    BY MessageShape
  <2>2. /\ intents[a] = "sent" => a \in told
        /\ intents[r] \in {"pending", "sending", "sent"} \/ r \in told => a \in told
    BY DEF RecoveryInv, ToldInv
  <2> HIDE DEF a, r
  <2>3. (r \in told' /\ r \notin told => r = m) /\ (a \in told => a \in told')
    BY <1>2
  <2>4. intents'[a] = "sent" => a \in told'
    BY <1>2, <2>1, <2>2
  <2>5. intents'[r] \in {"pending", "sending", "sent"} \/ r \in told' => a \in told'
    BY <1>2, <2>1, <2>2, <2>3
  <2> QED
    BY <2>4, <2>5 DEF a, r
<1>4. ToldInv'
  BY <1>3 DEF ToldInv
<1>5. AddresseesInv'
  BY <1>1, <1>2 DEF RecoveryInv, AddresseesInv
<1> QED
  BY <1>1, <1>4, <1>5 DEF RecoveryInv

LEMMA RecoveryInit == Init => RecoveryInv
<1> SUFFICES ASSUME Init PROVE RecoveryInv
  OBVIOUS
<1>1. TypeInv
  BY InitTypes
<1>2. ToldInv
  BY MessageShape DEF Init, ToldInv
<1>3. AddresseesInv
  BY NoCheckShaped DEF Init, AddresseesInv
<1> QED
  BY <1>1, <1>2, <1>3 DEF RecoveryInv

LEMMA RecoveryNext == RecoveryInv /\ [Next]_vars => RecoveryInv'
<1> SUFFICES ASSUME RecoveryInv, [Next]_vars PROVE RecoveryInv'
  OBVIOUS
<1>1. TypeInv /\ TypeInv'
  BY StepTypes DEF RecoveryInv
<1>2. ASSUME NEW c \in Checkers, OnlyMoves(c), check'[c].pc # "deciding",
             generation' = generation, told' = told,
             \A m \in Messages : intents'[m] = intents[m] \/ intents'[m] = "revoked"
      PROVE  RecoveryInv'
  BY <1>1, <1>2, NothingSaid DEF OnlyMoves
<1>3. ASSUME NEW c \in Checkers, CheckStep(c) PROVE RecoveryInv'
  <2>1. CASE Begin(c)
    BY <1>1, <1>2, <2>1, BeginMoves DEF Begin, environment, outbox
  <2>2. CASE Fetch(c)
    BY <1>1, <1>2, <2>2, FetchMoves DEF Fetch, environment, outbox
  <2>3. CASE FetchRaises(c)
    BY <1>1, <1>2, <2>3, RaisesMoves DEF FetchRaises, environment, outbox
  <2>4. CASE Files(c) \/ Vanishes(c)
    BY <1>1, <1>2, <2>4, FilesMoves, VanishesMoves DEF environment, outbox
  <2>7. CASE Confirm(c)
    BY <1>1, <1>2, <2>7, ConfirmMoves DEF Confirm, environment, outbox
  <2>5. CASE LoseClaim(c)
    BY <1>1, <1>2, <2>5, OverMoves DEF LoseClaim, environment, outbox
  <2>6. CASE DisableHere(c)
    <3>1. \A m \in Messages : intents'[m] = intents[m] \/ intents'[m] = "revoked"
      BY <2>6 DEF DisableHere, Revoked
    <3> QED
      BY <1>1, <1>2, <2>6, <3>1, OverMoves DEF DisableHere, environment
  <2> QED
    BY <1>1, <1>3, <2>1, <2>2, <2>3, <2>4, <2>5, <2>6, <2>7, DecideTold, ClaimTold, ClearTold
       DEF CheckStep, Files, Vanishes
<1>4. ASSUME NEW c \in Checkers, Lose(c) PROVE RecoveryInv'
  BY <1>1, <1>2, <1>4, OverMoves DEF Lose, outbox
<1>5. CASE WorldTurns \/ UNCHANGED vars
  BY <1>1, <1>5, NothingSaid DEF WorldTurns, vars, outbox
<1>6. CASE SaveSettings
  <2>1. \A m \in Messages : intents'[m] = intents[m] \/ intents'[m] = "revoked"
    BY <1>6 DEF SaveSettings, Revoked
  <2> QED
    BY <1>1, <1>6, <2>1, NothingSaid DEF SaveSettings
<1>7. CASE Replace
  <2>1. ToldInv'
    BY <1>7, MessageShape DEF Replace, ToldInv
  <2>2. AddresseesInv'
    BY <1>7 DEF Replace, AddresseesInv
  <2> QED
    BY <1>1, <2>1, <2>2 DEF RecoveryInv
<1> QED
  BY <1>3, <1>4, <1>5, <1>6, <1>7, DeliverTold DEF Next

\* An all-clear reaches only targets that received the alert of the same outage, whatever
\* checks overlap or die, sends fail or repeat, settings change and topics are replaced.
THEOREM AllClearOnlyToTold == Spec => []RecoveryOnlyToTold
<1>1. RecoveryInv => RecoveryOnlyToTold
  BY DEF RecoveryInv, ToldInv, RecoveryOnlyToTold
<1> QED
  BY <1>1, RecoveryInit, RecoveryNext, PTL DEF Spec

(***************************************************************************)
(* LatchIsOwed                                                             *)
(***************************************************************************)

\* A check goes on for its topic with its settings, begins, or is over.
GoesOn(d) ==
  \/ check'[d].pc = "idle"
  \/ /\ check[d].pc # "idle"
     /\ check'[d].generation = check[d].generation /\ check'[d].settings = check[d].settings
  \/ check'[d].generation = generation /\ check'[d].settings = settings

LEMMA AllGoOn ==
  ASSUME NEW c \in Checkers, OnlyMoves(c), GoesOn(c)
  PROVE  \A d \in Checkers : GoesOn(d)
BY DEF OnlyMoves, GoesOn

LEMMA ContextKept ==
  ASSUME OwedInv, UNCHANGED <<settings, generation>>, \A d \in Checkers : GoesOn(d)
  PROVE  OnInv' /\ CurrentInv'
BY DEF OwedInv, OnInv, CurrentInv, GoesOn

\* A step that neither takes a latch nor revokes anything.
LEMMA NothingRevoked ==
  ASSUME OwedInv, TypeInv', UNCHANGED <<settings, generation>>,
         latch' = latch \/ latch' = NoOutage,
         latch' = latch => \A m \in Messages : intents'[m] = "revoked" => intents[m] = "revoked",
         \A d \in Checkers : GoesOn(d)
  PROVE  OwedInv'
<1>1. OnInv' /\ CurrentInv'
  BY ContextKept
<1>2. DisablingInv'
  BY DEF OwedInv, DisablingInv, GoesOn
<1>3. LatchIsOwed'
  BY MessageShape, HeartbeatAssumption DEF OwedInv, LatchIsOwed
<1> QED
  BY <1>1, <1>2, <1>3 DEF OwedInv

\* Settings and topics do not both change under two checks.
OneCause ==
  (\A c, d \in Checkers : c = d) \/ "configure" \notin Events \/ "replace" \notin Events

LEMMA ClaimOwes ==
  ASSUME OneCause, OwedInv, TypeInv', NEW c \in Checkers, ClaimAlert(c)
  PROVE  OwedInv'
<1>1. PICK o \in FreeOutages : latch' = o /\ intents' = AlertIntents(o, check[c].addressees)
  BY DEF ClaimAlert
<1>2. OnlyMoves(c) /\ check'[c].pc = "idle" /\ UNCHANGED <<settings, generation>>
  BY OverMoves DEF ClaimAlert, environment, OwedInv
<1>3. \A d \in Checkers : GoesOn(d)
  BY <1>2, AllGoOn DEF GoesOn
<1>4. OnInv' /\ CurrentInv'
  BY <1>2, <1>3, ContextKept
<1>5. LatchIsOwed'
  <2> SUFFICES ASSUME NEW t \in Targets PROVE intents'[<<"alert", o, t>>] # "revoked"
    BY <1>1 DEF LatchIsOwed
  <2> DEFINE a == <<"alert", o, t>>
  <2>1. a \in Messages /\ a[2] = o
    BY MessageShape DEF FreeOutages
  <2> HIDE DEF a
  <2>2. intents'[a] \in {"pending", "none"}
    BY <1>1, <2>1 DEF AlertIntents
  <2> QED
    BY <2>2 DEF a
<1>6. DisablingInv'
  <2> SUFFICES ASSUME NEW d \in Checkers, check'[d].pc # "idle", ~check'[d].settings.on
               PROVE  check'[d].generation = generation
    BY <1>2 DEF DisablingInv
  <2>1. d # c /\ check'[d] = check[d]
    BY <1>2 DEF OnlyMoves
  <2>2. "configure" \in Events
    BY <2>1 DEF OwedInv, OnInv
  <2> QED
    BY <2>1, <2>2 DEF OneCause, OwedInv, CurrentInv
<1> QED
  BY <1>4, <1>5, <1>6 DEF OwedInv

LEMMA OwedInit == Init => OwedInv
<1> SUFFICES ASSUME Init PROVE OwedInv
  OBVIOUS
<1>1. \A c \in Checkers : check[c].pc = "idle"
  BY NoCheckShaped DEF Init
<1> QED
  BY <1>1, InitTypes, HeartbeatAssumption
     DEF Init, OwedInv, OnInv, CurrentInv, DisablingInv, LatchIsOwed

LEMMA OwedNext == OneCause /\ OwedInv /\ [Next]_vars => OwedInv'
<1> SUFFICES ASSUME OneCause, OwedInv, [Next]_vars PROVE OwedInv'
  OBVIOUS
<1>1. TypeInv /\ TypeInv'
  BY StepTypes DEF OwedInv
<1>2. ASSUME NEW c \in Checkers, OnlyMoves(c), GoesOn(c), UNCHANGED <<settings, generation>>,
             latch' = latch \/ latch' = NoOutage,
             latch' = latch => \A m \in Messages : intents'[m] = "revoked" => intents[m] = "revoked"
      PROVE  OwedInv'
  BY <1>1, <1>2, AllGoOn, NothingRevoked
<1>3. ASSUME NEW c \in Checkers, CheckStep(c) PROVE OwedInv'
  <2>1. CASE Begin(c)
    BY <1>1, <1>2, <2>1, BeginMoves DEF Begin, GoesOn, environment, outbox
  <2>2. CASE Fetch(c)
    BY <1>1, <1>2, <2>2, FetchMoves DEF Fetch, GoesOn, Same, environment, outbox
  <2>3. CASE FetchRaises(c)
    BY <1>1, <1>2, <2>3, RaisesMoves DEF FetchRaises, GoesOn, Same, environment, outbox
  <2>4. CASE Files(c) \/ Vanishes(c)
    BY <1>1, <1>2, <2>4, FilesMoves, VanishesMoves DEF GoesOn, environment, outbox
  <2>10. CASE Confirm(c)
    BY <1>1, <1>2, <2>10, ConfirmMoves DEF Confirm, GoesOn, Same, environment, outbox
  <2>5. CASE Decide(c)
    BY <1>1, <1>2, <2>5, DecideMoves DEF Decide, GoesOn, environment, outbox
  <2>6. CASE LoseClaim(c)
    BY <1>1, <1>2, <2>6, OverMoves DEF LoseClaim, GoesOn, environment, outbox
  <2>7. CASE ClaimAlert(c)
    BY <1>1, <2>7, ClaimOwes
  <2>8. CASE ClearAlert(c)
    <3>1. latch' = NoOutage /\ latch # NoOutage
      BY <2>8 DEF ClearAlert
    <3> QED
      BY <1>1, <1>2, <2>8, <3>1, OverMoves DEF ClearAlert, GoesOn, environment
  <2>9. CASE DisableHere(c)
    <3>1. OnlyMoves(c) /\ check'[c].pc = "idle" /\ UNCHANGED <<settings, generation>>
      BY <1>1, <2>9, OverMoves DEF DisableHere, environment
    <3>2. latch' = NoOutage
      BY <2>9 DEF DisableHere, OwedInv, DisablingInv
    <3>3. \A d \in Checkers : GoesOn(d)
      BY <3>1, AllGoOn DEF GoesOn
    <3>4. OnInv' /\ CurrentInv'
      BY <3>1, <3>3, ContextKept
    <3> QED
      BY <1>1, <3>2, <3>4, HeartbeatAssumption DEF OwedInv, DisablingInv, LatchIsOwed
  <2> QED
    BY <1>3, <2>1, <2>2, <2>3, <2>4, <2>5, <2>6, <2>7, <2>8, <2>9, <2>10
       DEF CheckStep, Files, Vanishes
<1>4. ASSUME NEW c \in Checkers, Lose(c) PROVE OwedInv'
  BY <1>1, <1>2, <1>4, OverMoves DEF Lose, GoesOn, outbox
<1>5. ASSUME check' = check PROVE \A d \in Checkers : GoesOn(d)
  BY <1>5 DEF GoesOn
<1>6. CASE WorldTurns \/ UNCHANGED vars
  BY <1>1, <1>5, <1>6, NothingRevoked DEF WorldTurns, vars, outbox
<1>7. CASE SaveSettings
  <2>1. OnInv' /\ CurrentInv'
    BY <1>7 DEF SaveSettings, OwedInv, OnInv, CurrentInv
  <2>2. latch' = NoOutage \/ (latch' = latch /\ intents' = intents)
    BY <1>7 DEF SaveSettings
  <2>3. DisablingInv' /\ LatchIsOwed'
    BY <1>7, <2>2, HeartbeatAssumption DEF SaveSettings, OwedInv, DisablingInv, LatchIsOwed
  <2> QED
    BY <1>1, <2>1, <2>3 DEF OwedInv
<1>8. CASE Replace
  <2>1. OnInv' /\ CurrentInv'
    BY <1>8 DEF Replace, OwedInv, OnInv, CurrentInv
  <2>2. DisablingInv' /\ LatchIsOwed'
    BY <1>8, HeartbeatAssumption DEF Replace, DisablingInv, LatchIsOwed
  <2> QED
    BY <1>1, <2>1, <2>2 DEF OwedInv
<1>9. ASSUME NEW m \in Messages, Deliver(m) PROVE OwedInv'
  <2>1. /\ check' = check /\ latch' = latch /\ UNCHANGED <<settings, generation>>
    BY <1>1, <1>9, DeliverTypes DEF environment
  <2>2. \A n \in Messages : intents'[n] = "revoked" => intents[n] = "revoked"
    BY <1>1, <1>9, DeliverStep DEF TypeInv
  <2> QED
    BY <1>1, <1>5, <2>1, <2>2, NothingRevoked
<1> QED
  BY <1>3, <1>4, <1>6, <1>7, <1>8, <1>9 DEF Next

\* No announcement of an outage that stands announced is ever revoked, as long as settings
\* and topics do not both change under overlapping checks: then a check that began with
\* the feature off revokes the alerts of the topic that took its topic's row.
THEOREM StandingAlertsKept ==
  ASSUME (\A c, d \in Checkers : c = d) \/ "configure" \notin Events \/ "replace" \notin Events
  PROVE  Spec => []LatchIsOwed
<1>1. OneCause
  BY DEF OneCause
<1>2. OwedInv /\ [Next]_vars => OwedInv'
  BY <1>1, OwedNext
<1>3. OwedInv => LatchIsOwed
  BY DEF OwedInv
<1> QED
  BY <1>2, <1>3, OwedInit, PTL DEF Spec

(***************************************************************************)
(* What the log says                                                       *)
(***************************************************************************)

LEMMA Least ==
  ASSUME NEW S \in SUBSET Nat, S # {}
  PROVE  \E i \in S : \A j \in S : i <= j
<1> DEFINE R == {p \in Nat \X Nat : p[1] < p[2]}
<1>1. IsWellFoundedOn(R, Nat)
  BY NatLessThanWellFounded DEF OpToRel
<1> HIDE DEF R
<1>2. PICK i \in S : \A j \in S : ~(<<j, i>> \in R)
  BY <1>1, WFMin
<1>3. ASSUME NEW j \in S PROVE i <= j
  <2>1. <<j, i>> \in Nat \X Nat /\ ~(<<j, i>> \in R)
    BY <1>2
  <2>2. ~(j < i)
    BY <2>1 DEF R
  <2> QED
    BY <2>2
<1> QED
  BY <1>3

LEMMA NewestIsLeast ==
  ASSUME NEW I \in SUBSET Nat, I # {}
  PROVE  Newest(I) \in I /\ \A j \in I : Newest(I) <= j
BY Least DEF Newest

LEMMA LogPlaces ==
  ASSUME NEW s, Log(s)
  PROVE  /\ Len(s) \in Nat /\ DOMAIN s = 1..Len(s)
         /\ IsFiniteSet(DOMAIN s)
         /\ Recorded(s) \in SUBSET (1..Len(s)) /\ IsFiniteSet(Recorded(s))
         /\ Observed(s) \in SUBSET Recorded(s) /\ IsFiniteSet(Observed(s))
<1>1. Len(s) \in Nat /\ DOMAIN s = 1..Len(s)
  BY DEF Log
<1>2. IsFiniteSet(1..Len(s))
  BY <1>1, FS_Interval
<1>3. Recorded(s) \in SUBSET (1..Len(s)) /\ Observed(s) \in SUBSET Recorded(s)
  BY <1>1 DEF Recorded, Observed
<1>4. IsFiniteSet(Recorded(s))
  BY <1>2, <1>3, FS_Subset
<1>5. IsFiniteSet(Observed(s))
  BY <1>3, <1>4, FS_Subset
<1> QED
  BY <1>1, <1>2, <1>3, <1>4, <1>5

\* The newest row decides about health, and an outage begins with it.
LEMMA NewestDecides ==
  ASSUME NEW s, Log(s)
  PROVE  /\ Recorded(s) = {} => ~OutageSeen(s) /\ ~HealthSeen(s)
         /\ Recorded(s) # {} =>
              /\ Newest(Recorded(s)) \in Recorded(s)
              /\ Above(s, Newest(Recorded(s))) = {}
              /\ HealthSeen(s) <=> s[Newest(Recorded(s))].stage # "source_failure"
              /\ OutageSeen(s) => s[Newest(Recorded(s))].stage = "source_failure"
<1> DEFINE seen == Observed(s)
           lead == {i \in seen : \A j \in seen : j <= i => s[j].stage = "source_failure"}
           h == Newest(Recorded(s))
<1>1. /\ Streak(s) = Cardinality(lead) /\ IsFiniteSet(lead) /\ Cardinality(lead) \in Nat
      /\ (Cardinality(lead) = 0 <=> lead = {})
  <2>1. lead \in SUBSET Observed(s)
    OBVIOUS
  <2>2. IsFiniteSet(lead)
    BY <2>1, LogPlaces, FS_Subset
  <2>3. Streak(s) = Cardinality(lead)
    BY DEF Streak
  <2> QED
    BY <2>2, <2>3, FS_CardinalityType, FS_EmptySet
<1>2. Threshold \in Nat /\ 0 < Threshold /\ 0 < Window
  BY HeartbeatAssumption
<1>3. Recorded(s) \in SUBSET Nat /\ seen \in SUBSET Recorded(s)
  BY LogPlaces
<1>4. CASE Recorded(s) = {}
  <2>1. lead = {} /\ seen = {}
    BY <1>3, <1>4
  <2> QED
    BY <1>1, <1>2, <1>4, <2>1 DEF OutageSeen, HealthSeen
<1>5. CASE Recorded(s) # {}
  <2>1. h \in Recorded(s) /\ \A j \in Recorded(s) : h <= j
    BY <1>3, <1>5, NewestIsLeast
  <2>2. Above(s, h) = {}
    BY <1>3, <2>1 DEF Above
  <2>3. Cardinality(Above(s, h)) = 0
    BY <2>2, FS_EmptySet
  <2>4. h \in seen
    BY <1>2, <2>1, <2>3 DEF Observed, Log, Recorded
  <2> HIDE DEF h, seen
  <2>5. ASSUME s[h].stage = "source_failure" PROVE h \in lead
    <3> SUFFICES ASSUME NEW j \in seen, j <= h PROVE s[j].stage = "source_failure"
      BY <2>4
    <3>1. h <= j /\ j \in Nat /\ h \in Nat
      BY <1>3, <2>1
    <3>2. j = h
      BY <3>1
    <3> QED
      BY <2>5, <3>2
  <2>6. ASSUME NEW i \in lead PROVE s[h].stage = "source_failure"
    BY <1>3, <2>1, <2>4
  <2>7. lead = {} <=> s[h].stage # "source_failure"
    BY <2>5, <2>6
  <2> HIDE DEF lead
  <2>8. HealthSeen(s) <=> s[h].stage # "source_failure"
    BY <1>1, <2>4, <2>7 DEF HealthSeen, seen
  <2>9. OutageSeen(s) => s[h].stage = "source_failure"
    BY <1>1, <1>2, <2>7 DEF OutageSeen
  <2> QED
    BY <1>5, <2>1, <2>2, <2>8, <2>9 DEF h
<1> QED
  BY <1>4, <1>5

\* Two logs whose rows are of the same stages at the same places say the same.
LEMMA SameRows ==
  ASSUME NEW s, NEW t, DOMAIN s = DOMAIN t, \A i \in DOMAIN s : s[i].stage = t[i].stage
  PROVE  /\ Recorded(s) = Recorded(t) /\ \A i : Above(s, i) = Above(t, i)
         /\ OutageSeen(s) = OutageSeen(t) /\ HealthSeen(s) = HealthSeen(t)
<1>1. Recorded(s) = Recorded(t)
  BY DEF Recorded
<1>2. \A i : Above(s, i) = Above(t, i)
  BY <1>1 DEF Above
<1>3. Observed(s) = Observed(t)
  BY <1>1, <1>2 DEF Observed, Recorded
<1>4. Streak(s) = Streak(t)
  <2>1. \A j \in Observed(s) : s[j].stage = t[j].stage
    BY DEF Observed, Recorded
  <2>2. {i \in Observed(s) : \A j \in Observed(s) : j <= i => s[j].stage = "source_failure"}
        = {i \in Observed(s) : \A j \in Observed(s) : j <= i => t[j].stage = "source_failure"}
    BY <2>1
  <2> QED
    BY <1>3, <2>2 DEF Streak
<1> QED
  BY <1>1, <1>2, <1>3, <1>4 DEF OutageSeen, HealthSeen

Shifted(I) == {i + 1 : i \in I}

LEMMA ShiftedCardinality ==
  ASSUME NEW I \in SUBSET Nat, IsFiniteSet(I)
  PROVE  Cardinality(Shifted(I)) = Cardinality(I)
<1> DEFINE next == [i \in I |-> i + 1]
<1>1. next \in [I -> Shifted(I)]
  BY DEF Shifted
<1>2. \A i, j \in I : next[i] = next[j] => i = j
  OBVIOUS
<1>3. \A k \in Shifted(I) : \E i \in I : next[i] = k
  BY DEF Shifted
<1> HIDE DEF next
<1>4. next \in Bijection(I, Shifted(I))
  BY <1>1, <1>2, <1>3 DEF Bijection, Injection, Surjection, IsInjective
<1>5. ExistsBijection(I, Shifted(I))
  BY <1>4 DEF ExistsBijection
<1> QED
  BY <1>5, FS_Bijection

\* A place for a check that begins changes nothing of what the rows say.
LEMMA PlaceAdded ==
  ASSUME NEW s, Log(s), NEW e \in Entry, e.stage = "running", NEW t, t = <<e>> \o s
  PROVE  /\ Log(t) /\ Len(t) = Len(s) + 1
         /\ t[1] = e /\ \A i \in DOMAIN s : t[i + 1] = s[i]
         /\ Recorded(t) = Shifted(Recorded(s))
         /\ \A i \in DOMAIN s : Above(t, i + 1) = Shifted(Above(s, i))
         /\ HeadId(t) = HeadId(s)
         /\ OutageSeen(t) = OutageSeen(s) /\ HealthSeen(t) = HealthSeen(s)
<1> DEFINE n == Len(s)
<1>1. /\ n \in Nat /\ DOMAIN s = 1..n /\ Recorded(s) \in SUBSET (1..n) /\ IsFiniteSet(Recorded(s))
      /\ Observed(s) \in SUBSET Recorded(s) /\ IsFiniteSet(Observed(s))
  BY LogPlaces
<1>2. s \in Seq(Entry) /\ \A i \in 1..n : s[i].stage # "internal"
  BY DEF Log
<1>3. /\ t \in Seq(Entry) /\ Len(t) = n + 1 /\ DOMAIN t = 1..(n + 1)
      /\ t[1] = e /\ \A i \in 1..n : t[i + 1] = s[i]
  BY <1>1, <1>2
<1> HIDE DEF n
<1>4. \A k \in 1..(n + 1) : k = 1 \/ (k - 1 \in 1..n /\ t[k] = s[k - 1])
  <2> SUFFICES ASSUME NEW k \in 1..(n + 1), k # 1 PROVE k - 1 \in 1..n /\ t[k] = s[k - 1]
    OBVIOUS
  <2>1. k - 1 \in 1..n /\ (k - 1) + 1 = k
    BY <1>1
  <2> QED
    BY <1>3, <2>1
<1>5. Log(t)
  BY <1>2, <1>3, <1>4 DEF Log
<1>6. Recorded(t) = Shifted(Recorded(s))
  <2>1. ASSUME NEW k \in Recorded(t) PROVE k \in Shifted(Recorded(s))
    <3>1. k \in 1..(n + 1) /\ k # 1 /\ t[k].stage # "running"
      BY <1>3 DEF Recorded
    <3>2. k - 1 \in 1..n /\ t[k] = s[k - 1] /\ k = (k - 1) + 1
      BY <1>1, <1>4, <3>1
    <3>3. k - 1 \in Recorded(s)
      BY <1>1, <3>1, <3>2 DEF Recorded
    <3> QED
      BY <3>2, <3>3 DEF Shifted
  <2>2. ASSUME NEW i \in Recorded(s) PROVE i + 1 \in Recorded(t)
    <3>1. i \in 1..n /\ s[i].stage # "running"
      BY <1>1 DEF Recorded
    <3>2. i + 1 \in 1..(n + 1) /\ t[i + 1] = s[i]
      BY <1>1, <1>3, <3>1
    <3> QED
      BY <1>3, <3>1, <3>2 DEF Recorded
  <2> QED
    BY <2>1, <2>2 DEF Shifted
<1>7. ASSUME NEW i \in 1..n PROVE Above(t, i + 1) = Shifted(Above(s, i))
  <2>1. ASSUME NEW j \in Recorded(s) PROVE j + 1 < i + 1 <=> j < i
    BY <1>1
  <2> QED
    BY <1>6, <2>1 DEF Above, Shifted
<1>8. ASSUME NEW i \in 1..n
      PROVE  Cardinality(Above(t, i + 1)) = Cardinality(Above(s, i))
  <2>1. Above(s, i) \in SUBSET Recorded(s) /\ Recorded(s) \in SUBSET Nat
    BY <1>1 DEF Above
  <2>2. IsFiniteSet(Above(s, i))
    BY <1>1, <2>1, FS_Subset
  <2> QED
    BY <1>7, <2>1, <2>2, ShiftedCardinality
<1>9. Observed(t) = Shifted(Observed(s))
  <2>1. ASSUME NEW i \in Recorded(s) PROVE i + 1 \in Observed(t) <=> i \in Observed(s)
    <3>1. i \in 1..n /\ t[i + 1] = s[i] /\ i + 1 \in Recorded(t)
      BY <1>1, <1>3, <1>6 DEF Shifted
    <3> QED
      BY <1>8, <3>1 DEF Observed
  <2>2. \A k \in Observed(t) : \E i \in Recorded(s) : k = i + 1
    BY <1>6 DEF Observed, Shifted
  <2> QED
    BY <1>1, <2>1, <2>2 DEF Shifted
<1>10. Streak(t) = Streak(s)
  <2> DEFINE lead == {i \in Observed(s) : \A j \in Observed(s) : j <= i => s[j].stage = "source_failure"}
             leadt == {i \in Observed(t) : \A j \in Observed(t) : j <= i => t[j].stage = "source_failure"}
  <2>1. ASSUME NEW i \in Observed(s) PROVE i + 1 \in leadt <=> i \in lead
    <3>1. \A j \in Observed(s) : (j + 1 <= i + 1 <=> j <= i) /\ t[j + 1] = s[j]
      BY <1>1, <1>3
    <3>2. i + 1 \in Observed(t)
      BY <1>9 DEF Shifted
    <3>3. ASSUME i \in lead, NEW k \in Observed(t), k <= i + 1 PROVE t[k].stage = "source_failure"
      <4>1. PICK j \in Observed(s) : k = j + 1
        BY <1>9 DEF Shifted
      <4> QED
        BY <3>1, <3>3, <4>1
    <3>4. ASSUME i + 1 \in leadt, NEW j \in Observed(s), j <= i PROVE s[j].stage = "source_failure"
      <4>1. j + 1 \in Observed(t)
        BY <1>9 DEF Shifted
      <4> QED
        BY <3>1, <3>4, <4>1
    <3> QED
      BY <3>2, <3>3, <3>4
  <2>2. leadt = Shifted(lead)
    BY <1>9, <2>1 DEF Shifted
  <2>3. lead \in SUBSET Observed(s)
    OBVIOUS
  <2>4. lead \in SUBSET Nat /\ IsFiniteSet(lead)
    BY <1>1, <2>3, FS_Subset
  <2>5. Cardinality(leadt) = Cardinality(lead)
    BY <2>2, <2>4, ShiftedCardinality
  <2> QED
    BY <2>5 DEF Streak
<1>11. OutageSeen(t) = OutageSeen(s) /\ HealthSeen(t) = HealthSeen(s)
  <2>1. Observed(t) = {} <=> Observed(s) = {}
    BY <1>9 DEF Shifted
  <2> QED
    BY <1>10, <2>1 DEF OutageSeen, HealthSeen
<1>12. HeadId(t) = HeadId(s)
  <2>1. CASE Recorded(s) = {}
    BY <1>6, <2>1 DEF Shifted, HeadId
  <2>2. CASE Recorded(s) # {}
    <3> DEFINE h == Newest(Recorded(s))
               k == Newest(Recorded(t))
    <3>1. h \in Recorded(s) /\ \A j \in Recorded(s) : h <= j
      BY <1>1, <2>2, NewestIsLeast
    <3>2. Recorded(t) \in SUBSET Nat /\ Recorded(t) # {}
      <4>1. \A j \in Recorded(s) : j + 1 \in Recorded(t)
        BY <1>6 DEF Shifted
      <4>2. Recorded(t) \in SUBSET DOMAIN t
        BY DEF Recorded
      <4> QED
        BY <1>1, <1>3, <2>2, <4>1, <4>2
    <3>3. k \in Recorded(t) /\ \A j \in Recorded(t) : k <= j
      BY <3>2, NewestIsLeast
    <3> HIDE DEF h, k
    <3>4. PICK i \in Recorded(s) : k = i + 1
      BY <1>6, <3>3 DEF Shifted
    <3>5. k <= h + 1 /\ h <= i
      BY <1>6, <3>1, <3>3 DEF Shifted
    <3>6. i = h
      BY <1>1, <3>1, <3>4, <3>5
    <3>7. t[k] = s[h]
      BY <1>1, <1>3, <3>4, <3>6
    <3> QED
      BY <2>2, <3>2, <3>7 DEF HeadId, h, k
  <2> QED
    BY <2>1, <2>2
<1> QED
  BY <1>1, <1>3, <1>5, <1>6, <1>7, <1>11, <1>12 DEF n

LEMMA SeqOf ==
  ASSUME NEW n \in Nat, NEW S, NEW s \in [1..n -> S]
  PROVE  s \in Seq(S) /\ DOMAIN s = 1..n
OBVIOUS

\* Forgetting what no query reaches changes no row that stays, but for its id.
LEMMA TrimmedLog ==
  ASSUME NEW u, Log(u), NEW t, t = Trimmed(u)
  PROVE  /\ Log(t) /\ DOMAIN t \subseteq DOMAIN u
         /\ \A i \in DOMAIN t : /\ t[i].stage = u[i].stage
                                /\ t[i].id = u[i].id \/ (t[i].id = NoId /\ Above(u, i) # {})
                                /\ Above(t, i) = Above(u, i)
         /\ Recorded(t) = Recorded(u) \cap DOMAIN t
<1> DEFINE within == {i \in DOMAIN u : Cardinality(Above(u, i)) < Window}
           m == Cardinality(within)
           n == Len(u)
<1>1. n \in Nat /\ DOMAIN u = 1..n /\ IsFiniteSet(1..n) /\ Recorded(u) \in SUBSET (1..n)
  BY LogPlaces
<1>2. m \in Nat /\ m <= n
  <2>1. within \in SUBSET (1..n) /\ Cardinality(1..n) = n
    BY <1>1, FS_Interval
  <2> QED
    BY <1>1, <2>1, FS_Subset, FS_CardinalityType
<1>3. t = [i \in 1..m |-> IF i \in Recorded(u) /\ Above(u, i) # {} THEN [u[i] EXCEPT !.id = NoId] ELSE u[i]]
  BY DEF Trimmed
<1> HIDE DEF within, m, n
<1>4. \A i \in 1..n : u[i] \in Entry /\ u[i].stage # "internal"
  BY <1>1 DEF Log
<1>5. \A k \in Entry : /\ [k EXCEPT !.id = NoId] \in Entry
                       /\ [k EXCEPT !.id = NoId].stage = k.stage
                       /\ [k EXCEPT !.id = NoId].id = NoId
  BY DEF Entry
<1>6. ASSUME NEW i \in 1..m
      PROVE  /\ i \in 1..n /\ t[i] \in Entry /\ t[i].stage = u[i].stage
             /\ t[i].id = u[i].id \/ (t[i].id = NoId /\ Above(u, i) # {})
  <2>1. i \in 1..n /\ u[i] \in Entry
    BY <1>1, <1>2, <1>4
  <2>2. t[i] = IF i \in Recorded(u) /\ Above(u, i) # {} THEN [u[i] EXCEPT !.id = NoId] ELSE u[i]
    BY <1>3
  <2> QED
    BY <1>5, <2>1, <2>2
<1>7. t \in Seq(Entry) /\ DOMAIN t = 1..m
  <2>1. t \in [1..m -> Entry]
    BY <1>3, <1>6
  <2> QED
    BY <1>2, <2>1, SeqOf
<1>8. Log(t)
  BY <1>4, <1>6, <1>7 DEF Log
<1>9. Recorded(t) = Recorded(u) \cap (1..m)
  BY <1>1, <1>6, <1>7 DEF Recorded
<1>10. ASSUME NEW i \in 1..m PROVE Above(t, i) = Above(u, i)
  <2>1. ASSUME NEW j \in Recorded(u), j < i PROVE j \in 1..m
    BY <1>1, <1>2, <2>1
  <2> QED
    BY <1>9, <2>1 DEF Above
<1> QED
  BY <1>1, <1>6, <1>7, <1>8, <1>9, <1>10

\* The row of a check takes the place that was held for it.
LEMMA WrittenLog ==
  ASSUME LogInv, NEW me, me.stage \in Stages, me.seen \in Sights, me.stage # "internal"
  PROVE  /\ Log(Written(me)) /\ DOMAIN Written(me) = DOMAIN log
         /\ \A i \in DOMAIN log :
              /\ Written(me)[i].id = log[i].id
              /\ log[i].id # me.id => Written(me)[i] = log[i]
         /\ Recorded(log) \subseteq Recorded(Written(me))
<1>1. \A k \in Entry :
        LET e == [k EXCEPT !.stage = me.stage, !.seen = me.seen]
        IN  e \in Entry /\ e.id = k.id /\ e.stage = me.stage
  BY DEF Entry
<1>2. Len(log) \in Nat /\ DOMAIN log = 1..Len(log) /\ \A i \in DOMAIN log : log[i] \in Entry
  BY LogPlaces DEF LogInv, Log
<1>3. ASSUME NEW i \in DOMAIN log
      PROVE  /\ Written(me)[i] \in Entry /\ Written(me)[i].id = log[i].id
             /\ log[i].id = me.id => Written(me)[i].stage = me.stage
             /\ log[i].id # me.id => Written(me)[i] = log[i]
  BY <1>1, <1>2 DEF Written
<1>4. DOMAIN Written(me) = DOMAIN log
  BY DEF Written
<1>5. Written(me) \in Seq(Entry)
  <2>1. Written(me) \in [1..Len(log) -> Entry]
    BY <1>2, <1>3 DEF Written
  <2> QED
    BY <1>2, <2>1, SeqOf
<1>6. Log(Written(me))
  BY <1>3, <1>4, <1>5 DEF Log, LogInv
<1>7. Recorded(log) \subseteq Recorded(Written(me))
  BY <1>3, <1>4 DEF Recorded, Stages
<1> QED
  BY <1>3, <1>4, <1>6, <1>7

(***************************************************************************)
(* LatchTracksLog                                                          *)
(***************************************************************************)

\* A check stands still, is over, or goes on towards its row.
Proceeds(d) ==
  \/ check'[d] = check[d]
  \/ check'[d].pc = "idle"
  \/ /\ Running(d) /\ Running(d)'
     /\ check'[d].id = check[d].id /\ check'[d].stage # "internal"
     /\ check'[d].generation = check[d].generation /\ check'[d].settings = check[d].settings

\* A step that files no row and decides nothing.
LEMMA NothingFiled ==
  ASSUME TrackInv, UNCHANGED <<log, generation, settings>>, \A d \in Checkers : Proceeds(d)
  PROVE  AllOn' /\ LogInv' /\ RunningInv' /\ HeadInv'
<1>1. AllOn'
  BY DEF TrackInv, AllOn, Proceeds, Running
<1>2. LogInv'
  BY DEF TrackInv, LogInv, Log, Recorded, Above
<1>3. \A d \in Checkers :
        /\ Running(d)' => /\ Running(d) /\ check'[d].id = check[d].id
                          /\ check'[d].stage # "internal" \/ check'[d].stage = check[d].stage
        /\ Deciding(d)' => Deciding(d) /\ check'[d] = check[d]
        /\ check'[d].pc \in {"recorded", "deciding"} => check'[d] = check[d]
  BY DEF Proceeds, Running, Deciding
<1>4. Recorded(log)' = Recorded(log)
  BY DEF Recorded
<1>5. RunningInv'
  BY <1>3, <1>4 DEF TrackInv, RunningInv
<1>6. HeadInv'
  BY <1>3, <1>4 DEF TrackInv, HeadInv
<1> QED
  BY <1>1, <1>2, <1>5, <1>6

\* It keeps what was settled when no check that still had to look at the rows is gone.
LEMMA StaysSettled ==
  ASSUME SettledInv, UNCHANGED <<latch, generation>>, missed => missed',
         HeadId(log)' = HeadId(log), OutageSeen(log)' = OutageSeen(log),
         HealthSeen(log)' = HealthSeen(log),
         Tracks \/ \A d \in Checkers : Waiting(d) => check'[d] = check[d]
  PROVE  SettledInv'
<1>1. Tracks => Tracks'
  BY DEF Tracks
<1>2. \A d \in Checkers : Waiting(d) /\ check'[d] = check[d] => Waiting(d)'
  BY DEF Waiting, Armed, Deciding
<1> QED
  BY <1>1, <1>2 DEF SettledInv

LEMMA Unlogged ==
  ASSUME TrackInv, TypeInv', UNCHANGED <<log, latch, missed, generation, settings>>,
         \A d \in Checkers : Proceeds(d),
         Tracks \/ \A d \in Checkers : Waiting(d) => check'[d] = check[d]
  PROVE  TrackInv'
<1>1. /\ HeadId(log)' = HeadId(log) /\ OutageSeen(log)' = OutageSeen(log)
      /\ HealthSeen(log)' = HealthSeen(log)
  BY DEF HeadId, OutageSeen, HealthSeen, Streak, Observed, Recorded, Above
<1> QED
  BY <1>1, NothingFiled, StaysSettled DEF TrackInv

LEMMA WaitingIsNot ==
  ASSUME NEW c \in Checkers, Running(c)
  PROVE  ~Waiting(c)
BY DEF Running, Waiting, Armed, Deciding

\* Only the settings of the beginning are ever in force.
LEMMA AlwaysOn ==
  ASSUME TrackInv, NEW c \in Checkers, check[c].pc # "idle"
  PROVE  check[c].settings.on /\ check[c].settings.urls = Targets
BY DEF TrackInv, AllOn

LEMMA BeginTracks ==
  ASSUME TrackInv, TypeInv', NEW c \in Checkers, Begin(c)
  PROVE  TrackInv'
<1> DEFINE e == [id |-> FreshId, stage |-> "running", seen |-> "unknown"]
<1>1. /\ OnlyMoves(c) /\ check[c].pc = "idle"
      /\ check'[c].pc = "fetching" /\ check'[c].stage = "none"
      /\ check'[c].id = FreshId /\ FreshId \in FreeIds
      /\ check'[c].generation = generation /\ check'[c].settings = settings
      /\ UNCHANGED <<latch, missed, generation, settings>>
  BY BeginMoves DEF TrackInv, Begin, environment, outbox
<1>2. log' = <<e>> \o log
  BY DEF Begin
<1>3. /\ FreshId \in CheckIds /\ \A i \in DOMAIN log : log[i].id # FreshId
      /\ \A d \in Checkers : check[d].id # FreshId
      /\ \A d \in Checkers : Deciding(d) => check[d].head # FreshId
  BY <1>1 DEF FreeIds, Deciding
<1>4. e \in Entry /\ e.stage = "running" /\ e.id = FreshId
  BY <1>3 DEF Entry, Sights
<1> HIDE DEF e
<1>5. Log(log) /\ Len(log) \in Nat /\ DOMAIN log = 1..Len(log) /\ Recorded(log) \in SUBSET (1..Len(log))
  BY LogPlaces DEF TrackInv, LogInv
<1>6. /\ Log(log') /\ Len(log') = Len(log) + 1
      /\ log'[1] = e /\ \A i \in DOMAIN log : log'[i + 1] = log[i]
      /\ Recorded(log') = Shifted(Recorded(log))
      /\ \A i \in DOMAIN log : Above(log', i + 1) = Shifted(Above(log, i))
      /\ HeadId(log') = HeadId(log)
      /\ OutageSeen(log') = OutageSeen(log) /\ HealthSeen(log') = HealthSeen(log)
  <2> DEFINE t == <<e>> \o log
  <2>1. /\ Log(t) /\ Len(t) = Len(log) + 1
        /\ t[1] = e /\ \A i \in DOMAIN log : t[i + 1] = log[i]
        /\ Recorded(t) = Shifted(Recorded(log))
        /\ \A i \in DOMAIN log : Above(t, i + 1) = Shifted(Above(log, i))
        /\ HeadId(t) = HeadId(log)
        /\ OutageSeen(t) = OutageSeen(log) /\ HealthSeen(t) = HealthSeen(log)
    BY <1>4, <1>5, PlaceAdded
  <2>2. log' = t
    BY <1>2
  <2> HIDE DEF t
  <2> QED
    BY <2>1, <2>2
<1>7. \A k \in DOMAIN log' : (k = 1 /\ log'[k].id = FreshId)
                             \/ (k - 1 \in DOMAIN log /\ log'[k] = log[k - 1] /\ k = (k - 1) + 1)
  <2>1. DOMAIN log' = 1..(Len(log) + 1)
    <3>1. Log(log') => DOMAIN log' = 1..Len(log')
      BY LogPlaces
    <3> QED
      BY <1>6, <3>1
  <2> SUFFICES ASSUME NEW k \in 1..(Len(log) + 1), k # 1
               PROVE  k - 1 \in DOMAIN log /\ log'[k] = log[k - 1] /\ k = (k - 1) + 1
    BY <1>4, <1>6, <2>1
  <2>2. k - 1 \in 1..Len(log) /\ k = (k - 1) + 1
    BY <1>5
  <2> QED
    BY <1>5, <1>6, <2>2
<1>8. \A k \in Recorded(log') : k - 1 \in Recorded(log) /\ log'[k] = log[k - 1] /\ k = (k - 1) + 1
  <2> SUFFICES ASSUME NEW i \in Recorded(log)
               PROVE  (i + 1) - 1 \in Recorded(log) /\ log'[i + 1] = log[(i + 1) - 1]
                      /\ i + 1 = ((i + 1) - 1) + 1
    BY <1>6 DEF Shifted
  <2>1. i \in Nat /\ i \in DOMAIN log /\ (i + 1) - 1 = i
    BY <1>5
  <2> QED
    BY <1>6, <2>1
<1>9. LogInv'
  <2>1. ASSUME NEW k \in DOMAIN log', NEW l \in DOMAIN log', log'[k].id = log'[l].id, log'[k].id # NoId
        PROVE  k = l
    BY <1>3, <1>7, <2>1 DEF TrackInv, LogInv
  <2>2. ASSUME NEW k \in Recorded(log'), log'[k].id = NoId PROVE Above(log', k) # {}
    <3>1. k - 1 \in Recorded(log) /\ log'[k] = log[k - 1] /\ k = (k - 1) + 1
      BY <1>8
    <3>2. Above(log, k - 1) # {}
      BY <2>2, <3>1 DEF TrackInv, LogInv
    <3>3. Above(log', (k - 1) + 1) = Shifted(Above(log, k - 1))
      BY <1>5, <1>6, <3>1
    <3> QED
      BY <3>1, <3>2, <3>3 DEF Shifted
  <2>3. Log(log)' /\ Recorded(log)' = Recorded(log') /\ \A k : Above(log, k)' = Above(log', k)
    BY <1>6 DEF Log, Recorded, Above
  <2> QED
    BY <2>1, <2>2, <2>3 DEF LogInv
<1>10. \A k \in Recorded(log') : log'[k].id # FreshId
  BY <1>3, <1>5, <1>8
<1>11. RunningInv'
  <2>1. Recorded(log)' = Recorded(log')
    BY DEF Recorded
  <2>2. \A d \in Checkers : Deciding(d)' => d # c /\ Deciding(d) /\ check'[d] = check[d]
    BY <1>1 DEF Deciding, OnlyMoves
  <2>3. \A d \in Checkers : d # c => check'[d] = check[d]
    BY <1>1 DEF OnlyMoves
  <2>4. ASSUME NEW d \in Checkers, d # c, Running(d)
        PROVE  /\ check[d].id \in CheckIds /\ check[d].stage # "internal"
               /\ \A k \in Recorded(log') : log'[k].id # check[d].id
    BY <1>8, <2>4 DEF TrackInv, RunningInv
  <2>5. ASSUME NEW d \in Checkers, d # c
        PROVE  /\ check'[d].pc \in {"recorded", "deciding"} => check'[d].id = NoId
               /\ Running(d)' =>
                    /\ check'[d].id \in CheckIds /\ check'[d].stage # "internal"
                    /\ \A k \in Recorded(log') : log'[k].id # check'[d].id
                    /\ \A b \in Checkers : /\ Running(b)' /\ check'[b].id = check'[d].id => b = d
                                           /\ Deciding(b)' => check'[b].head # check'[d].id
    BY <1>1, <1>3, <2>2, <2>3, <2>4, <2>5 DEF TrackInv, RunningInv, Running
  <2>6. /\ check'[c].pc \notin {"recorded", "deciding"}
        /\ check'[c].id \in CheckIds /\ check'[c].stage # "internal"
        /\ \A k \in Recorded(log') : log'[k].id # check'[c].id
        /\ \A b \in Checkers : /\ Running(b)' /\ check'[b].id = check'[c].id => b = c
                               /\ Deciding(b)' => check'[b].head # check'[c].id
    BY <1>1, <1>3, <1>10, <2>2, <2>3
  <2> QED
    BY <2>1, <2>5, <2>6 DEF RunningInv
<1>12. HeadInv'
  <2>1. Recorded(log)' = Recorded(log')
    BY DEF Recorded
  <2>2. \A d \in Checkers : Deciding(d)' => Deciding(d) /\ check'[d] = check[d]
    BY <1>1 DEF Deciding, OnlyMoves
  <2> QED
    BY <1>8, <2>1, <2>2 DEF TrackInv, HeadInv
<1>13. AllOn'
  BY <1>1 DEF TrackInv, AllOn, OnlyMoves
<1>14. SettledInv'
  <2>1. /\ HeadId(log)' = HeadId(log) /\ OutageSeen(log)' = OutageSeen(log)
        /\ HealthSeen(log)' = HealthSeen(log)
    BY <1>6 DEF HeadId, OutageSeen, HealthSeen, Streak, Observed, Recorded, Above
  <2>2. \A d \in Checkers : Waiting(d) => check'[d] = check[d]
    BY <1>1 DEF Waiting, Armed, Deciding, OnlyMoves
  <2> QED
    BY <1>1, <2>1, <2>2, StaysSettled DEF TrackInv
<1> QED
  BY <1>9, <1>11, <1>12, <1>13, <1>14 DEF TrackInv

\* The newest row is one; its id is the head's.
LEMMA HeadRow ==
  ASSUME LogInv, Recorded(log) # {}
  PROVE  \E h \in Recorded(log) :
           /\ HeadId(log) = log[h].id /\ log[h].id \in CheckIds
           /\ \A i \in Recorded(log) : log[i].id = HeadId(log) => i = h
           /\ HealthSeen(log) <=> log[h].stage # "source_failure"
           /\ OutageSeen(log) => log[h].stage = "source_failure"
<1> DEFINE h == Newest(Recorded(log))
<1>1. /\ h \in Recorded(log) /\ Above(log, h) = {}
      /\ HealthSeen(log) <=> log[h].stage # "source_failure"
      /\ OutageSeen(log) => log[h].stage = "source_failure"
  BY NewestDecides DEF LogInv
<1>2. HeadId(log) = log[h].id
  BY DEF HeadId
<1> HIDE DEF h
<1>3. Recorded(log) \subseteq DOMAIN log /\ \A i \in DOMAIN log : log[i] \in Entry
  BY DEF Recorded, LogInv, Log
<1>4. log[h].id # NoId /\ log[h].id \in CheckIds \cup {NoId}
  BY <1>1, <1>3 DEF LogInv, Entry
<1> QED
  BY <1>1, <1>2, <1>3, <1>4 DEF LogInv

\* The row of a check takes its place: no other row changes, and its id is no other row's.
LEMMA FiledRows ==
  ASSUME TrackInv, NEW c \in Checkers, Files(c)
  PROVE  /\ check[c].id \in CheckIds /\ \A i \in Recorded(log) : log[i].id # check[c].id
         /\ \A d \in Checkers : /\ Running(d) /\ check[d].id = check[c].id => d = c
                                /\ Deciding(d) => check[d].head # check[c].id
         /\ Log(log') /\ DOMAIN log' \subseteq DOMAIN log
         /\ \A i \in DOMAIN log' : log'[i].id = log[i].id \/ log'[i].id = NoId
         /\ \A i \in Recorded(log') :
              /\ i \in DOMAIN log' /\ i \in DOMAIN log
              /\ \/ i \in Recorded(log) /\ log'[i].stage = log[i].stage
                 \/ log[i].id = check[c].id
              /\ \/ log'[i].id = log[i].id
                 \/ log'[i].id = NoId /\ Above(log', i) # {}
              /\ Above(log, i) \subseteq Above(log', i)
<1> DEFINE me == check[c]
           u == Written(me)
<1>1. check[c].pc \in {"fetched", "confirmed"}
  BY FilesMoves DEF TrackInv
<1>2. log' = Trimmed(u)
  BY FilesMoves DEF TrackInv
<1>3. /\ me.stage \in Stages /\ me.seen \in Sights /\ me.stage # "internal"
      /\ me.id \in CheckIds /\ \A i \in Recorded(log) : log[i].id # me.id
      /\ \A d \in Checkers : /\ Running(d) /\ check[d].id = me.id => d = c
                             /\ Deciding(d) => check[d].head # me.id
  BY <1>1 DEF TrackInv, TypeInv, CheckType, Shaped, RunningInv, Running
<1>4. /\ Log(u) /\ DOMAIN u = DOMAIN log
      /\ \A i \in DOMAIN log : u[i].id = log[i].id /\ (log[i].id # me.id => u[i] = log[i])
      /\ Recorded(log) \subseteq Recorded(u)
  BY <1>3, WrittenLog DEF TrackInv
<1> HIDE DEF u
<1>5. /\ Log(log') /\ DOMAIN log' \subseteq DOMAIN u
      /\ \A i \in DOMAIN log' : /\ log'[i].stage = u[i].stage
                                /\ log'[i].id = u[i].id \/ (log'[i].id = NoId /\ Above(u, i) # {})
                                /\ Above(log', i) = Above(u, i)
      /\ Recorded(log') = Recorded(u) \cap DOMAIN log'
  <2> DEFINE t == Trimmed(u)
  <2>1. /\ Log(t) /\ DOMAIN t \subseteq DOMAIN u
        /\ \A i \in DOMAIN t : /\ t[i].stage = u[i].stage
                               /\ t[i].id = u[i].id \/ (t[i].id = NoId /\ Above(u, i) # {})
                               /\ Above(t, i) = Above(u, i)
        /\ Recorded(t) = Recorded(u) \cap DOMAIN t
    BY <1>4, TrimmedLog
  <2>2. log' = t
    BY <1>2
  <2> HIDE DEF t
  <2> QED
    BY <2>1, <2>2
<1> HIDE DEF me
<1>6. ASSUME NEW i \in Recorded(log')
      PROVE  /\ i \in DOMAIN log' /\ i \in DOMAIN log
             /\ \/ i \in Recorded(log) /\ log'[i].stage = log[i].stage
                \/ log[i].id = me.id
             /\ \/ log'[i].id = log[i].id
                \/ log'[i].id = NoId /\ Above(log', i) # {}
  <2>1. i \in DOMAIN log' /\ i \in DOMAIN log /\ u[i].stage # "running"
    BY <1>4, <1>5 DEF Recorded
  <2>2. log[i].id # me.id => i \in Recorded(log) /\ log'[i].stage = log[i].stage
    BY <1>4, <1>5, <2>1 DEF Recorded
  <2> QED
    BY <1>4, <1>5, <2>1, <2>2
<1>7. \A i \in Recorded(log') : Above(log, i) \subseteq Above(log', i)
  <2>1. \A i : Above(log, i) \subseteq Above(u, i)
    BY <1>4 DEF Above
  <2> QED
    BY <1>5, <1>6, <2>1
<1> QED
  BY <1>3, <1>4, <1>5, <1>6, <1>7 DEF me

\* A row that is filed falsifies no decision that is still computed from the head.
LEMMA FilesTracks ==
  ASSUME TrackInv, TypeInv', NEW c \in Checkers, Files(c)
  PROVE  TrackInv'
<1> DEFINE me == check[c]
<1>1. /\ OnlyMoves(c) /\ check[c].pc \in {"fetched", "confirmed"}
      /\ check'[c].pc = "recorded" /\ check'[c].id = NoId
      /\ check'[c].generation = check[c].generation /\ check'[c].settings = check[c].settings
      /\ UNCHANGED <<latch, generation, settings>>
      /\ check[c].generation = generation \/ missed'
  BY FilesMoves DEF TrackInv, environment, outbox
<1>2. /\ me.id \in CheckIds /\ \A i \in Recorded(log) : log[i].id # me.id
      /\ \A d \in Checkers : /\ Running(d) /\ check[d].id = me.id => d = c
                             /\ Deciding(d) => check[d].head # me.id
  BY FiledRows
<1>3. /\ Log(log') /\ DOMAIN log' \subseteq DOMAIN log
      /\ \A i \in DOMAIN log' : log'[i].id = log[i].id \/ log'[i].id = NoId
  BY FiledRows
<1>4. ASSUME NEW i \in Recorded(log')
      PROVE  /\ i \in DOMAIN log' /\ i \in DOMAIN log
             /\ \/ i \in Recorded(log) /\ log'[i].stage = log[i].stage
                \/ log[i].id = me.id
             /\ \/ log'[i].id = log[i].id
                \/ log'[i].id = NoId /\ Above(log', i) # {}
             /\ Above(log, i) \subseteq Above(log', i)
  BY FiledRows
<1> HIDE DEF me
<1>5. Recorded(log)' = Recorded(log') /\ Log(log)' /\ \A i : Above(log, i)' = Above(log', i)
  BY <1>3 DEF Recorded, Log, Above
<1>6. LogInv'
  <2>1. ASSUME NEW i \in DOMAIN log', NEW j \in DOMAIN log', log'[i].id = log'[j].id, log'[i].id # NoId
        PROVE  i = j
    <3>1. i \in DOMAIN log /\ j \in DOMAIN log /\ log[i].id = log[j].id /\ log[i].id # NoId
      BY <1>3, <2>1
    <3> QED
      BY <3>1 DEF TrackInv, LogInv
  <2>2. ASSUME NEW i \in Recorded(log'), log'[i].id = NoId PROVE Above(log', i) # {}
    <3>1. CASE log'[i].id = log[i].id
      <4>1. i \in Recorded(log)
        BY <1>2, <1>4, <2>2, <3>1, HeartbeatAssumption
      <4>2. Above(log, i) # {}
        BY <2>2, <3>1, <4>1 DEF TrackInv, LogInv
      <4> QED
        BY <1>4, <4>2
    <3> QED
      BY <1>4, <3>1
  <2> QED
    BY <1>5, <2>1, <2>2 DEF LogInv
<1>7. \A d \in Checkers : d # c => check'[d] = check[d]
  BY <1>1 DEF OnlyMoves
<1>8. RunningInv'
  <2>1. \A d \in Checkers : /\ Running(d)' => d # c /\ Running(d) /\ check'[d] = check[d]
                            /\ Deciding(d)' => d # c /\ Deciding(d) /\ check'[d] = check[d]
    BY <1>1, <1>7 DEF Running, Deciding
  <2>2. ASSUME NEW d \in Checkers, d # c, Running(d)
        PROVE  /\ check[d].id \in CheckIds /\ check[d].stage # "internal"
               /\ \A i \in Recorded(log') : log'[i].id # check[d].id
    <3>1. /\ check[d].id \in CheckIds /\ check[d].stage # "internal" /\ check[d].id # me.id
          /\ \A i \in Recorded(log) : log[i].id # check[d].id
      BY <1>2, <2>2 DEF TrackInv, RunningInv
    <3> QED
      BY <1>4, <3>1, HeartbeatAssumption
  <2>3. \A d \in Checkers : check'[d].pc \in {"recorded", "deciding"} => check'[d].id = NoId
    BY <1>1, <1>7 DEF TrackInv, RunningInv
  <2> QED
    BY <1>5, <2>1, <2>2, <2>3 DEF TrackInv, RunningInv
<1>9. HeadInv'
  <2>1. \A d \in Checkers : Deciding(d)' => Deciding(d) /\ check'[d] = check[d]
    BY <1>1, <1>7 DEF Deciding
  <2>2. ASSUME NEW d \in Checkers, Deciding(d), NEW i \in Recorded(log'), log'[i].id = check[d].head
        PROVE  check[d].kind = "alert" <=> log'[i].stage = "source_failure"
    <3>1. check[d].head \in CheckIds /\ check[d].head # me.id
      BY <1>2, <2>2 DEF TrackInv, HeadInv
    <3>2. log[i].id = check[d].head /\ i \in Recorded(log) /\ log'[i].stage = log[i].stage
      BY <1>4, <2>2, <3>1, HeartbeatAssumption
    <3> QED
      BY <2>2, <3>2 DEF TrackInv, HeadInv
  <2> QED
    BY <1>5, <2>1, <2>2 DEF TrackInv, HeadInv
<1>10. AllOn'
  BY <1>1, <1>7 DEF TrackInv, AllOn
<1>11. SettledInv'
  BY <1>1 DEF SettledInv, Waiting
<1> QED
  BY <1>6, <1>8, <1>9, <1>10, <1>11 DEF TrackInv

\* A check that finds nothing to say leaves a latch that says what the rows say.
LEMMA VerdictNone ==
  ASSUME Verdict(log, latch) = "none"
  PROVE  Tracks
BY DEF Verdict, Tracks

LEMMA DecideTracks ==
  ASSUME Targets # {}, TrackInv, TypeInv', NEW c \in Checkers, Decide(c)
  PROVE  TrackInv'
<1>1. UNCHANGED <<log, latch, missed, generation, settings>> /\ TypeInv
  BY DEF TrackInv, Decide, environment, outbox
<1>2. OnlyMoves(c) /\ check[c].pc = "recorded" /\ check[c].settings.urls = Targets
  BY <1>1, DecideMoves, AlwaysOn
<1>3. CASE check'[c].pc = "idle"
  <2>1. Verdict(log, latch) = "none"
    <3>1. Verdict(log, latch) = "none" \/ Unaddressed(Verdict(log, latch), Addressed(c))
      BY <1>1, <1>3, DecideMoves
    <3>2. Verdict(log, latch) = "alert" => Addressed(c) # {}
      BY <1>2 DEF Addressed
    <3> QED
      BY <3>1, <3>2 DEF Unaddressed
  <2>2. Tracks
    BY <2>1, VerdictNone
  <2>3. \A d \in Checkers : Proceeds(d)
    BY <1>2, <1>3 DEF Proceeds, OnlyMoves
  <2> QED
    BY <1>1, <2>2, <2>3, Unlogged
<1>4. CASE check'[c].pc # "idle"
  <2> DEFINE kind == Verdict(log, latch)
  <2>1. /\ check'[c].pc = "deciding" /\ check'[c].id = check[c].id
        /\ check'[c].generation = check[c].generation
        /\ check'[c].settings = check[c].settings
        /\ check'[c].kind = kind /\ kind \in {"alert", "recovered"}
        /\ check'[c].head = HeadId(log)
    BY <1>1, <1>4, DecideMoves
  <2>2. /\ kind = "alert" => OutageSeen(log) /\ latch = NoOutage
        /\ kind = "recovered" => HealthSeen(log) /\ latch # NoOutage
    BY DEF Verdict
  <2>3. Recorded(log) # {}
    BY <2>1, <2>2, NewestDecides DEF TrackInv, LogInv
  <2>4. PICK h \in Recorded(log) :
          /\ HeadId(log) = log[h].id /\ log[h].id \in CheckIds
          /\ \A i \in Recorded(log) : log[i].id = HeadId(log) => i = h
          /\ HealthSeen(log) <=> log[h].stage # "source_failure"
          /\ OutageSeen(log) => log[h].stage = "source_failure"
    BY <2>3, HeadRow DEF TrackInv
  <2> HIDE DEF kind
  <2>5. \A i \in Recorded(log) : log[i].id = HeadId(log) =>
          (kind = "alert" <=> log[i].stage = "source_failure")
    BY <2>1, <2>2, <2>4
  <2>6. \A d \in Checkers : d # c => check'[d] = check[d]
    BY <1>2 DEF OnlyMoves
  <2>7. /\ LogInv' /\ Recorded(log)' = Recorded(log)
        /\ HeadId(log)' = HeadId(log)
    BY <1>1 DEF TrackInv, LogInv, Log, Recorded, Above, HeadId
  <2>8. RunningInv'
    <3>1. \A d \in Checkers : Running(d)' => d # c /\ Running(d) /\ check'[d] = check[d]
      BY <2>1, <2>6 DEF Running
    <3>2. \A d \in Checkers : d # c /\ Deciding(d)' => Deciding(d) /\ check'[d] = check[d]
      BY <1>1, <2>6 DEF Deciding
    <3>3. \A d \in Checkers : Running(d) => check'[c].head # check[d].id
      BY <2>1, <2>4 DEF TrackInv, RunningInv
    <3>4. \A d \in Checkers : check'[d].pc \in {"recorded", "deciding"} => check'[d].id = NoId
      BY <1>2, <2>1, <2>6 DEF TrackInv, RunningInv
    <3>5. ASSUME NEW d \in Checkers, Running(d)'
          PROVE  /\ check'[d].id \in CheckIds /\ check'[d].stage # "internal"
                 /\ \A i \in Recorded(log) : log[i].id # check'[d].id
                 /\ \A b \in Checkers : /\ Running(b)' /\ check'[b].id = check'[d].id => b = d
                                        /\ Deciding(b)' => check'[b].head # check'[d].id
      BY <3>1, <3>2, <3>3, <3>5 DEF TrackInv, RunningInv
    <3> QED
      BY <1>1, <2>7, <3>4, <3>5 DEF RunningInv
  <2>9. HeadInv'
    <3>1. \A d \in Checkers : d # c /\ Deciding(d)' => Deciding(d) /\ check'[d] = check[d]
      BY <1>1, <2>6 DEF Deciding
    <3> QED
      BY <1>1, <2>1, <2>4, <2>5, <2>7, <3>1 DEF TrackInv, HeadInv
  <2>10. AllOn'
    BY <1>1, <1>2, <2>1, <2>6 DEF TrackInv, AllOn
  <2>11. SettledInv'
    <3>1. CASE check[c].generation = generation
      <4>1. Armed(c)'
        BY <1>1, <2>1, <2>2, <2>7, <3>1 DEF Armed, Deciding, kind
      <4> QED
        BY <4>1 DEF SettledInv, Waiting
    <3>2. CASE check[c].generation # generation
      <4>1. ~Waiting(c)
        BY <3>2 DEF Waiting, Armed, Deciding
      <4>2. /\ OutageSeen(log)' = OutageSeen(log) /\ HealthSeen(log)' = HealthSeen(log)
        BY <1>1 DEF OutageSeen, HealthSeen, Streak, Observed, Recorded, Above
      <4> QED
        BY <1>1, <2>6, <2>7, <4>1, <4>2, StaysSettled DEF TrackInv
    <3> QED
      BY <3>1, <3>2
  <2> QED
    BY <2>7, <2>8, <2>9, <2>10, <2>11 DEF TrackInv
<1> QED
  BY <1>3, <1>4

\* The claim of a decision from the head: the row it was computed from is still the newest.
LEMMA ClaimTracks ==
  ASSUME TrackInv, TypeInv', NEW c \in Checkers, ClaimAlert(c) \/ ClearAlert(c)
  PROVE  TrackInv'
<1>1. /\ OnlyMoves(c) /\ check'[c].pc = "idle"
      /\ UNCHANGED <<log, generation, settings>>
  BY OverMoves DEF TrackInv, ClaimAlert, ClearAlert, environment
<1>2. \A d \in Checkers : Proceeds(d)
  BY <1>1 DEF Proceeds, OnlyMoves
<1>3. AllOn' /\ LogInv' /\ RunningInv' /\ HeadInv'
  BY <1>1, <1>2, NothingFiled
<1>4. Deciding(c) /\ check[c].head = HeadId(log) /\ check[c].head \in CheckIds
  BY DEF ClaimAlert, ClearAlert, Fence, Deciding, TrackInv, HeadInv
<1>5. Recorded(log) # {}
  BY <1>4, HeartbeatAssumption DEF HeadId
<1>6. PICK h \in Recorded(log) :
        /\ HeadId(log) = log[h].id
        /\ HealthSeen(log) <=> log[h].stage # "source_failure"
        /\ OutageSeen(log) => log[h].stage = "source_failure"
  BY <1>5, HeadRow DEF TrackInv
<1>7. check[c].kind = "alert" <=> log[h].stage = "source_failure"
  BY <1>4, <1>6 DEF TrackInv, HeadInv
<1>8. \/ check[c].kind = "alert" /\ latch' \in Outages
      \/ check[c].kind = "recovered" /\ latch' = NoOutage
  BY DEF ClaimAlert, ClearAlert, FreeOutages
<1>9. /\ OutageSeen(log)' = OutageSeen(log) /\ HealthSeen(log)' = HealthSeen(log)
  BY <1>1 DEF OutageSeen, HealthSeen, Streak, Observed, Recorded, Above
<1>10. Tracks'
  BY <1>6, <1>7, <1>8, <1>9, HeartbeatAssumption DEF Tracks
<1> QED
  BY <1>3, <1>10 DEF TrackInv, SettledInv

\* A check that dies leaves its place without an id; the rows stay.
LEMMA LostRows ==
  ASSUME TrackInv, NEW c \in Checkers, check[c].pc # "idle", log' = Vacated(check[c])
  PROVE  /\ DOMAIN log' = DOMAIN log
         /\ \A i \in DOMAIN log : /\ log'[i].stage = log[i].stage
                                  /\ log'[i].id = log[i].id \/ log'[i].id = NoId
         /\ \A i \in Recorded(log) : log'[i].id = log[i].id
         /\ Recorded(log)' = Recorded(log) /\ \A i : Above(log, i)' = Above(log, i)
         /\ OutageSeen(log)' = OutageSeen(log) /\ HealthSeen(log)' = HealthSeen(log)
         /\ HeadId(log)' = HeadId(log) /\ Log(log)'
<1> DEFINE t == Vacated(check[c])
<1>2. log' = t /\ t = [i \in DOMAIN log |->
                   IF log[i].id = check[c].id THEN [log[i] EXCEPT !.id = NoId] ELSE log[i]]
  BY DEF Vacated
<1>3. Len(log) \in Nat /\ DOMAIN log = 1..Len(log) /\ \A i \in DOMAIN log : log[i] \in Entry
  BY LogPlaces DEF TrackInv, LogInv, Log
<1>4. \A k \in Entry : LET e == [k EXCEPT !.id = NoId]
                       IN  e \in Entry /\ e.id = NoId /\ e.stage = k.stage
  BY DEF Entry
<1>5. DOMAIN t = DOMAIN log
  BY <1>2
<1>6. ASSUME NEW i \in DOMAIN log
      PROVE  /\ t[i] \in Entry /\ t[i].stage = log[i].stage
             /\ log[i].id = check[c].id => t[i].id = NoId
             /\ log[i].id # check[c].id => t[i].id = log[i].id
  BY <1>2, <1>3, <1>4
<1>7. Log(t)
  <2>1. t \in [1..Len(log) -> Entry]
    BY <1>2, <1>3, <1>6
  <2>2. t \in Seq(Entry)
    BY <1>3, <2>1, SeqOf
  <2> QED
    BY <1>5, <1>6, <2>2 DEF Log, TrackInv, LogInv
<1> HIDE DEF t
<1>8. /\ Recorded(t) = Recorded(log) /\ \A i : Above(t, i) = Above(log, i)
      /\ OutageSeen(t) = OutageSeen(log) /\ HealthSeen(t) = HealthSeen(log)
  BY <1>5, <1>6, SameRows
<1>9. \A i \in Recorded(log) : t[i].id = log[i].id
  <2> SUFFICES ASSUME NEW i \in Recorded(log), log[i].id = check[c].id PROVE t[i].id = log[i].id
    BY <1>6 DEF Recorded
  <2>1. ~Running(c)
    BY DEF TrackInv, RunningInv
  <2>2. check[c].id = NoId
    BY <2>1 DEF TrackInv, TypeInv, CheckType, Shaped, RunningInv, Running
  <2> QED
    BY <1>6, <2>2 DEF Recorded
<1>10. HeadId(t) = HeadId(log)
  <2>1. Recorded(log) # {} => Newest(Recorded(log)) \in Recorded(log)
    BY NewestDecides DEF TrackInv, LogInv
  <2> QED
    BY <1>8, <1>9, <2>1 DEF HeadId
<1>11. /\ Recorded(log)' = Recorded(log) /\ \A i : Above(log, i)' = Above(log, i)
       /\ OutageSeen(log)' = OutageSeen(log) /\ HealthSeen(log)' = HealthSeen(log)
       /\ HeadId(log)' = HeadId(log) /\ Log(log)'
  <2>1. /\ Recorded(log)' = Recorded(t) /\ \A i : Above(log, i)' = Above(t, i)
        /\ OutageSeen(log)' = OutageSeen(t) /\ HealthSeen(log)' = HealthSeen(t)
        /\ HeadId(log)' = HeadId(t) /\ Log(log)'
    BY <1>2, <1>7 DEF HeadId, OutageSeen, HealthSeen, Streak, Observed, Recorded, Above, Log
  <2> QED
    BY <1>8, <1>10, <2>1
<1> QED
  BY <1>2, <1>5, <1>6, <1>9, <1>11

\* It leaves its heartbeat undone if its row was written.
LEMMA OverTracks ==
  ASSUME TrackInv, TypeInv', NEW c \in Checkers, OnlyMoves(c),
         check[c].pc # "idle", check'[c].pc = "idle", log' = Vacated(check[c]),
         UNCHANGED <<generation, settings, latch>>,
         missed => missed', check[c].pc \in {"recorded", "deciding"} => missed'
  PROVE  TrackInv'
<1>1. /\ OnlyMoves(c) /\ check[c].pc # "idle" /\ check'[c].pc = "idle"
      /\ UNCHANGED <<generation, settings, latch>>
      /\ missed => missed'
      /\ check[c].pc \in {"recorded", "deciding"} => missed'
  OBVIOUS
<1>2. /\ DOMAIN log' = DOMAIN log
      /\ \A i \in DOMAIN log : /\ log'[i].stage = log[i].stage
                               /\ log'[i].id = log[i].id \/ log'[i].id = NoId
  BY LostRows
<1>3. \A i \in Recorded(log) : log'[i].id = log[i].id
  BY LostRows
<1>4. /\ Recorded(log)' = Recorded(log) /\ \A i : Above(log, i)' = Above(log, i)
      /\ OutageSeen(log)' = OutageSeen(log) /\ HealthSeen(log)' = HealthSeen(log)
      /\ HeadId(log)' = HeadId(log) /\ Log(log)'
  BY LostRows
<1>5. LogInv'
  <2>1. ASSUME NEW i \in DOMAIN log', NEW j \in DOMAIN log', log'[i].id = log'[j].id, log'[i].id # NoId
        PROVE  i = j
    BY <1>2, <2>1 DEF TrackInv, LogInv
  <2>2. \A i \in Recorded(log) : log'[i].id = NoId => Above(log, i) # {}
    BY <1>3 DEF TrackInv, LogInv
  <2> QED
    BY <1>4, <2>1, <2>2 DEF LogInv
<1>6. /\ \A d \in Checkers : d # c => check'[d] = check[d]
      /\ \A d \in Checkers : /\ Running(d)' => d # c /\ Running(d) /\ check'[d] = check[d]
                             /\ Deciding(d)' => d # c /\ Deciding(d) /\ check'[d] = check[d]
  BY <1>1 DEF OnlyMoves, Running, Deciding
<1>7. RunningInv'
  <2>1. \A d \in Checkers : check'[d].pc \in {"recorded", "deciding"} => check'[d].id = NoId
    BY <1>1, <1>6 DEF TrackInv, RunningInv
  <2>2. ASSUME NEW d \in Checkers, Running(d)'
        PROVE  /\ check'[d].id \in CheckIds /\ check'[d].stage # "internal"
               /\ \A i \in Recorded(log) : log'[i].id # check'[d].id
               /\ \A b \in Checkers : /\ Running(b)' /\ check'[b].id = check'[d].id => b = d
                                      /\ Deciding(b)' => check'[b].head # check'[d].id
    BY <1>3, <1>6, <2>2 DEF TrackInv, RunningInv
  <2> QED
    BY <1>4, <2>1, <2>2 DEF RunningInv
<1>8. HeadInv'
  <2>1. \A i \in Recorded(log) : log'[i].id = log[i].id /\ log'[i].stage = log[i].stage
    BY <1>2, <1>3 DEF Recorded
  <2> QED
    BY <1>4, <1>6, <2>1 DEF TrackInv, HeadInv
<1>9. AllOn'
  BY <1>1, <1>6 DEF TrackInv, AllOn
<1>10. SettledInv'
  <2>1. CASE Running(c)
    <3>1. \A d \in Checkers : Waiting(d) => check'[d] = check[d]
      BY <1>6, <2>1, WaitingIsNot
    <3>2. missed => missed'
      BY <1>1
    <3> QED
      BY <1>1, <1>4, <3>1, <3>2, StaysSettled DEF TrackInv
  <2>2. CASE ~Running(c)
    BY <1>1, <2>2 DEF TrackInv, TypeInv, CheckType, Shaped, Running, SettledInv
  <2> QED
    BY <2>1, <2>2
<1> QED
  BY <1>5, <1>7, <1>8, <1>9, <1>10 DEF TrackInv

\* The places that checks of the old topic hold are all there is in the new topic's log.
LEMMA HeldPlaces ==
  ASSUME LogInv, Replace
  PROVE  /\ log' \in Seq(Entry) /\ \A i \in DOMAIN log' : log'[i].stage = "running"
         /\ \A i, j \in DOMAIN log' : log'[i].id = log'[j].id => i = j
<1> DEFINE n == Cardinality(Held)
<1>1. /\ Len(log) \in Nat /\ DOMAIN log = 1..Len(log) /\ IsFiniteSet(1..Len(log))
      /\ \A i \in DOMAIN log : log[i] \in Entry
  BY LogPlaces DEF LogInv, Log
<1>2. Held \in SUBSET (1..Len(log)) /\ \A i \in Held : log[i].stage = "running" /\ log[i].id # NoId
  BY <1>1 DEF Held
<1>3. n \in Nat
  BY <1>1, <1>2, FS_Subset, FS_CardinalityType
<1>4. PICK f \in [1..n -> Held] :
        /\ \A k, l \in DOMAIN f : k < l => f[k] < f[l]
        /\ log' = [k \in DOMAIN f |-> log[f[k]]]
  BY DEF Replace
<1> HIDE DEF n
<1>5. /\ log' \in [1..n -> Entry]
      /\ \A k \in 1..n : f[k] \in Held /\ log'[k] = log[f[k]]
  BY <1>1, <1>2, <1>4
<1>6. log' \in Seq(Entry) /\ DOMAIN log' = 1..n
  BY <1>3, <1>5, SeqOf
<1>7. ASSUME NEW i \in 1..n, NEW j \in 1..n, log'[i].id = log'[j].id PROVE i = j
  <2>a. f[i] \in Held /\ f[j] \in Held
    BY <1>5
  <2>b. f[i] \in 1..Len(log) /\ f[j] \in 1..Len(log)
    BY <1>2, <2>a
  <2>1. f[i] \in DOMAIN log /\ f[j] \in DOMAIN log /\ f[i] \in Nat /\ f[j] \in Nat
    BY <1>1, <2>b
  <2>2. log[f[i]].id = log[f[j]].id /\ log[f[i]].id # NoId
    BY <1>2, <1>5, <1>7
  <2>3. f[i] = f[j]
    BY <2>1, <2>2 DEF LogInv
  <2>4. ~(i < j) /\ ~(j < i)
    BY <1>4, <2>1, <2>3
  <2> QED
    BY <1>3, <2>4
<1>8. ASSUME NEW i \in 1..n PROVE log'[i].stage = "running"
  <2>1. f[i] \in Held /\ log'[i] = log[f[i]]
    BY <1>5
  <2>2. log[f[i]].stage = "running"
    BY <1>2, <2>1
  <2> QED
    BY <2>1, <2>2
<1> DEFINE t == log'
<1>9. t \in Seq(Entry) /\ DOMAIN t = 1..n
  BY <1>6
<1>10. /\ \A i \in 1..n : t[i].stage = "running"
       /\ \A i, j \in 1..n : t[i].id = t[j].id => i = j
  BY <1>7, <1>8
<1> HIDE DEF t
<1>11. /\ \A i \in DOMAIN t : t[i].stage = "running"
       /\ \A i, j \in DOMAIN t : t[i].id = t[j].id => i = j
  BY <1>9, <1>10
<1> QED
  BY <1>9, <1>11 DEF t

\* A new topic begins without rows, and no check decides for it.
LEMMA ReplaceTracks ==
  ASSUME TrackInv, TypeInv', Replace
  PROVE  TrackInv'
<1>1. /\ latch' = NoOutage /\ UNCHANGED <<settings, check>>
      /\ \A c \in Checkers : check[c].pc # "idle" => check[c].generation # generation'
  BY DEF Replace
<1>2. \A c \in Checkers : ~Deciding(c)' /\ (Running(c)' <=> Running(c))
  BY <1>1 DEF Deciding, Running
<1>3. LogInv' /\ Recorded(log') = {} /\ Recorded(log)' = {} /\ Log(log')
  BY HeldPlaces DEF TrackInv, LogInv, Log, Recorded
<1>4. AllOn'
  BY <1>1 DEF TrackInv, AllOn
<1>5. RunningInv'
  BY <1>1, <1>2, <1>3 DEF TrackInv, RunningInv
<1>6. HeadInv'
  BY <1>2 DEF HeadInv
<1>7. Tracks'
  <2> DEFINE t == log'
  <2>1. Log(t) /\ Recorded(t) = {}
    BY <1>3
  <2> HIDE DEF t
  <2>2. ~OutageSeen(t)
    BY <2>1, NewestDecides
  <2>3. OutageSeen(log)' = OutageSeen(t)
    BY DEF OutageSeen, Streak, Observed, Recorded, Above, t
  <2> QED
    BY <1>1, <2>2, <2>3 DEF Tracks
<1> QED
  BY <1>3, <1>4, <1>5, <1>6, <1>7 DEF TrackInv, SettledInv

LEMMA TrackInit == Targets # {} /\ Init => TrackInv
<1> SUFFICES ASSUME Init PROVE TrackInv
  OBVIOUS
<1>1. TypeInv
  BY InitTypes
<1>2. /\ log = <<>> /\ latch = NoOutage /\ settings = [on |-> TRUE, urls |-> Targets]
      /\ \A c \in Checkers : check[c].pc = "idle"
  BY NoCheckShaped DEF Init
<1>3. AllOn
  BY <1>2 DEF AllOn
<1>4. LogInv /\ Recorded(log) = {}
  BY <1>2 DEF LogInv, Log, Recorded
<1>5. RunningInv /\ HeadInv
  BY <1>2 DEF RunningInv, HeadInv, Running, Deciding
<1>6. ~OutageSeen(log)
  BY <1>4, NewestDecides DEF LogInv
<1> QED
  BY <1>1, <1>2, <1>3, <1>4, <1>5, <1>6 DEF TrackInv, SettledInv, Tracks

LEMMA CheckTracks ==
  ASSUME Targets # {}, "pipeline_failure" \notin Events, TrackInv, TypeInv',
         NEW c \in Checkers, CheckStep(c)
  PROVE  TrackInv'
<1>1. TypeInv
  BY DEF TrackInv
<1>2. ASSUME OnlyMoves(c), UNCHANGED <<log, latch, missed, generation, settings>>, Proceeds(c),
             ~Waiting(c)
      PROVE  TrackInv'
  <2>1. \A d \in Checkers : Proceeds(d) /\ (Waiting(d) => check'[d] = check[d])
    BY <1>2 DEF OnlyMoves, Proceeds
  <2> QED
    BY <1>2, <2>1, Unlogged
<1>3. CASE Fetch(c)
  <2>1. /\ OnlyMoves(c) /\ Same(c) /\ check[c].pc = "fetching" /\ check'[c].pc = "fetched"
        /\ check'[c].id = check[c].id /\ check'[c].stage # "internal"
    BY <1>1, <1>3, FetchMoves
  <2>2. Proceeds(c) /\ ~Waiting(c)
    BY <2>1, WaitingIsNot DEF Proceeds, Running, Same
  <2>3. UNCHANGED <<log, latch, missed, generation, settings>>
    BY <1>3 DEF Fetch, environment, outbox
  <2> QED
    BY <1>2, <2>1, <2>2, <2>3
<1>4. CASE Vanishes(c)
  <2>1. /\ OnlyMoves(c) /\ check[c].pc \in {"fetched", "confirmed"} /\ check'[c].pc = "idle"
        /\ log' = Vacated(check[c]) /\ UNCHANGED <<generation, settings, latch, missed>>
    BY <1>1, <1>4, VanishesMoves DEF environment, outbox
  <2> QED
    BY <2>1, OverTracks
<1>7. CASE Confirm(c)
  <2>1. /\ OnlyMoves(c) /\ Same(c) /\ check[c].pc = "fetched" /\ check'[c].pc = "confirmed"
        /\ check'[c].id = check[c].id /\ check'[c].stage = check[c].stage
    BY <1>1, <1>7, ConfirmMoves
  <2>2. check[c].stage # "internal"
    BY <2>1 DEF TrackInv, RunningInv, Running
  <2>3. Proceeds(c) /\ ~Waiting(c)
    BY <2>1, <2>2, WaitingIsNot DEF Proceeds, Running, Same
  <2>4. UNCHANGED <<log, latch, missed, generation, settings>>
    BY <1>7 DEF Confirm, environment, outbox
  <2> QED
    BY <1>2, <2>1, <2>3, <2>4
<1>5. CASE LoseClaim(c)
  <2>1. OnlyMoves(c) /\ check'[c].pc = "idle"
    BY <1>1, <1>5, OverMoves DEF LoseClaim
  <2>2. Proceeds(c) /\ ~Waiting(c)
    BY <1>5, <2>1 DEF Proceeds, LoseClaim, Waiting, Armed, Deciding, Fence
  <2>3. UNCHANGED <<log, latch, missed, generation, settings>>
    BY <1>5 DEF LoseClaim, environment, outbox
  <2> QED
    BY <1>2, <2>1, <2>2, <2>3
<1>6. ~FetchRaises(c) /\ ~DisableHere(c)
  BY AlwaysOn DEF FetchRaises, DisableHere
<1> QED
  BY <1>3, <1>4, <1>5, <1>6, <1>7, BeginTracks, FilesTracks, DecideTracks, ClaimTracks
     DEF CheckStep, Files, Vanishes

LEMMA TrackNext ==
  ASSUME Targets # {}, "pipeline_failure" \notin Events, "configure" \notin Events
  PROVE  TrackInv /\ [Next]_vars => TrackInv'
<1> SUFFICES ASSUME TrackInv, [Next]_vars PROVE TrackInv'
  OBVIOUS
<1>1. TypeInv'
  BY StepTypes DEF TrackInv
<1>2. ASSUME UNCHANGED <<log, latch, missed, generation, settings, check>> PROVE TrackInv'
  <2>1. \A d \in Checkers : Proceeds(d)
    BY <1>2 DEF Proceeds
  <2> QED
    BY <1>1, <1>2, <2>1, Unlogged
<1>3. ASSUME NEW m \in Messages, Deliver(m) PROVE TrackInv'
  BY <1>2, <1>3, DeliverTypes DEF TrackInv, environment
<1>4. CASE WorldTurns \/ UNCHANGED vars
  BY <1>2, <1>4 DEF WorldTurns, vars, outbox
<1>5. ~SaveSettings
  BY DEF SaveSettings
<1>6. ASSUME NEW c \in Checkers, Lose(c) PROVE TrackInv'
  <2>1. /\ OnlyMoves(c) /\ check'[c].pc = "idle"
        /\ check[c].pc # "idle" /\ log' = Vacated(check[c])
        /\ UNCHANGED <<generation, settings, latch>>
        /\ missed => missed'
        /\ check[c].pc \in {"recorded", "deciding"} => missed'
    BY <1>6, OverMoves DEF TrackInv, Lose, outbox
  <2> QED
    BY <1>1, <2>1, OverTracks
<1> QED
  BY <1>1, <1>3, <1>4, <1>5, <1>6, CheckTracks, ReplaceTracks DEF Next

\* Once the heartbeats of the recorded checks are done, an outage that the rows show is
\* announced and none is that the rows show is over: whatever checks overlap, file late or
\* lose their claim, and whoever takes the topic's row, as long as the settings stand and
\* no check breaks inside the pipeline (its row is a head that says nothing, under which a
\* healthy row can be filed between a decision and its claim).
THEOREM LatchSaysWhatRowsSay ==
  ASSUME "configure" \notin Events, "pipeline_failure" \notin Events, Targets # {}
  PROVE  Spec => []LatchTracksLog
<1>1. TrackInv => LatchTracksLog
  BY DEF TrackInv, SettledInv, Waiting, Armed, Deciding, LatchTracksLog, Quiet, Tracks
<1>2. Init => TrackInv
  BY TrackInit
<1>3. TrackInv /\ [Next]_vars => TrackInv'
  BY TrackNext
<1> QED
  BY <1>1, <1>2, <1>3, PTL DEF Spec

(***************************************************************************)
(* The queue is used as it allows                                          *)
(***************************************************************************)

\* The decisions to clear the latch that a claim may still carry out
Clearing(c) == Deciding(c) /\ check[c].kind = "recovered" /\ check[c].head = HeadId(log)

\* They clear the outage that stands.
ClearingInv == latch # NoOutage => \A c \in Checkers : Clearing(c) => check[c].outage = latch

\* While an outage stands announced, nobody has been told that it is over.
NotOverInv == latch # NoOutage => \A t \in Targets : intents[<<"recovery", latch, t>>] = "none"

UseInv == TrackInv /\ ClearingInv /\ NotOverInv

LEMMA BeginHead ==
  ASSUME TrackInv, NEW c \in Checkers, Begin(c)
  PROVE  HeadId(log)' = HeadId(log)
<1> DEFINE e == [id |-> FreshId, stage |-> "running", seen |-> "unknown"]
           t == <<e>> \o log
<1>1. e \in Entry /\ e.stage = "running"
  BY BeginMoves DEF TrackInv, FreeIds, Entry, Sights
<1>2. Log(log)
  BY DEF TrackInv, LogInv
<1> HIDE DEF e
<1>3. HeadId(t) = HeadId(log)
  BY <1>1, <1>2, PlaceAdded
<1>4. log' = t
  BY DEF Begin, e
<1> HIDE DEF t
<1> QED
  BY <1>3, <1>4 DEF HeadId, Recorded

\* The head is the row it was, or the one that was filed.
LEMMA FilesHead ==
  ASSUME TrackInv, NEW c \in Checkers, Files(c)
  PROVE  HeadId(log)' \in {HeadId(log), check[c].id, NoId}
<1> DEFINE h == Newest(Recorded(log'))
           n == Newest(Recorded(log))
<1>1. HeadId(log)' = HeadId(log')
  BY DEF HeadId, Recorded
<1>2. CASE Recorded(log') = {}
  BY <1>1, <1>2 DEF HeadId
<1>3. CASE Recorded(log') # {}
  <2>1. h \in Recorded(log') /\ Above(log', h) = {}
    <3>1. Log(log')
      BY FiledRows
    <3> DEFINE t == log'
    <3> HIDE DEF t
    <3>2. Log(t) /\ Recorded(t) # {} => Newest(Recorded(t)) \in Recorded(t) /\ Above(t, Newest(Recorded(t))) = {}
      BY NewestDecides
    <3> QED
      BY <1>3, <3>1, <3>2 DEF t
  <2>2. HeadId(log') = log'[h].id
    BY <1>3 DEF HeadId
  <2> HIDE DEF h
  <2>3. /\ h \in Recorded(log) \/ log[h].id = check[c].id
        /\ log'[h].id = log[h].id
        /\ Above(log, h) = {}
    BY <2>1, FiledRows
  <2>4. CASE h \in Recorded(log)
    <3>1. Recorded(log) \in SUBSET Nat
      BY LogPlaces DEF TrackInv, LogInv
    <3>2. n \in Recorded(log) /\ \A j \in Recorded(log) : n <= j
      BY <2>4, <3>1, NewestIsLeast
    <3>3. HeadId(log) = log[n].id
      BY <2>4 DEF HeadId
    <3> HIDE DEF n
    <3>4. ~(n < h)
      BY <2>3, <3>2 DEF Above
    <3>5. n = h
      BY <2>4, <3>1, <3>2, <3>4
    <3> QED
      BY <1>1, <2>2, <2>3, <3>3, <3>5
  <2> QED
    BY <1>1, <2>2, <2>3, <2>4
<1> QED
  BY <1>2, <1>3

\* A step that queues no recovery, sets no latch, and arms no decision.
LEMMA NothingArmed ==
  ASSUME UseInv, latch' \in {latch, NoOutage},
         \A t \in Targets : intents[<<"recovery", latch, t>>] = "none"
                            => intents'[<<"recovery", latch, t>>] = "none",
         \A d \in Checkers : Clearing(d)' => Clearing(d) /\ check'[d].outage = check[d].outage
  PROVE  ClearingInv' /\ NotOverInv'
BY DEF UseInv, ClearingInv, NotOverInv

\* Of a check that decides nothing, and a head that no decision names.
LEMMA HeadMoves ==
  ASSUME UseInv, NEW c \in Checkers, OnlyMoves(c), check'[c].pc # "deciding",
         UNCHANGED <<generation, latch, intents>>,
         \A d \in Checkers : Deciding(d) => HeadId(log)' = HeadId(log) \/ HeadId(log)' # check[d].head
  PROVE  ClearingInv' /\ NotOverInv'
<1>1. ASSUME NEW d \in Checkers, Clearing(d)' PROVE Clearing(d) /\ check'[d].outage = check[d].outage
  <2>1. d # c /\ check'[d] = check[d]
    BY <1>1 DEF Clearing, Deciding, OnlyMoves
  <2> QED
    BY <1>1, <2>1 DEF Clearing, Deciding
<1> QED
  BY <1>1, NothingArmed

LEMMA DecideUses ==
  ASSUME UseInv, NEW c \in Checkers, Decide(c)
  PROVE  ClearingInv' /\ NotOverInv'
<1>1. UNCHANGED <<log, generation, latch, intents>> /\ TypeInv
  BY DEF UseInv, TrackInv, Decide, environment, outbox
<1>2. OnlyMoves(c)
  BY <1>1, DecideMoves
<1>3. \/ check'[c].pc = "idle"
      \/ check'[c].kind = "alert"
      \/ check'[c].kind = "recovered" /\ check'[c].outage = latch
  BY <1>1, DecideMoves
<1>4. HeadId(log)' = HeadId(log)
  BY <1>1 DEF HeadId, Recorded
<1>5. \A d \in Checkers : d # c /\ Clearing(d)' => Clearing(d) /\ check'[d] = check[d]
  BY <1>1, <1>2, <1>4 DEF OnlyMoves, Clearing, Deciding
<1>6. Clearing(c)' => check'[c].outage = latch
  BY <1>3 DEF Clearing, Deciding
<1>7. ClearingInv'
  BY <1>1, <1>5, <1>6 DEF UseInv, ClearingInv
<1> QED
  BY <1>1, <1>7 DEF UseInv, NotOverInv

\* An outage is announced from a head that no decision to recover was computed from.
LEMMA ClaimUses ==
  ASSUME UseInv, NEW c \in Checkers, ClaimAlert(c)
  PROVE  ClearingInv' /\ NotOverInv'
<1>1. /\ OnlyMoves(c) /\ check'[c].pc = "idle" /\ UNCHANGED <<log, generation>>
  BY OverMoves DEF UseInv, TrackInv, ClaimAlert, environment
<1>2. Deciding(c) /\ check[c].kind = "alert" /\ check[c].head = HeadId(log)
  BY DEF ClaimAlert, Fence, Deciding
<1>3. TrackInv
  BY DEF UseInv
<1>4. check[c].head \in CheckIds
  BY <1>2, <1>3 DEF TrackInv, HeadInv
<1>5. Recorded(log) # {}
  BY <1>2, <1>4, HeartbeatAssumption DEF HeadId
<1>6. PICK h \in Recorded(log) : HeadId(log) = log[h].id
  BY <1>3, <1>5, HeadRow DEF TrackInv
<1>7. \A d \in Checkers : ~Clearing(d)
  BY <1>2, <1>3, <1>6 DEF TrackInv, HeadInv, Clearing
<1>8. \A d \in Checkers : Clearing(d)' => Clearing(d)
  BY <1>1 DEF Clearing, Deciding, OnlyMoves, HeadId, Recorded
<1>9. PICK o \in Outages : latch' = o /\ intents' = AlertIntents(o, check[c].addressees)
  BY DEF ClaimAlert, FreeOutages
<1>10. ASSUME NEW t \in Targets PROVE intents'[<<"recovery", o, t>>] = "none"
  <2>1. <<"recovery", o, t>> \in Messages /\ <<"recovery", o, t>>[2] = o
    BY MessageShape
  <2>2. <<"recovery", o, t>> \notin ToSend("alert", o, check[c].addressees)
    BY MessageFor
  <2> QED
    BY <1>9, <2>1, <2>2 DEF AlertIntents
<1> QED
  BY <1>7, <1>8, <1>9, <1>10 DEF ClearingInv, NotOverInv

LEMMA DeliverUses ==
  ASSUME UseInv, NEW m \in Messages, Deliver(m)
  PROVE  ClearingInv' /\ NotOverInv'
<1>1. /\ UNCHANGED <<generation, log, latch, check>>
      /\ intents[m] \in {"pending", "sending"}
      /\ \A n \in Messages : n # m => intents'[n] = intents[n]
  BY DeliverStep, DeliverTypes DEF UseInv, TrackInv, environment
<1>2. \A t \in Targets : intents[<<"recovery", latch, t>>] = "none"
                         => <<"recovery", latch, t>> # m
  BY <1>1
<1>3. CASE latch = NoOutage
  BY <1>1, <1>3 DEF ClearingInv, NotOverInv
<1>4. CASE latch # NoOutage
  <2>1. \A t \in Targets : <<"recovery", latch, t>> \in Messages
    BY <1>4, MessageShape DEF UseInv, TrackInv, TypeInv
  <2>2. \A d \in Checkers : Clearing(d)' => Clearing(d) /\ check'[d].outage = check[d].outage
    BY <1>1 DEF Clearing, Deciding, HeadId, Recorded
  <2> QED
    BY <1>1, <1>2, <2>1, <2>2, NothingArmed
<1> QED
  BY <1>3, <1>4

LEMMA CheckUses ==
  ASSUME "pipeline_failure" \notin Events, UseInv, NEW c \in Checkers, CheckStep(c)
  PROVE  ClearingInv' /\ NotOverInv'
<1>1. TrackInv /\ TypeInv
  BY DEF UseInv, TrackInv
<1>2. ~FetchRaises(c) /\ ~DisableHere(c)
  BY <1>1, AlwaysOn DEF FetchRaises, DisableHere
<1>3. CASE Begin(c)
  <2>1. OnlyMoves(c) /\ check'[c].pc = "fetching"
    BY <1>1, <1>3, BeginMoves
  <2> QED
    BY <1>1, <1>3, <2>1, BeginHead, HeadMoves DEF Begin, environment, outbox
<1>4. CASE Fetch(c)
  <2>1. OnlyMoves(c) /\ check'[c].pc = "fetched"
    BY <1>1, <1>4, FetchMoves
  <2>2. UNCHANGED <<log, generation, latch, intents>>
    BY <1>4 DEF Fetch, environment, outbox
  <2>3. HeadId(log)' = HeadId(log)
    BY <2>2 DEF HeadId, Recorded
  <2> QED
    BY <2>1, <2>2, <2>3, HeadMoves
<1>5. CASE Files(c)
  <2>1. OnlyMoves(c) /\ check'[c].pc # "deciding" /\ UNCHANGED <<generation, latch, intents>>
    BY <1>1, <1>5, FilesMoves DEF environment, outbox
  <2>2. ASSUME NEW d \in Checkers, Deciding(d)
        PROVE  HeadId(log)' = HeadId(log) \/ HeadId(log)' # check[d].head
    <3>1. HeadId(log)' \in {HeadId(log), check[c].id, NoId}
      BY <1>1, <1>5, FilesHead
    <3>2. check[d].head \in CheckIds /\ check[d].head # check[c].id
      BY <1>1, <1>5, <2>2, FiledRows DEF TrackInv, HeadInv
    <3> QED
      BY <3>1, <3>2, HeartbeatAssumption
  <2> QED
    BY <2>1, <2>2, HeadMoves
<1>8. CASE Vanishes(c)
  <2>1. /\ OnlyMoves(c) /\ check[c].pc \in {"fetched", "confirmed"} /\ check'[c].pc = "idle"
        /\ log' = Vacated(check[c]) /\ UNCHANGED <<generation, latch, intents>>
    BY <1>1, <1>8, VanishesMoves DEF environment, outbox
  <2>2. HeadId(log)' = HeadId(log)
    BY <1>1, <2>1, LostRows
  <2> QED
    BY <2>1, <2>2, HeadMoves
<1>9. CASE Confirm(c)
  <2>1. OnlyMoves(c) /\ check'[c].pc = "confirmed"
    BY <1>1, <1>9, ConfirmMoves
  <2>2. UNCHANGED <<log, generation, latch, intents>>
    BY <1>9 DEF Confirm, environment, outbox
  <2>3. HeadId(log)' = HeadId(log)
    BY <2>2 DEF HeadId, Recorded
  <2> QED
    BY <2>1, <2>2, <2>3, HeadMoves
<1>6. CASE LoseClaim(c)
  <2>1. OnlyMoves(c) /\ check'[c].pc = "idle"
    BY <1>1, <1>6, OverMoves DEF LoseClaim
  <2>2. UNCHANGED <<log, generation, latch, intents>>
    BY <1>6 DEF LoseClaim, environment, outbox
  <2>3. HeadId(log)' = HeadId(log)
    BY <2>2 DEF HeadId, Recorded
  <2> QED
    BY <2>1, <2>2, <2>3, HeadMoves
<1>7. CASE ClearAlert(c)
  BY <1>7 DEF ClearAlert, ClearingInv, NotOverInv
<1> QED
  BY <1>2, <1>3, <1>4, <1>5, <1>6, <1>7, <1>8, <1>9, DecideUses, ClaimUses
     DEF CheckStep, Files, Vanishes

LEMMA UseNext ==
  ASSUME Targets # {}, "pipeline_failure" \notin Events, "configure" \notin Events,
         "replace" \notin Events
  PROVE  UseInv /\ [Next]_vars => UseInv'
<1> SUFFICES ASSUME UseInv, [Next]_vars PROVE UseInv'
  OBVIOUS
<1>1. TrackInv'
  BY TrackNext DEF UseInv
<1>2. ASSUME NEW c \in Checkers, Lose(c) PROVE ClearingInv' /\ NotOverInv'
  <2>1. OnlyMoves(c) /\ check'[c].pc = "idle" /\ UNCHANGED <<generation, latch, intents>>
    BY <1>2, OverMoves DEF UseInv, TrackInv, Lose, outbox
  <2>2. HeadId(log)' = HeadId(log)
    BY <1>2, LostRows DEF UseInv, Lose
  <2> QED
    BY <2>1, <2>2, HeadMoves
<1>3. CASE WorldTurns \/ UNCHANGED vars
  <2>1. UNCHANGED <<log, generation, latch, intents, check>>
    BY <1>3 DEF WorldTurns, vars, outbox
  <2> QED
    BY <1>1, <2>1 DEF UseInv, ClearingInv, NotOverInv, Clearing, Deciding, HeadId, Recorded
<1>4. ~SaveSettings /\ ~Replace
  BY DEF SaveSettings, Replace
<1> QED
  BY <1>1, <1>2, <1>3, <1>4, CheckUses, DeliverUses DEF Next, UseInv

\* The transaction that announces an outage revokes what is queued, forgets what bore its
\* name, and queues the alerts.
LEMMA ClaimWrites ==
  ASSUME UseInv, NEW c \in Checkers, ClaimAlert(c)
  PROVE  Queue!Next
<1>1. PICK o \in FreeOutages : /\ intents' = AlertIntents(o, check[c].addressees)
                               /\ told' = {m \in told : m[2] # o}
  BY DEF ClaimAlert
<1> DEFINE revoked == {m \in Messages : intents[m] = "pending" /\ m[2] # o}
           forgotten == {m \in Messages : m[2] = o}
           queued == {m \in Messages : m \in ToSend("alert", o, check[c].addressees)}
<1>2. \A m \in queued : m[2] = o
  BY DEF ToSend
<1>3. \A m \in forgotten : intents[m] \notin {"pending", "sending"}
  BY DEF FreeOutages
<1>4. told' = told \ forgotten
  BY <1>1 DEF UseInv, TrackInv, TypeInv
<1>5. intents' = [m \in Messages |->
                    IF m \in queued THEN "pending"
                    ELSE IF m \in forgotten THEN "none"
                    ELSE IF m \in revoked THEN "revoked" ELSE intents[m]]
  BY <1>1 DEF AlertIntents, Revoked
<1>6. \A m \in queued : m \in forgotten
  BY <1>2
<1>7. \A m \in revoked : intents[m] = "pending"
  OBVIOUS
<1>8. revoked \in SUBSET Messages /\ forgotten \in SUBSET Messages /\ queued \in SUBSET Messages
  OBVIOUS
<1> HIDE DEF revoked, forgotten, queued
<1>9. Queue!Write(revoked, forgotten, queued)
  BY <1>3, <1>4, <1>5, <1>6, <1>7 DEF Queue!Write
<1> QED
  BY <1>8, <1>9 DEF Queue!Next

\* The one that clears it revokes what is queued and queues the all-clears, of which none
\* was queued before.
LEMMA ClearWrites ==
  ASSUME UseInv, NEW c \in Checkers, ClearAlert(c)
  PROVE  Queue!Next
<1>1. check[c].outage = latch /\ latch \in Outages
  BY DEF UseInv, TrackInv, TypeInv, ClearingInv, Clearing, Deciding, ClearAlert, Fence
<1> DEFINE revoked == {m \in Messages : intents[m] = "pending"}
           queued == {m \in Messages : m \in ToSend("recovery", latch, check[c].addressees)}
<1>2. \A m \in queued : intents[m] = "none"
  <2> SUFFICES ASSUME NEW m \in queued PROVE intents[m] = "none"
    OBVIOUS
  <2>1. PICK t \in check[c].addressees : m = <<"recovery", latch, t>>
    BY DEF ToSend
  <2>2. t \in Targets
    BY <2>1 DEF UseInv, TrackInv, TypeInv, CheckType, Shaped
  <2> QED
    BY <1>1, <2>1, <2>2, HeartbeatAssumption DEF UseInv, NotOverInv
<1>3. intents' = [m \in Messages |->
                    IF m \in queued THEN "pending"
                    ELSE IF m \in {} THEN "none"
                    ELSE IF m \in revoked THEN "revoked" ELSE intents[m]]
  BY <1>1 DEF ClearAlert, Revoked
<1>4. told' = told \ {}
  BY DEF ClearAlert
<1>5. \A m \in revoked : intents[m] = "pending"
  OBVIOUS
<1>6. revoked \in SUBSET Messages /\ {} \in SUBSET Messages /\ queued \in SUBSET Messages
  OBVIOUS
<1> HIDE DEF revoked, queued
<1>7. Queue!Write(revoked, {}, queued)
  BY <1>2, <1>3, <1>4, <1>5 DEF Queue!Write
<1> QED
  BY <1>6, <1>7 DEF Queue!Next

LEMMA NextUses ==
  ASSUME "configure" \notin Events, "replace" \notin Events, UseInv, [Next]_vars
  PROVE  [Queue!Next]_(Queue!vars)
<1>1. ASSUME NEW c \in Checkers, CheckStep(c) PROVE Queue!Next \/ UNCHANGED Queue!vars
  <2>1. ~DisableHere(c)
    BY AlwaysOn DEF UseInv, DisableHere
  <2>2. CASE \/ Begin(c) \/ Fetch(c) \/ FetchRaises(c) \/ Abort(c) \/ Commit(c) \/ Confirm(c)
             \/ RecordResult(c) \/ Orphaned(c) \/ Decide(c) \/ LoseClaim(c)
    BY <2>2 DEF Begin, Fetch, FetchRaises, Abort, Commit, Confirm, RecordResult, Orphaned,
                Decide, LoseClaim, outbox, Queue!vars
  <2> QED
    BY <1>1, <2>1, <2>2, ClaimWrites, ClearWrites DEF CheckStep
<1>2. ASSUME NEW m \in Messages, Deliver(m) PROVE Queue!Next
  <2>1. Queue!Claim(m) \/ Queue!Accept(m) \/ Queue!Settle(m)
    BY <1>2 DEF Deliver, Send, Accept, Sent, GivenUp, QueuedAgain, Queue!Settle
  <2> QED
    BY <2>1 DEF Queue!Next
<1>3. CASE WorldTurns \/ UNCHANGED vars \/ \E c \in Checkers : Lose(c)
  BY <1>3 DEF WorldTurns, Lose, vars, outbox, Queue!vars
<1>4. ~SaveSettings /\ ~Replace
  BY DEF SaveSettings, Replace
<1> QED
  BY <1>1, <1>2, <1>3, <1>4 DEF Next

\* The heartbeat asks of the delivery queue what the queue promises and no more: no step of
\* it queues a message that has a row, forgets one that may still be sent, or revokes one
\* that is being sent.  For the all-clear that takes the invariant: of two overlapping checks
\* that both decide that an outage is over only one clears it, and no decision about an
\* earlier outage clears a later one.  The conditions are those of LatchSaysWhatRowsSay, and
\* that the topic is not deleted, which takes its queued messages with it.
THEOREM QueueUsedAsPromised ==
  ASSUME "configure" \notin Events, "replace" \notin Events, "pipeline_failure" \notin Events,
         Targets # {}
  PROVE  Spec => Queue!Spec
<1>1. Init => UseInv /\ Queue!Init
  <2> SUFFICES ASSUME Init PROVE UseInv /\ Queue!Init
    OBVIOUS
  <2>1. TrackInv
    BY TrackInit
  <2>2. latch = NoOutage /\ intents = [m \in Messages |-> "none"] /\ told = {}
    BY DEF Init
  <2> QED
    BY <2>1, <2>2 DEF UseInv, ClearingInv, NotOverInv, Queue!Init
<1>2. UseInv /\ [Next]_vars => UseInv'
  BY UseNext
<1>3. UseInv /\ [Next]_vars => [Queue!Next]_(Queue!vars)
  BY NextUses
<1> QED
  BY <1>1, <1>2, <1>3, PTL DEF Spec, Queue!Spec
=============================================================================
