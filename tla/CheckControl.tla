---------------------------- MODULE CheckControl ----------------------------
(***************************************************************************)
(* Who may check a topic, and when an accepted manual check is answered.   *)
(*                                                                         *)
(* A manual check is a durable check_intents row, committed before the     *)
(* handler answers.  Its background task, or any later check cycle of any  *)
(* process (the server's minute tick, `check-all` of the CLI), claims it,  *)
(* runs check_topic under the process's per-topic guard, and records what  *)
(* came of it under its claim token.  Due checks of the cycle and checks   *)
(* asked for through the JSON API take the same guard; the API's has no    *)
(* deadline.  Processes crash; claims of the dead are re-armed when their  *)
(* wall-clock stamp is old, and a clock that jumps makes them old at once. *)
(*                                                                         *)
(* One topic.  Time passes in units: CheckTimeout units are the deadline   *)
(* of a check (540 s), StaleAfter units the age (600 s, 10 min) at which a *)
(* guard entry is evicted and a claim re-armed.                            *)
(***************************************************************************)
EXTENDS Naturals, FiniteSets

CONSTANTS
    Intents,        \* check_intents rows
    Server, Cli,    \* the two processes
    Task,           \* marks the threads that are background tasks of the server
    Due, Api,       \* guard holders that are not intent runs
    None,
    MaxAttempts,    \* CheckIntent.max_attempts
    CheckTimeout,   \* CHECK_TIMEOUT_SECONDS, in units
    StaleAfter,     \* clear_stale(600) and _CLAIM_STALE_AFTER, in units
    MaxResults,     \* bound: check results
    MaxCrashes,     \* bound: process crashes and cancelled cycles
    MaxJumps,       \* bound: jumps of the wall clock
    WithApi         \* whether API checks happen

Procs == {Server, Cli}
Threads == (Procs \union {Task}) \X Intents
Proc(t) == IF t[1] = Task THEN Server ELSE t[1]

\* A row of check_intents: attempts counts claims and numbers the claim tokens, ripe
\* stands for next_attempt_at, base for baseline_check_id, age for claimed_at.
IntentRows ==
    [status: {"pending", "running", "done", "abandoned"}, attempts: Nat, ripe: BOOLEAN,
     base: Nat, token: Nat, age: Nat, result: Nat]

ControlAssumption ==
    /\ Server # Cli /\ Task \notin Procs
    /\ {MaxAttempts, CheckTimeout, StaleAfter, MaxResults} \subseteq Nat \ {0}
    /\ {MaxCrashes, MaxJumps} \subseteq Nat
    /\ CheckTimeout < StaleAfter
    /\ WithApi \in BOOLEAN
    /\ Due # Api /\ None \notin {Due, Api} /\ {None, Due, Api} \intersect Threads = {}
    /\ None \notin IntentRows

VARIABLES
    ready,      \* the topic's status is READY
    newest,     \* MAX(check_results.id) of the topic, 0 for none
    intent,     \* the check_intents rows, None before admission
    pc,         \* where each thread is in run_check_intent
    token,      \* the claim token each thread holds
    guard,      \* per process: the guard's holder and its age
    cycle,      \* per process: the check cycle in flight
    api,        \* the API check in flight: no, checking
    crashes, jumps,
    starts,     \* history: checks started for an intent
    commits     \* history: results its runs committed

vars == <<ready, newest, intent, pc, token, guard, cycle, api, crashes, jumps, starts, commits>>

\* gate: start_check_all; todo: intents listed and not run yet; due: the due
\* check of the topic in this cycle.
NoCycle == [gate |-> FALSE, todo |-> {}, due |-> "no"]
FreeGuard == [holder |-> None, age |-> 0]

-----------------------------------------------------------------------------
(* The guard: CheckingState *)

StartCheck(p, h) ==
    /\ guard[p].holder = None
    /\ guard' = [guard EXCEPT ![p] = [holder |-> h, age |-> 0]]

\* Mutant: releases match on the topic alone.
FinishAnyCheck(p, h) == guard' = [guard EXCEPT ![p] = FreeGuard]

\* finish_check releases only with the token that is held.
Freed(p, h) == [guard EXCEPT ![p] = IF @.holder = h THEN FreeGuard ELSE @]
FinishCheck(p, h) == guard' = Freed(p, h)

\* clear_stale(600): the entry goes, whoever runs under it.
Cleared == IF guard[Server].age >= StaleAfter
             THEN [guard EXCEPT ![Server] = FreeGuard] ELSE guard

-----------------------------------------------------------------------------
(* The check_intents rows *)

DueIntent(i) ==
    /\ intent[i] # None
    /\ intent[i].status = "pending" /\ intent[i].attempts < MaxAttempts /\ intent[i].ripe

\* claim_check_intent counts the attempt, whatever becomes of it.
ClaimedRow(i) ==
    [intent[i] EXCEPT !.status = "running", !.attempts = @ + 1, !.token = intent[i].attempts + 1, !.age = 0]

\* Mutant: a retry at the cap goes back to pending, where no list finds it.
OutcomeUncapped(t, status, result) ==
    LET i == t[2]  row == intent[i] IN
    IF row # None /\ row.status = "running" /\ row.token = token[t]
      THEN [intent EXCEPT ![i] =
              [row EXCEPT !.status = status, !.ripe = FALSE, !.result = result, !.token = 0, !.age = 0]]
      ELSE intent

\* apply_check_intent_outcome: fenced by the token; a retry at the attempt cap
\* is abandoned.
Outcome(t, status, result) ==
    LET i == t[2]  row == intent[i] IN
    IF row # None /\ row.status = "running" /\ row.token = token[t]
      THEN [intent EXCEPT ![i] =
              [row EXCEPT !.status = IF status = "pending" /\ row.attempts >= MaxAttempts
                                       THEN "abandoned" ELSE status,
                          !.ripe = FALSE, !.result = result, !.token = 0, !.age = 0]]
      ELSE intent

\* release_stale_check_intent_claims: old claims no live runner of this process
\* holds are re-armed, or abandoned at the cap.
HeldHere(p, i) ==
    \E t \in Threads : t[2] = i /\ Proc(t) = p /\ pc[t] \in {"checking", "committed"}
                         /\ token[t] = intent[i].token
Released(p) ==
    [i \in Intents |->
        IF intent[i] # None /\ intent[i].status = "running"
             /\ intent[i].age >= StaleAfter /\ ~HeldHere(p, i)
          THEN [intent[i] EXCEPT !.status = IF intent[i].attempts >= MaxAttempts
                                              THEN "abandoned" ELSE "pending",
                                 !.token = 0, !.age = 0, !.ripe = TRUE]
          ELSE intent[i]]

-----------------------------------------------------------------------------
(* Admission *)

\* check_topic_handler (and bulk_check_handler): stale entries are cleared; a
\* busy or unready topic admits nothing; the row is committed, then the task.
Admit(i) ==
    /\ intent[i] = None
    /\ ready /\ Cleared[Server].holder = None
    /\ guard' = Cleared
    /\ intent' = [intent EXCEPT ![i] =
                    [status |-> "pending", attempts |-> 0, ripe |-> TRUE, base |-> newest,
                     token |-> 0, age |-> 0, result |-> 0]]
    /\ pc' = [pc EXCEPT ![<<Task, i>>] = "queued"]
    /\ UNCHANGED <<ready, newest, token, cycle, api, crashes, jumps, starts, commits>>

\* api_trigger_check: the handler takes the guard and runs without a deadline.
ApiCheck ==
    /\ api = "no"
    /\ ready /\ Cleared[Server].holder = None
    /\ guard' = [guard EXCEPT ![Server] = [holder |-> Api, age |-> 0]]
    /\ api' = "checking"
    /\ UNCHANGED <<ready, newest, intent, pc, token, cycle, crashes, jumps, starts, commits>>

ApiEnds ==
    /\ api = "checking"
    /\ newest' \in {newest, newest + 1} \intersect 0..MaxResults
    /\ api' = "no"
    /\ FinishCheck(Server, Api)
    /\ UNCHANGED <<ready, intent, pc, token, cycle, crashes, jumps, starts, commits>>

-----------------------------------------------------------------------------
(* The check cycle: check_all_topics and retry_pending_check_intents *)

\* The gate is taken (by the tick, check_all_handler or the CLI), the due check
\* of the topic is selected, stale claims are released and due intents listed.
CycleStart(p) ==
    /\ ~cycle[p].gate
    /\ intent' = Released(p)
    /\ \E due \in {"no", IF ready THEN "due" ELSE "no"} :
          cycle' = [cycle EXCEPT ![p] =
                      [gate |-> TRUE, due |-> due,
                       todo |-> {i \in Intents :
                                   /\ intent'[i] # None /\ intent'[i].status = "pending"
                                   /\ intent'[i].attempts < MaxAttempts /\ intent'[i].ripe}]]
    /\ UNCHANGED <<ready, newest, pc, token, guard, api, crashes, jumps, starts, commits>>

\* The due check runs if the guard is free and the topic still READY.
DueBegin(p) ==
    /\ cycle[p].due = "due"
    /\ IF guard[p].holder = None /\ ready
         THEN StartCheck(p, Due) /\ cycle' = [cycle EXCEPT ![p].due = "checking"]
         ELSE cycle' = [cycle EXCEPT ![p].due = "no"] /\ UNCHANGED guard
    /\ UNCHANGED <<ready, newest, intent, pc, token, api, crashes, jumps, starts, commits>>

\* It commits a row, or fails, is fenced off or times out without one.
DueEnd(p) ==
    /\ cycle[p].due = "checking"
    /\ newest' \in {newest, newest + 1} \intersect 0..MaxResults
    /\ cycle' = [cycle EXCEPT ![p].due = "no"]
    /\ FinishCheck(p, Due)
    /\ UNCHANGED <<ready, intent, pc, token, api, crashes, jumps, starts, commits>>

\* One listed intent is handed to run_check_intent.
CycleTake(p, i) ==
    /\ i \in cycle[p].todo
    /\ pc[<<p, i>>] = "idle"
    /\ pc' = [pc EXCEPT ![<<p, i>>] = "queued"]
    /\ cycle' = [cycle EXCEPT ![p].todo = @ \ {i}]
    /\ UNCHANGED <<ready, newest, intent, token, guard, api, crashes, jumps, starts, commits>>

\* One gather owns it all: the gate is released when nothing of it still runs.
CycleEnd(p) ==
    /\ cycle[p].gate /\ cycle[p].todo = {} /\ cycle[p].due = "no"
    /\ \A i \in Intents : pc[<<p, i>>] = "idle"
    /\ cycle' = [cycle EXCEPT ![p] = NoCycle]
    /\ UNCHANGED <<ready, newest, intent, pc, token, guard, api, crashes, jumps, starts, commits>>

-----------------------------------------------------------------------------
(* run_check_intent *)

Claim(t) ==
    /\ pc[t] = "queued"
    /\ IF DueIntent(t[2])
         THEN /\ intent' = [intent EXCEPT ![t[2]] = ClaimedRow(t[2])]
              /\ token' = [token EXCEPT ![t] = intent'[t[2]].token]
              /\ pc' = [pc EXCEPT ![t] = "claimed"]
         ELSE pc' = [pc EXCEPT ![t] = "idle"] /\ UNCHANGED <<intent, token>>
    /\ UNCHANGED <<ready, newest, guard, cycle, api, crashes, jumps, starts, commits>>

\* Every way out of the run: the outcome is applied and the thread is done.
End(t, status, result) ==
    /\ intent' = Outcome(t, status, result)
    /\ pc' = [pc EXCEPT ![t] = "idle"]
    /\ token' = [token EXCEPT ![t] = 0]

Answered(t) == newest > intent[t[2]].base

\* A result newer than the baseline answers the intent without a run.
Satisfied(t) ==
    /\ pc[t] = "claimed" /\ Answered(t)
    /\ End(t, "done", newest)
    /\ UNCHANGED <<ready, newest, guard, cycle, api, crashes, jumps, starts, commits>>

\* Mutant: a claimed intent runs whatever was answered meanwhile.
AlwaysUnanswered(t) == TRUE

Unanswered(t) == ~Answered(t)

Begin(t) ==
    /\ pc[t] = "claimed" /\ Unanswered(t)
    /\ StartCheck(Proc(t), t)
    /\ IF ready
         THEN /\ pc' = [pc EXCEPT ![t] = "checking"]
              /\ starts' = [starts EXCEPT ![t[2]] = @ + 1]
              /\ UNCHANGED <<intent, token>>
         ELSE pc' = [pc EXCEPT ![t] = "unready"] /\ UNCHANGED <<intent, token, starts>>
    /\ UNCHANGED <<ready, newest, cycle, api, crashes, jumps, commits>>

\* "skipped: topic not ready": nothing to wait for.
Abandon(t) ==
    /\ pc[t] = "unready"
    /\ End(t, "abandoned", 0)
    /\ FinishCheck(Proc(t), t)
    /\ UNCHANGED <<ready, newest, cycle, api, crashes, jumps, starts, commits>>

\* Mutant: every skipped check is given up, the busy topic's too.
BusyDrops(t) ==
    /\ pc[t] = "claimed" /\ Unanswered(t)
    /\ guard[Proc(t)].holder # None
    /\ End(t, "abandoned", 0)
    /\ UNCHANGED <<ready, newest, guard, cycle, api, crashes, jumps, starts, commits>>

\* "skipped: already in flight": the intent backs off.
Busy(t) ==
    /\ pc[t] = "claimed" /\ Unanswered(t)
    /\ guard[Proc(t)].holder # None
    /\ End(t, "pending", 0)
    /\ UNCHANGED <<ready, newest, guard, cycle, api, crashes, jumps, starts, commits>>

\* The check's transaction lands; its sends follow, the outcome is not applied.
CheckCommits(t) ==
    /\ pc[t] = "checking" /\ newest < MaxResults
    /\ newest' = newest + 1
    /\ pc' = [pc EXCEPT ![t] = "committed"]
    /\ commits' = [commits EXCEPT ![t[2]] = @ + 1]
    /\ UNCHANGED <<ready, intent, token, guard, cycle, api, crashes, jumps, starts>>

CheckEnds(t) ==
    /\ pc[t] = "committed"
    /\ End(t, "done", newest)
    /\ FinishCheck(Proc(t), t)
    /\ UNCHANGED <<ready, newest, cycle, api, crashes, jumps, starts, commits>>

\* It raised, or wait_for cancelled it, before or after its transaction.
CheckFails(t) ==
    /\ pc[t] = "checking" \/ (pc[t] = "committed" /\ guard[Proc(t)].age >= CheckTimeout)
    /\ End(t, "pending", 0)
    /\ FinishCheck(Proc(t), t)
    /\ UNCHANGED <<ready, newest, cycle, api, crashes, jumps, starts, commits>>

\* The knowledge or the topic moved under it: fenced off, nothing to wait for.
CheckAborted(t) ==
    /\ pc[t] = "checking"
    /\ End(t, "abandoned", 0)
    /\ FinishCheck(Proc(t), t)
    /\ UNCHANGED <<ready, newest, cycle, api, crashes, jumps, starts, commits>>

-----------------------------------------------------------------------------
(* The environment *)

\* The server's cycle hits its 1800 seconds: the checks of its gather are
\* cancelled, slots released, and no outcome is applied to what they claimed.
CycleTimesOut ==
    /\ cycle[Server].gate /\ crashes < MaxCrashes
    /\ crashes' = crashes + 1
    /\ LET own == {Server} \X Intents IN
         /\ pc' = [t \in Threads |-> IF t \in own THEN "idle" ELSE pc[t]]
         /\ token' = [t \in Threads |-> IF t \in own THEN 0 ELSE token[t]]
         /\ guard' = IF guard[Server].holder \in own \union {Due} THEN Freed(Server, guard[Server].holder)
                                                               ELSE guard
    /\ cycle' = [cycle EXCEPT ![Server] = NoCycle]
    /\ UNCHANGED <<ready, newest, intent, api, jumps, starts, commits>>

\* The process is gone; the rows it claimed stay 'running'.
Crash(p) ==
    /\ crashes < MaxCrashes
    /\ \/ cycle[p].gate \/ guard[p].holder # None
       \/ \E t \in Threads : Proc(t) = p /\ pc[t] # "idle"
    /\ crashes' = crashes + 1
    /\ pc' = [t \in Threads |-> IF Proc(t) = p THEN "idle" ELSE pc[t]]
    /\ token' = [t \in Threads |-> IF Proc(t) = p THEN 0 ELSE token[t]]
    /\ guard' = [guard EXCEPT ![p] = FreeGuard]
    /\ cycle' = [cycle EXCEPT ![p] = NoCycle]
    /\ api' = IF p = Server /\ api = "checking" THEN "no" ELSE api
    /\ UNCHANGED <<ready, newest, intent, jumps, starts, commits>>

\* Every claim stamp looks old at once.
ClockJump ==
    /\ jumps < MaxJumps
    /\ jumps' = jumps + 1
    /\ intent' = [i \in Intents |->
                    IF intent[i] # None /\ intent[i].status = "running"
                      THEN [intent[i] EXCEPT !.age = StaleAfter] ELSE intent[i]]
    /\ UNCHANGED <<ready, newest, pc, token, guard, cycle, api, crashes, starts, commits>>

\* The topic is initialised again, and READY again.
StatusMoves ==
    /\ ready' = ~ready
    /\ UNCHANGED <<newest, intent, pc, token, guard, cycle, api, crashes, jumps, starts, commits>>

\* next_attempt_at passes.
Ripens(i) ==
    /\ intent[i] # None /\ intent[i].status = "pending" /\ ~intent[i].ripe
    /\ intent' = [intent EXCEPT ![i].ripe = TRUE]
    /\ UNCHANGED <<ready, newest, pc, token, guard, cycle, api, crashes, jumps, starts, commits>>

\* A unit of time: no bounded check outlives its deadline, claimed threads run.
Elapse ==
    /\ \A p \in Procs : guard[p].holder \notin {None, Api} => guard[p].age < CheckTimeout
    /\ \A t \in Threads : pc[t] \notin {"claimed", "unready"}
    /\ guard' = [p \in Procs |->
                   IF guard[p].holder # None /\ guard[p].age < StaleAfter
                     THEN [guard[p] EXCEPT !.age = @ + 1] ELSE guard[p]]
    /\ intent' = [i \in Intents |->
                    IF intent[i] # None /\ intent[i].status = "running" /\ intent[i].age < StaleAfter
                      THEN [intent[i] EXCEPT !.age = @ + 1] ELSE intent[i]]
    /\ guard' # guard \/ intent' # intent
    /\ UNCHANGED <<ready, newest, pc, token, cycle, api, crashes, jumps, starts, commits>>

-----------------------------------------------------------------------------
Init ==
    /\ ready = TRUE
    /\ newest = 0
    /\ intent = [i \in Intents |-> None]
    /\ pc = [t \in Threads |-> "idle"]
    /\ token = [t \in Threads |-> 0]
    /\ guard = [p \in Procs |-> FreeGuard]
    /\ cycle = [p \in Procs |-> NoCycle]
    /\ api = IF WithApi THEN "no" ELSE "off"
    /\ crashes = 0 /\ jumps = 0
    /\ starts = [i \in Intents |-> 0]
    /\ commits = [i \in Intents |-> 0]

Run(t) ==
    \/ Claim(t) \/ Satisfied(t) \/ Begin(t) \/ Abandon(t) \/ Busy(t)
    \/ CheckEnds(t) \/ CheckFails(t)
Cycle(p) == DueBegin(p) \/ DueEnd(p) \/ CycleEnd(p) \/ \E i \in Intents : CycleTake(p, i)

Next ==
    \/ \E i \in Intents : Admit(i) \/ Ripens(i)
    \/ ApiCheck \/ ApiEnds
    \/ \E p \in Procs : CycleStart(p) \/ Cycle(p) \/ Crash(p)
    \/ \E t \in Threads : Run(t) \/ CheckCommits(t) \/ CheckAborted(t)
    \/ CycleTimesOut \/ ClockJump \/ StatusMoves \/ Elapse

Spec == Init /\ [][Next]_vars

\* The server ticks, its threads and checks end (at the latest at their
\* deadline), time passes; nothing is assumed of the CLI, but that a run of it
\* ends too.
Fairness ==
    /\ WF_vars(CycleStart(Server)) /\ \A p \in Procs : WF_vars(Cycle(p))
    /\ \A t \in Threads : WF_vars(Run(t))
    /\ WF_vars(ApiEnds) /\ WF_vars(Elapse)
    /\ \A i \in Intents : WF_vars(Ripens(i))
FairSpec == Spec /\ Fairness

-----------------------------------------------------------------------------
(* Properties *)

\* One accepted check commits one result, through crashes, timeouts and late
\* applies; a clock that jumps can add at most one for each other process.
CommitsOnce ==
    \A i \in Intents : commits[i] <= IF jumps = 0 THEN 1 ELSE Cardinality(Procs)

\* The checks that run in a process right now, and those with a deadline.
Bounded(p) == {t \in Threads : Proc(t) = p /\ pc[t] \in {"checking", "committed"}}
                \union (IF cycle[p].due = "checking" THEN {Due} ELSE {})

\* clear_stale evicts the guard entry of a check that runs long, and what keeps
\* that safe is the deadline: of the checks that have one, a process never runs
\* two of a topic at once.
BoundedChecksExclusive == \A p \in Procs : Cardinality(Bounded(p)) <= 1

\* An accepted check is given up only after max_attempts tries, or by the run
\* that holds its claim, because the topic is not READY or moved under the check:
\* a busy topic, a late apply or a lost claim drops nothing.
NotDropped ==
    [][\A i \in Intents :
         intent[i] # None /\ intent[i].status # "abandoned" /\ intent'[i].status = "abandoned"
           => \/ intent[i].attempts = MaxAttempts
              \/ \E t \in Threads : t[2] = i /\ token[t] = intent[i].token
                                    /\ pc[t] \in {"unready", "checking"}]_vars

\* Every accepted check is answered or given up: by its own task, or by a later
\* cycle when that task, or the whole process, is gone.
IntentsSettle ==
    \A i \in Intents :
        (intent[i] # None) ~> (intent[i] # None /\ intent[i].status \in {"done", "abandoned"})

=============================================================================
