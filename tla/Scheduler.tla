----------------------------- MODULE Scheduler -----------------------------
(***************************************************************************)
(* The scheduler of a deployment: the worker processes, the lease that     *)
(* makes one of them the scheduler, its jobs, and the verdict of /health.  *)
(*                                                                         *)
(* A worker starts its scheduler when it starts configured, or when its    *)
(* first-run setup ends.  The lease is an flock: the kernel drops it with  *)
(* its process.  A job runs at most once at a time, and a stopped          *)
(* scheduler cancels what runs.  The minute tick reads the settings live   *)
(* and skips its cycle when a check of all topics runs already.            *)
(*                                                                         *)
(* Monotonic time passes in units of the tick.                             *)
(***************************************************************************)
EXTENDS Naturals

CONSTANTS
    Workers, None,
    Jobs, CHECK_JOB_ID,  \* the jobs; the one whose health the verdict reads
    Settings,            \* values of the settings the scheduler copies
    StaleAfter,          \* _CYCLE_STALE_AFTER_SECONDS
    CycleLimit,          \* a check by hand loses the gate after this
    MaxFaults            \* bound: failed runs, processes that end

SchedulerAssumption ==
    /\ CHECK_JOB_ID \in Jobs /\ None \notin Workers
    /\ None \notin Nat /\ {StaleAfter, CycleLimit, MaxFaults} \subseteq Nat

VARIABLES
    worker,  \* per worker: "down", "setup", "serving"; its live settings
    lease,   \* scheduler.lock: the worker that holds it
    sched,   \* per worker: its scheduler runs, and the setting its jobs carry
    job,     \* per worker and job: "idle" or "running", and its _JobHealth
    byHand,  \* per worker: a check of all topics asked for by the user
    cycle,   \* history: per worker, time since it started, completed a cycle, or one was on by hand
    faults

vars == <<worker, lease, sched, job, byHand, cycle, faults>>

Never == StaleAfter + 1          \* an age beyond every limit

Reset == [at |-> "idle", age |-> None, fails |-> 0]
Fault == faults < MaxFaults /\ faults' = faults + 1

-----------------------------------------------------------------------------
(* The lease *)

\* Mutant: every process starts its scheduler.
NoLease(w) == TRUE

\* _acquire_scheduler_lease
LeaseFree(w) == lease \in {None, w}

\* start_scheduler: a running scheduler is stopped first, the health is reset.
StartScheduler(w) ==
    IF LeaseFree(w)
    THEN /\ lease' = w
         /\ sched' = [sched EXCEPT ![w] = [on |-> TRUE, setting |-> worker'[w].setting]]
         /\ job' = [job EXCEPT ![w] = [j \in Jobs |-> Reset]]
    ELSE UNCHANGED <<lease, sched, job>>

Released(w) == IF lease = w THEN None ELSE lease

\* Nothing of a process outlives it: its jobs are cancelled, its lease is free.
Ended(w) ==
    /\ lease' = Released(w)
    /\ sched' = [sched EXCEPT ![w].on = FALSE]
    /\ job' = [job EXCEPT ![w] = [j \in Jobs |-> Reset]]

-----------------------------------------------------------------------------
(* lifespan, setup, settings *)

Boot(w, configured) ==
    /\ worker[w].at = "down"
    /\ \E s \in Settings : worker' =
        [worker EXCEPT ![w] = [at |-> IF configured THEN "serving" ELSE "setup", setting |-> s]]
    /\ IF configured THEN StartScheduler(w) ELSE UNCHANGED <<lease, sched, job>>
    /\ cycle' = [cycle EXCEPT ![w] = 0]
    /\ UNCHANGED <<byHand, faults>>

\* _publish_setup: the application opens only when the scheduler was started.
SetUp(w) ==
    /\ worker[w].at = "setup"
    /\ \E s \in Settings : worker' = [worker EXCEPT ![w] = [at |-> "serving", setting |-> s]]
    /\ StartScheduler(w)
    /\ cycle' = [cycle EXCEPT ![w] = 0]
    /\ UNCHANGED <<byHand, faults>>

Save(w) ==
    /\ worker[w].at = "serving"
    /\ \E s \in Settings : worker' = [worker EXCEPT ![w].setting = s]
    /\ UNCHANGED <<lease, sched, job, byHand, cycle, faults>>

\* The lifespan ends (stop_scheduler), or the process is killed.
Stop(w) ==
    /\ worker[w].at # "down" /\ Fault
    /\ worker' = [worker EXCEPT ![w].at = "down"]
    /\ Ended(w)
    /\ byHand' = [byHand EXCEPT ![w] = None]
    /\ UNCHANGED cycle

-----------------------------------------------------------------------------
(* The jobs *)

\* reconfigure_scheduler, by the minute tick
Reconfigured(w) == worker[w].setting

\* After its cycle the minute tick initializes a topic.
After(j) == IF j = CHECK_JOB_ID THEN "initializing" ELSE "idle"

record_success(h, j) == [h EXCEPT !.at = After(j), !.age = 0, !.fails = 0]

\* Mutant: a failed run is recorded as a run.
FailureCounted(h, j) == record_success(h, j)

record_failure(h, j) == [h EXCEPT !.at = After(j), !.fails = 1]

\* A run that is due while the last one is on is dropped (max_instances).
Start(w, j) ==
    /\ sched[w].on /\ job[w][j].at = "idle"
    /\ j = CHECK_JOB_ID => byHand[w] = None
    /\ job' = [job EXCEPT ![w][j].at = "running"]
    /\ sched' = IF j = CHECK_JOB_ID THEN [sched EXCEPT ![w].setting = Reconfigured(w)] ELSE sched
    /\ UNCHANGED <<worker, lease, byHand, cycle, faults>>

\* The minute tick finds the gate held by a check by hand: its cycle returns no
\* results, and is recorded as a success.
StartSkipped(w) ==
    /\ sched[w].on /\ job[w][CHECK_JOB_ID].at = "idle" /\ byHand[w] # None
    /\ job' = [job EXCEPT ![w][CHECK_JOB_ID] = record_success(@, CHECK_JOB_ID)]
    /\ sched' = [sched EXCEPT ![w].setting = Reconfigured(w)]
    /\ UNCHANGED <<worker, lease, byHand, cycle, faults>>

Succeed(w, j) ==
    /\ job[w][j].at = "running"
    /\ job' = [job EXCEPT ![w][j] = record_success(@, j)]
    /\ cycle' = IF j = CHECK_JOB_ID THEN [cycle EXCEPT ![w] = 0] ELSE cycle
    /\ UNCHANGED <<worker, lease, sched, byHand, faults>>

\* A callback never raises: it records the failure.
Fail(w, j) ==
    /\ job[w][j].at = "running" /\ Fault
    /\ job' = [job EXCEPT ![w][j] = record_failure(@, j)]
    /\ UNCHANGED <<worker, lease, sched, byHand, cycle>>

\* The initialization of a NEW topic is over, if there was one; its own failures
\* are recorded under a job of their own.
Initialized(w) ==
    /\ job[w][CHECK_JOB_ID].at = "initializing"
    /\ job' = [job EXCEPT ![w][CHECK_JOB_ID].at = "idle"]
    /\ UNCHANGED <<worker, lease, sched, byHand, cycle, faults>>

\* A check of all topics by hand: it takes the gate, and ends or is evicted.
CheckAll(w) ==
    /\ worker[w].at = "serving" /\ byHand[w] = None
    /\ job[w][CHECK_JOB_ID].at # "running"
    /\ byHand' = [byHand EXCEPT ![w] = 0] /\ cycle' = [cycle EXCEPT ![w] = 0]
    /\ UNCHANGED <<worker, lease, sched, job, faults>>

CheckAllEnds(w) ==
    /\ byHand[w] # None
    /\ byHand' = [byHand EXCEPT ![w] = None] /\ cycle' = [cycle EXCEPT ![w] = 0]
    /\ UNCHANGED <<worker, lease, sched, job, faults>>

-----------------------------------------------------------------------------
(* Time, and the verdict *)

Older(age, limit) == IF age < limit THEN age + 1 ELSE age

\* A minute: whatever could start has started, and a gate is not held for ever.
Minute ==
    /\ \A w \in Workers :
        /\ sched[w].on => job[w][CHECK_JOB_ID].at # "idle" \/ job[w][CHECK_JOB_ID].age = 0
        /\ byHand[w] # None => byHand[w] < CycleLimit
    /\ job' = [w \in Workers |-> [j \in Jobs |->
        IF job[w][j].age = None THEN job[w][j] ELSE [job[w][j] EXCEPT !.age = Older(@, Never)]]]
    /\ byHand' = [w \in Workers |-> IF byHand[w] = None THEN None ELSE byHand[w] + 1]
    /\ cycle' = [w \in Workers |-> IF byHand[w] = None THEN Older(cycle[w], Never) ELSE 0]
    /\ UNCHANGED <<worker, lease, sched, faults>>

\* scheduler_health
monitoring(w) ==
    LET h == job[w][CHECK_JOB_ID] IN
    CASE ~sched[w].on -> "stopped"
      [] sched[w].on /\ h.fails > 0 -> "failing"
      [] sched[w].on /\ h.fails = 0 /\ h.age = None -> "starting"
      [] sched[w].on /\ h.fails = 0 /\ h.age = Never -> "stale"
      [] OTHER -> "ok"

-----------------------------------------------------------------------------
Init ==
    /\ worker \in [Workers -> [at : {"down"}, setting : Settings]]
    /\ lease = None
    /\ sched = [w \in Workers |-> [on |-> FALSE, setting |-> worker[w].setting]]
    /\ job = [w \in Workers |-> [j \in Jobs |-> Reset]]
    /\ byHand = [w \in Workers |-> None]
    /\ cycle = [w \in Workers |-> Never]
    /\ faults = 0

Next ==
    \/ \E w \in Workers :
        \/ \E b \in BOOLEAN : Boot(w, b)
        \/ CheckAllEnds(w) \/ SetUp(w) \/ Save(w) \/ Stop(w) \/ CheckAll(w)
        \/ StartSkipped(w) \/ Initialized(w)
        \/ \E j \in Jobs : Start(w, j) \/ Succeed(w, j) \/ Fail(w, j)
    \/ Minute

Spec == Init /\ [][Next]_vars

-----------------------------------------------------------------------------
(* Properties *)

\* At most one process of the deployment runs jobs, through restarts, kills and
\* workers that end their setup late.
OneTicker ==
    \A v, w \in Workers, i, j \in Jobs :
        job[v][i].at # "idle" /\ job[w][j].at # "idle" => v = w

\* "ok" is not said of a process that checks nothing: within the freshness
\* window it completed a cycle, or started, or a check of all topics by hand was
\* on, for which the tick stood back.
OkIsFresh == \A w \in Workers : monitoring(w) = "ok" => cycle[w] <= StaleAfter

=============================================================================
