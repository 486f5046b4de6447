---------------------------- MODULE ServerProofs ----------------------------
(***************************************************************************)
(* What the server does around the checks, for any number of processes,    *)
(* jobs and summaries: the scheduler, the knowledge, the database.  The    *)
(* components are those MCEnvironment composes.                            *)
(***************************************************************************)
EXTENDS MCEnvironment, Sequences, FiniteSetTheorems, WellFoundedInduction, TLAPS

(***************************************************************************)
(* The scheduler.  Its jobs run only where it is on, and it is on only     *)
(* where the lease is held (LeaseInv).  A success is recorded only when a  *)
(* cycle was completed, or skipped because a check by hand had the gate:   *)
(* what the recorded success is old, something was done since (AgeInv).    *)
(***************************************************************************)

JobRec == [at : {"idle", "running", "initializing"},
           age : (0..Sched!Never) \union {None}, fails : {0, 1}]

SchedType ==
    /\ worker \in [Actors -> [at : {"down", "setup", "serving"}, setting : Settings]]
    /\ sched \in [Actors -> [on : BOOLEAN, setting : Settings]]
    /\ job \in [Actors -> [Jobs -> JobRec]]
    /\ byHand \in [Actors -> Nat \union {None}]
    /\ cycle \in [Actors -> 0..Sched!Never]

LeaseInv ==
    \A w \in Actors :
        /\ sched[w].on => lease = w
        /\ \A j \in Jobs : job[w][j].at # "idle" => sched[w].on

AgeInv ==
    \A w \in Actors :
        LET h == job[w][CHECK_JOB_ID] IN
        /\ h.age # None /\ h.fails = 0 => cycle[w] <= h.age
        /\ byHand[w] # None => cycle[w] = 0

SchedInv == SchedType /\ LeaseInv /\ AgeInv

LEMMA SchedConstants ==
    ASSUME Sched!SchedulerAssumption
    PROVE  /\ CHECK_JOB_ID \in Jobs /\ None \notin Actors /\ None \notin Nat
           /\ StaleAfter \in Nat /\ CycleLimit \in Nat /\ MaxFaults \in Nat
           /\ Sched!Never \in Nat /\ Sched!Never = StaleAfter + 1
           /\ Sched!Reset \in JobRec
           /\ Sched!Reset.at = "idle" /\ Sched!Reset.age = None
BY DEF Sched!SchedulerAssumption, Sched!Never, Sched!Reset, JobRec

LEMMA SchedInit == ASSUME Sched!SchedulerAssumption PROVE Sched!Init => SchedInv
<1> SUFFICES ASSUME Sched!Init PROVE SchedInv
  OBVIOUS
<1>1. SchedType
  BY SchedConstants DEF Sched!Init, SchedType
<1>2. LeaseInv /\ AgeInv
  BY SchedConstants DEF Sched!Init, LeaseInv, AgeInv
<1> QED
  BY <1>1, <1>2 DEF SchedInv

\* A scheduler that starts: where the lease is free, no other one is on.
LEMMA SchedStarts ==
    ASSUME Sched!SchedulerAssumption, SchedInv, NEW w \in Actors, Sched!StartScheduler(w),
           worker' \in [Actors -> [at : {"down", "setup", "serving"}, setting : Settings]],
           cycle' = [cycle EXCEPT ![w] = 0], byHand' = byHand
    PROVE  SchedInv'
<1> USE SchedConstants
<1>1. CASE Sched!LeaseFree(w)
  <2>1. /\ lease' = w /\ lease \in {None, w}
        /\ sched' = [sched EXCEPT ![w] = [on |-> TRUE, setting |-> worker'[w].setting]]
        /\ job' = [job EXCEPT ![w] = [j \in Jobs |-> Sched!Reset]]
    BY <1>1 DEF Sched!StartScheduler, Sched!LeaseFree
  <2>2. SchedType'
    BY <2>1 DEF SchedInv, SchedType
  <2>3. LeaseInv'
    BY <2>1 DEF SchedInv, SchedType, LeaseInv
  <2>4. AgeInv'
    BY <2>1 DEF SchedInv, SchedType, AgeInv
  <2> QED
    BY <2>2, <2>3, <2>4 DEF SchedInv
<1>2. CASE ~Sched!LeaseFree(w)
  <2>1. UNCHANGED <<lease, sched, job>>
    BY <1>2 DEF Sched!StartScheduler
  <2>2. SchedType' /\ LeaseInv'
    BY <2>1 DEF SchedInv, SchedType, LeaseInv
  <2>3. AgeInv'
    BY <2>1 DEF SchedInv, SchedType, AgeInv, JobRec
  <2> QED
    BY <2>2, <2>3 DEF SchedInv
<1> QED
  BY <1>1, <1>2

\* The steps of a worker's life.
LEMMA WorkerStep ==
    ASSUME Sched!SchedulerAssumption, SchedInv, NEW w \in Actors,
           \/ \E b \in BOOLEAN : Sched!Boot(w, b)
           \/ Sched!SetUp(w) \/ Sched!Save(w) \/ Sched!Stop(w)
    PROVE  SchedInv'
<1> USE SchedConstants
<1>1. ASSUME NEW b \in BOOLEAN, Sched!Boot(w, b) PROVE SchedInv'
  <2>1. /\ worker' \in [Actors -> [at : {"down", "setup", "serving"}, setting : Settings]]
        /\ cycle' = [cycle EXCEPT ![w] = 0] /\ byHand' = byHand
    BY <1>1 DEF Sched!Boot, SchedInv, SchedType
  <2>2. CASE b
    BY <1>1, <2>1, <2>2, SchedStarts DEF Sched!Boot
  <2>3. CASE ~b
    <3>1. UNCHANGED <<lease, sched, job>>
      BY <1>1, <2>3 DEF Sched!Boot
    <3>2. SchedType' /\ LeaseInv'
      BY <2>1, <3>1 DEF SchedInv, SchedType, LeaseInv
    <3>3. AgeInv'
      BY <2>1, <3>1 DEF SchedInv, SchedType, AgeInv, JobRec
    <3> QED
      BY <3>2, <3>3 DEF SchedInv
  <2> QED
    BY <2>2, <2>3
<1>2. CASE Sched!SetUp(w)
  <2>1. /\ worker' \in [Actors -> [at : {"down", "setup", "serving"}, setting : Settings]]
        /\ cycle' = [cycle EXCEPT ![w] = 0] /\ byHand' = byHand /\ Sched!StartScheduler(w)
    BY <1>2 DEF Sched!SetUp, SchedInv, SchedType
  <2> QED
    BY <2>1, SchedStarts
<1>3. CASE Sched!Save(w)
  BY <1>3 DEF Sched!Save, SchedInv, SchedType, LeaseInv, AgeInv
<1>4. CASE Sched!Stop(w)
  <2>1. /\ worker' = [worker EXCEPT ![w].at = "down"] /\ cycle' = cycle
        /\ lease' = (IF lease = w THEN None ELSE lease)
        /\ sched' = [sched EXCEPT ![w].on = FALSE]
        /\ job' = [job EXCEPT ![w] = [j \in Jobs |-> Sched!Reset]]
        /\ byHand' = [byHand EXCEPT ![w] = None]
    BY <1>4 DEF Sched!Stop, Sched!Ended, Sched!Released
  <2>2. SchedType'
    BY <2>1 DEF SchedInv, SchedType
  <2>3. LeaseInv'
    BY <2>1 DEF SchedInv, SchedType, LeaseInv
  <2>4. AgeInv'
    BY <2>1 DEF SchedInv, SchedType, AgeInv
  <2> QED
    BY <2>2, <2>3, <2>4 DEF SchedInv
<1> QED
  BY <1>1, <1>2, <1>3, <1>4

\* The health of a job after a step of it.
LEMMA Moved ==
    ASSUME NEW h \in JobRec, NEW at \in {"idle", "running", "initializing"}
    PROVE  LET m == [h EXCEPT !.at = at] IN
           m \in JobRec /\ m.at = at /\ m.age = h.age /\ m.fails = h.fails
BY DEF JobRec

LEMMA Recorded ==
    ASSUME Sched!SchedulerAssumption, NEW h \in JobRec, NEW j
    PROVE  /\ Sched!record_success(h, j) \in JobRec /\ Sched!record_success(h, j).age = 0
           /\ Sched!record_failure(h, j) \in JobRec /\ Sched!record_failure(h, j).fails = 1
<1>1. Sched!After(j) \in {"idle", "running", "initializing"}
  BY DEF Sched!After
<1>2. 0 \in (0..Sched!Never) \union {None}
  BY SchedConstants
<1> DEFINE s == Sched!record_success(h, j)
           f == Sched!record_failure(h, j)
<1>3. /\ s = [h EXCEPT !.at = Sched!After(j), !.age = 0, !.fails = 0]
      /\ f = [h EXCEPT !.at = Sched!After(j), !.fails = 1]
  BY Zenon DEF Sched!record_success, Sched!record_failure
<1> HIDE DEF s, f
<1>4. s \in JobRec /\ s.age = 0
  BY <1>1, <1>2, <1>3 DEF JobRec
<1>5. f \in JobRec /\ f.fails = 1
  BY <1>1, <1>3 DEF JobRec
<1> QED
  BY <1>4, <1>5 DEF s, f

\* What a job is after a step of it: the job that changed, and all others.
LEMMA JobStep ==
    ASSUME Sched!SchedulerAssumption, SchedInv, NEW w \in Actors, NEW j \in Jobs,
           NEW h \in JobRec, job' = [job EXCEPT ![w][j] = h],
           h.at # "idle" => sched[w].on,
           sched' \in [Actors -> [on : BOOLEAN, setting : Settings]],
           \A v \in Actors : sched'[v].on = sched[v].on,
           cycle' = cycle \/ cycle' = [cycle EXCEPT ![w] = 0],
           j = CHECK_JOB_ID /\ h.age # None /\ h.fails = 0 => cycle'[w] <= h.age,
           UNCHANGED <<worker, lease, byHand>>
    PROVE  SchedInv'
<1> USE SchedConstants
<1>1. SchedType'
  <2>1. job \in [Actors -> [Jobs -> JobRec]] /\ [job[w] EXCEPT ![j] = h] \in [Jobs -> JobRec]
    BY DEF SchedInv, SchedType
  <2>2. job' = [job EXCEPT ![w] = [job[w] EXCEPT ![j] = h]]
    BY <2>1
  <2>3. job' \in [Actors -> [Jobs -> JobRec]]
    BY <2>1, <2>2
  <2>4. cycle' \in [Actors -> 0..Sched!Never]
    BY DEF SchedInv, SchedType
  <2> QED
    BY <2>3, <2>4 DEF SchedInv, SchedType
<1>2. LeaseInv'
  BY DEF SchedInv, SchedType, LeaseInv
<1>3. AgeInv'
  <2> SUFFICES ASSUME NEW v \in Actors
               PROVE  /\ job'[v][CHECK_JOB_ID].age # None /\ job'[v][CHECK_JOB_ID].fails = 0
                            => cycle'[v] <= job'[v][CHECK_JOB_ID].age
                      /\ byHand'[v] # None => cycle'[v] = 0
    BY DEF AgeInv
  <2>1. /\ job[v][CHECK_JOB_ID] \in JobRec /\ cycle[v] \in 0..Sched!Never
        /\ cycle'[v] = cycle[v] \/ cycle'[v] = 0
        /\ job'[v][CHECK_JOB_ID] = IF v = w /\ j = CHECK_JOB_ID THEN h ELSE job[v][CHECK_JOB_ID]
    BY DEF SchedInv, SchedType
  <2>2. /\ job[v][CHECK_JOB_ID].age # None /\ job[v][CHECK_JOB_ID].fails = 0
              => cycle[v] <= job[v][CHECK_JOB_ID].age
        /\ byHand[v] # None => cycle[v] = 0
    BY DEF SchedInv, AgeInv
  <2> QED
    BY <2>1, <2>2 DEF JobRec
<1> QED
  BY <1>1, <1>2, <1>3 DEF SchedInv

\* The steps of the jobs.
LEMMA RunStep ==
    ASSUME Sched!SchedulerAssumption, SchedInv, NEW w \in Actors,
           \/ Sched!StartSkipped(w) \/ Sched!Initialized(w)
           \/ \E j \in Jobs : Sched!Start(w, j) \/ Sched!Succeed(w, j) \/ Sched!Fail(w, j)
    PROVE  SchedInv'
<1> USE SchedConstants
<1>1. /\ job \in [Actors -> [Jobs -> JobRec]] /\ sched \in [Actors -> [on : BOOLEAN, setting : Settings]]
      /\ worker[w].setting \in Settings /\ cycle[w] \in 0..Sched!Never
      /\ byHand[w] # None => cycle[w] = 0
      /\ \A j \in Jobs : job[w][j] \in JobRec /\ (job[w][j].at # "idle" => sched[w].on)
      /\ LET h == job[w][CHECK_JOB_ID] IN h.age # None /\ h.fails = 0 => cycle[w] <= h.age
  BY DEF SchedInv, SchedType, LeaseInv, AgeInv
<1>2. [sched EXCEPT ![w].setting = worker[w].setting] \in [Actors -> [on : BOOLEAN, setting : Settings]]
  BY <1>1
<1>3. \A j \in Jobs : job[w][j] \in JobRec
  BY <1>1
<1>4. CASE Sched!StartSkipped(w)
  <2> DEFINE h == Sched!record_success(job[w][CHECK_JOB_ID], CHECK_JOB_ID)
  <2>1. /\ job' = [job EXCEPT ![w][CHECK_JOB_ID] = h] /\ sched[w].on /\ byHand[w] # None
        /\ sched' = [sched EXCEPT ![w].setting = worker[w].setting]
        /\ UNCHANGED <<worker, lease, byHand>> /\ cycle' = cycle
    BY <1>4 DEF Sched!StartSkipped, Sched!Reconfigured
  <2>2. h \in JobRec /\ h.age = 0
    BY <1>3, Recorded
  <2> HIDE DEF h
  <2>3. /\ sched' \in [Actors -> [on : BOOLEAN, setting : Settings]]
        /\ \A v \in Actors : sched'[v].on = sched[v].on
    BY <1>1, <1>2, <2>1
  <2>4. cycle'[w] <= h.age
    BY <1>1, <2>1, <2>2
  <2> QED
    BY <2>1, <2>2, <2>3, <2>4, JobStep
<1>5. CASE Sched!Initialized(w)
  <2> DEFINE h == [job[w][CHECK_JOB_ID] EXCEPT !.at = "idle"]
  <2>1. job' = [job EXCEPT ![w][CHECK_JOB_ID] = h] /\ UNCHANGED <<worker, lease, sched, byHand, cycle>>
    BY <1>1, <1>5 DEF Sched!Initialized
  <2>2. h \in JobRec /\ h.at = "idle" /\ h.age = job[w][CHECK_JOB_ID].age
        /\ h.fails = job[w][CHECK_JOB_ID].fails
    BY <1>3, Moved
  <2> HIDE DEF h
  <2> QED
    BY <1>1, <2>1, <2>2, JobStep
<1>6. ASSUME NEW j \in Jobs, Sched!Start(w, j) PROVE SchedInv'
  <2> DEFINE h == [job[w][j] EXCEPT !.at = "running"]
  <2>1. job' = [job EXCEPT ![w][j] = h] /\ sched[w].on /\ UNCHANGED <<worker, lease, byHand, cycle>>
    BY <1>1, <1>6 DEF Sched!Start
  <2>2. h \in JobRec /\ h.age = job[w][j].age /\ h.fails = job[w][j].fails
    BY <1>3, Moved
  <2> HIDE DEF h
  <2>3. sched' \in {sched, [sched EXCEPT ![w].setting = worker[w].setting]}
    BY <1>6 DEF Sched!Start, Sched!Reconfigured
  <2>4. /\ sched' \in [Actors -> [on : BOOLEAN, setting : Settings]]
        /\ \A v \in Actors : sched'[v].on = sched[v].on
    BY <1>1, <1>2, <2>3
  <2> QED
    BY <1>1, <2>1, <2>2, <2>4, JobStep
<1>7. ASSUME NEW j \in Jobs, Sched!Succeed(w, j) PROVE SchedInv'
  <2> DEFINE h == Sched!record_success(job[w][j], j)
  <2>1. /\ job' = [job EXCEPT ![w][j] = h] /\ job[w][j].at = "running"
        /\ UNCHANGED <<worker, lease, sched, byHand>>
        /\ cycle' = IF j = CHECK_JOB_ID THEN [cycle EXCEPT ![w] = 0] ELSE cycle
    BY <1>7 DEF Sched!Succeed
  <2>2. h \in JobRec /\ h.age = 0
    BY <1>3, Recorded
  <2> HIDE DEF h
  <2>3. /\ j = CHECK_JOB_ID => cycle'[w] <= h.age
        /\ cycle' = cycle \/ cycle' = [cycle EXCEPT ![w] = 0]
        /\ h.at # "idle" => sched[w].on
    BY <1>1, <2>1, <2>2 DEF SchedInv, SchedType
  <2>4. /\ sched' \in [Actors -> [on : BOOLEAN, setting : Settings]]
        /\ \A v \in Actors : sched'[v].on = sched[v].on
    BY <1>1, <2>1
  <2> QED
    BY <2>1, <2>2, <2>3, <2>4, JobStep
<1>8. ASSUME NEW j \in Jobs, Sched!Fail(w, j) PROVE SchedInv'
  <2> DEFINE h == Sched!record_failure(job[w][j], j)
  <2>1. /\ job' = [job EXCEPT ![w][j] = h] /\ job[w][j].at = "running"
        /\ UNCHANGED <<worker, lease, sched, byHand, cycle>>
    BY <1>8 DEF Sched!Fail
  <2>2. h \in JobRec /\ h.fails = 1
    BY <1>3, Recorded
  <2> HIDE DEF h
  <2>3. /\ sched' \in [Actors -> [on : BOOLEAN, setting : Settings]]
        /\ \A v \in Actors : sched'[v].on = sched[v].on
        /\ h.at # "idle" => sched[w].on
        /\ cycle' = cycle /\ h.fails # 0
    BY <1>1, <2>1, <2>2
  <2> QED
    BY <2>1, <2>2, <2>3, JobStep
<1> QED
  BY <1>4, <1>5, <1>6, <1>7, <1>8

\* A check of all topics begins or ends; time passes.
LEMMA ByHandStep ==
    ASSUME Sched!SchedulerAssumption, SchedInv, NEW w \in Actors,
           Sched!CheckAll(w) \/ Sched!CheckAllEnds(w)
    PROVE  SchedInv'
<1> USE SchedConstants
<1> DEFINE on == IF Sched!CheckAll(w) THEN 0 ELSE None
<1>0. byHand' = [byHand EXCEPT ![w] = on] /\ on \in Nat \union {None}
  <2>1. CASE Sched!CheckAll(w)
    BY <2>1 DEF Sched!CheckAll
  <2>2. CASE ~Sched!CheckAll(w)
    BY <2>2 DEF Sched!CheckAllEnds
  <2> QED
    BY <2>1, <2>2
<1> HIDE DEF on
<1>1. /\ byHand' \in [Actors -> Nat \union {None}] /\ cycle' = [cycle EXCEPT ![w] = 0]
      /\ \A v \in Actors : v # w => byHand'[v] = byHand[v]
      /\ UNCHANGED <<worker, lease, sched, job>>
  BY <1>0 DEF Sched!CheckAll, Sched!CheckAllEnds, SchedInv, SchedType
<1>2. SchedType' /\ LeaseInv'
  BY <1>1 DEF SchedInv, SchedType, LeaseInv
<1>3. AgeInv'
  BY <1>1 DEF SchedInv, SchedType, AgeInv, JobRec
<1> QED
  BY <1>2, <1>3 DEF SchedInv

LEMMA MinuteStep == ASSUME Sched!SchedulerAssumption, SchedInv, Sched!Minute PROVE SchedInv'
<1> USE SchedConstants
<1> DEFINE aged(h) == IF h.age = None THEN h ELSE [h EXCEPT !.age = Sched!Older(@, Sched!Never)]
<1>1. /\ job' = [w \in Actors |-> [j \in Jobs |-> aged(job[w][j])]]
      /\ byHand' = [w \in Actors |-> IF byHand[w] = None THEN None ELSE byHand[w] + 1]
      /\ cycle' = [w \in Actors |-> IF byHand[w] = None
                                     THEN Sched!Older(cycle[w], Sched!Never) ELSE 0]
      /\ UNCHANGED <<worker, lease, sched>>
  BY DEF Sched!Minute
<1>2. \A n \in 0..Sched!Never :
         /\ Sched!Older(n, Sched!Never) \in 0..Sched!Never
         /\ \A m \in 0..n : Sched!Older(m, Sched!Never) <= Sched!Older(n, Sched!Never)
  BY DEF Sched!Older
<1>3. \A h \in JobRec :
         /\ aged(h) \in JobRec /\ aged(h).at = h.at /\ aged(h).fails = h.fails
         /\ aged(h).age = IF h.age = None THEN None ELSE Sched!Older(h.age, Sched!Never)
  BY <1>2 DEF JobRec
<1> HIDE DEF aged
<1>4. SchedType'
  BY <1>1, <1>2, <1>3 DEF SchedInv, SchedType
<1>5. LeaseInv'
  <2>1. \A w \in Actors : \A j \in Jobs : job'[w][j].at = job[w][j].at
    BY <1>1, <1>3 DEF SchedInv, SchedType
  <2> QED
    BY <1>1, <2>1 DEF SchedInv, LeaseInv
<1>6. AgeInv'
  <2> SUFFICES ASSUME NEW w \in Actors
               PROVE  /\ job'[w][CHECK_JOB_ID].age # None /\ job'[w][CHECK_JOB_ID].fails = 0
                            => cycle'[w] <= job'[w][CHECK_JOB_ID].age
                      /\ byHand'[w] # None => cycle'[w] = 0
    BY DEF AgeInv
  <2> DEFINE h == job[w][CHECK_JOB_ID]
  <2>1. h \in JobRec /\ cycle[w] \in 0..Sched!Never /\ job'[w][CHECK_JOB_ID] = aged(h)
        /\ (h.age # None /\ h.fails = 0 => cycle[w] <= h.age)
    BY <1>1 DEF SchedInv, SchedType, AgeInv
  <2>2. CASE byHand[w] = None
    <3>1. byHand'[w] = None /\ cycle'[w] = Sched!Older(cycle[w], Sched!Never)
      BY <1>1, <2>2
    <3>2. h.age # None => h.age \in 0..Sched!Never
      BY <2>1 DEF JobRec
    <3>3. h.age # None /\ h.fails = 0 => cycle[w] \in 0..h.age
      BY <2>1, <3>2
    <3> QED
      BY <1>2, <1>3, <2>1, <3>1, <3>2, <3>3
  <2>3. CASE byHand[w] # None
    <3>1. cycle'[w] = 0
      BY <1>1, <2>3
    <3> QED
      BY <1>2, <1>3, <2>1, <3>1 DEF JobRec
  <2> QED
    BY <2>2, <2>3
<1> QED
  BY <1>4, <1>5, <1>6 DEF SchedInv

LEMMA SchedNext == ASSUME Sched!SchedulerAssumption, SchedInv, [Sched!Next]_(Sched!vars) PROVE SchedInv'
<1>1. CASE Sched!Next
  BY <1>1, WorkerStep, RunStep, ByHandStep, MinuteStep DEF Sched!Next
<1>2. CASE UNCHANGED Sched!vars
  BY <1>2 DEF Sched!vars, SchedInv, SchedType, LeaseInv, AgeInv
<1> QED
  BY <1>1, <1>2

LEMMA SchedInvariant == ASSUME Sched!SchedulerAssumption PROVE Sched!Spec => []SchedInv
<1>1. Sched!Init => SchedInv
  BY SchedInit
<1>2. SchedInv /\ [Sched!Next]_(Sched!vars) => SchedInv'
  BY SchedNext
<1> QED
  BY <1>1, <1>2, PTL DEF Sched!Spec

\* At most one process of the deployment runs jobs (app/scheduler.py: the lease
\* of start_scheduler, through restarts, kills and setups that end late).
THEOREM OneRunner == ASSUME Sched!SchedulerAssumption PROVE Sched!Spec => []OneTicker
<1>1. SchedInv => OneTicker
  BY SchedConstants DEF SchedInv, LeaseInv, OneTicker, Sched!OneTicker
<1> QED
  BY <1>1, SchedInvariant, PTL

\* /health does not say "ok" of a process that checks nothing: the age of the
\* recorded success bounds the time since a cycle was completed, the process
\* started, or a check by hand was on (app/scheduler.py: scheduler_health).
THEOREM OkMeansFresh == ASSUME Sched!SchedulerAssumption PROVE Sched!Spec => []OkIsFresh
<1>1. SchedInv => OkIsFresh
  <2> SUFFICES ASSUME SchedInv, NEW w \in Actors, Sched!monitoring(w) = "ok"
               PROVE  cycle[w] <= StaleAfter
    BY DEF OkIsFresh, Sched!OkIsFresh
  <2> DEFINE h == job[w][CHECK_JOB_ID]
  <2>1. h \in JobRec /\ cycle[w] \in 0..Sched!Never
        /\ (h.age # None /\ h.fails = 0 => cycle[w] <= h.age)
    BY SchedConstants DEF SchedInv, SchedType, AgeInv
  <2>2. h.fails \in {0, 1} /\ (h.age # None => h.age \in 0..Sched!Never)
    BY <2>1 DEF JobRec
  <2>3. h.fails = 0 /\ h.age # None /\ h.age # Sched!Never
    BY <2>2 DEF Sched!monitoring
  <2> QED
    BY <2>1, <2>2, <2>3, SchedConstants
<1> QED
  BY <1>1, SchedInvariant, PTL

-----------------------------------------------------------------------------
(***************************************************************************)
(* The anchor.  While a topic is not due, every minute is covered by a     *)
(* row: the anchor of that minute.  A row that was in the past when the    *)
(* wait began covers the minutes of an interval at most; one that was in   *)
(* the future covers its interval and the skew before it; and the rows in  *)
(* the future are the counted ones.                                        *)
(***************************************************************************)

Ahead(R, t) == {r \in R : r > t}

DueType ==
    /\ now \in Nat /\ rows \in SUBSET Nat /\ IsFiniteSet(rows)
    /\ topic \in [active : BOOLEAN, interval : Intervals]
    /\ since \in 0..now /\ future \in Nat

CoverInv ==
    /\ Cardinality(Ahead(rows, now - since)) <= future
    /\ \A t \in (now - since)..(now - 1) :
          \E r \in rows : t < r + Anchor!Interval /\ r <= t + Skew

DueInv == DueType /\ CoverInv

LEMMA AnchorCardinality == ASSUME NEW S PROVE Anchor!Cardinality(S) = Cardinality(S)
BY DEF Anchor!Cardinality, Cardinality

LEMMA DueFacts ==
    ASSUME Anchor!DueAssumption, DueType
    PROVE  /\ Anchor!Interval \in Nat \ {0} /\ Skew \in Nat /\ Leap \in Nat
           /\ \A t : IsFiniteSet(Ahead(rows, t)) /\ Cardinality(Ahead(rows, t)) \in Nat
<1>1. Anchor!Interval \in Nat \ {0} /\ Skew \in Nat /\ Leap \in Nat
  BY DEF Anchor!DueAssumption, DueType, Anchor!Interval
<1>2. ASSUME NEW t PROVE IsFiniteSet(Ahead(rows, t)) /\ Cardinality(Ahead(rows, t)) \in Nat
  <2>1. Ahead(rows, t) \in SUBSET rows /\ IsFiniteSet(rows)
    BY DEF Ahead, DueType
  <2> QED
    BY <2>1, FS_Subset, FS_CardinalityType
<1> QED
  BY <1>1, <1>2

\* Minutes in a row, each covered by a row, are few.
LEMMA Covered ==
    ASSUME NEW R \in SUBSET Nat, IsFiniteSet(R), NEW a \in Nat, NEW n \in Nat,
           NEW interval \in Nat \ {0}, NEW skew \in Nat, NEW ahead \in Nat,
           Cardinality({r \in R : r > a}) <= ahead,
           \A t \in a..(a + n) : \E r \in R : t < r + interval /\ r <= t + skew
    PROVE  n < (ahead + 1) * (interval + skew)
<1> DEFINE F == {r \in R : r > a}
           K == interval + skew
           T == (a + interval)..(a + n)
<1>1. IsFiniteSet(F) /\ Cardinality(F) \in Nat
  <2>1. F \in SUBSET R
    OBVIOUS
  <2> QED
    BY <2>1, FS_Subset, FS_CardinalityType
<1>2. K \in Nat \ {0} /\ interval <= K
  OBVIOUS
<1>3. CASE n < interval
  <2>1. (ahead + 1) * K = ahead * K + K /\ ahead * K \in Nat
    BY <1>2
  <2> QED
    BY <1>2, <1>3, <2>1
<1>4. CASE n >= interval
  <2> DEFINE near(t) == CHOOSE r \in F : t < r + interval /\ r <= t + skew
             place == [t \in T |-> <<near(t), t + skew - near(t)>>]
             offsets == 0..(K - 1)
  <2>1. \A t \in T : t \in Nat /\ near(t) \in F /\ t < near(t) + interval /\ near(t) <= t + skew
    <3> SUFFICES ASSUME NEW t \in T
                 PROVE  t \in Nat /\ \E r \in F : t < r + interval /\ r <= t + skew
      OBVIOUS
    <3>1. t \in a..(a + n) /\ t >= a + interval
      BY <1>4
    <3>2. PICK r \in R : t < r + interval /\ r <= t + skew
      BY <3>1
    <3>3. r > a
      BY <3>1, <3>2
    <3> QED
      BY <3>1, <3>2, <3>3
  <2> HIDE DEF near
  <2>2. ASSUME NEW t \in T PROVE near(t) \in Nat /\ t + skew - near(t) \in offsets
    <3>1. t \in Nat /\ near(t) \in Nat /\ t < near(t) + interval /\ near(t) <= t + skew
      BY <2>1
    <3> QED
      BY <3>1
  <2>3. place \in [T -> F \X offsets]
    BY <2>1, <2>2
  <2>4. ASSUME NEW t \in T, NEW u \in T, place[t] = place[u] PROVE t = u
    <3>1. near(t) = near(u) /\ t + skew - near(t) = u + skew - near(u)
      BY <2>4
    <3> QED
      BY <2>1, <2>2, <3>1
  <2>5. place \in Injection(T, F \X offsets)
    BY <2>3, <2>4 DEF Injection, IsInjective
  <2>6. IsFiniteSet(offsets) /\ Cardinality(offsets) = K
    BY <1>2, FS_Interval
  <2>7. IsFiniteSet(F \X offsets) /\ Cardinality(F \X offsets) = Cardinality(F) * K
    BY <1>1, <2>6, FS_Product
  <2>8. Cardinality(T) <= Cardinality(F) * K
    BY <2>5, <2>7, FS_Injection
  <2>9. Cardinality(T) = n - interval + 1
    BY <1>4, FS_Interval
  <2> HIDE DEF F, K, T
  <2>10. Cardinality(F) <= ahead
    BY DEF F
  <2>11. Cardinality(F) * K <= ahead * K /\ (ahead + 1) * K = ahead * K + K /\ ahead * K \in Nat
    BY <1>1, <1>2, <2>10
  <2>12. Cardinality(F) * K \in Nat
    BY <1>1, <1>2
  <2> QED
    BY <1>2, <2>8, <2>9, <2>11, <2>12 DEF K
<1> QED
  BY <1>3, <1>4

LEMMA Least ==
    ASSUME NEW S \in SUBSET Nat, S # {}
    PROVE  \E x \in S : \A y \in S : x <= y
<1> DEFINE R == {ss \in Nat \X Nat : ss[1] < ss[2]}
<1>1. IsWellFoundedOn(R, Nat)
  BY NatLessThanWellFounded DEF OpToRel
<1> HIDE DEF R
<1>2. PICK x \in S : \A y \in S : ~(<<y, x>> \in R)
  BY <1>1, WFMin
<1>3. ASSUME NEW y \in S PROVE x <= y
  <2>1. <<y, x>> \in Nat \X Nat /\ ~(<<y, x>> \in R)
    BY <1>2
  <2>2. ~(y < x)
    BY <2>1 DEF R
  <2> QED
    BY <2>2
<1> QED
  BY <1>3

\* The anchor is one of the rows it is taken from.
LEMMA AnchorIsRow ==
    ASSUME Anchor!DueAssumption, DueType, Anchor!SaneRows(now) # {}
    PROVE  Anchor!Max(Anchor!SaneRows(now)) \in Anchor!SaneRows(now)
<1> DEFINE S == Anchor!SaneRows(now)
           B == now + Skew
           D == {n \in Nat : B - n \in S}
<1>1. S \in SUBSET Nat /\ (\A r \in S : r <= B) /\ B \in Nat /\ S # {}
  <2>1. now \in Nat /\ Skew \in Nat /\ rows \in SUBSET Nat
    BY DueFacts DEF DueType
  <2>2. S \in SUBSET Nat /\ \A r \in S : r <= now + Skew
    BY <2>1 DEF Anchor!SaneRows
  <2> QED
    BY <2>1, <2>2
<1> HIDE DEF S, B
<1>2. D \in SUBSET Nat /\ D # {}
  <2>1. PICK r \in S : TRUE
    BY <1>1
  <2>2. B - r \in D
    BY <1>1, <2>1
  <2> QED
    BY <2>2
<1>3. PICK n \in D : \A m \in D : n <= m
  BY <1>2, Least
<1>4. B - n \in S
  BY <1>3
<1>5. ASSUME NEW r \in S PROVE B - n >= r
  <2>1. B - r \in D
    BY <1>1, <1>5
  <2>2. n <= B - r
    BY <1>3, <2>1
  <2> QED
    BY <1>1, <2>2
<1>6. \E x \in S : \A y \in S : x >= y
  BY <1>4, <1>5
<1> QED
  BY <1>6 DEF Anchor!Max, S

\* A monitored minute in which the topic is not due is covered.
LEMMA NotDueCovered ==
    ASSUME Anchor!DueAssumption, DueType, topic.active, ~Anchor!Due
    PROVE  \E r \in rows : now < r + Anchor!Interval /\ r <= now + Skew
<1>1. /\ Anchor!SaneRows(now) # {}
      /\ ~(Anchor!Max(Anchor!SaneRows(now)) + Anchor!Interval <= now)
  BY DEF Anchor!Due
<1> DEFINE r == Anchor!Max(Anchor!SaneRows(now))
<1>2. r \in rows /\ r <= now + Skew
  BY <1>1, AnchorIsRow DEF Anchor!SaneRows
<1>3. now < r + Anchor!Interval
  <2>1. r \in Nat /\ now \in Nat /\ Anchor!Interval \in Nat
    BY <1>2, DueFacts DEF DueType
  <2> HIDE DEF r
  <2> QED
    BY <1>1, <2>1 DEF r
<1> QED
  BY <1>2, <1>3

LEMMA DueInit == ASSUME Anchor!DueAssumption PROVE Anchor!Init => DueInv
<1> SUFFICES ASSUME Anchor!Init PROVE DueInv
  OBVIOUS
<1>1. DueType
  <2>1. Leap \in Nat /\ Intervals \subseteq Nat
    BY DEF Anchor!DueAssumption
  <2>2. /\ now \in 0..Leap /\ rows = {} /\ since = 0 /\ future = 0
        /\ topic \in [active : {TRUE}, interval : Intervals]
    BY DEF Anchor!Init
  <2>3. now \in Nat /\ since \in 0..now /\ future \in Nat
    BY <2>1, <2>2
  <2>4. topic \in [active : BOOLEAN, interval : Intervals]
    BY <2>2
  <2> QED
    BY <2>2, <2>3, <2>4, FS_EmptySet DEF DueType
<1>2. Ahead(rows, now - since) = {}
  BY DEF Anchor!Init, Ahead
<1>3. CoverInv
  BY <1>1, <1>2, FS_EmptySet DEF CoverInv, Anchor!Init, DueType
<1> QED
  BY <1>1, <1>3 DEF DueInv

\* The wait begins anew: nothing is to be covered, and no more rows are ahead.
LEMMA Anew ==
    ASSUME Anchor!DueAssumption, DueInv, DueType', since' = 0,
           Cardinality(Ahead(rows', now')) <= future'
    PROVE  DueInv'
<1>1. \A n \in Nat : n - 0 = n /\ n..(n - 1) = {}
  OBVIOUS
<1>2. now' \in Nat
  BY DEF DueType
<1>3. now' - since' = now' /\ now'..(now' - 1) = {}
  BY <1>1, <1>2
<1>4. CoverInv'
  BY <1>3 DEF CoverInv
<1> QED
  BY <1>4 DEF DueInv

LEMMA CheckStep == ASSUME Anchor!DueAssumption, DueInv, Anchor!Check PROVE DueInv'
<1>1. rows' = rows \union {now} /\ since' = 0 /\ UNCHANGED <<now, topic, future>>
  BY DEF Anchor!Check
<1>2. DueType'
  BY <1>1, FS_AddElement DEF DueInv, DueType
<1>3. Ahead(rows', now') \in SUBSET Ahead(rows, now - since)
  <2>1. now \in Nat /\ since \in 0..now /\ rows \in SUBSET Nat
    BY DEF DueInv, DueType
  <2>2. \A r \in rows : r > now => r > now - since
    BY <2>1
  <2>3. \A r \in rows \union {now} : r > now => r \in rows
    BY <2>1
  <2> QED
    BY <1>1, <2>2, <2>3 DEF Ahead
<1>4. Cardinality(Ahead(rows', now')) <= Cardinality(Ahead(rows, now - since))
  BY <1>3, DueFacts, FS_Subset DEF DueInv
<1>5. Cardinality(Ahead(rows', now')) <= future'
  <2>1. Cardinality(Ahead(rows', now')) \in Nat
    BY <1>3, DueFacts, FS_Subset, FS_CardinalityType DEF DueInv
  <2> QED
    BY <1>1, <1>4, <2>1, DueFacts DEF DueInv, DueType, CoverInv
<1> QED
  BY <1>1, <1>2, <1>5, Anew

LEMMA SetClockStep == ASSUME Anchor!DueAssumption, DueInv, Anchor!SetClock PROVE DueInv'
<1>1. /\ now' \in {now + Leap, now - Leap} /\ (now' = now - Leap => now >= Leap \/ Leap = 0)
      /\ since' = 0 /\ UNCHANGED <<rows, topic>>
      /\ future' = Cardinality(Ahead(rows, now'))
  <2>1. future' = Cardinality(Ahead(rows, now'))
    BY AnchorCardinality DEF Anchor!SetClock, Ahead
  <2>2. \/ now' = now + Leap
        \/ now >= Leap /\ now' = now - Leap
    BY DEF Anchor!SetClock
  <2>3. now \in Nat /\ Leap \in Nat
    BY DueFacts DEF DueInv, DueType
  <2>4. now + Leap = now - Leap => Leap = 0
    BY <2>3
  <2> QED
    BY <2>1, <2>2, <2>4 DEF Anchor!SetClock
<1>2. now' \in Nat
  <2>1. now \in Nat /\ Leap \in Nat
    BY DueFacts DEF DueInv, DueType
  <2>2. /\ now + Leap \in Nat /\ (now >= Leap => now - Leap \in Nat)
        /\ (Leap = 0 => now - Leap \in Nat)
    BY <2>1
  <2> QED
    BY <1>1, <2>2
<1>3. future' \in Nat
  BY <1>1, DueFacts DEF DueInv
<1>4. 0 \in 0..now'
  BY <1>2
<1>5. DueType'
  BY <1>1, <1>2, <1>3, <1>4 DEF DueInv, DueType
<1>6. Cardinality(Ahead(rows', now')) <= future'
  BY <1>1, <1>3
<1> QED
  BY <1>1, <1>5, <1>6, Anew

\* The wait begins anew at the clock of before.
LEMMA ToggleStep == ASSUME Anchor!DueAssumption, DueInv, Anchor!Toggle PROVE DueInv'
<1>1. /\ topic' = [topic EXCEPT !.active = ~@] /\ since' = 0 /\ UNCHANGED <<now, rows, future>>
  BY DEF Anchor!Toggle
<1>2. topic \in [active : BOOLEAN, interval : Intervals] /\ now \in Nat /\ since \in 0..now
      /\ future \in Nat /\ rows \in SUBSET Nat
  BY DEF DueInv, DueType
<1>3. topic' \in [active : BOOLEAN, interval : Intervals] /\ 0 \in 0..now
  <2> DEFINE other == ~topic.active
  <2>1. other \in BOOLEAN /\ topic' = [topic EXCEPT !.active = other]
    BY <1>1
  <2> HIDE DEF other
  <2>2. topic' \in [active : BOOLEAN, interval : Intervals]
    BY <1>2, <2>1
  <2>3. 0 \in 0..now
    BY <1>2
  <2> QED
    BY <2>2, <2>3
<1>4. DueType'
  BY <1>1, <1>3 DEF DueInv, DueType
<1>5. Ahead(rows, now) \in SUBSET Ahead(rows, now - since)
  <2>1. \A r \in rows : r > now => r > now - since
    BY <1>2
  <2> QED
    BY <2>1 DEF Ahead
<1>6. /\ Cardinality(Ahead(rows, now)) <= Cardinality(Ahead(rows, now - since))
      /\ Cardinality(Ahead(rows, now)) \in Nat /\ Cardinality(Ahead(rows, now - since)) \in Nat
      /\ Cardinality(Ahead(rows, now - since)) <= future
  BY <1>5, DueFacts, FS_Subset DEF DueInv, CoverInv
<1>7. Cardinality(Ahead(rows', now')) <= future'
  BY <1>1, <1>2, <1>6
<1> QED
  BY <1>1, <1>4, <1>7, Anew

LEMMA DueMinuteStep == ASSUME Anchor!DueAssumption, DueInv, Anchor!Minute PROVE DueInv'
<1>1. /\ ~Anchor!Due /\ now' = now + 1 /\ since' = IF topic.active THEN since + 1 ELSE 0
      /\ UNCHANGED <<rows, topic, future>>
  BY DEF Anchor!Minute
<1>2. /\ now \in Nat /\ since \in 0..now /\ future \in Nat /\ rows \in SUBSET Nat
      /\ Cardinality(Ahead(rows, now - since)) <= future
  BY DEF DueInv, DueType, CoverInv
<1>3. now + 1 \in Nat /\ since + 1 \in 0..(now + 1) /\ 0 \in 0..(now + 1)
  BY <1>2
<1>4. DueType'
  BY <1>1, <1>3 DEF DueInv, DueType
<1>5. CASE topic.active
  <2>1. now' - since' = now - since /\ now' - 1 = now
    <3>1. (now + 1) - (since + 1) = now - since /\ (now + 1) - 1 = now
      BY <1>2
    <3> QED
      BY <1>1, <1>5, <3>1
  <2>2. Anchor!Interval' = Anchor!Interval
    BY <1>1 DEF Anchor!Interval
  <2>3. ASSUME NEW t \in (now - since)..now
        PROVE  \E r \in rows : t < r + Anchor!Interval /\ r <= t + Skew
    <3>1. CASE t = now
      BY <1>1, <1>5, <3>1, NotDueCovered DEF DueInv
    <3>2. CASE t # now
      <4>1. t \in (now - since)..(now - 1)
        BY <1>2, <3>2
      <4> QED
        BY <4>1 DEF DueInv, CoverInv
    <3> QED
      BY <3>1, <3>2
  <2>4. CoverInv'
    BY <1>1, <1>2, <2>1, <2>2, <2>3 DEF CoverInv
  <2> QED
    BY <1>4, <2>4 DEF DueInv
<1>6. CASE ~topic.active
  <2>1. Ahead(rows, now + 1) \in SUBSET Ahead(rows, now - since)
    <3>1. \A r \in rows : r > now + 1 => r > now - since
      BY <1>2
    <3> QED
      BY <3>1 DEF Ahead
  <2>2. /\ Cardinality(Ahead(rows, now + 1)) <= Cardinality(Ahead(rows, now - since))
        /\ Cardinality(Ahead(rows, now + 1)) \in Nat
        /\ Cardinality(Ahead(rows, now - since)) \in Nat
    BY <2>1, DueFacts, FS_Subset DEF DueInv
  <2>3. Cardinality(Ahead(rows, now + 1)) <= future
    BY <1>2, <2>2
  <2>4. Cardinality(Ahead(rows', now')) <= future' /\ since' = 0
    BY <1>1, <1>6, <2>3
  <2> QED
    BY <1>4, <2>4, Anew
<1> QED
  BY <1>5, <1>6

LEMMA DueNext == ASSUME Anchor!DueAssumption, DueInv, [Anchor!Next]_(Anchor!vars) PROVE DueInv'
<1>1. CASE UNCHANGED Anchor!vars
  BY <1>1 DEF Anchor!vars, DueInv, DueType, CoverInv, Ahead, Anchor!Interval
<1> QED
  BY <1>1, CheckStep, DueMinuteStep, SetClockStep, ToggleStep DEF Anchor!Next

\* However the clock was set, a monitored topic waits an interval and the skew,
\* and once more for every row that was in the future when the clock was set
\* (get_topics_due_for_check in crud.py: the anchor of a topic).
THEOREM CheckedInTimeAlways == ASSUME Anchor!DueAssumption PROVE Anchor!Spec => []CheckedInTime
<1>1. DueInv /\ [Anchor!Next]_(Anchor!vars) => DueInv'
  BY DueNext
<1>2. ASSUME DueInv PROVE CheckedInTime
  <2> SUFFICES ASSUME topic.active, ~Anchor!Due
               PROVE  since < (future + 1) * (Anchor!Interval + Skew)
    BY DEF CheckedInTime, Anchor!CheckedInTime
  <2> DEFINE a == now - since
  <2>1. /\ now \in Nat /\ since \in 0..now /\ future \in Nat /\ rows \in SUBSET Nat
        /\ IsFiniteSet(rows) /\ Cardinality(Ahead(rows, now - since)) <= future
        /\ Anchor!Interval \in Nat \ {0} /\ Skew \in Nat
    BY <1>2, DueFacts DEF DueInv, DueType, CoverInv
  <2>2. a \in Nat /\ a + since = now /\ since \in Nat
    BY <2>1
  <2>3. ASSUME NEW t \in a..(a + since)
        PROVE  \E r \in rows : t < r + Anchor!Interval /\ r <= t + Skew
    <3>1. CASE t = now
      BY <1>2, <3>1, NotDueCovered DEF DueInv
    <3>2. CASE t # now
      <4>1. t \in (now - since)..(now - 1)
        BY <2>1, <2>2, <3>2
      <4> QED
        BY <1>2, <4>1 DEF DueInv, CoverInv
    <3> QED
      BY <3>1, <3>2
  <2>4. Cardinality({r \in rows : r > a}) <= future
    BY <2>1 DEF Ahead
  <2> HIDE DEF a
  <2> QED
    BY <2>1, <2>2, <2>3, <2>4, Covered
<1> QED
  BY DueInit, <1>1, <1>2, PTL DEF Anchor!Spec

-----------------------------------------------------------------------------
(***************************************************************************)
(* The knowledge.  A revision is appended only over the version its job    *)
(* noted, or as the first of the topic; pruning keeps an end of the        *)
(* history, and never all of a history that has something.                 *)
(***************************************************************************)

Revision == [version : Nat, base : Nat, source : {"init", "update"}]

Stages == {"idle", "generating", "compressing", "ready"}

\* A job, whatever the summaries are made of.
WriterIn(W, T) == [at : Stages, source : {"init", "update"}, base : Nat, whole : W, text : T]
WriterShaped(q) == \E W, T : q \in WriterIn(W, T)

FactsType ==
    /\ state \in Nat \union {None} /\ revisions \in Seq(Revision)
    /\ writer = [j \in Actors |-> writer[j]] /\ \A j \in Actors : WriterShaped(writer[j])

\* Neighbours of a history are one edit apart.
Contiguous(revs) ==
    \A i \in 1..(Len(revs) - 1) :
        /\ revs[i + 1].version = revs[i].version + 1
        /\ revs[i + 1].source = "update" => revs[i + 1].base = revs[i].version

\* The history ends with the summary in use; without a summary there is none.
EndsWith(revs, last) ==
    IF last = None THEN revs = <<>>
    ELSE Len(revs) # 0 /\ revs[Len(revs)].version = last

FactsInv == FactsType /\ Contiguous(revisions) /\ EndsWith(revisions, state)

LEMMA IdleShaped == WriterShaped(Facts!Idle)
<1>1. Facts!Idle \in WriterIn({<<>>}, {<<>>})
  BY DEF Facts!Idle, WriterIn, Stages
<1> QED
  BY <1>1 DEF WriterShaped

LEMMA StaysShaped ==
    ASSUME NEW q, WriterShaped(q), NEW at \in Stages, NEW whole, NEW text
    PROVE  /\ WriterShaped([q EXCEPT !.at = at, !.whole = whole, !.text = text])
           /\ WriterShaped([q EXCEPT !.at = at, !.whole = whole])
<1>1. PICK W, T : q \in WriterIn(W, T)
  BY DEF WriterShaped
<1>2. [q EXCEPT !.at = at, !.whole = whole, !.text = text] \in WriterIn(W \union {whole}, T \union {text})
  BY <1>1 DEF WriterIn
<1>3. [q EXCEPT !.at = at, !.whole = whole] \in WriterIn(W \union {whole}, T)
  BY <1>1 DEF WriterIn
<1> QED
  BY <1>2, <1>3 DEF WriterShaped

LEMMA FactsInit == ASSUME Facts!KnowledgeAssumption PROVE Facts!Init => FactsInv
<1> SUFFICES ASSUME Facts!Init PROVE FactsInv
  OBVIOUS
<1>1. revisions \in Seq(Revision)
  <2> DEFINE first == [version |-> 0, base |-> 0, source |-> "init"]
  <2>1. first \in Revision
    BY DEF Revision
  <2>2. revisions \in {<<>>, <<first>>}
    BY DEF Facts!Init
  <2> HIDE DEF first
  <2>3. <<>> \in Seq(Revision) /\ <<first>> \in Seq(Revision)
    BY <2>1
  <2> QED
    BY <2>2, <2>3
<1>2. FactsType
  BY <1>1, IdleShaped DEF Facts!Init, FactsType
<1>3. Contiguous(revisions) /\ EndsWith(revisions, state)
  BY DEF Facts!Init, Contiguous, EndsWith, Facts!KnowledgeAssumption
<1> QED
  BY <1>2, <1>3 DEF FactsInv

\* Pruning keeps the end of a history.
LEMMA Pruned ==
    ASSUME NEW revs \in Seq(Revision), NEW keep \in Nat \ {0}, NEW last,
           Contiguous(revs), EndsWith(revs, last)
    PROVE  LET kept == Facts!prune_knowledge_revisions(revs, keep) IN
           kept \in Seq(Revision) /\ Contiguous(kept) /\ EndsWith(kept, last)
<1> DEFINE first == IF Len(revs) > keep THEN Len(revs) - keep + 1 ELSE 1
           kept == SubSeq(revs, first, Len(revs))
<1>1. /\ first \in Nat \ {0} /\ Len(revs) \in Nat
      /\ Len(revs) # 0 => first <= Len(revs)
  OBVIOUS
<1> HIDE DEF first
<1>2. CASE Len(revs) = 0
  <2>1. kept = <<>> /\ revs = <<>>
    BY <1>1, <1>2
  <2> QED
    BY <1>2, <2>1 DEF Facts!prune_knowledge_revisions, first
<1>3. CASE Len(revs) # 0
  <2>1. /\ kept \in Seq(Revision) /\ Len(kept) = Len(revs) - first + 1
        /\ \A i \in 1..Len(kept) : kept[i] = revs[i + first - 1]
    BY <1>1, <1>3
  <2> HIDE DEF kept
  <2>2. EndsWith(kept, last)
    BY <1>1, <1>3, <2>1 DEF EndsWith
  <2>3. Contiguous(kept)
    <3> SUFFICES ASSUME NEW i \in 1..(Len(kept) - 1)
                 PROVE  /\ kept[i + 1].version = kept[i].version + 1
                        /\ kept[i + 1].source = "update" => kept[i + 1].base = kept[i].version
      BY DEF Contiguous
    <3> DEFINE k == i + first - 1
    <3>1. /\ k \in 1..(Len(revs) - 1) /\ i \in 1..Len(kept) /\ i + 1 \in 1..Len(kept)
          /\ (i + 1) + first - 1 = k + 1
      BY <1>1, <2>1
    <3>2. kept[i] = revs[k] /\ kept[i + 1] = revs[k + 1]
      BY <2>1, <3>1
    <3> QED
      BY <3>1, <3>2 DEF Contiguous
  <2> QED
    BY <2>1, <2>2, <2>3 DEF Facts!prune_knowledge_revisions, first, kept
<1> QED
  BY <1>1, <1>2, <1>3

\* What a job does before it writes, and when it gives up, is its own affair.
LEMMA WriterStep ==
    ASSUME FactsInv, UNCHANGED <<state, revisions>>, NEW j \in Actors, NEW q,
           writer' = [writer EXCEPT ![j] = q], WriterShaped(q)
    PROVE  FactsInv'
BY DEF FactsInv, FactsType

LEMMA WriterSteps ==
    ASSUME Facts!KnowledgeAssumption, FactsInv, NEW j \in Actors,
           \/ Facts!Snapshot(j) \/ Facts!Generate(j) \/ Facts!NoPlan(j)
           \/ Facts!Compress(j) \/ Facts!Discard(j)
    PROVE  FactsInv'
<1>1. WriterShaped(writer[j]) /\ state \in Nat \union {None}
  BY DEF FactsInv, FactsType
<1>2. ASSUME NEW whole, NEW text, Facts!Plan(j, whole, text), UNCHANGED <<state, revisions>>
      PROVE  FactsInv'
  <2> DEFINE q == [writer[j] EXCEPT !.at = "ready", !.whole = whole, !.text = text]
  <2>1. writer' = [writer EXCEPT ![j] = q]
    BY <1>2 DEF Facts!Plan, FactsInv, FactsType
  <2>2. WriterShaped(q)
    BY <1>1, StaysShaped DEF Stages
  <2> QED
    BY <1>2, <2>1, <2>2, WriterStep
<1>4. CASE Facts!Snapshot(j)
  <2>1. PICK source \in {"init", "update"} :
           writer' = [writer EXCEPT ![j] = [Facts!Idle EXCEPT !.at = "generating", !.source = source,
                                              !.base = IF state = None THEN 0 ELSE state]]
    BY <1>4 DEF Facts!Snapshot
  <2>2. WriterShaped([Facts!Idle EXCEPT !.at = "generating", !.source = source,
                                          !.base = IF state = None THEN 0 ELSE state])
    <3> DEFINE base == IF state = None THEN 0 ELSE state
    <3>1. base \in Nat
      BY <1>1
    <3> HIDE DEF base
    <3>2. [Facts!Idle EXCEPT !.at = "generating", !.source = source, !.base = base]
             \in WriterIn({<<>>}, {<<>>})
      BY <3>1 DEF WriterIn, Facts!Idle, Stages
    <3> QED
      BY <3>2 DEF WriterShaped, base
  <2>3. UNCHANGED <<state, revisions>>
    BY <1>4 DEF Facts!Snapshot
  <2> QED
    BY <2>1, <2>2, <2>3, WriterStep
<1>5. CASE Facts!Generate(j)
  <2>1. PICK text \in Summaries :
           IF Facts!Fits(text) THEN Facts!Plan(j, text, text)
           ELSE writer' = [writer EXCEPT ![j].at = "compressing", ![j].whole = text]
    BY <1>5 DEF Facts!Generate
  <2>2. UNCHANGED <<state, revisions>>
    BY <1>5 DEF Facts!Generate
  <2>3. CASE Facts!Fits(text)
    BY <1>2, <2>1, <2>2, <2>3
  <2>4. CASE ~Facts!Fits(text)
    <3> DEFINE q == [writer[j] EXCEPT !.at = "compressing", !.whole = text]
    <3>1. writer' = [writer EXCEPT ![j] = q]
      BY <2>1, <2>4 DEF FactsInv, FactsType
    <3>2. WriterShaped(q)
      BY <1>1, StaysShaped DEF Stages
    <3> QED
      BY <2>2, <3>1, <3>2, WriterStep
  <2> QED
    BY <2>3, <2>4
<1>6. CASE Facts!NoPlan(j) \/ Facts!Discard(j)
  BY <1>6, IdleShaped, WriterStep DEF Facts!NoPlan, Facts!Discard
<1>7. CASE Facts!Compress(j)
  BY <1>2, <1>7 DEF Facts!Compress
<1> QED
  BY <1>4, <1>5, <1>6, <1>7

LEMMA ApplyStep ==
    ASSUME Facts!KnowledgeAssumption, FactsInv, NEW j \in Actors, Facts!Apply(j)
    PROVE  FactsInv'
<1> DEFINE rev == [version |-> state', base |-> writer[j].base, source |-> writer[j].source]
           revs == Append(revisions, rev)
<1>1. /\ state \in {writer[j].base, None} /\ state' = IF state = None THEN 1 ELSE state + 1
      /\ \E keep \in Limits : revisions' = Facts!prune_knowledge_revisions(revs, keep)
      /\ writer' = [writer EXCEPT ![j] = Facts!Idle]
  BY DEF Facts!Apply, Facts!Applies
<1>2. /\ state \in Nat \union {None} /\ None \notin Nat /\ revisions \in Seq(Revision)
      /\ writer[j].base \in Nat /\ writer[j].source \in {"init", "update"}
      /\ Limits \subseteq Nat \ {0}
  BY DEF FactsInv, FactsType, WriterShaped, WriterIn, Facts!KnowledgeAssumption
<1>3. state' \in Nat /\ state' # None /\ rev \in Revision /\ rev.version = state'
  BY <1>1, <1>2 DEF Revision
<1>4. rev.base = writer[j].base
  OBVIOUS
<1> HIDE DEF rev
<1>5. /\ revs \in Seq(Revision) /\ Len(revs) = Len(revisions) + 1 /\ revs[Len(revs)] = rev
      /\ \A i \in 1..Len(revisions) : revs[i] = revisions[i]
  BY <1>2, <1>3
<1> HIDE DEF revs
<1>6. EndsWith(revs, state')
  BY <1>2, <1>3, <1>5 DEF EndsWith
<1>7. Contiguous(revs)
  <2>1. CASE state = None
    <3>1. Len(revisions) = 0
      BY <2>1 DEF FactsInv, EndsWith
    <3> QED
      BY <1>5, <3>1 DEF Contiguous
  <2>2. CASE state # None
    <3>1. /\ Len(revisions) \in Nat \ {0} /\ revisions[Len(revisions)].version = state
          /\ state' = state + 1 /\ writer[j].base = state
      BY <1>1, <1>2, <2>2 DEF FactsInv, EndsWith
    <3> SUFFICES ASSUME NEW i \in 1..(Len(revs) - 1)
                 PROVE  /\ revs[i + 1].version = revs[i].version + 1
                        /\ revs[i + 1].source = "update" => revs[i + 1].base = revs[i].version
      BY DEF Contiguous
    <3>2. CASE i = Len(revisions)
      BY <1>3, <1>4, <1>5, <3>1, <3>2
    <3>3. CASE i # Len(revisions)
      <4>1. i \in 1..(Len(revisions) - 1) /\ i + 1 \in 1..Len(revisions) /\ i \in 1..Len(revisions)
        BY <1>5, <3>1, <3>3
      <4> QED
        BY <1>5, <4>1 DEF FactsInv, Contiguous
    <3> QED
      BY <3>2, <3>3
  <2> QED
    BY <2>1, <2>2
<1>8. revisions' \in Seq(Revision) /\ Contiguous(revisions') /\ EndsWith(revisions', state')
  BY <1>1, <1>2, <1>5, <1>6, <1>7, Pruned
<1>9. FactsType'
  BY <1>1, <1>3, <1>8, IdleShaped DEF FactsInv, FactsType
<1> QED
  BY <1>8, <1>9 DEF FactsInv, Contiguous, EndsWith

LEMMA FactsNext ==
    ASSUME Facts!KnowledgeAssumption, FactsInv, [Facts!Next]_(Facts!vars)
    PROVE  FactsInv'
<1>1. ASSUME NEW gone \in SUBSET Actors, Facts!Start(gone) PROVE FactsInv'
  <2>1. /\ state' = state
        /\ \E keep \in Limits : revisions' = Facts!prune_knowledge_revisions(revisions, keep)
        /\ writer' = [j \in Actors |-> IF j \in gone THEN Facts!Idle ELSE writer[j]]
    BY <1>1 DEF Facts!Start
  <2>2. revisions' \in Seq(Revision) /\ Contiguous(revisions') /\ EndsWith(revisions', state)
    BY <2>1, Pruned DEF FactsInv, FactsType, Facts!KnowledgeAssumption
  <2>3. FactsType'
    BY <2>1, <2>2, IdleShaped DEF FactsInv, FactsType
  <2> QED
    BY <2>1, <2>2, <2>3 DEF FactsInv, Contiguous, EndsWith
<1>2. CASE UNCHANGED Facts!vars
  BY <1>2 DEF Facts!vars, FactsInv, FactsType, Contiguous, EndsWith
<1> QED
  BY <1>1, <1>2, WriterSteps, ApplyStep DEF Facts!Next

\* Every diff on the knowledge timeline is one edit, and the newest revision is
\* the summary in use, whatever raced or was pruned (apply_knowledge_update in
\* analysis/knowledge.py, prune_knowledge_revisions in crud.py).
THEOREM TimelineIsContiguous ==
    ASSUME Facts!KnowledgeAssumption PROVE Facts!Spec => []HistoryContiguous
<1>1. FactsInv /\ [Facts!Next]_(Facts!vars) => FactsInv'
  BY FactsNext
<1>2. FactsInv => HistoryContiguous
  BY DEF FactsInv, Contiguous, EndsWith, HistoryContiguous, Facts!HistoryContiguous, Facts!Last
<1> QED
  BY FactsInit, <1>1, <1>2, PTL DEF Facts!Spec

-----------------------------------------------------------------------------
(***************************************************************************)
(* The cut of a summary.  What count_first and Search compute is proved by *)
(* the least number for which it would be false (Least): first that the    *)
(* repetition that defines them exists, then the invariant of the search   *)
(* (Between): lo - 1 sentences fit, hi + 1 do not, and each round brings   *)
(* the two nearer.                                                         *)
(***************************************************************************)

\* f repeats G from start on, n times.
Repeats(f, n, start, S, G) ==
    /\ f \in [0..n -> S] /\ f[0] = start
    /\ \A i \in 1..n : f[i] = G[<<i, f[i - 1]>>]

\* Repetition defines a function: the first number of rounds without one would be one
\* more than a number with one.
LEMMA Repetition ==
    ASSUME NEW n \in Nat, NEW S, NEW start \in S, NEW G \in [Nat \X S -> S]
    PROVE  \E f : Repeats(f, n, start, S, G)
<1> DEFINE bad == {m \in Nat : ~\E f : Repeats(f, m, start, S, G)}
<1> SUFFICES ASSUME bad # {} PROVE FALSE
  OBVIOUS
<1>1. PICK m \in bad : \A k \in bad : m <= k
  BY Least
<1>2. m # 0
  <2>1. Repeats([i \in 0..0 |-> start], 0, start, S, G)
    BY DEF Repeats
  <2> QED
    BY <1>1, <2>1
<1>3. m - 1 \in Nat /\ m - 1 \notin bad
  BY <1>1, <1>2
<1>4. PICK f : Repeats(f, m - 1, start, S, G)
  BY <1>3
<1> DEFINE g == [i \in 0..m |-> IF i = m THEN G[<<m, f[m - 1]>>] ELSE f[i]]
<1>5. m \in Nat /\ f[m - 1] \in S
  BY <1>1, <1>3, <1>4 DEF Repeats
<1>6. G[<<m, f[m - 1]>>] \in S
  BY <1>5
<1>7. g \in [0..m -> S] /\ g[0] = start
  BY <1>2, <1>4, <1>5, <1>6 DEF Repeats
<1>8. ASSUME NEW i \in 1..m PROVE g[i] = G[<<i, g[i - 1]>>]
  <2>1. i \in 0..m /\ i - 1 \in 0..m /\ i - 1 # m /\ g[i - 1] = f[i - 1]
    BY <1>5
  <2>2. CASE i = m
    BY <2>1, <2>2
  <2>3. CASE i # m
    <3>1. i \in 1..(m - 1)
      BY <1>3, <2>3
    <3> QED
      BY <1>4, <2>1, <2>3, <3>1 DEF Repeats
  <2> QED
    BY <2>2, <2>3
<1>9. Repeats(g, m, start, S, G)
  BY <1>7, <1>8 DEF Repeats
<1> QED
  BY <1>1, <1>9

\* What count_first is for a summary.
LEMMA Counts ==
    ASSUME NEW text \in Seq(Nat)
    PROVE  LET count == Facts!count_first(text) IN
           /\ count \in [0..Len(text) -> Nat] /\ count[0] = 0
           /\ \A k \in 1..Len(text) : count[k] = count[k - 1] + text[k]
<1> DEFINE n == Len(text)
           G == [p \in Nat \X Nat |-> p[2] + (IF p[1] \in 1..n THEN text[p[1]] ELSE 0)]
           Is(f) == f = [k \in 0..n |-> IF k = 0 THEN 0 ELSE f[k - 1] + text[k]]
<1>1. n \in Nat /\ \A k \in 1..n : text[k] \in Nat
  OBVIOUS
<1>2. G \in [Nat \X Nat -> Nat]
  BY <1>1
<1>3. \A k \in 1..n, q \in Nat : G[<<k, q>>] = q + text[k]
  BY <1>1
<1> HIDE DEF n, G
<1>4. PICK f : Repeats(f, n, 0, Nat, G)
  BY <1>1, <1>2, Repetition
<1>5. Is(f)
  <2>1. f \in [0..n -> Nat] /\ f[0] = 0 /\ \A k \in 1..n : f[k] = G[<<k, f[k - 1]>>]
    BY <1>4 DEF Repeats
  <2>2. ASSUME NEW k \in 1..n PROVE f[k] = f[k - 1] + text[k]
    <3>1. f[k - 1] \in Nat
      BY <1>1, <2>1
    <3> QED
      BY <1>3, <2>1, <3>1
  <2> QED
    BY <1>1, <2>1, <2>2
<1> DEFINE count == CHOOSE g : Is(g)
<1>6. Is(count)
  BY <1>5
<1>7. Facts!count_first(text) = count
  BY DEF Facts!count_first, n
<1> HIDE DEF count
<1>8. DOMAIN count = 0..n /\ count[0] = 0 /\ \A k \in 1..n : count[k] = count[k - 1] + text[k]
  BY <1>1, <1>6
<1>9. \A k \in 0..n : count[k] \in Nat
  <2> DEFINE bad == {k \in 0..n : count[k] \notin Nat}
  <2> SUFFICES ASSUME bad # {} PROVE FALSE
    OBVIOUS
  <2> bad \in SUBSET Nat
    BY <1>1
  <2>1. PICK k \in bad : \A i \in bad : k <= i
    BY Least
  <2>2. k \in 1..n /\ k - 1 \in 0..n /\ k - 1 \notin bad
    BY <1>1, <1>8, <2>1
  <2>3. count[k - 1] \in Nat /\ text[k] \in Nat /\ count[k] = count[k - 1] + text[k]
    BY <1>1, <1>8, <2>2
  <2> QED
    BY <2>1, <2>3
<1>10. count = [k \in 0..n |-> count[k]]
  BY <1>6
<1> QED
  BY <1>7, <1>8, <1>9, <1>10 DEF n

\* The tokens of the first sentences are those of the text cut after them.
LEMMA CountsOfPrefix ==
    ASSUME NEW text \in Seq(Nat), NEW m \in 0..Len(text)
    PROVE  Facts!Fits(SubSeq(text, 1, m)) <=> Facts!count_first(text)[m] <= TokenBudget
<1> DEFINE cut == SubSeq(text, 1, m)
           whole == Facts!count_first(text)
           part == Facts!count_first(cut)
<1>1. cut \in Seq(Nat) /\ Len(cut) = m /\ \A k \in 1..m : cut[k] = text[k]
  OBVIOUS
<1> HIDE DEF cut
<1>2. /\ whole[0] = 0
      /\ \A k \in 1..Len(text) : whole[k] = whole[k - 1] + text[k]
  BY Counts
<1>3. part[0] = 0 /\ \A k \in 1..m : part[k] = part[k - 1] + cut[k]
  BY <1>1, Counts
<1> HIDE DEF whole, part
<1>4. m \in Nat /\ Len(text) \in Nat
  OBVIOUS
<1>5. \A k \in 0..m : part[k] = whole[k]
  <2> DEFINE bad == {k \in 0..m : part[k] # whole[k]}
  <2> SUFFICES ASSUME bad # {} PROVE FALSE
    OBVIOUS
  <2> bad \in SUBSET Nat
    BY <1>4
  <2>1. PICK k \in bad : \A i \in bad : k <= i
    BY Least
  <2>2. k \in 1..m /\ k - 1 \in 0..m /\ k - 1 \notin bad /\ k \in 1..Len(text)
    BY <1>2, <1>3, <1>4, <2>1
  <2> QED
    BY <1>1, <1>2, <1>3, <2>1, <2>2
<1>6. part[m] = whole[m]
  BY <1>4, <1>5
<1> QED
  BY <1>1, <1>6 DEF Facts!Fits, Facts!count_tokens, cut, part, whole

SearchStates == [lo : Int, hi : Int, best : Int]

\* What Search is: the rounds of the binary search.
LEMMA Rounds ==
    ASSUME NEW text \in Seq(Nat)
    PROVE  LET s == Facts!Search(text) IN
           /\ s[0] = [lo |-> 1, hi |-> Len(text) - 1, best |-> 0]
           /\ \A i \in 1..Len(text) : s[i] = Facts!Halved(text, s[i - 1])
<1> DEFINE n == Len(text)
           start == [lo |-> 1, hi |-> n - 1, best |-> 0]
           G == [p \in Nat \X SearchStates |-> Facts!Halved(text, p[2])]
           Is(f) == f = [i \in 0..n |-> IF i = 0 THEN start ELSE Facts!Halved(text, f[i - 1])]
<1>1. n \in Nat /\ start \in SearchStates
  BY DEF SearchStates
<1>2. ASSUME NEW q \in SearchStates PROVE Facts!Halved(text, q) \in SearchStates
  <2>1. q.lo \in Int /\ q.hi \in Int /\ (q.lo + q.hi) \div 2 \in Int
    BY DEF SearchStates
  <2>2. \A mid \in Int : /\ [lo |-> mid + 1, hi |-> q.hi, best |-> mid] \in SearchStates
                         /\ [q EXCEPT !.hi = mid - 1] \in SearchStates
    BY <2>1 DEF SearchStates
  <2> QED
    BY <2>1, <2>2 DEF Facts!Halved
<1>3. G \in [Nat \X SearchStates -> SearchStates]
  BY <1>2
<1>4. \A i \in Nat, q \in SearchStates : G[<<i, q>>] = Facts!Halved(text, q)
  OBVIOUS
<1> HIDE DEF n, start, G
<1>5. PICK f : Repeats(f, n, start, SearchStates, G)
  BY <1>1, <1>3, Repetition
<1>6. Is(f)
  <2>1. f \in [0..n -> SearchStates] /\ f[0] = start /\ \A i \in 1..n : f[i] = G[<<i, f[i - 1]>>]
    BY <1>5 DEF Repeats
  <2>2. ASSUME NEW i \in 1..n PROVE f[i] = Facts!Halved(text, f[i - 1])
    <3>1. f[i - 1] \in SearchStates /\ i \in Nat
      BY <1>1, <2>1
    <3> QED
      BY <1>4, <2>1, <3>1
  <2> QED
    BY <1>1, <2>1, <2>2
<1> DEFINE s == CHOOSE g : Is(g)
<1>7. Is(s)
  BY <1>6
<1>8. Facts!Search(text) = s
  BY DEF Facts!Search, n, start
<1> HIDE DEF s
<1>9. s[0] = start /\ \A i \in 1..n : s[i] = Facts!Halved(text, s[i - 1])
  BY <1>1, <1>7
<1> QED
  BY <1>8, <1>9 DEF n, start

\* Of each state of the search: what is below lo fits, what is above hi does not.
Between(text, q) ==
    LET count == Facts!count_first(text) IN
    /\ q \in SearchStates
    /\ 1 <= q.lo /\ q.lo <= q.hi + 1 /\ q.hi < Len(text) /\ q.best = q.lo - 1
    /\ q.best = 0 \/ count[q.best] <= TokenBudget
    /\ count[q.hi + 1] > TokenBudget

LEMMA HalvedBetween ==
    ASSUME NEW text \in Seq(Nat), NEW q, Between(text, q), TokenBudget \in Nat
    PROVE  LET r == Facts!Halved(text, q) IN
           /\ Between(text, r)
           /\ IF q.lo > q.hi THEN r = q ELSE r.hi - r.lo < q.hi - q.lo
<1> DEFINE count == Facts!count_first(text)
           mid == (q.lo + q.hi) \div 2
           r == Facts!Halved(text, q)
<1>1. /\ q \in SearchStates /\ q.lo \in Int /\ q.hi \in Int /\ q.best \in Int
      /\ 1 <= q.lo /\ q.lo <= q.hi + 1 /\ q.hi < Len(text) /\ q.best = q.lo - 1
      /\ q.best = 0 \/ count[q.best] <= TokenBudget
      /\ count[q.hi + 1] > TokenBudget
  BY DEF Between, SearchStates
<1>2. CASE q.lo > q.hi
  BY <1>2 DEF Facts!Halved
<1>3. CASE q.lo <= q.hi
  <2>1. mid \in Int /\ q.lo <= mid /\ mid <= q.hi
    BY <1>1, <1>3
  <2>2. ~(q.lo > q.hi) /\ mid \in 0..Len(text)
    BY <1>1, <1>3, <2>1
  <2>3. Facts!Fits(SubSeq(text, 1, mid)) <=> count[mid] <= TokenBudget
    BY <2>2, CountsOfPrefix
  <2>4. count[mid] \in Nat
    BY <2>2, Counts
  <2> HIDE DEF count, mid
  <2>5. r = IF Facts!Fits(SubSeq(text, 1, mid)) THEN [lo |-> mid + 1, hi |-> q.hi, best |-> mid]
            ELSE [q EXCEPT !.hi = mid - 1]
    BY <2>2 DEF Facts!Halved, mid
  <2> HIDE DEF r
  <2>6. CASE count[mid] <= TokenBudget
    <3>1. r = [lo |-> mid + 1, hi |-> q.hi, best |-> mid]
      BY <2>3, <2>5, <2>6
    <3>2. r \in SearchStates /\ r.lo = mid + 1 /\ r.hi = q.hi /\ r.best = mid
      BY <1>1, <2>1, <3>1 DEF SearchStates
    <3>3. Between(text, r)
      BY <1>1, <2>1, <2>6, <3>2 DEF Between, count
    <3> QED
      BY <1>1, <2>1, <2>2, <3>2, <3>3 DEF r
  <2>7. CASE ~(count[mid] <= TokenBudget)
    <3>1. r = [q EXCEPT !.hi = mid - 1]
      BY <2>3, <2>5, <2>7
    <3>2. r \in SearchStates /\ r.lo = q.lo /\ r.hi = mid - 1 /\ r.best = q.best
      BY <1>1, <2>1, <3>1 DEF SearchStates
    <3>3. count[r.hi + 1] > TokenBudget
      <4>1. r.hi + 1 = mid
        BY <2>1, <3>2
      <4> QED
        BY <2>4, <2>7, <4>1
    <3>4. Between(text, r)
      BY <1>1, <2>1, <3>2, <3>3 DEF Between, count
    <3> QED
      BY <1>1, <2>1, <2>2, <3>2, <3>4 DEF r
  <2> QED
    BY <2>6, <2>7
<1> QED
  BY <1>1, <1>2, <1>3

\* BestPrefix finds where the text begins to overflow.
LEMMA BestPrefixIsBest ==
    ASSUME NEW text \in Seq(Nat), Len(text) > 1, ~Facts!Fits(text), TokenBudget \in Nat
    PROVE  LET count == Facts!count_first(text)  best == Facts!BestPrefix(text) IN
           /\ best \in 0..(Len(text) - 1)
           /\ best = 0 \/ count[best] <= TokenBudget
           /\ count[best + 1] > TokenBudget
<1> DEFINE n == Len(text)
           s == Facts!Search(text)
           count == Facts!count_first(text)
           Good(i) == Between(text, s[i]) /\ (s[i].lo > s[i].hi \/ s[i].hi - s[i].lo <= n - 2 - i)
<1>1. n \in Nat /\ n > 1
  OBVIOUS
<1>2. count[n] \in Nat /\ count[n] > TokenBudget
  BY <1>1, Counts DEF Facts!Fits, Facts!count_tokens
<1>3. s[0] = [lo |-> 1, hi |-> n - 1, best |-> 0] /\ \A i \in 1..n : s[i] = Facts!Halved(text, s[i - 1])
  BY Rounds
<1>4. Good(0)
  <2>1. s[0] \in SearchStates /\ s[0].lo = 1 /\ s[0].hi = n - 1 /\ s[0].best = 0
    BY <1>1, <1>3 DEF SearchStates
  <2>2. count[s[0].hi + 1] > TokenBudget
    <3>1. s[0].hi + 1 = n
      BY <1>1, <2>1
    <3> QED
      BY <1>2, <3>1
  <2> QED
    BY <1>1, <2>1, <2>2 DEF Between
<1>5. ASSUME NEW i \in 1..n, Good(i - 1) PROVE Good(i)
  <2> DEFINE q == s[i - 1]
             r == s[i]
  <2>1. Between(text, q) /\ (q.lo > q.hi \/ q.hi - q.lo <= n - 2 - (i - 1))
    BY <1>5
  <2>2. r = Facts!Halved(text, q)
    BY <1>3
  <2>3. Between(text, r) /\ IF q.lo > q.hi THEN r = q ELSE r.hi - r.lo < q.hi - q.lo
    BY <2>1, <2>2, HalvedBetween
  <2>4. /\ q.lo \in Int /\ q.hi \in Int /\ r.lo \in Int /\ r.hi \in Int
    BY <2>1, <2>3 DEF Between, SearchStates
  <2> HIDE DEF q, r
  <2>5. r.lo > r.hi \/ r.hi - r.lo <= n - 2 - i
    BY <1>1, <2>1, <2>3, <2>4
  <2> QED
    BY <2>3, <2>5 DEF r
<1> HIDE DEF Good, n
<1>6. Good(n)
  <2> DEFINE bad == {i \in 0..n : ~Good(i)}
  <2> SUFFICES ASSUME bad # {} PROVE FALSE
    BY <1>1
  <2> bad \in SUBSET Nat
    BY <1>1
  <2>1. PICK i \in bad : \A k \in bad : i <= k
    BY Least
  <2>2. i \in 1..n /\ i - 1 \in 0..n /\ i - 1 \notin bad
    BY <1>1, <1>4, <2>1
  <2> QED
    BY <1>5, <2>1, <2>2
<1> DEFINE q == s[n]
<1>7. Between(text, q) /\ (q.lo > q.hi \/ q.hi - q.lo <= n - 2 - n)
  BY <1>6 DEF Good
<1>8. Facts!BestPrefix(text) = q.best
  BY DEF Facts!BestPrefix, n
<1> HIDE DEF q
<1>9. /\ q.lo \in Int /\ q.hi \in Int /\ q.best \in Int /\ q.lo > q.hi
  BY <1>1, <1>7 DEF Between, SearchStates
<1>10. q.best \in 0..(n - 1) /\ q.hi + 1 = q.best + 1
  BY <1>1, <1>7, <1>9 DEF Between, n
<1> QED
  BY <1>7, <1>8, <1>10 DEF Between, n

\* More sentences have no fewer tokens.
LEMMA CountsGrow ==
    ASSUME NEW text \in Seq(Nat), NEW i \in 0..Len(text), NEW k \in i..Len(text)
    PROVE  Facts!count_first(text)[i] <= Facts!count_first(text)[k]
<1> DEFINE count == Facts!count_first(text)
           n == Len(text)
           bad == {m \in i..n : ~(count[i] <= count[m])}
<1>1. /\ count \in [0..n -> Nat] /\ n \in Nat /\ i \in 0..n
      /\ \A m \in 1..n : count[m] = count[m - 1] + text[m] /\ text[m] \in Nat
  BY Counts
<1> HIDE DEF count, n
<1> SUFFICES ASSUME bad # {} PROVE FALSE
  BY DEF count, n
<1>2. bad \in SUBSET Nat
  BY <1>1
<1>3. PICK m \in bad : \A j \in bad : m <= j
  BY <1>2, Least
<1>4. m \in 1..n /\ m - 1 \in i..n /\ m - 1 \notin bad
  <2>1. m \in i..n /\ m \in Nat /\ i \in Nat
    BY <1>1, <1>3
  <2>2. m # i
    BY <1>1, <1>3
  <2>3. m - 1 \notin bad
    BY <1>3, <2>1
  <2> QED
    BY <1>1, <2>1, <2>2, <2>3
<1>5. count[i] \in Nat /\ count[m - 1] \in Nat /\ count[m] = count[m - 1] + text[m] /\ text[m] \in Nat
  BY <1>1, <1>4
<1> QED
  BY <1>3, <1>4, <1>5

\* What TruncatesLeast says of one job's plan.
LeastCut(whole, text) ==
    /\ text = SubSeq(whole, 1, Len(text))
    /\ Len(text) = 1 \/ Facts!Fits(text)
    /\ \A m \in (Len(text) + 1)..Len(whole) : ~Facts!Fits(SubSeq(whole, 1, m))

LEMMA UncutIsLeast ==
    ASSUME NEW whole \in Seq(Nat), Len(whole) = 1 \/ Facts!Fits(whole)
    PROVE  LeastCut(whole, whole)
<1>1. whole = SubSeq(whole, 1, Len(whole))
  OBVIOUS
<1>2. (Len(whole) + 1)..Len(whole) = {}
  OBVIOUS
<1> QED
  BY <1>1, <1>2 DEF LeastCut

LEMMA TruncatedIsLeast ==
    ASSUME NEW whole \in Seq(Nat) \ {<<>>}, TokenBudget \in Nat
    PROVE  LeastCut(whole, Facts!Truncated(whole))
<1>1. CASE Facts!Fits(whole) \/ Len(whole) = 1
  BY <1>1, UncutIsLeast DEF Facts!Truncated
<1>2. CASE ~(Facts!Fits(whole) \/ Len(whole) = 1)
  <2> DEFINE count == Facts!count_first(whole)
             best == Facts!BestPrefix(whole)
             n == IF best = 0 THEN 1 ELSE best
             text == SubSeq(whole, 1, n)
  <2>1. Len(whole) \in Nat /\ Len(whole) > 1
    <3>1. Len(whole) \in Nat /\ Len(whole) # 0
      OBVIOUS
    <3>2. Len(whole) # 1
      BY <1>2
    <3>3. \A k \in Nat : k # 0 /\ k # 1 => k > 1
      OBVIOUS
    <3> QED
      BY <3>1, <3>2, <3>3
  <2>2. /\ best \in 0..(Len(whole) - 1)
        /\ best = 0 \/ count[best] <= TokenBudget
        /\ count[best + 1] > TokenBudget
    BY <1>2, <2>1, BestPrefixIsBest
  <2>3. count \in [0..Len(whole) -> Nat]
    BY Counts
  <2>4. Facts!Truncated(whole) = text
    BY <1>2 DEF Facts!Truncated
  <2> HIDE DEF best
  <2>5. n \in 1..(Len(whole) - 1) /\ best <= n /\ (n = 1 \/ (n = best /\ best # 0))
    BY <2>1, <2>2
  <2>6. n = 1 \/ Facts!Fits(text)
    BY <2>1, <2>2, <2>5, CountsOfPrefix
  <2> HIDE DEF n, count
  <2>7. Len(text) = n
    BY <2>1, <2>5
  <2>8. ASSUME NEW m \in (n + 1)..Len(whole) PROVE ~Facts!Fits(SubSeq(whole, 1, m))
    <3>1. /\ m \in 0..Len(whole) /\ best + 1 \in 0..Len(whole) /\ m \in (best + 1)..Len(whole)
      BY <2>1, <2>2, <2>5
    <3>2. count[best + 1] <= count[m]
      BY <3>1, CountsGrow DEF count
    <3>3. count[best + 1] \in Nat /\ count[m] \in Nat
      BY <2>3, <3>1
    <3>4. ~(count[m] <= TokenBudget)
      BY <2>2, <3>2, <3>3
    <3> QED
      BY <3>1, <3>4, CountsOfPrefix DEF count
  <2> QED
    BY <2>4, <2>6, <2>7, <2>8 DEF LeastCut
<1> QED
  BY <1>1, <1>2

\* What a job carries: a summary to compress, or a plan that loses the least.
CutInv ==
    \A j \in Actors :
        /\ writer[j].at = "compressing" => writer[j].whole \in Summaries
        /\ writer[j].at = "ready" => LeastCut(writer[j].whole, writer[j].text)
LEMMA CutInit == ASSUME Facts!Init PROVE CutInv
BY DEF Facts!Init, Facts!Idle, CutInv

LEMMA CutNext ==
    ASSUME Facts!KnowledgeAssumption, FactsInv, CutInv, [Facts!Next]_(Facts!vars)
    PROVE  CutInv'
<1>1. /\ Summaries \subseteq Seq(Nat) \ {<<>>} /\ TokenBudget \in Nat
      /\ writer = [j \in Actors |-> writer[j]] /\ \A j \in Actors : WriterShaped(writer[j])
  BY DEF Facts!KnowledgeAssumption, FactsInv, FactsType
<1>2. ASSUME NEW j \in Actors, NEW whole, NEW text, Facts!Plan(j, whole, text), LeastCut(whole, text)
      PROVE  CutInv'
  <2> DEFINE q == [writer[j] EXCEPT !.at = "ready", !.whole = whole, !.text = text]
  <2>1. writer' = [writer EXCEPT ![j] = q]
    BY <1>1, <1>2 DEF Facts!Plan
  <2>2. q.at = "ready" /\ q.whole = whole /\ q.text = text
    BY <1>1 DEF WriterShaped, WriterIn
  <2> HIDE DEF q
  <2> QED
    BY <1>1, <1>2, <2>1, <2>2 DEF CutInv
<1>3. ASSUME NEW j \in Actors, NEW q, writer' = [writer EXCEPT ![j] = q],
             q.at \notin {"compressing", "ready"}
      PROVE  CutInv'
  BY <1>1, <1>3 DEF CutInv
<1>4. Facts!Idle.at = "idle"
  BY DEF Facts!Idle
<1>5. ASSUME NEW j \in Actors, Facts!Snapshot(j) PROVE CutInv'
  <2>1. PICK source \in {"init", "update"} :
           writer' = [writer EXCEPT ![j] = [Facts!Idle EXCEPT !.at = "generating", !.source = source,
                                              !.base = IF state = None THEN 0 ELSE state]]
    BY <1>5 DEF Facts!Snapshot
  <2>2. [Facts!Idle EXCEPT !.at = "generating", !.source = source,
                           !.base = IF state = None THEN 0 ELSE state].at = "generating"
    BY DEF Facts!Idle
  <2> QED
    BY <1>3, <2>1, <2>2
<1>6. ASSUME NEW j \in Actors, Facts!Generate(j) PROVE CutInv'
  <2>1. PICK text \in Summaries :
           IF Facts!Fits(text) THEN Facts!Plan(j, text, text)
           ELSE writer' = [writer EXCEPT ![j].at = "compressing", ![j].whole = text]
    BY <1>6 DEF Facts!Generate
  <2>2. CASE Facts!Fits(text)
    BY <1>1, <1>2, <2>1, <2>2, UncutIsLeast
  <2>3. CASE ~Facts!Fits(text)
    <3> DEFINE q == [writer[j] EXCEPT !.at = "compressing", !.whole = text]
    <3>1. writer' = [writer EXCEPT ![j] = q]
      BY <1>1, <2>1, <2>3
    <3>2. q.at = "compressing" /\ q.whole = text
      BY <1>1 DEF WriterShaped, WriterIn
    <3> HIDE DEF q
    <3> QED
      BY <1>1, <3>1, <3>2 DEF CutInv
  <2> QED
    BY <2>2, <2>3
<1>7. ASSUME NEW j \in Actors, Facts!Compress(j) PROVE CutInv'
  <2>1. PICK whole \in Summaries : Facts!Plan(j, whole, Facts!Truncated(whole))
    BY <1>7 DEF Facts!Compress, CutInv
  <2> QED
    BY <1>1, <1>2, <2>1, TruncatedIsLeast
<1>8. ASSUME NEW j \in Actors, Facts!NoPlan(j) \/ Facts!Discard(j) \/ Facts!Apply(j) PROVE CutInv'
  BY <1>3, <1>4, <1>8 DEF Facts!NoPlan, Facts!Discard, Facts!Apply
<1>9. ASSUME NEW gone \in SUBSET Actors, Facts!Start(gone) PROVE CutInv'
  BY <1>4, <1>9 DEF Facts!Start, CutInv
<1>10. CASE UNCHANGED Facts!vars
  BY <1>10 DEF Facts!vars, CutInv
<1> QED
  BY <1>5, <1>6, <1>7, <1>8, <1>9, <1>10 DEF Facts!Next

\* A summary over the budget is cut to the longest run of leading sentences that fits, and
\* to its first sentence if that does not fit either: the binary search of
\* _truncate_to_budget (analysis/knowledge.py) misses none, for any summary and budget.
THEOREM CutsLoseTheLeast ==
    ASSUME Facts!KnowledgeAssumption PROVE Facts!Spec => []TruncatesLeast
<1>1. FactsInv /\ CutInv /\ [Facts!Next]_(Facts!vars) => FactsInv' /\ CutInv'
  BY FactsNext, CutNext
<1>2. CutInv => TruncatesLeast
  BY DEF CutInv, LeastCut, TruncatesLeast, Facts!TruncatesLeast
<1> QED
  BY FactsInit, CutInit, <1>1, <1>2, PTL DEF Facts!Spec

-----------------------------------------------------------------------------
(***************************************************************************)
(* The database.  No process begins to serve a database it has not the     *)
(* schema of, however many processes and releases open it.  A ledger that  *)
(* passed validation stays an initial segment of the migrations: what a    *)
(* process commits is the next one, because one that is already there      *)
(* makes it give up.                                                       *)
(***************************************************************************)

Working == {"backup", "begin", "body"}
Places == Working \union {"down", "refused", "failed", "serving"}

\* What a refused process computed of a broken ledger does not matter.
ProcessShaped(q) ==
    /\ q = [at |-> q.at, known |-> q.known, next |-> q.next]
    /\ q.at \in Places /\ q.known \in 1..Newest

DbType ==
    /\ ledger \in SUBSET (1..Newest) /\ schema = ledger
    /\ process = [p \in Actors |-> process[p]]
    /\ \A p \in Actors : ProcessShaped(process[p])

\* A process at work has something to do, and is not ahead of the ledger.
Behind(q) ==
    /\ q.next \in Nat \ {0} /\ q.next <= q.known
    /\ \E n \in Nat : ledger = 1..n /\ q.next <= n + 1

WorkInv == \A p \in Actors : process[p].at \in Working => Behind(process[p])

DbInv == DbType /\ WorkInv

\* The migration an opening process computes as its first.
NextMigration ==
    IF ledger = {} THEN 1 ELSE (CHOOSE v \in ledger : \A u \in ledger : u <= v) + 1

\* When p begins to serve, the migrations of its release are applied.
Serves(p) ==
    process[p].at # "serving" /\ process'[p].at = "serving" => schema' = 1..process'[p].known

LEMMA DbInit == ASSUME Newest \in Nat \ {0} PROVE Db!Init => DbInv
BY DEF Db!Init, DbInv, DbType, ProcessShaped, WorkInv, Working, Places

-----------------------------------------------------------------------------
(* The steps *)

LEMMA DbCardinality == ASSUME NEW S PROVE Db!Cardinality(S) = Cardinality(S)
BY DEF Db!Cardinality, Cardinality

\* A ledger that passes the validation is a segment, and the next migration is behind it.
LEMMA ValidSegment ==
    ASSUME Newest \in Nat, ledger \in SUBSET (1..Newest), NEW known \in Nat,
           Db!ValidLedger(ledger, known)
    PROVE  \E n \in Nat : ledger = 1..n /\ n <= known /\ NextMigration = n + 1
<1> DEFINE n == Cardinality(ledger)
<1>1. n \in Nat
  <2>1. IsFiniteSet(1..Newest)
    BY FS_Interval
  <2>2. IsFiniteSet(ledger)
    BY <2>1, FS_Subset
  <2> QED
    BY <2>2, FS_CardinalityType
<1>2. ledger = 1..n /\ n <= known
  BY DbCardinality DEF Db!ValidLedger
<1> HIDE DEF n
<1>3. CASE n = 0
  BY <1>1, <1>2, <1>3 DEF NextMigration
<1>4. CASE n # 0
  <2>1. n \in ledger /\ \A u \in ledger : u <= n
    BY <1>1, <1>2, <1>4
  <2>2. \A v \in ledger : (\A u \in ledger : u <= v) => v = n
    BY <1>1, <1>2, <2>1
  <2>3. (CHOOSE v \in ledger : \A u \in ledger : u <= v) = n
    BY <2>1, <2>2
  <2> QED
    BY <1>1, <1>2, <2>1, <2>3 DEF NextMigration
<1> QED
  BY <1>3, <1>4

LEMMA OpenStep ==
    ASSUME Newest \in Nat \ {0}, DbInv, NEW p \in Actors, Db!Open(p)
    PROVE  DbInv' /\ \A q \in Actors : Serves(q)
<1> DEFINE at(known) == IF ~Db!ValidLedger(ledger, known) THEN "refused"
                        ELSE IF NextMigration > known THEN "serving" ELSE "backup"
<1>1. PICK known \in 1..Newest :
        process' = [process EXCEPT ![p] =
                      [at |-> at(known), known |-> known, next |-> NextMigration]]
  BY DEF Db!Open, NextMigration
<1>2. /\ ledger' = ledger /\ schema' = schema /\ schema = ledger
      /\ ledger \in SUBSET (1..Newest) /\ process = [q \in Actors |-> process[q]]
      /\ \A q \in Actors : ProcessShaped(process[q])
  BY DEF Db!Open, DbInv, DbType
<1> DEFINE mine == [at |-> at(known), known |-> known, next |-> NextMigration]
<1>3. \A q \in Actors : process'[q] = IF q = p THEN mine ELSE process[q]
  BY <1>1, <1>2
<1>4. ProcessShaped(mine)
  BY DEF ProcessShaped, Places, Working
<1>5. mine.at # "refused" =>
        \E n \in Nat : ledger = 1..n /\ n <= known /\ mine.next = n + 1
  <2>1. CASE Db!ValidLedger(ledger, known)
    BY <1>2, <2>1, ValidSegment
  <2>2. CASE ~Db!ValidLedger(ledger, known)
    BY <2>2
  <2> QED
    BY <2>1, <2>2
<1>6. mine.at = "serving" => mine.next > known /\ mine.known = known
  OBVIOUS
<1>7. mine.at \in Working => mine.next <= known /\ mine.known = known /\ mine.at # "refused"
  <2>1. ASSUME mine.at \in Working PROVE mine.at = "backup"
    BY <2>1 DEF Working
  <2> QED
    BY <1>5, <2>1
<1> HIDE DEF mine
<1>8. mine.at \in Working => Behind(mine)
  BY <1>5, <1>7 DEF Behind
<1>9. mine.at = "serving" => ledger = 1..mine.known
  BY <1>5, <1>6
<1>10. DbType'
  <2>1. process' = [q \in Actors |-> process'[q]]
    BY <1>1, <1>2
  <2> QED
    BY <2>1, <1>2, <1>3, <1>4 DEF DbType, ProcessShaped
<1>11. WorkInv'
  BY <1>2, <1>3, <1>8 DEF DbInv, WorkInv, Behind
<1>12. \A q \in Actors : Serves(q)
  BY <1>2, <1>3, <1>9 DEF Serves
<1> QED
  BY <1>10, <1>11, <1>12 DEF DbInv

\* A process that moves on through its work, or out of it, takes nothing from the others.
LEMMA MoveStep ==
    ASSUME DbInv, NEW p \in Actors, NEW place \in Places, UNCHANGED <<ledger, schema>>,
           Db!Moved(p, place), place # "serving",
           place \in Working => process[p].at \in Working
    PROVE  DbInv' /\ \A q \in Actors : Serves(q)
<1>1. /\ process = [q \in Actors |-> process[q]]
      /\ \A q \in Actors : ProcessShaped(process[q])
  BY DEF DbInv, DbType
<1>2. /\ process' = [q \in Actors |-> process'[q]]
      /\ \A q \in Actors : q # p => process'[q] = process[q]
      /\ process'[p] = [at |-> place, known |-> process[p].known, next |-> process[p].next]
  BY <1>1 DEF Db!Moved, ProcessShaped
<1>3. DbType'
  BY <1>1, <1>2 DEF DbInv, DbType, ProcessShaped
<1>4. WorkInv'
  BY <1>2 DEF DbInv, WorkInv, Behind
<1>5. \A q \in Actors : Serves(q)
  BY <1>2 DEF Serves
<1> QED
  BY <1>3, <1>4, <1>5 DEF DbInv

\* What is committed is the migration behind the segment: the others stay behind it,
\* and who has no more to do has all its release brings.
LEMMA CommitStep ==
    ASSUME Newest \in Nat \ {0}, DbInv, NEW p \in Actors, Db!Commit(p)
    PROVE  DbInv' /\ \A q \in Actors : Serves(q)
<1> DEFINE next == process[p].next
           known == process[p].known
<1>1. /\ process = [q \in Actors |-> process[q]] /\ schema = ledger
      /\ ledger \in SUBSET (1..Newest) /\ \A q \in Actors : ProcessShaped(process[q])
  BY DEF DbInv, DbType
<1>2. /\ next \in Nat \ {0} /\ known \in 1..Newest /\ next <= known
      /\ \E n \in Nat : ledger = 1..n /\ next <= n + 1
  BY <1>1 DEF Db!Commit, DbInv, WorkInv, Working, Behind, ProcessShaped
<1>3. PICK n \in Nat : ledger = 1..n /\ next = n + 1
  BY <1>2 DEF Db!Commit
<1>4. ledger' = 1..next /\ schema' = ledger'
  BY <1>1, <1>3 DEF Db!Commit
<1>5. /\ process' = [q \in Actors |-> process'[q]]
      /\ \A q \in Actors : q # p => process'[q] = process[q]
      /\ process'[p] = [at |-> IF next < known THEN "begin" ELSE "serving",
                        known |-> known, next |-> next + 1]
  BY <1>1 DEF Db!Commit
<1> HIDE DEF next, known
<1>6. DbType'
  <2>1. ledger' \in SUBSET (1..Newest)
    BY <1>2, <1>4
  <2>2. \A q \in Actors : ProcessShaped(process'[q])
    BY <1>1, <1>2, <1>5 DEF ProcessShaped, Places, Working
  <2> QED
    BY <2>1, <2>2, <1>4, <1>5 DEF DbType, ProcessShaped
<1>7. WorkInv'
  <2>1. ASSUME NEW q \in Actors, q # p, process'[q].at \in Working
        PROVE  /\ process'[q].next \in Nat \ {0} /\ process'[q].next <= process'[q].known
               /\ process'[q].next <= next + 1
    BY <2>1, <1>2, <1>3, <1>5 DEF DbInv, WorkInv, Behind
  <2>2. process'[p].at \in Working =>
          /\ process'[p].next \in Nat \ {0} /\ process'[p].next <= process'[p].known
          /\ process'[p].next <= next + 1
    BY <1>2, <1>5 DEF Working
  <2> QED
    BY <2>1, <2>2, <1>2, <1>4 DEF WorkInv, Behind
<1>8. \A q \in Actors : Serves(q)
  BY <1>2, <1>4, <1>5 DEF Serves
<1> QED
  BY <1>6, <1>7, <1>8 DEF DbInv

LEMMA DbNext ==
    ASSUME Newest \in Nat \ {0}, DbInv, [Db!Next]_(Db!vars)
    PROVE  DbInv' /\ \A q \in Actors : Serves(q)
<1>1. ASSUME NEW p \in Actors, Db!Backup(p) \/ Db!BeginImmediate(p) \/ Db!Abandon(p) \/ Db!Exit(p)
      PROVE  DbInv' /\ \A q \in Actors : Serves(q)
  <2>1. PICK place \in Places :
          /\ UNCHANGED <<ledger, schema>> /\ Db!Moved(p, place) /\ place # "serving"
          /\ place \in Working => process[p].at \in Working
    BY <1>1 DEF Db!Backup, Db!BeginImmediate, Db!Abandon, Db!Exit, Db!RolledBack, Places, Working
  <2> QED
    BY <2>1, MoveStep
<1>2. CASE UNCHANGED Db!vars
  BY <1>2 DEF Db!vars, DbInv, DbType, ProcessShaped, WorkInv, Behind, Serves
<1> QED
  BY <1>1, <1>2, OpenStep, CommitStep DEF Db!Next

-----------------------------------------------------------------------------
(* The theorems *)

\* The strengthening holds throughout.
THEOREM MigrationsInvariant == ASSUME Newest \in Nat \ {0} PROVE Db!Spec => []DbInv
<1>1. DbInv /\ [Db!Next]_(Db!vars) => DbInv'
  BY DbNext
<1> QED
  BY DbInit, <1>1, PTL DEF Db!Spec

\* A process begins to serve with exactly the migrations of its release applied
\* (init_db in database.py), whichever processes and releases raced for them.
THEOREM ServersHaveTheirSchema ==
    ASSUME Newest \in Nat \ {0} PROVE Db!Spec => ServesItsSchema
<1> DEFINE Step == \A p \in Actors :
                     process[p].at # "serving" /\ process'[p].at = "serving"
                       => schema' = 1..process'[p].known
<1>1. DbInv /\ [Db!Next]_(Db!vars) => [Step]_(Db!vars)
  BY DbNext DEF Serves
<1> QED
  BY <1>1, MigrationsInvariant, PTL DEF Db!Spec, ServesItsSchema, Db!ServesItsSchema
=============================================================================
