------------------------ MODULE TopicLifecycleProofs ------------------------
(***************************************************************************)
(* Topic initialization, for any number of tasks and any deadlines of      *)
(* which the recovery window is the longer one. The argument follows the   *)
(* claims: no two initializers hold the same one (UniqueInv); the row has  *)
(* been RESEARCHING for no longer than the task that claimed it has run,   *)
(* unless the wall clock jumped ahead under that claim (TimeInv), so that  *)
(* periodic recovery otherwise comes too late to hit it; and as long as no *)
(* initializer was written off alive, whoever works on the present         *)
(* incarnation has its claim (OwnInv). Pausing writes an old status back,  *)
(* so the invariant speaks of the row it holds as well.                    *)
(***************************************************************************)
EXTENDS TopicLifecycle, TLAPS

LEMMA Constants ==
    /\ InitTimeout \in Nat \ {0} /\ StuckAfter \in Nat \ {0} /\ MaxGen \in Nat \ {0}
    /\ MaxClaims \in Nat \ {0} /\ MaxVersion \in Nat \ {0} /\ MaxToggles \in Nat
    /\ InitTimeout < StuckAfter
BY LifecycleAssumption

-----------------------------------------------------------------------------
(* The rows and records that the actions write *)

\* What a status write leaves of a row.
LEMMA StatusRow ==
    ASSUME row \in Rows, NEW s \in Status, NEW n \in {0, 1}
    PROVE  /\ InitStatus(s, n) \in Rows
           /\ InitStatus(s, n).status = s /\ InitStatus(s, n).age = 0
           /\ InitStatus(s, n).gen = row.gen /\ InitStatus(s, n).claim = row.claim
           /\ InitStatus(s, n).version = row.version /\ InitStatus(s, n).base = row.base
<1> DEFINE e == (s = "ERROR")
           r == [row EXCEPT !.status = s, !.error = e, !.age = 0, !.attempts = n]
<1>1. e \in BOOLEAN /\ InitStatus(s, n) = r /\ 0 \in 0..StuckAfter
  BY Constants DEF InitStatus
<1> HIDE DEF e
<1>2. r \in Rows
  BY <1>1, ZenonT(60) DEF Rows
<1>3. /\ r.status = s /\ r.age = 0 /\ r.gen = row.gen /\ r.claim = row.claim
      /\ r.version = row.version /\ r.base = row.base
  BY DEF Rows
<1> QED
  BY <1>1, <1>2, <1>3

\* An initialization commits: READY, with a new version of the knowledge.
LEMMA CommitRow ==
    ASSUME row \in Rows, row.version < MaxVersion, NEW g \in 0..MaxGen
    PROVE  LET r == [InitStatus("READY", 0) EXCEPT !.version = row.version + 1, !.base = g]
           IN /\ r \in Rows
              /\ r.status = "READY" /\ r.age = 0 /\ r.gen = row.gen /\ r.claim = row.claim
              /\ r.version = row.version + 1 /\ r.base = g
<1> DEFINE q == InitStatus("READY", 0)
           v == row.version + 1
<1>1. /\ q \in Rows /\ q.status = "READY" /\ q.age = 0 /\ q.gen = row.gen
      /\ q.claim = row.claim
  BY StatusRow DEF Status
<1>2. v \in 0..MaxVersion
  BY Constants DEF Rows
<1> HIDE DEF q, v
<1>3. [q EXCEPT !.version = v, !.base = g] \in Rows
  BY <1>1, <1>2, ZenonT(60) DEF Rows
<1>4. LET r == [q EXCEPT !.version = v, !.base = g]
      IN /\ r.status = "READY" /\ r.age = 0 /\ r.gen = row.gen /\ r.claim = row.claim
         /\ r.version = v /\ r.base = g
  BY <1>1 DEF Rows
<1> QED
  BY <1>3, <1>4 DEF q, v

\* A claim: RESEARCHING, under a new number.
LEMMA ClaimRow ==
    ASSUME row \in Rows, claims \in Nat, claims < MaxClaims
    PROVE  /\ ClaimedRow \in Rows
           /\ ClaimedRow.status = "RESEARCHING" /\ ClaimedRow.age = 0
           /\ ClaimedRow.claim = claims + 1 /\ ClaimedRow.gen = row.gen
           /\ ClaimedRow.version = row.version /\ ClaimedRow.base = row.base
           /\ ClaimedRow.attempts = row.attempts
<1> DEFINE c == claims + 1
           r == [row EXCEPT !.status = "RESEARCHING", !.error = FALSE, !.age = 0, !.claim = c]
<1>1. /\ c \in 0..MaxClaims /\ 0 \in 0..StuckAfter /\ "RESEARCHING" \in Status
      /\ ClaimedRow = r
  BY Constants DEF Status, ClaimedRow
<1> HIDE DEF c
<1>2. r \in Rows
  BY <1>1, ZenonT(60) DEF Rows
<1>3. /\ r.status = "RESEARCHING" /\ r.age = 0 /\ r.claim = c /\ r.gen = row.gen
      /\ r.version = row.version /\ r.base = row.base /\ r.attempts = row.attempts
  BY DEF Rows
<1> QED
  BY <1>1, <1>2, <1>3 DEF c

LEMMA CreatedRow ==
    ASSUME gens \in Nat, gens < MaxGen, NEW s \in Status
    PROVE  /\ NewRow(s) \in Rows
           /\ NewRow(s).gen = gens + 1 /\ NewRow(s).status = s /\ NewRow(s).age = 0
           /\ NewRow(s).claim = 0 /\ NewRow(s).version = 0
BY Constants DEF Rows, NewRow

LEMMA IdleRecord ==
    /\ Idle \in TaskRecord /\ Idle.pc = "idle" /\ Idle.age = 0 /\ Idle.claim = 0
    /\ Idle.gen = 0 /\ Idle.snapGen = 0
BY LifecycleAssumption DEF TaskRecord, Idle

\* The pause writes back what it read, but neither generation, claim nor knowledge.
LEMMA PauseRow ==
    ASSUME row \in Rows, pausing \in Rows, PauseWrite
    PROVE  /\ row' \in Rows
           /\ row'.status = pausing.status
           /\ row'.age = IF pausing.status = row.status THEN row.age ELSE pausing.age
           /\ row'.gen = row.gen /\ row'.claim = row.claim
           /\ row'.version = row.version /\ row'.base = row.base
<1> DEFINE a == IF pausing.status = row.status THEN row.age ELSE pausing.age
           r == [row EXCEPT !.active = pausing.active, !.status = pausing.status,
                            !.error = pausing.error, !.attempts = pausing.attempts,
                            !.age = a, !.cfg = pausing.cfg]
<1>1. /\ row' = r /\ a \in 0..StuckAfter /\ pausing.active \in BOOLEAN
      /\ pausing.status \in Status /\ pausing.error \in BOOLEAN
      /\ pausing.attempts \in {0, 1} /\ pausing.cfg \in 1..MaxGen
  BY DEF PauseWrite, Rows
<1> HIDE DEF a
<1>2. r \in Rows
  BY <1>1, ZenonT(60) DEF Rows
<1>3. /\ r.status = pausing.status /\ r.age = a /\ r.gen = row.gen /\ r.claim = row.claim
      /\ r.version = row.version /\ r.base = row.base
  BY DEF Rows
<1> QED
  BY <1>1, <1>2, <1>3 DEF a

-----------------------------------------------------------------------------
(* The inductive invariant *)

\* The stages in which an initializer has a claim: its own, until it is disowned.
Held == {"queued", "working", "reason"}

\* One incarnation at a time has the id; what the pause holds is of it, and not newer.
RowInv ==
    /\ Exists => /\ row.gen = gens /\ row.claim <= claims
                 /\ row.status = "READY" => row.version > 0
    /\ pausing # None => /\ Exists /\ pausing.gen = row.gen
                         /\ pausing.version <= row.version
                         /\ pausing.status = "READY" => pausing.version > 0

TaskFacts(t) ==
    /\ task[t].pc = "queued" => t \in WebTasks /\ up /\ task[t].age = 0
    /\ task[t].pc = "named" => t \in CliTasks /\ task[t].gen <= gens
    /\ task[t].pc \in Held => task[t].claim \in 1..claims
    /\ task[t].pc = "working" =>
         /\ task[t].gen <= task[t].snapGen /\ task[t].snapGen <= gens
         /\ t \in ServerTasks => task[t].gen = task[t].snapGen
         /\ t \in CliTasks => /\ task[t].prior \in Status
                              /\ task[t].prior = "READY" => task[t].snapVersion > 0
         /\ Exists /\ row.gen = task[t].snapGen => task[t].snapVersion <= row.version

TaskInv == \A t \in Tasks : TaskFacts(t)

\* No two initializers hold one claim.
UniqueInv ==
    \A t, u \in Tasks :
        t # u /\ task[t].pc \in Held /\ task[u].pc \in Held => task[t].claim # task[u].claim

\* The row is RESEARCHING for no longer than the server's task that claimed it has run, also
\* when a pause writes the old status back; but for the claim the clock jumped ahead under.
Timely(t) ==
    task[t].pc \in Held /\ Exists /\ row.claim = task[t].claim /\ row.claim # jumped =>
        /\ row.status = "RESEARCHING" => row.age <= task[t].age
        /\ pausing # None /\ pausing.status = "RESEARCHING" => pausing.age <= task[t].age

TimeInv == \A t \in ServerTasks : Timely(t)

\* As long as nobody was disowned, whoever works on the present incarnation has its claim.
Owns(t) ==
    /\ task[t].pc = "working" /\ Exists /\ row.gen = task[t].snapGen =>
         row.status = "RESEARCHING" /\ row.claim = task[t].claim
    /\ task[t].pc = "queued" /\ Exists /\ row.claim = task[t].claim =>
         /\ row.status = "RESEARCHING"
         /\ pausing # None => pausing.status = "RESEARCHING"

OwnInv == ~disowned => \A t \in Tasks : Owns(t)

SafeInv == RowInv /\ TaskInv /\ UniqueInv /\ TimeInv /\ OwnInv

IInv == TypeOK /\ SafeInv

LEMMA InitIInv == Init => IInv
<1> SUFFICES ASSUME Init PROVE IInv
  OBVIOUS
<1>1. TypeOK
  <2>1. row \in Rows \union {None}
    <3>1. ASSUME row # None PROVE row \in Rows
      <4>1. PICK st \in {"NEW", "READY"}, a \in {0, 1} :
              row = [gen |-> 1, status |-> st, active |-> TRUE, error |-> FALSE, attempts |-> a,
                     age |-> 0, claim |-> 0, version |-> IF st = "READY" THEN 1 ELSE 0,
                     base |-> IF st = "READY" THEN 1 ELSE 0, cfg |-> 1]
        BY <3>1 DEF Init
      <4> DEFINE v == IF st = "READY" THEN 1 ELSE 0
      <4>2. v \in 0..MaxVersion /\ v \in 0..MaxGen
        BY Constants
      <4> HIDE DEF v
      <4> QED
        BY <4>1, <4>2, Constants DEF Rows, Status, v
    <3> QED
      BY <3>1
  <2>2. task \in [Tasks -> TaskRecord]
    BY IdleRecord DEF Init
  <2> QED
    <3>1. gens \in 0..MaxGen /\ claims \in 0..MaxClaims /\ toggles \in 0..MaxToggles
      BY Constants DEF Init
    <3>2. pausing = None /\ guard = Free /\ check = None /\ editing \in 0..MaxGen
      BY Constants DEF Init
    <3>3. up \in BOOLEAN /\ disowned \in BOOLEAN /\ jumped \in 0..MaxClaims
      <4>1. up \in BOOLEAN /\ disowned \in BOOLEAN
        BY Zenon DEF Init
      <4> QED
        BY <4>1, Constants DEF Init
    <3> QED
      BY <2>1, <2>2, <3>1, <3>2, <3>3 DEF TypeOK
<1>2. \A t \in Tasks : task[t] = Idle
  BY DEF Init
<1>3. RowInv
  BY DEF Init, RowInv, Exists
<1>4. TaskInv /\ UniqueInv /\ TimeInv /\ OwnInv
  BY <1>2, IdleRecord DEF TaskInv, TaskFacts, UniqueInv, TimeInv, Timely, OwnInv, Owns, Held,
                          ServerTasks, Tasks
<1> QED
  BY <1>1, <1>3, <1>4 DEF IInv, SafeInv

-----------------------------------------------------------------------------
(* What the kinds of steps do to the invariant *)

\* The types of the variables the invariant relates.
LEMMA Types ==
    ASSUME TypeOK
    PROVE  /\ gens \in Nat /\ claims \in Nat /\ disowned \in BOOLEAN
           /\ Exists => /\ row.gen \in Nat /\ row.claim \in Nat /\ row.age \in Nat
                        /\ row.version \in Nat
           /\ pausing # None => pausing.age \in Nat /\ pausing.version \in Nat
           /\ \A t \in Tasks : /\ task[t].claim \in Nat /\ task[t].age \in Nat
                                /\ task[t].gen \in Nat /\ task[t].snapGen \in Nat
                                /\ task[t].snapVersion \in Nat
BY Constants DEF TypeOK, Exists, Rows, TaskRecord

\* A step that leaves the row's story and the tasks as they are.
LEMMA QuietStep ==
    ASSUME IInv, UNCHANGED <<row, task, up, gens, claims, disowned, jumped>>,
           \/ pausing' \in {pausing, None}
           \/ /\ Exists /\ pausing' # None /\ pausing'.gen = row.gen
              /\ pausing'.version = row.version /\ pausing'.status = row.status
              /\ pausing'.age = row.age
    PROVE  SafeInv'
<1>1. RowInv'
  BY Types DEF IInv, SafeInv, RowInv, Exists
<1>2. TaskInv' /\ UniqueInv'
  BY DEF IInv, SafeInv, TaskInv, TaskFacts, UniqueInv, Exists
<1>3. TimeInv'
  BY DEF IInv, SafeInv, TimeInv, Timely, Exists
<1>4. OwnInv'
  BY DEF IInv, SafeInv, OwnInv, Owns, Exists
<1> QED
  BY <1>1, <1>2, <1>3, <1>4 DEF SafeInv

\* Task t claims the row, of this incarnation or of a new one.
LEMMA ClaimStep ==
    ASSUME IInv, NEW t \in Tasks, UNCHANGED <<pausing, up, disowned, jumped>>,
           row' # None /\ row'.status = "RESEARCHING" /\ row'.age = 0,
           row'.claim = claims + 1 /\ row'.gen = gens' /\ claims' = claims + 1,
           \/ Exists /\ row.status # "RESEARCHING" /\ gens' = gens /\ row'.version = row.version
           \/ ~Exists /\ gens' = gens + 1 /\ row'.version \in Nat,
           \A u \in Tasks : u # t => task'[u] = task[u],
           task'[t].claim = claims + 1 /\ task'[t].age = 0,
           t \in ServerTasks => pausing = None,
           \/ task'[t].pc = "queued" /\ t \in WebTasks /\ up
           \/ /\ task'[t].pc = "working" /\ task'[t].snapGen = gens'
              /\ task'[t].gen \in Nat /\ task'[t].gen <= gens'
              /\ t \in ServerTasks => task'[t].gen = gens'
              /\ task'[t].snapVersion = row'.version
              /\ t \in CliTasks => /\ task'[t].prior \in Status
                                   /\ task'[t].prior = "READY" => row'.version > 0
    PROVE  SafeInv'
<1> USE Types DEF IInv, SafeInv
<1>1. RowInv'
  BY DEF RowInv, Exists
<1>2. TaskInv'
  <2>1. TaskFacts(t)'
    BY DEF TaskFacts, Held, Exists, ServerTasks, RowInv
  <2>2. ASSUME NEW u \in Tasks, u # t PROVE TaskFacts(u)'
    <3>1. TaskFacts(u)
      BY DEF TaskInv
    <3> QED
      BY <2>2, <3>1 DEF TaskFacts, Held, RowInv, Exists
  <2> QED
    BY <2>1, <2>2 DEF TaskInv
<1>3. UniqueInv'
  BY DEF UniqueInv, TaskInv, TaskFacts, Held
<1>4. TimeInv'
  BY DEF TimeInv, Timely, TaskInv, TaskFacts, Held, RowInv, Exists, Tasks
<1>5. OwnInv'
  BY DEF OwnInv, Owns, TaskInv, TaskFacts, Held, RowInv, Exists, ServerTasks
<1> QED
  BY <1>1, <1>2, <1>3, <1>4, <1>5

\* Task t stops working: it writes a status for its incarnation, or nothing.
LEMMA EndStep ==
    ASSUME IInv, NEW t \in Tasks, UNCHANGED <<pausing, up, gens, claims, jumped>>,
           disowned => disowned',
           \A u \in Tasks : u # t => task'[u] = task[u],
           \/ task'[t].pc = "idle"
           \/ /\ task'[t].pc = "reason" /\ task[t].pc = "working"
              /\ task'[t].claim = task[t].claim /\ task'[t].age = task[t].age,
           \/ row' = row
           \/ /\ Exists /\ row' # None /\ row'.gen = row.gen /\ row'.claim = row.claim
              /\ row'.version \in Nat /\ row.version <= row'.version
              /\ row'.status = "READY" => row'.version > 0
              /\ row'.status = "RESEARCHING" => row.status = "RESEARCHING" /\ row'.age = 0
              /\ row.status = "RESEARCHING" => task[t].pc = "working" /\ task[t].snapGen = row.gen
    PROVE  SafeInv'
<1> USE Types DEF IInv, SafeInv
<1>1. RowInv'
  BY DEF RowInv, Exists
<1>2. TaskInv'
  BY DEF TaskInv, TaskFacts, Held, Exists
<1>3. UniqueInv'
  BY DEF UniqueInv, Held
<1>4. TimeInv'
  BY DEF TimeInv, Timely, Held, Exists, Tasks
<1>5. OwnInv'
  BY DEF OwnInv, Owns, UniqueInv, Held, Exists
<1> QED
  BY <1>1, <1>2, <1>3, <1>4, <1>5

\* The row keeps its incarnation, claim, status and age; its knowledge does not go back.
LEMMA TouchStep ==
    ASSUME IInv, UNCHANGED <<task, pausing, up, gens, claims, disowned, jumped>>,
           Exists, row' # None, row'.gen = row.gen, row'.claim = row.claim,
           row'.status = row.status, row'.age = row.age,
           row'.version \in Nat, row.version <= row'.version
    PROVE  SafeInv'
<1> USE Types DEF IInv, SafeInv
<1>1. RowInv'
  BY DEF RowInv, Exists
<1>2. TaskInv' /\ UniqueInv'
  BY DEF TaskInv, TaskFacts, UniqueInv, Exists
<1>3. TimeInv'
  BY DEF TimeInv, Timely, Exists
<1>4. OwnInv'
  BY DEF OwnInv, Owns, Exists
<1> QED
  BY <1>1, <1>2, <1>3, <1>4

\* Recovery writes the claim off; if somebody still works under it he is disowned.
LEMMA RecoverStep ==
    ASSUME IInv, UNCHANGED <<task, pausing, gens, claims, jumped>>,
           Exists, row.status = "RESEARCHING", row' = InitStatus("ERROR", row.attempts),
           disowned' = (disowned \/ ClaimAlive),
           (row.age >= StuckAfter /\ up' = up) \/ ~up
    PROVE  SafeInv'
<1> USE Types DEF IInv, SafeInv
<1>1. /\ row' \in Rows /\ row'.status = "ERROR" /\ row'.age = 0 /\ row'.gen = row.gen
      /\ row'.claim = row.claim /\ row'.version = row.version
  <2>1. row \in Rows /\ row.attempts \in {0, 1} /\ "ERROR" \in Status
    BY DEF TypeOK, Exists, Rows, Status
  <2> QED
    BY <2>1, StatusRow
<1>2. row' # None
  BY <1>1, NoRowAssumption
<1>3. RowInv'
  BY <1>1, <1>2 DEF RowInv, Exists
<1>4. TaskInv' /\ UniqueInv'
  BY <1>1 DEF TaskInv, TaskFacts, UniqueInv, Exists, Held
<1>5. TimeInv'
  BY <1>1 DEF TimeInv, Timely, Exists
<1>6. OwnInv'
  <2> SUFFICES ASSUME ~disowned', NEW t \in Tasks PROVE Owns(t)'
    BY DEF OwnInv
  <2>1. ~disowned /\ ~ClaimAlive
    BY Zenon
  <2>2. Owns(t) /\ TaskFacts(t)
    BY <2>1 DEF OwnInv, TaskInv
  <2>3. ~(task[t].pc = "working" /\ row.gen = task[t].snapGen)
    BY <2>1, <2>2 DEF Owns, ClaimAlive
  <2>4. ~(task[t].pc = "queued" /\ row.claim = task[t].claim)
    BY <2>1, <2>2 DEF ClaimAlive
  <2> QED
    BY <1>1, <2>3, <2>4 DEF Owns
<1> QED
  BY <1>3, <1>4, <1>5, <1>6

\* The pause writes its old status back, over whatever the command line did meanwhile.
LEMMA PauseStep == ASSUME IInv, PauseWrite PROVE SafeInv'
<1> USE Types DEF IInv, SafeInv
<1>1. /\ Exists /\ row \in Rows /\ pausing \in Rows
      /\ UNCHANGED <<task, up, gens, claims, jumped>> /\ pausing' = None
  BY DEF PauseWrite, TypeOK, RowInv, Exists
<1>2. /\ row' # None /\ row'.status = pausing.status /\ row'.gen = row.gen
      /\ row'.age = IF pausing.status = row.status THEN row.age ELSE pausing.age
      /\ row'.claim = row.claim /\ row'.version = row.version
  BY <1>1, PauseRow, NoRowAssumption
<1>3. RowInv'
  BY <1>1, <1>2 DEF RowInv, Exists, PauseWrite
<1>4. TaskInv' /\ UniqueInv'
  BY <1>1, <1>2 DEF TaskInv, TaskFacts, UniqueInv
<1>5. TimeInv'
  BY <1>1, <1>2 DEF TimeInv, Timely, Exists, PauseWrite
<1>6. OwnInv'
  <2> SUFFICES ASSUME ~disowned', NEW t \in Tasks PROVE Owns(t)'
    BY DEF OwnInv
  <2>1. ~disowned /\ (row'.status # row.status => ~ClaimAlive)
    BY Zenon DEF PauseWrite
  <2>2. Owns(t)
    BY <2>1 DEF OwnInv
  <2>3. CASE task[t].pc = "working" /\ row.gen = task[t].snapGen
    BY <1>1, <1>2, <2>1, <2>2, <2>3 DEF Owns, ClaimAlive
  <2>4. CASE task[t].pc = "queued" /\ row.claim = task[t].claim
    BY <1>1, <1>2, <2>2, <2>4 DEF Owns, PauseWrite
  <2> QED
    BY <1>1, <1>2, <2>3, <2>4 DEF Owns
<1> QED
  BY <1>3, <1>4, <1>5, <1>6

\* The row is deleted, or a topic is imported under its id.
LEMMA DeleteStep == ASSUME IInv, DeleteTopic PROVE SafeInv'
BY DEF DeleteTopic, Loop, IInv, SafeInv, RowInv, TaskInv, TaskFacts, UniqueInv, TimeInv, Timely,
       OwnInv, Owns, Exists

LEMMA ImportStep == ASSUME IInv, ImportTopic PROVE SafeInv'
<1> USE Types DEF IInv, SafeInv
<1>1. /\ row' # None /\ row'.gen = gens + 1 /\ row'.status = "NEW" /\ row'.claim = 0
      /\ gens' = gens + 1 /\ pausing = None /\ ~Exists
      /\ UNCHANGED <<task, pausing, up, claims, disowned, jumped>>
  <2>1. "NEW" \in Status
    BY DEF Status
  <2> QED
    BY <2>1, CreatedRow, NoRowAssumption DEF ImportTopic, Loop
<1>2. RowInv'
  BY <1>1 DEF RowInv, Exists
<1>3. TaskInv' /\ UniqueInv'
  BY <1>1 DEF TaskInv, TaskFacts, UniqueInv
<1>4. TimeInv'
  BY <1>1 DEF TimeInv, Timely, TaskInv, TaskFacts, Tasks
<1>5. OwnInv'
  BY <1>1 DEF OwnInv, Owns, TaskInv, TaskFacts, Held
<1> QED
  BY <1>2, <1>3, <1>4, <1>5

\* A queued task starts: it is disowned if the row carries another claim by now.
LEMMA StartStep ==
    ASSUME IInv, NEW t \in WebTasks, UNCHANGED <<row, pausing, up, gens, claims, jumped>>,
           pausing = None, task[t].pc = "queued", Exists,
           task' = Working(t, row, None, row, task[t].claim),
           disowned' = (disowned \/ (task'[t].pc = "working" /\ row.claim # task[t].claim))
    PROVE  SafeInv'
<1> USE Types DEF IInv, SafeInv
<1>1. /\ \A u \in Tasks : u # t => task'[u] = task[u]
      /\ task'[t].pc = "working" /\ task'[t].gen = row.gen /\ task'[t].snapGen = row.gen
      /\ task'[t].claim = task[t].claim /\ task'[t].age = 0
      /\ task'[t].snapVersion = row.version
  <2>1. /\ row.gen \in 0..MaxGen /\ row.attempts \in {0, 1} /\ row.version \in 0..MaxVersion
        /\ task[t].claim \in 0..MaxClaims /\ task \in [Tasks -> TaskRecord] /\ t \in Tasks
    BY DEF TypeOK, Exists, Rows, TaskRecord, Tasks, ServerTasks
  <2> HIDE DEF IInv, SafeInv
  <2>2. None \in Status \union {None}
    OBVIOUS
  <2> DEFINE w == Working(t, row, None, row, task[t].claim)
  <2>3. /\ \A u \in Tasks : u # t => w[u] = task[u]
        /\ w[t].pc = "working" /\ w[t].gen = row.gen /\ w[t].snapGen = row.gen
        /\ w[t].claim = task[t].claim /\ w[t].age = 0 /\ w[t].snapVersion = row.version
    BY <2>1 DEF Working
  <2> HIDE DEF w
  <2>4. task' = w
    BY DEF w
  <2> QED
    BY <2>3, <2>4
<1>2. RowInv'
  BY DEF RowInv, Exists
<1>3. TaskInv'
  BY <1>1, LifecycleAssumption DEF TaskInv, TaskFacts, Held, RowInv, ServerTasks, Exists
<1>4. UniqueInv'
  BY <1>1 DEF UniqueInv, Held, Tasks, ServerTasks
<1>5. TimeInv'
  BY <1>1 DEF TimeInv, Timely, Held, TaskInv, TaskFacts, Exists, Tasks, ServerTasks
<1>6. OwnInv'
  <2> SUFFICES ASSUME ~disowned', NEW u \in Tasks PROVE Owns(u)'
    BY DEF OwnInv
  <2>1. ~disowned /\ row.claim = task[t].claim
    BY <1>1, Zenon
  <2> QED
    BY <1>1, <2>1 DEF OwnInv, Owns, Exists, Tasks, ServerTasks
<1> QED
  BY <1>2, <1>3, <1>4, <1>5, <1>6

\* The server dies.
LEMMA CrashStep == ASSUME IInv, Crash PROVE SafeInv'
<1> USE Types DEF IInv, SafeInv
<1>1. /\ UNCHANGED <<row, gens, claims, disowned, jumped>> /\ pausing' = None
      /\ \A t \in Tasks : task'[t] = IF t \in ServerTasks THEN Idle ELSE task[t]
      /\ Idle.pc = "idle"
  BY IdleRecord DEF Crash
<1>2. RowInv'
  BY <1>1 DEF RowInv, Exists
<1>3. TaskInv' /\ UniqueInv'
  BY <1>1 DEF TaskInv, TaskFacts, UniqueInv, Held, ServerTasks, Exists
<1>4. TimeInv' /\ OwnInv'
  BY <1>1 DEF TimeInv, Timely, OwnInv, Owns, Held, Exists, Tasks
<1> QED
  BY <1>2, <1>3, <1>4

\* Time passes: the row's age grows no faster than that of the server's initializers.
LEMMA ElapseStep == ASSUME IInv, Elapse PROVE SafeInv'
<1> USE Types DEF IInv, SafeInv
<1>1. /\ UNCHANGED <<pausing, up, gens, claims, disowned, jumped>> /\ pausing = None
      /\ Exists <=> row' # None
      /\ Exists => /\ row'.gen = row.gen /\ row'.claim = row.claim
                   /\ row'.version = row.version /\ row'.status = row.status
                   /\ row'.age <= row.age + 1 /\ row'.age \in Nat
  <2>1. CASE Exists /\ row.age < StuckAfter
    <3>1. row \in Rows /\ row.age + 1 \in 0..StuckAfter
      BY <2>1, Constants DEF Exists, TypeOK, Rows
    <3> DEFINE a == row.age + 1
    <3>2. row' = [row EXCEPT !.age = a]
      BY <2>1 DEF Elapse
    <3> HIDE DEF a
    <3>3. row' \in Rows
      BY <3>1, <3>2 DEF Rows, a
    <3>4. /\ row'.gen = row.gen /\ row'.claim = row.claim /\ row'.version = row.version
          /\ row'.status = row.status /\ row'.age = a
      BY <3>1, <3>2 DEF Rows
    <3> QED
      BY <2>1, <3>3, <3>4, NoRowAssumption DEF Elapse, Exists, a
  <2>2. CASE ~(Exists /\ row.age < StuckAfter)
    BY <2>2 DEF Elapse, Exists
  <2> QED
    BY <2>1, <2>2
<1>2. \A t \in Tasks :
        /\ task'[t].pc = task[t].pc /\ task'[t].claim = task[t].claim
        /\ task'[t].gen = task[t].gen /\ task'[t].snapGen = task[t].snapGen
        /\ task'[t].age \in Nat /\ task'[t].prior = task[t].prior
        /\ task'[t].snapVersion = task[t].snapVersion
        /\ task'[t].age = IF t \in ServerTasks /\ task[t].pc = "working"
                            THEN task[t].age + 1 ELSE task[t].age
  BY DEF Elapse, TypeOK, TaskRecord
<1>3. \A t \in ServerTasks : task[t].pc \notin {"queued", "reason"}
  BY DEF Elapse
<1>4. RowInv'
  BY <1>1 DEF RowInv, Exists
<1>5. TaskInv' /\ UniqueInv'
  BY <1>1, <1>2, <1>3 DEF TaskInv, TaskFacts, UniqueInv, ServerTasks, Exists
<1>6. TimeInv'
  BY <1>1, <1>2, <1>3 DEF TimeInv, Timely, Held, Exists, Tasks
<1>7. OwnInv'
  BY <1>1, <1>2 DEF OwnInv, Owns, Exists
<1> QED
  BY <1>4, <1>5, <1>6, <1>7

-----------------------------------------------------------------------------
(* The actions *)

\* A claim made for t, and the queued task of a web handler.
LEMMA QueuedRecord ==
    ASSUME TypeOK, claims < MaxClaims, NEW t \in Tasks, NEW b \in BOOLEAN,
           task' = Queued(t, b)
    PROVE  /\ task' \in [Tasks -> TaskRecord]
           /\ task'[t].pc = "queued" /\ task'[t].claim = claims + 1 /\ task'[t].age = 0
           /\ \A u \in Tasks : u # t => task'[u] = task[u]
<1> DEFINE c == claims + 1
           q == [Idle EXCEPT !.pc = "queued", !.owns = b, !.claim = c]
<1>1. c \in 0..MaxClaims /\ Idle \in TaskRecord /\ Idle.age = 0
  BY Constants, IdleRecord DEF TypeOK
<1> HIDE DEF c
<1>2. q \in TaskRecord
  BY <1>1, ZenonT(60) DEF TaskRecord
<1>3. q.pc = "queued" /\ q.claim = c /\ q.age = 0
  BY <1>1 DEF TaskRecord
<1>4. task' = [task EXCEPT ![t] = q] /\ task \in [Tasks -> TaskRecord]
  BY DEF TypeOK, Queued, c
<1> HIDE DEF q
<1> QED
  BY <1>2, <1>3, <1>4 DEF c

\* What an initializer of the present row holds when it starts to work.
LEMMA WorkingRecord ==
    ASSUME TypeOK, Exists, NEW t \in Tasks, NEW g \in 0..MaxGen, NEW n \in {0, 1},
           NEW prior \in Status \union {None}, NEW r, r.gen = row.gen, r.version = row.version,
           NEW c \in 0..MaxClaims, NEW topic, topic.gen = g, topic.attempts = n,
           task' = Working(t, topic, prior, r, c)
    PROVE  /\ task' \in [Tasks -> TaskRecord]
           /\ task'[t].pc = "working" /\ task'[t].gen = g /\ task'[t].snapGen = row.gen
           /\ task'[t].claim = c /\ task'[t].age = 0 /\ task'[t].prior = prior
           /\ task'[t].snapVersion = row.version
           /\ \A u \in Tasks : u # t => task'[u] = task[u]
<1> DEFINE w == [pc |-> "working", owns |-> FALSE, gen |-> g, attempts |-> n, prior |-> prior,
                 snapGen |-> row.gen, snapVersion |-> row.version, claim |-> c, age |-> 0]
<1>1. row.gen \in 0..MaxGen /\ row.version \in 0..MaxVersion
  BY DEF TypeOK, Exists, Rows
<1>2. w \in TaskRecord
  BY <1>1, Constants DEF TaskRecord
<1>3. task' = [task EXCEPT ![t] = w] /\ task \in [Tasks -> TaskRecord]
  BY DEF Working, TypeOK
<1>4. /\ w.pc = "working" /\ w.gen = g /\ w.snapGen = row.gen /\ w.claim = c /\ w.age = 0
      /\ w.prior = prior /\ w.snapVersion = row.version
  OBVIOUS
<1> HIDE DEF w
<1> QED
  BY <1>2, <1>3, <1>4

LEMMA CreateTopicIInv == ASSUME IInv, NEW t \in WebTasks, CreateTopic(t) PROVE IInv'
<1> DEFINE c == claims + 1
           q == NewRow("RESEARCHING")
<1>1. t \in Tasks /\ t \in ServerTasks /\ TypeOK /\ c \in 0..MaxClaims /\ c \in Nat
  BY Constants DEF Tasks, ServerTasks, IInv, TypeOK, CreateTopic
<1>2. q \in Rows /\ q.gen = gens + 1 /\ q.status = "RESEARCHING" /\ q.age = 0
  BY <1>1, CreatedRow DEF CreateTopic, Status, TypeOK
<1>3. row' = [q EXCEPT !.claim = c]
  BY DEF CreateTopic
<1> HIDE DEF q, c
<1>4. /\ row' \in Rows /\ row'.gen = gens + 1 /\ row'.status = "RESEARCHING" /\ row'.age = 0
      /\ row'.claim = c /\ row'.version \in Nat
  BY <1>1, <1>2, <1>3, Constants DEF Rows
<1>5. /\ task' \in [Tasks -> TaskRecord]
      /\ task'[t].pc = "queued" /\ task'[t].claim = c /\ task'[t].age = 0
      /\ \A u \in Tasks : u # t => task'[u] = task[u]
  BY <1>1, QueuedRecord DEF CreateTopic, c
<1>6. TypeOK'
  <2>1. gens' \in 0..MaxGen /\ claims' \in 0..MaxClaims
    BY <1>1, Constants DEF CreateTopic, TypeOK, c
  <2> QED
    BY <1>1, <1>4, <1>5, <2>1 DEF CreateTopic, TypeOK
<1>7. SafeInv'
  BY <1>1, <1>4, <1>5, ClaimStep, NoRowAssumption DEF CreateTopic, Loop, c
<1> QED
  BY <1>6, <1>7 DEF IInv

\* A claim on the row as it stands.
LEMMA RowClaimed ==
    ASSUME IInv, Exists, claims < MaxClaims
    PROVE  /\ TypeOK /\ row \in Rows /\ row.gen = gens /\ gens \in Nat
           /\ row.gen \in 0..MaxGen /\ row.attempts \in {0, 1} /\ row.status \in Status
           /\ claims + 1 \in 0..MaxClaims /\ claims \in Nat
           /\ ClaimedRow \in Rows /\ ClaimedRow # None
           /\ ClaimedRow.status = "RESEARCHING" /\ ClaimedRow.age = 0
           /\ ClaimedRow.claim = claims + 1 /\ ClaimedRow.gen = gens
           /\ ClaimedRow.version = row.version
<1>1. /\ TypeOK /\ row \in Rows /\ row.gen = gens /\ gens \in Nat
      /\ claims + 1 \in 0..MaxClaims /\ claims \in Nat
  BY Constants DEF IInv, TypeOK, Exists, SafeInv, RowInv
<1>2. row.gen \in 0..MaxGen /\ row.attempts \in {0, 1} /\ row.status \in Status
  BY <1>1 DEF Rows
<1> QED
  BY <1>1, <1>2, ClaimRow, NoRowAssumption

LEMMA RetryIInv == ASSUME IInv, NEW t \in WebTasks, Retry(t) PROVE IInv'
<1> DEFINE q == ClaimedRow
<1>1. /\ t \in Tasks /\ t \in ServerTasks /\ TypeOK /\ Exists /\ row.status # "RESEARCHING"
      /\ claims + 1 \in 0..MaxClaims /\ claims < MaxClaims /\ row.gen = gens
      /\ q \in Rows /\ q.status = "RESEARCHING" /\ q.age = 0
      /\ q.claim = claims + 1 /\ q.gen = gens /\ q.version = row.version
  BY RowClaimed DEF Retry, Claimable, Tasks, ServerTasks
<1>2. row' = [q EXCEPT !.attempts = 0]
  BY DEF Retry
<1> HIDE DEF q
<1>3. /\ row' \in Rows /\ row'.status = "RESEARCHING" /\ row'.age = 0
      /\ row'.claim = claims + 1 /\ row'.gen = gens /\ row'.version = row.version
  BY <1>1, <1>2 DEF Rows
<1>4. /\ task' \in [Tasks -> TaskRecord]
      /\ task'[t].pc = "queued" /\ task'[t].claim = claims + 1 /\ task'[t].age = 0
      /\ \A u \in Tasks : u # t => task'[u] = task[u]
  BY <1>1, QueuedRecord DEF Retry
<1>5. TypeOK'
  BY <1>1, <1>3, <1>4 DEF Retry, TypeOK
<1>6. SafeInv'
  BY <1>1, <1>3, <1>4, ClaimStep, NoRowAssumption DEF Retry, Loop
<1> QED
  BY <1>5, <1>6 DEF IInv

LEMMA TickInitIInv == ASSUME IInv, TickInit PROVE IInv'
<1>1. /\ Ticker \in Tasks /\ Ticker \in ServerTasks /\ Ticker \notin CliTasks
      /\ TypeOK /\ Exists /\ row.status # "RESEARCHING" /\ row.gen = gens /\ gens \in Nat
      /\ claims + 1 \in 0..MaxClaims /\ row.gen \in 0..MaxGen /\ row.attempts \in {0, 1}
      /\ row' \in Rows /\ row' # None /\ row'.status = "RESEARCHING" /\ row'.age = 0
      /\ row'.claim = claims + 1 /\ row'.gen = gens /\ row'.version = row.version
      /\ ClaimedRow.gen = row.gen /\ ClaimedRow.version = row.version
  BY RowClaimed, LifecycleAssumption DEF TickInit, Claimable, Tasks, ServerTasks
<1>2. /\ task' \in [Tasks -> TaskRecord]
      /\ task'[Ticker].pc = "working" /\ task'[Ticker].gen = row.gen
      /\ task'[Ticker].snapGen = row.gen /\ task'[Ticker].claim = claims + 1
      /\ task'[Ticker].age = 0 /\ task'[Ticker].snapVersion = row.version
      /\ \A u \in Tasks : u # Ticker => task'[u] = task[u]
  BY <1>1, WorkingRecord DEF TickInit
<1>3. TypeOK'
  BY <1>1, <1>2 DEF TickInit, TypeOK
<1>4. SafeInv'
  BY <1>1, <1>2, ClaimStep DEF TickInit, Loop
<1> QED
  BY <1>3, <1>4 DEF IInv

LEMMA CliClaimIInv == ASSUME IInv, NEW t \in CliTasks, CliClaim(t) PROVE IInv'
<1>1. /\ t \in Tasks /\ t \notin ServerTasks
      /\ TypeOK /\ Exists /\ row.status # "RESEARCHING" /\ row.gen = gens /\ gens \in Nat
      /\ claims + 1 \in 0..MaxClaims /\ row.status \in Status
      /\ row' \in Rows /\ row' # None /\ row'.status = "RESEARCHING" /\ row'.age = 0
      /\ row'.claim = claims + 1 /\ row'.gen = gens /\ row'.version = row.version
      /\ ClaimedRow.gen = row.gen /\ ClaimedRow.version = row.version
  BY RowClaimed, LifecycleAssumption DEF CliClaim, Claimable, Tasks
<1>2. /\ task[t].gen \in 0..MaxGen /\ task[t].attempts \in {0, 1} /\ task[t].gen <= gens
  BY <1>1 DEF CliClaim, TypeOK, TaskRecord, IInv, SafeInv, TaskInv, TaskFacts
<1>3. /\ task' \in [Tasks -> TaskRecord]
      /\ task'[t].pc = "working" /\ task'[t].gen = task[t].gen
      /\ task'[t].snapGen = row.gen /\ task'[t].claim = claims + 1
      /\ task'[t].age = 0 /\ task'[t].prior = row.status /\ task'[t].snapVersion = row.version
      /\ \A u \in Tasks : u # t => task'[u] = task[u]
  BY <1>1, <1>2, WorkingRecord DEF CliClaim
<1>4. TypeOK'
  BY <1>1, <1>3 DEF CliClaim, TypeOK
<1>5. SafeInv'
  <2>1. row.status = "READY" => row.version > 0
    BY <1>1 DEF IInv, SafeInv, RowInv
  <2> QED
    BY <1>1, <1>2, <1>3, <2>1, ClaimStep DEF CliClaim, TypeOK
<1> QED
  BY <1>4, <1>5 DEF IInv

\* A status write of initialize_new_topic: its fence makes the row that of the claim.
LEMMA FencedWrite ==
    ASSUME IInv, NEW t \in Tasks, task[t].pc = "working", NEW s \in Status,
           SetInitStatus(t, s),
           s = "READY" => t \in CliTasks /\ s = task[t].prior
    PROVE  /\ row' \in Rows \union {None}
           /\ \/ row' = row
              \/ /\ Exists /\ row' # None /\ row'.gen = row.gen /\ row'.claim = row.claim
                 /\ row'.version \in Nat /\ row.version <= row'.version
                 /\ row'.status = "READY" => row'.version > 0
                 /\ row'.age = 0 /\ row.status = "RESEARCHING" /\ task[t].snapGen = row.gen
                 /\ row'.status = s /\ row'.base = row.base
<1>1. CASE ~Fenced("RESEARCHING", task[t].gen)
  BY <1>1 DEF SetInitStatus, IInv, TypeOK
<1>2. CASE Fenced("RESEARCHING", task[t].gen)
  <2>1. /\ row \in Rows /\ task[t].attempts \in {0, 1} /\ row' = InitStatus(s, task[t].attempts)
    BY <1>2 DEF Fenced, Exists, IInv, TypeOK, TaskRecord, SetInitStatus
  <2>2. /\ row' \in Rows /\ row'.gen = row.gen /\ row'.claim = row.claim
        /\ row'.version = row.version /\ row'.status = s /\ row'.age = 0
        /\ row'.base = row.base
    BY <2>1, StatusRow
  <2>3. /\ row.gen = gens /\ task[t].gen = row.gen /\ task[t].gen <= task[t].snapGen
        /\ task[t].snapGen <= gens /\ row.status = "RESEARCHING"
    BY <1>2 DEF Fenced, IInv, SafeInv, RowInv, TaskInv, TaskFacts
  <2>4. task[t].snapGen = row.gen
    BY <2>3, Types DEF IInv
  <2>5. s = "READY" => row.version > 0
    BY <1>2, <2>4, Types DEF Fenced, IInv, SafeInv, TaskInv, TaskFacts
  <2> QED
    BY <1>2, <2>2, <2>3, <2>4, <2>5, Types, NoRowAssumption DEF IInv, Fenced
<1> QED
  BY <1>1, <1>2

LEMMA DoneTask ==
    ASSUME TypeOK, NEW t \in Tasks, Done(t)
    PROVE  /\ task' \in [Tasks -> TaskRecord] /\ task'[t].pc = "idle"
           /\ \A u \in Tasks : u # t => task'[u] = task[u]
BY IdleRecord DEF Done, TypeOK

\* The work ends with a status write (InitEmpty, InitFail, CliInterrupt).
LEMMA WriteIInv ==
    ASSUME IInv, NEW t \in Tasks, task[t].pc = "working", NEW s \in Status,
           SetInitStatus(t, s), s = "READY" => t \in CliTasks /\ s = task[t].prior,
           Done(t), guard' \in {guard, Free},
           UNCHANGED <<toggles, jumped, check, pausing, editing, up, gens, claims, disowned>>
    PROVE  IInv'
<1>1. /\ task' \in [Tasks -> TaskRecord] /\ task'[t].pc = "idle"
      /\ \A u \in Tasks : u # t => task'[u] = task[u]
  BY DoneTask DEF IInv
<1>2. TypeOK'
  BY <1>1, FencedWrite DEF IInv, TypeOK
<1>3. SafeInv'
  BY <1>1, FencedWrite, EndStep
<1> QED
  BY <1>2, <1>3 DEF IInv

LEMMA InitCommitIInv == ASSUME IInv, NEW t \in Tasks, InitCommit(t) PROVE IInv'
<1>1. /\ row \in Rows /\ row # None /\ row.gen = task[t].snapGen /\ row.version < MaxVersion
      /\ task[t].gen \in 0..MaxGen /\ TypeOK /\ task[t].pc = "working"
  BY DEF InitCommit, Fenced, Exists, Runs, IInv, TypeOK, TaskRecord
<1>2. /\ row' \in Rows /\ row'.status = "READY" /\ row'.age = 0 /\ row'.gen = row.gen
      /\ row'.claim = row.claim /\ row'.version = row.version + 1
  BY <1>1, CommitRow DEF InitCommit
<1>3. /\ task' \in [Tasks -> TaskRecord] /\ task'[t].pc = "idle"
      /\ \A u \in Tasks : u # t => task'[u] = task[u]
  BY <1>1, DoneTask DEF InitCommit
<1>4. TypeOK'
  BY <1>2, <1>3 DEF IInv, InitCommit, Release, TypeOK
<1>5. SafeInv'
  BY <1>1, <1>2, <1>3, Types, EndStep, NoRowAssumption DEF InitCommit, Exists
<1> QED
  BY <1>4, <1>5 DEF IInv

LEMMA InitTimedOutIInv == ASSUME IInv, NEW t \in ServerTasks, InitTimedOut(t) PROVE IInv'
<1>1. /\ t \in Tasks /\ task[t].pc = "working" /\ "ERROR" \in Status /\ SetInitStatus(t, "ERROR")
      /\ task \in [Tasks -> TaskRecord]
  BY DEF InitTimedOut, Runs, Tasks, Status, IInv, TypeOK
<1>2. /\ task' \in [Tasks -> TaskRecord] /\ task'[t].pc = "reason"
      /\ task'[t].claim = task[t].claim /\ task'[t].age = task[t].age
      /\ \A u \in Tasks : u # t => task'[u] = task[u]
  BY <1>1 DEF InitTimedOut, TaskRecord
<1>3. TypeOK'
  BY <1>1, <1>2, FencedWrite DEF IInv, InitTimedOut, TypeOK
<1>4. SafeInv'
  BY <1>1, <1>2, FencedWrite, EndStep DEF InitTimedOut
<1> QED
  BY <1>3, <1>4 DEF IInv

LEMMA TimeoutReasonIInv == ASSUME IInv, NEW t \in Tasks, TimeoutReason(t) PROVE IInv'
<1>1. /\ task' \in [Tasks -> TaskRecord] /\ task'[t].pc = "idle"
      /\ \A u \in Tasks : u # t => task'[u] = task[u]
  BY DoneTask DEF TimeoutReason, IInv
<1>2. /\ row' \in Rows \union {None}
      /\ \/ row' = row
         \/ /\ Exists /\ row' # None /\ row'.gen = row.gen /\ row'.claim = row.claim
            /\ row'.version = row.version /\ row'.status = "ERROR" /\ row.status = "ERROR"
  <2>1. CASE ~Fenced("ERROR", task[t].gen)
    BY <2>1 DEF TimeoutReason, IInv, TypeOK
  <2>2. CASE Fenced("ERROR", task[t].gen)
    <3>1. /\ row \in Rows /\ task[t].attempts \in {0, 1} /\ "ERROR" \in Status
          /\ row' = InitStatus("ERROR", task[t].attempts)
      BY <2>2 DEF Fenced, Exists, IInv, TypeOK, TaskRecord, TimeoutReason, Status
    <3> QED
      BY <2>2, <3>1, StatusRow, NoRowAssumption DEF Fenced
  <2> QED
    BY <2>1, <2>2
<1>3. TypeOK'
  BY <1>1, <1>2 DEF IInv, TimeoutReason, Release, TypeOK
<1>4. SafeInv'
  BY <1>1, <1>2, Types, EndStep DEF TimeoutReason, IInv
<1> QED
  BY <1>3, <1>4 DEF IInv

\* The task goes and writes nothing.
LEMMA LeaveIInv ==
    ASSUME IInv, NEW t \in Tasks, Done(t), guard' \in {guard, Free}, disowned' \in BOOLEAN,
           disowned => disowned',
           UNCHANGED <<row, toggles, jumped, check, pausing, editing, up, gens, claims>>
    PROVE  IInv'
<1>1. /\ task' \in [Tasks -> TaskRecord] /\ task'[t].pc = "idle"
      /\ \A u \in Tasks : u # t => task'[u] = task[u]
  BY DoneTask DEF IInv
<1>2. TypeOK'
  BY <1>1 DEF IInv, TypeOK
<1>3. SafeInv'
  BY <1>1, EndStep
<1> QED
  BY <1>2, <1>3 DEF IInv

LEMMA HandlersIInv ==
    ASSUME IInv, ImportTopic \/ DeleteTopic \/ PauseRead \/ PauseWrite \/ EditRead \/ EditWrite
    PROVE  IInv'
<1>1. CASE ImportTopic
  <2>1. row' \in Rows /\ gens' \in 0..MaxGen
    BY <1>1, CreatedRow, Constants DEF ImportTopic, IInv, TypeOK, Status
  <2>2. TypeOK'
    BY <1>1, <2>1 DEF ImportTopic, IInv, TypeOK
  <2> QED
    BY <1>1, <2>2, ImportStep DEF IInv
<1>2. CASE DeleteTopic
  <2>1. TypeOK'
    BY <1>2 DEF DeleteTopic, IInv, TypeOK
  <2> QED
    BY <1>2, <2>1, DeleteStep DEF IInv
<1>3. CASE PauseRead
  <2> DEFINE b == ~row.active
  <2>1. row \in Rows /\ Exists
    BY <1>3 DEF PauseRead, Exists, IInv, TypeOK
  <2>2. b \in BOOLEAN /\ pausing' = [row EXCEPT !.active = b]
    BY <1>3 DEF PauseRead
  <2> HIDE DEF b
  <2>3. pausing' \in Rows
    BY <2>1, <2>2 DEF Rows
  <2>4. /\ pausing'.gen = row.gen /\ pausing'.version = row.version
        /\ pausing'.status = row.status /\ pausing'.age = row.age
    BY <2>1, <2>2 DEF Rows
  <2>5. TypeOK'
    <3>1. toggles' \in 0..MaxToggles
      BY <1>3, Constants DEF PauseRead, IInv, TypeOK
    <3> QED
      BY <1>3, <2>3, <3>1 DEF PauseRead, IInv, TypeOK
  <2>6. SafeInv'
    BY <1>3, <2>1, <2>3, <2>4, QuietStep, NoRowAssumption DEF PauseRead
  <2> QED
    BY <2>5, <2>6 DEF IInv
<1>4. CASE PauseWrite
  <2>1. row \in Rows /\ pausing \in Rows
    BY <1>4 DEF PauseWrite, IInv, TypeOK, SafeInv, RowInv, Exists
  <2>2. row' \in Rows
    BY <1>4, <2>1, PauseRow
  <2>3. disowned' \in BOOLEAN
    BY <1>4, Zenon DEF PauseWrite
  <2>4. TypeOK'
    BY <1>4, <2>2, <2>3 DEF PauseWrite, IInv, TypeOK
  <2> QED
    BY <1>4, <2>4, PauseStep DEF IInv
<1>5. CASE EditRead
  <2>1. editing' \in 0..MaxGen
    BY <1>5, Constants DEF EditRead, Exists, IInv, TypeOK, Rows
  <2>2. TypeOK'
    BY <1>5, <2>1 DEF EditRead, IInv, TypeOK
  <2> QED
    BY <1>5, <2>2, QuietStep DEF EditRead, IInv
<1>6. CASE EditWrite
  <2>1. 0 \in 0..MaxGen
    BY Constants
  <2>2. CASE Exists
    <3>1. row \in Rows /\ editing \in 1..MaxGen /\ row' = [row EXCEPT !.cfg = editing]
      BY <1>6, <2>2, Constants DEF EditWrite, Exists, IInv, TypeOK
    <3>2. row' \in Rows
      BY <3>1 DEF Rows
    <3>3. /\ row'.gen = row.gen /\ row'.claim = row.claim /\ row'.status = row.status
          /\ row'.age = row.age /\ row'.version = row.version
      BY <3>1 DEF Rows
    <3>4. row.version \in Nat /\ row.version <= row.version
      BY <2>2, Types DEF IInv
    <3>5. SafeInv'
      BY <1>6, <2>2, <3>2, <3>3, <3>4, TouchStep, NoRowAssumption DEF EditWrite
    <3> QED
      BY <1>6, <2>1, <3>2, <3>5 DEF EditWrite, IInv, TypeOK
  <2>3. CASE ~Exists
    BY <1>6, <2>1, <2>3, QuietStep DEF EditWrite, IInv, TypeOK
  <2> QED
    BY <2>2, <2>3
<1> QED
  BY <1>1, <1>2, <1>3, <1>4, <1>5, <1>6

LEMMA RunInitIInv == ASSUME IInv, NEW t \in WebTasks, RunInit(t) PROVE IInv'
<1>1. t \in Tasks /\ TypeOK
  BY DEF Tasks, ServerTasks, IInv
<1>2. disowned' \in BOOLEAN /\ (disowned => disowned')
  BY Zenon DEF RunInit
<1>3. CASE Done(t)
  <2>1. guard' \in {guard, Free}
    <3>1. ~(task' = Working(t, row, None, row, task[t].claim))
      BY <1>1, <1>3, IdleRecord DEF Done, Working, TypeOK
    <3> QED
      BY <3>1 DEF RunInit
  <2> QED
    BY <1>1, <1>2, <1>3, <2>1, LeaveIInv DEF RunInit
<1>4. CASE ~Done(t)
  <2>1. /\ Exists /\ task' = Working(t, row, None, row, task[t].claim)
        /\ guard' \in {guard, t} /\ pausing = None /\ task[t].pc = "queued"
        /\ UNCHANGED <<toggles, jumped, row, check, pausing, editing, up, gens, claims>>
        /\ disowned' = (disowned \/ (task'[t].pc = "working" /\ row.claim # task[t].claim))
    BY <1>4 DEF RunInit, Loop
  <2>2. task' \in [Tasks -> TaskRecord]
    <3>1. /\ row.gen \in 0..MaxGen /\ row.attempts \in {0, 1} /\ task[t].claim \in 0..MaxClaims
      BY <1>1, <2>1, Constants DEF TypeOK, Exists, Rows, TaskRecord
    <3> QED
      BY <1>1, <2>1, <3>1, WorkingRecord
  <2>3. TypeOK'
    BY <1>1, <1>2, <2>1, <2>2 DEF TypeOK
  <2>4. SafeInv'
    BY <2>1, StartStep
  <2> QED
    BY <2>3, <2>4 DEF IInv
<1> QED
  BY <1>3, <1>4

LEMMA CliStepIInv == ASSUME IInv, NEW t \in CliTasks, CliStep(t) PROVE IInv'
<1>1. t \in Tasks /\ TypeOK /\ disowned \in BOOLEAN /\ guard \in {guard, Free}
  BY DEF Tasks, IInv, TypeOK
<1>2. CASE CliFind(t)
  <2> DEFINE q == [Idle EXCEPT !.pc = "named", !.gen = row.gen, !.attempts = row.attempts]
  <2>1. row.gen \in 0..MaxGen /\ row.attempts \in {0, 1} /\ row.gen <= gens
    BY <1>1, <1>2, Types, Constants DEF CliFind, Exists, TypeOK, Rows, IInv, SafeInv, RowInv
  <2>2. q \in TaskRecord
    BY <2>1, IdleRecord, ZenonT(60) DEF TaskRecord
  <2>3. q.pc = "named" /\ q.gen = row.gen
    BY IdleRecord DEF TaskRecord
  <2>4. task' = [task EXCEPT ![t] = q] /\ UNCHANGED <<row, pausing, up, gens, claims, disowned, jumped>>
    BY <1>2 DEF CliFind
  <2> HIDE DEF q
  <2>5. /\ task' \in [Tasks -> TaskRecord] /\ task'[t].pc = "named" /\ task'[t].gen <= gens
        /\ \A u \in Tasks : u # t => task'[u] = task[u]
    BY <1>1, <2>1, <2>2, <2>3, <2>4 DEF TypeOK
  <2>6. TypeOK'
    BY <1>1, <1>2, <2>5 DEF CliFind, TypeOK
  <2>7. SafeInv'
    <3> USE <2>4, <2>5 DEF IInv, SafeInv
    <3>1. RowInv'
      BY DEF RowInv, Exists
    <3>2. TaskInv' /\ UniqueInv'
      BY DEF TaskInv, TaskFacts, UniqueInv, Held, Exists
    <3>3. TimeInv' /\ OwnInv'
      BY DEF TimeInv, Timely, OwnInv, Owns, Held, Exists, Tasks
    <3> QED
      BY <3>1, <3>2, <3>3
  <2> QED
    BY <2>6, <2>7 DEF IInv
<1>3. CASE CliClaim(t)
  BY <1>3, CliClaimIInv
<1>4. CASE CliRefused(t) \/ CliKilled(t)
  BY <1>1, <1>4, LeaveIInv DEF CliRefused, CliKilled
<1>5. CASE CliInterrupt(t)
  <2>1. task[t].pc = "working" /\ task[t].prior \in Status /\ SetInitStatus(t, task[t].prior)
    BY <1>1, <1>5 DEF CliInterrupt, Runs, IInv, SafeInv, TaskInv, TaskFacts
  <2> QED
    BY <1>1, <1>5, <2>1, WriteIInv DEF CliInterrupt
<1> QED
  BY <1>2, <1>3, <1>4, <1>5 DEF CliStep

LEMMA InitializerIInv == ASSUME IInv, NEW t \in Tasks, Initializer(t) PROVE IInv'
<1>1. ASSUME InitEmpty(t) \/ InitFail(t) PROVE IInv'
  <2>1. PICK s \in {"NEW", "ERROR"} :
          /\ task[t].pc = "working" /\ SetInitStatus(t, s) /\ Done(t) /\ Release(t)
          /\ UNCHANGED <<toggles, jumped, check, pausing, editing, up, gens, claims, disowned>>
    BY <1>1 DEF InitEmpty, InitFail, Runs
  <2>2. s \in Status /\ s # "READY" /\ guard' \in {guard, Free}
    BY <2>1 DEF Status, Release
  <2> QED
    BY <2>1, <2>2, WriteIInv
<1> QED
  BY <1>1, InitCommitIInv, InitTimedOutIInv, TimeoutReasonIInv DEF Initializer, InitTimedOut

LEMMA ChecksIInv == ASSUME IInv, CheckBegin \/ CheckEnd PROVE IInv'
<1>1. CASE CheckBegin
  <2>1. check' \in [gen: 1..MaxGen, version: 0..MaxVersion]
    BY <1>1 DEF CheckBegin, Exists, IInv, TypeOK, Rows
  <2>2. TypeOK'
    BY <1>1, <2>1 DEF CheckBegin, IInv, TypeOK
  <2> QED
    BY <1>1, <2>2, QuietStep DEF CheckBegin, IInv
<1>2. CASE CheckEnd /\ row' = row
  BY <1>2, QuietStep DEF CheckEnd, IInv, TypeOK
<1>3. CASE CheckEnd /\ row' # row
  <2> DEFINE v == row.version + 1
  <2>1. /\ Exists /\ row \in Rows /\ v \in 0..MaxVersion /\ row.version <= v
        /\ row' = [row EXCEPT !.version = v]
    BY <1>3, Constants DEF CheckEnd, Exists, IInv, TypeOK, Rows
  <2> HIDE DEF v
  <2>2. row' \in Rows
    BY <2>1 DEF Rows
  <2>3. /\ row'.gen = row.gen /\ row'.claim = row.claim /\ row'.status = row.status
        /\ row'.age = row.age /\ row'.version = v
    BY <2>1 DEF Rows
  <2>4. TypeOK'
    BY <1>3, <2>2 DEF CheckEnd, IInv, TypeOK
  <2>5. SafeInv'
    BY <1>3, <2>1, <2>2, <2>3, TouchStep, NoRowAssumption DEF CheckEnd
  <2> QED
    BY <2>4, <2>5 DEF IInv
<1> QED
  BY <1>1, <1>2, <1>3

LEMMA RecoveryIInv == ASSUME IInv, RecoverStuck \/ Restart PROVE IInv'
<1>1. CASE Restart /\ ~(Exists /\ row.status = "RESEARCHING")
  <2>1. /\ UNCHANGED <<row, task, pausing, gens, claims, disowned, jumped>> /\ up' = TRUE
    BY <1>1 DEF Restart
  <2>2. TypeOK'
    BY <1>1, <2>1, Zenon DEF Restart, IInv, TypeOK
  <2>3. SafeInv'
    BY <2>1 DEF IInv, SafeInv, RowInv, TaskInv, TaskFacts, UniqueInv, TimeInv, Timely,
                OwnInv, Owns, Exists
  <2> QED
    BY <2>2, <2>3 DEF IInv
<1>2. CASE RecoverStuck \/ (Restart /\ Exists /\ row.status = "RESEARCHING")
  <2>1. /\ Exists /\ row.status = "RESEARCHING" /\ row' = InitStatus("ERROR", row.attempts)
        /\ disowned' = (disowned \/ ClaimAlive)
        /\ UNCHANGED <<toggles, jumped, guard, task, check, pausing, editing, gens, claims>>
    BY <1>2 DEF RecoverStuck, Restart
  <2>2. (row.age >= StuckAfter /\ up' = up) \/ ~up
    BY <1>2 DEF RecoverStuck, Restart
  <2>3. row' \in Rows
    BY <2>1, StatusRow DEF Exists, IInv, TypeOK, Rows, Status
  <2>4. disowned' \in BOOLEAN
    BY <2>1, Zenon
  <2>5. up' \in BOOLEAN
    BY <1>2, Zenon DEF RecoverStuck, Restart, IInv, TypeOK
  <2>6. TypeOK'
    BY <2>1, <2>3, <2>4, <2>5 DEF IInv, TypeOK
  <2>7. SafeInv'
    BY <2>1, <2>2, RecoverStep
  <2> QED
    BY <2>6, <2>7 DEF IInv
<1> QED
  BY <1>1, <1>2

LEMMA CrashIInv == ASSUME IInv, Crash PROVE IInv'
<1>1. task' \in [Tasks -> TaskRecord]
  BY IdleRecord DEF Crash, IInv, TypeOK
<1>2. 0 \in 0..MaxGen
  BY Constants
<1>3. up' \in BOOLEAN
  BY Zenon DEF Crash
<1>4. TypeOK'
  BY <1>1, <1>2, <1>3 DEF Crash, IInv, TypeOK
<1> QED
  BY <1>4, CrashStep DEF IInv

LEMMA ElapseIInv == ASSUME IInv, Elapse PROVE IInv'
<1>1. row' \in Rows \union {None}
  <2>1. CASE Exists /\ row.age < StuckAfter
    <3> DEFINE a == row.age + 1
    <3>1. row \in Rows /\ a \in 0..StuckAfter /\ row' = [row EXCEPT !.age = a]
      BY <2>1, Constants DEF Exists, IInv, TypeOK, Rows, Elapse
    <3> HIDE DEF a
    <3> QED
      BY <3>1 DEF Rows
  <2>2. CASE ~(Exists /\ row.age < StuckAfter)
    BY <2>2 DEF Elapse, IInv, TypeOK
  <2> QED
    BY <2>1, <2>2
<1>2. task' \in [Tasks -> TaskRecord]
  <2>1. ASSUME NEW t \in ServerTasks, task[t].pc = "working"
        PROVE  [task[t] EXCEPT !.age = task[t].age + 1] \in TaskRecord
    <3> DEFINE a == task[t].age + 1
    <3>1. task[t] \in TaskRecord /\ a \in 0..InitTimeout
      BY <2>1, Constants DEF Elapse, IInv, TypeOK, TaskRecord, Tasks
    <3> HIDE DEF a
    <3>2. [task[t] EXCEPT !.age = a] \in TaskRecord
      BY <3>1 DEF TaskRecord
    <3> QED
      BY <3>2 DEF a
  <2> QED
    BY <2>1 DEF Elapse, IInv, TypeOK
<1>3. TypeOK'
  BY <1>1, <1>2 DEF Elapse, IInv, TypeOK
<1> QED
  BY <1>3, ElapseStep DEF IInv

\* The clock jumps ahead: only the age moves, under a claim that is now marked.
LEMMA ClockJumpIInv == ASSUME IInv, ClockJump PROVE IInv'
<1>1. PICK a \in row.age + 1 .. StuckAfter : row' = [row EXCEPT !.age = a]
  BY DEF ClockJump
<1>2. /\ row \in Rows /\ a \in 0..StuckAfter /\ jumped' = row.claim /\ pausing = None
      /\ UNCHANGED <<toggles, guard, task, check, pausing, editing, up, gens, claims, disowned>>
  BY <1>1, Types, Constants DEF ClockJump, Exists, IInv, TypeOK, Rows
<1>3. row' \in Rows
  BY <1>1, <1>2 DEF Rows
<1>4. /\ row'.gen = row.gen /\ row'.claim = row.claim /\ row'.status = row.status
      /\ row'.version = row.version /\ row' # None /\ Exists /\ jumped' \in 0..MaxClaims
  BY <1>1, <1>2, <1>3, NoRowAssumption DEF Rows, Exists
<1>5. TypeOK'
  BY <1>2, <1>3, <1>4 DEF IInv, TypeOK
<1>6. RowInv'
  BY <1>2, <1>4 DEF IInv, SafeInv, RowInv, Exists
<1>7. TaskInv' /\ UniqueInv'
  BY <1>2, <1>4 DEF IInv, SafeInv, TaskInv, TaskFacts, UniqueInv, Exists
<1>8. TimeInv'
  BY <1>2, <1>4 DEF TimeInv, Timely, Exists
<1>9. OwnInv'
  BY <1>2, <1>4 DEF IInv, SafeInv, OwnInv, Owns, Exists
<1> QED
  BY <1>5, <1>6, <1>7, <1>8, <1>9 DEF IInv, SafeInv

LEMMA NextIInv == IInv /\ [Next]_vars => IInv'
<1> SUFFICES ASSUME IInv, [Next]_vars PROVE IInv'
  OBVIOUS
<1>1. CASE UNCHANGED vars
  BY <1>1, QuietStep DEF vars, IInv, TypeOK
<1>2. CASE Handlers
  BY <1>2, CreateTopicIInv, RetryIInv, HandlersIInv DEF Handlers
<1> QED
  BY <1>1, <1>2, RunInitIInv, TickInitIInv, InitializerIInv, CliStepIInv, ChecksIInv,
     RecoveryIInv, CrashIInv, ElapseIInv, ClockJumpIInv DEF Next

\* The strengthening holds throughout.
THEOREM LifecycleInvariant == Spec => []IInv
BY InitIInv, NextIInv, PTL DEF Spec

-----------------------------------------------------------------------------
(* The theorems *)

\* Types of the row, of what each process holds, and of the history.
THEOREM LifecycleTypes == Spec => []TypeOK
<1>1. IInv => TypeOK
  BY DEF IInv
<1> QED
  BY <1>1, LifecycleInvariant, PTL

\* A READY topic has knowledge of its own incarnation, although a pause writes back a
\* status it read before (set_topic_active), and a command that is interrupted one it
\* took over (initialize_new_topic).
THEOREM ReadyTopicsKnow == Spec => []ReadyHasKnowledge
<1>1. IInv => ReadyHasKnowledge
  BY DEF IInv, SafeInv, RowInv, ReadyHasKnowledge
<1> QED
  BY <1>1, LifecycleInvariant, PTL

\* Periodic recovery (recover_stuck_researching) never writes off an initializer of the
\* server that is at work on the claim it recovers, unless the wall clock, by which it
\* goes, jumped ahead of the event loop's, by which the deadline goes, under that claim.
THEOREM RecoveryIsLate == Spec => RecoversOnlyAbandoned
<1> DEFINE Late == RecoverStuck /\ row.claim # jumped =>
              ~\E t \in ServerTasks : Live(t) /\ task[t].claim = row.claim
<1>1. IInv => Late
  <2> SUFFICES ASSUME IInv, RecoverStuck, row.claim # jumped, NEW t \in ServerTasks, Live(t),
                      task[t].claim = row.claim
               PROVE  FALSE
    OBVIOUS
  <2>1. row.age <= task[t].age /\ row.age >= StuckAfter
    BY DEF IInv, SafeInv, TimeInv, Timely, RecoverStuck, Live, Held
  <2>2. task[t].age <= InitTimeout /\ task[t].age \in Nat /\ row.age \in Nat
    BY Constants, Types DEF IInv, TypeOK, TaskRecord, Tasks, RecoverStuck
  <2> QED
    BY <2>1, <2>2, Constants
<1>2. IInv /\ [Next]_vars => [Late]_vars
  BY <1>1
<1> QED
  BY <1>2, LifecycleInvariant, PTL DEF Spec, RecoversOnlyAbandoned

\* Only an initializer at work on the present incarnation takes the row out of RESEARCHING.
LEMMA WhoTerminates ==
    ASSUME IInv, Next, NEW t \in Tasks, Terminates(t)
    PROVE  task[t].pc = "working" /\ row.gen = task[t].snapGen
<1>1. /\ task[t].pc \in {"working", "reason"} /\ task'[t].pc # task[t].pc /\ Exists /\ row' # None
      /\ row.status = "RESEARCHING" /\ row'.status # "RESEARCHING" /\ row' # row
      /\ row \in Rows /\ TypeOK
  BY DEF Terminates, Live, Exists, IInv, TypeOK
<1>2. ASSUME Handlers PROVE FALSE
  <2>1. ASSUME NEW u \in WebTasks, Retry(u) PROVE FALSE
    BY <1>1, <2>1 DEF Retry
  <2> QED
    BY <1>1, <1>2, <2>1 DEF Handlers, CreateTopic, ImportTopic, DeleteTopic, PauseRead, PauseWrite,
                            EditRead, EditWrite
<1>3. ASSUME NEW u \in WebTasks, RunInit(u) PROVE FALSE
  BY <1>1, <1>3 DEF RunInit
<1>4. ASSUME TickInit PROVE FALSE
  BY <1>1, <1>4 DEF TickInit, Claimable
<1>5. ASSUME NEW u \in Tasks, Initializer(u)
      PROVE  task[t].pc = "working" /\ row.gen = task[t].snapGen
  <2>1. u = t
    BY <1>1, <1>5 DEF Initializer, InitEmpty, InitFail, InitCommit, InitTimedOut, TimeoutReason,
                      Done, TypeOK
  <2>2. CASE TimeoutReason(t)
    BY <1>1, <2>2 DEF TimeoutReason, Fenced
  <2>3. CASE InitCommit(t)
    BY <2>3 DEF InitCommit, Runs, Fenced
  <2>4. ASSUME InitEmpty(t) \/ InitFail(t) \/ InitTimedOut(t)
        PROVE  task[t].pc = "working" /\ row.gen = task[t].snapGen
    <3>1. PICK s \in {"NEW", "ERROR"} : task[t].pc = "working" /\ SetInitStatus(t, s)
      BY <2>4 DEF InitEmpty, InitFail, InitTimedOut, Runs
    <3>2. s \in Status /\ s # "READY"
      BY DEF Status
    <3> QED
      BY <1>1, <3>1, <3>2, FencedWrite
  <2> QED
    BY <1>5, <2>1, <2>2, <2>3, <2>4 DEF Initializer
<1>6. ASSUME NEW u \in CliTasks, CliStep(u)
      PROVE  task[t].pc = "working" /\ row.gen = task[t].snapGen
  <2>1. ~(CliFind(u) \/ CliRefused(u) \/ CliKilled(u))
    BY <1>1 DEF CliFind, CliRefused, CliKilled
  <2>2. ~CliClaim(u)
    BY <1>1 DEF CliClaim
  <2>3. CASE CliInterrupt(u)
    <3>1. u \in Tasks /\ task[u].pc = "working" /\ SetInitStatus(u, task[u].prior) /\ Done(u)
      BY <2>3 DEF CliInterrupt, Runs, Tasks
    <3>2. u = t /\ task[u].prior \in Status
      BY <1>1, <3>1 DEF Done, TypeOK, IInv, SafeInv, TaskInv, TaskFacts
    <3> QED
      BY <1>1, <3>1, <3>2, FencedWrite
  <2> QED
    BY <1>6, <2>1, <2>2, <2>3 DEF CliStep
<1>7. ASSUME CheckBegin \/ CheckEnd \/ RecoverStuck \/ Restart \/ Crash PROVE FALSE
  BY <1>1, <1>7 DEF CheckBegin, CheckEnd, RecoverStuck, Restart, Crash
<1>8. ASSUME Elapse \/ ClockJump PROVE FALSE
  BY <1>1, <1>8 DEF Elapse, ClockJump, Rows
<1> QED
  BY <1>2, <1>3, <1>4, <1>5, <1>6, <1>7, <1>8 DEF Next

\* As long as no initializer was written off alive, and none started late for a topic that
\* was replaced, the fence of initialize_new_topic hits nobody else's claim.
THEOREM TerminalWritesHitOwnClaim == Spec => ClaimHeldUnlessDisowned
<1> DEFINE Own == ~disowned => \A t \in Tasks : Terminates(t) => task[t].claim = row.claim
<1>1. IInv /\ [Next]_vars => [Own]_vars
  <2> SUFFICES ASSUME IInv, Next, ~disowned, NEW t \in Tasks, Terminates(t)
               PROVE  task[t].claim = row.claim
    OBVIOUS
  <2>1. task[t].pc = "working" /\ row.gen = task[t].snapGen /\ Exists
    BY WhoTerminates DEF Terminates
  <2> QED
    BY <2>1 DEF IInv, SafeInv, OwnInv, Owns
<1> QED
  BY <1>1, LifecycleInvariant, PTL DEF Spec, ClaimHeldUnlessDisowned

\* A server task at work leaves, and the baseline is another one: it has committed.
LEMMA WhoBuilds ==
    ASSUME IInv, Next, NEW t \in ServerTasks, task[t].pc = "working", Exists, row' # None,
           row'.base # row.base, task'[t].pc # "working"
    PROVE  InitCommit(t)
<1>1. t \in Tasks /\ task'[t].pc # task[t].pc /\ row' # row /\ row \in Rows /\ TypeOK
  BY DEF Exists, IInv, TypeOK, Tasks
<1>2. ASSUME Handlers PROVE FALSE
  <2>1. ASSUME NEW u \in WebTasks, Retry(u) PROVE FALSE
    <3>1. row'.base = row.base
      <4>1. ClaimedRow \in Rows /\ ClaimedRow.base = row.base
        BY <1>1, <2>1, ClaimRow, Types DEF Retry, Claimable
      <4> QED
        BY <4>1, <2>1 DEF Retry, Rows
    <3> QED
      BY <3>1
  <2> QED
    BY <1>1, <1>2, <2>1 DEF Handlers, CreateTopic, ImportTopic, DeleteTopic, PauseRead, PauseWrite,
                            EditRead, EditWrite
<1>3. ASSUME NEW u \in WebTasks, RunInit(u) PROVE FALSE
  BY <1>1, <1>3 DEF RunInit
<1>4. ASSUME TickInit PROVE FALSE
  BY <1>1, <1>4, ClaimRow, Types DEF TickInit, Claimable
<1>5. ASSUME NEW u \in Tasks, Initializer(u) PROVE InitCommit(t)
  <2>1. u = t
    BY <1>1, <1>5 DEF Initializer, InitEmpty, InitFail, InitCommit, InitTimedOut, TimeoutReason,
                      Done, TypeOK
  <2>2. ~TimeoutReason(t)
    BY <1>1 DEF TimeoutReason
  <2>3. ASSUME InitEmpty(t) \/ InitFail(t) \/ InitTimedOut(t) PROVE FALSE
    <3>1. PICK s \in {"NEW", "ERROR"} : task[t].pc = "working" /\ SetInitStatus(t, s)
      BY <2>3 DEF InitEmpty, InitFail, InitTimedOut, Runs
    <3>2. s \in Status /\ s # "READY"
      BY DEF Status
    <3> QED
      BY <1>1, <3>1, <3>2, FencedWrite
  <2> QED
    BY <1>5, <2>1, <2>2, <2>3 DEF Initializer
<1>6. ASSUME NEW u \in CliTasks, CliStep(u) PROVE FALSE
  BY <1>1, <1>6, LifecycleAssumption DEF CliStep, CliFind, CliClaim, CliRefused, CliInterrupt,
              CliKilled, Done, Working, TypeOK, Tasks, ServerTasks
<1>7. ASSUME CheckBegin \/ CheckEnd \/ RecoverStuck \/ Restart \/ Crash PROVE FALSE
  BY <1>1, <1>7 DEF CheckBegin, CheckEnd, RecoverStuck, Restart, Crash
<1>8. ASSUME Elapse \/ ClockJump PROVE FALSE
  BY <1>1, <1>8 DEF Elapse, ClockJump, Rows
<1> QED
  BY <1>2, <1>3, <1>4, <1>5, <1>6, <1>7, <1>8 DEF Next

\* A server initializer stores a baseline only in the incarnation it fetched for: the
\* topic that initialize_new_topic was handed is the one of the snapshot its commit checks.
THEOREM ServerBaselines == Spec => ServerBaselineIsOwn
<1> DEFINE Own == \A t \in ServerTasks :
              task[t].pc = "working" /\ Exists /\ row' # None /\ row'.base # row.base
                /\ task'[t].pc # "working" => row'.base = row'.gen
<1>1. IInv /\ [Next]_vars => [Own]_vars
  <2> SUFFICES ASSUME IInv, Next, NEW t \in ServerTasks, task[t].pc = "working", Exists,
                      row' # None, row'.base # row.base, task'[t].pc # "working"
               PROVE  row'.base = row'.gen
    OBVIOUS
  <2>1. InitCommit(t)
    BY WhoBuilds
  <2>2. /\ row \in Rows /\ row.version < MaxVersion /\ t \in Tasks
        /\ task[t].gen \in 0..MaxGen /\ row.gen = task[t].snapGen
    BY <2>1 DEF InitCommit, Fenced, IInv, TypeOK, TaskRecord, Exists, Tasks
  <2>3. row'.base = task[t].gen /\ row'.gen = row.gen
    BY <2>1, <2>2, CommitRow DEF InitCommit
  <2>4. task[t].gen = task[t].snapGen
    BY <2>2 DEF IInv, SafeInv, TaskInv, TaskFacts
  <2> QED
    BY <2>2, <2>3, <2>4
<1> QED
  BY <1>1, LifecycleInvariant, PTL DEF Spec, ServerBaselineIsOwn
=============================================================================
