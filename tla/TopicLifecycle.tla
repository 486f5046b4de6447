--------------------------- MODULE TopicLifecycle ---------------------------
(***************************************************************************)
(* The life of one topic row: created (RESEARCHING) or imported (NEW),     *)
(* initialised by whoever wins the RESEARCHING claim, READY or ERROR,      *)
(* paused, edited, deleted, and replaced by a new topic that takes its id  *)
(* (SQLite reuses rowids), which only its generation tells apart.          *)
(*                                                                         *)
(* Three kinds of initializer work on the row: the background tasks of the *)
(* web handlers, the scheduler's minute tick, and CLI processes.  The      *)
(* first two live in the server process, share its in-flight guard and are *)
(* cancelled at a deadline; a CLI process has neither.  Stuck recovery,    *)
(* periodic and at start-up, turns RESEARCHING rows into ERROR.            *)
(*                                                                         *)
(* Time passes in units chosen so that InitTimeout units are the init      *)
(* deadline (600 s) and StuckAfter units the recovery window (15 min).     *)
(* The deadline is timed by the event loop, the window by the wall clock,  *)
(* which an NTP step or a resumed laptop moves ahead of the other.         *)
(***************************************************************************)
EXTENDS Naturals, FiniteSets

CONSTANTS
    WebTasks,      \* background tasks of the web handlers
    Ticker,        \* the scheduler's init job: one instance
    CliTasks,      \* `topic-watch init` processes
    None,          \* no row, no check, no status
    Free,          \* the guard of the id: nobody
    Check,         \* the guard of the id: a check of the topic
    InitTimeout,   \* _INIT_TIMEOUT_SECONDS, in units
    StuckAfter,    \* timeout_minutes of recover_stuck_researching, in units
    MaxGen,        \* bound: incarnations of the topic id
    MaxClaims,     \* bound: RESEARCHING claims
    MaxToggles,    \* bound: enable/disable commands
    MaxVersion     \* bound: knowledge versions of one incarnation

ServerTasks == WebTasks \union {Ticker}
Tasks == ServerTasks \union CliTasks

Status == {"NEW", "RESEARCHING", "READY", "ERROR"}

ASSUME LifecycleAssumption ==
    /\ ServerTasks \intersect CliTasks = {}
    /\ Ticker \notin WebTasks
    /\ Free # Check /\ {Free, Check} \intersect Tasks = {}
    /\ None \notin Status
    /\ {InitTimeout, StuckAfter, MaxGen, MaxClaims, MaxVersion} \subseteq Nat \ {0}
    /\ MaxToggles \in Nat
    /\ InitTimeout < StuckAfter

VARIABLES
    row,         \* the topics row and its knowledge_states version
    guard,       \* CheckingState slot of this id: a task, Check, or Free
    task,        \* what each initializer holds in memory
    check,       \* the check of this topic in flight in the server
    pausing,     \* the row set_topic_active read and has not written back
    editing,     \* generation the edit form was loaded for, during its DNS await
    up,          \* the server process runs
    gens,        \* generations handed out
    toggles,     \* enable/disable commands the user gave
    claims,      \* history: RESEARCHING claims made
    disowned,    \* history: some initializer worked without a claim of its own
    jumped       \* history: the claim during which the wall clock last jumped ahead

vars ==
    <<row, guard, task, check, pausing, editing, up, gens, claims, toggles, disowned, jumped>>

\* claim numbers the RESEARCHING claim the row was last entered by (history);
\* age is how long ago status_changed_at is, base the generation whose feeds
\* the knowledge was built from, cfg the one whose form was last saved.
Rows ==
    [gen: 1..MaxGen, status: Status, active: BOOLEAN, error: BOOLEAN,
     attempts: {0, 1}, age: 0..StuckAfter, claim: 0..MaxClaims,
     version: 0..MaxVersion, base: 0..MaxGen, cfg: 1..MaxGen]

ASSUME NoRowAssumption == None \notin Rows

\* gen, attempts: the Topic object the initializer was handed; prior: the
\* status its own claim took over; snapGen, snapVersion: the TopicSnapshot.
TaskRecord ==
    [pc: {"idle", "queued", "named", "working", "reason"},
     owns: BOOLEAN, gen: 0..MaxGen, attempts: {0, 1}, prior: Status \union {None},
     snapGen: 0..MaxGen, snapVersion: 0..MaxVersion, claim: 0..MaxClaims,
     age: 0..InitTimeout]

Idle ==
    [pc |-> "idle", owns |-> FALSE, gen |-> 0, attempts |-> 0, prior |-> None,
     snapGen |-> 0, snapVersion |-> 0, claim |-> 0, age |-> 0]

Exists == row # None
Live(t) == task[t].pc \in {"working", "reason"}

\* Somebody works, or is about to, under the claim the row shows.
ClaimAlive ==
    \E t \in Tasks : task[t].pc \in {"queued", "working", "reason"} /\ task[t].claim = row.claim

\* The server's handlers and jobs run on one event loop: while set_topic_active
\* is between its read and its write only other processes move.
Loop == up /\ pausing = None

-----------------------------------------------------------------------------
(* create_topic: the row of a new incarnation. *)
NewRow(status) ==
    [gen |-> gens + 1, status |-> status, active |-> TRUE, error |-> FALSE,
     attempts |-> 0, age |-> 0, claim |-> 0, version |-> 0, base |-> 0,
     cfg |-> gens + 1]

\* claim_topic_for_init: UPDATE ... WHERE id, status = expected, is_active = 1.
Claimable(expected) == Exists /\ row.status = expected /\ row.active /\ claims < MaxClaims

ClaimedRow ==
    [row EXCEPT !.status = "RESEARCHING", !.error = FALSE, !.age = 0, !.claim = claims + 1]

\* Mutant: fenced to the id and the status only.
FencedByStatus(expected, gen) == Exists /\ row.status = expected

\* update_topic_init_status, fenced to a status and a generation.
Fenced(expected, gen) == Exists /\ row.status = expected /\ row.gen = gen
InitStatus(status, attempts) ==
    [row EXCEPT !.status = status, !.error = (status = "ERROR"), !.age = 0, !.attempts = attempts]

\* _set_init_status of initialize_new_topic: a terminal status lands only while
\* the row is still RESEARCHING and of the generation of the caller's Topic.
SetInitStatus(t, status) ==
    row' = IF Fenced("RESEARCHING", task[t].gen)
             THEN InitStatus(status, task[t].attempts) ELSE row

\* A background task for the claim just made, with or without the guard.
Queued(t, owns) ==
    [task EXCEPT ![t] = [Idle EXCEPT !.pc = "queued", !.owns = owns, !.claim = claims + 1]]

\* The Topic object, the snapshot taken of row r, and the claim that was won.
Working(t, topic, prior, r, claim) ==
    [task EXCEPT ![t] =
        [pc |-> "working", owns |-> FALSE, gen |-> topic.gen, attempts |-> topic.attempts,
         prior |-> prior, snapGen |-> r.gen, snapVersion |-> r.version,
         claim |-> claim, age |-> 0]]

\* finish_check of the token this task holds; a no-op when it holds none.
Release(t) == guard' = IF guard = t THEN Free ELSE guard
Done(t) == task' = [task EXCEPT ![t] = Idle]

-----------------------------------------------------------------------------
(* Handlers of the web layer *)

\* create_topic_handler: the row is inserted already RESEARCHING and a
\* background task is queued that has no guard token yet.
CreateTopic(t) ==
    /\ Loop /\ ~Exists /\ gens < MaxGen /\ claims < MaxClaims
    /\ task[t].pc = "idle"
    /\ row' = [NewRow("RESEARCHING") EXCEPT !.claim = claims + 1]
    /\ gens' = gens + 1
    /\ claims' = claims + 1
    /\ task' = Queued(t, FALSE)
    /\ UNCHANGED <<toggles, jumped, guard, check, pausing, editing, up, disowned>>

\* import_opml: topics are inserted NEW, under live names and URLs only.
ImportTopic ==
    /\ Loop /\ ~Exists /\ gens < MaxGen
    /\ row' = NewRow("NEW")
    /\ gens' = gens + 1
    /\ UNCHANGED <<toggles, jumped, guard, task, check, pausing, editing, up, claims, disowned>>

\* Mutant: Retry looks at the claim only, not at the status it takes over.
RetryOverClaim(t) ==
    /\ Loop /\ task[t].pc = "idle"
    /\ guard = Free
    /\ Exists /\ Claimable(row.status)
    /\ row' = [ClaimedRow EXCEPT !.attempts = 0]
    /\ claims' = claims + 1
    /\ guard' = t
    /\ task' = Queued(t, TRUE)
    /\ UNCHANGED <<toggles, jumped, check, pausing, editing, up, gens, disowned>>

\* reinit_topic (Retry): refused for a paused or RESEARCHING topic and while
\* the guard is held; then guard, claim and a reset of init_attempts.
Retry(t) ==
    /\ Loop /\ task[t].pc = "idle"
    /\ guard = Free
    /\ Exists /\ row.status # "RESEARCHING" /\ Claimable(row.status)
    /\ row' = [ClaimedRow EXCEPT !.attempts = 0]
    /\ claims' = claims + 1
    /\ guard' = t
    /\ task' = Queued(t, TRUE)
    /\ UNCHANGED <<toggles, jumped, check, pausing, editing, up, gens, disowned>>

\* delete_topic_handler and bulk_delete_handler: the guard of the id stays.
DeleteTopic ==
    /\ Loop /\ Exists
    /\ row' = None
    /\ UNCHANGED <<toggles, jumped, guard, task, check, pausing, editing, up, gens, claims, disowned>>

\* set_topic_active reads the whole row ...
PauseRead ==
    /\ Loop /\ Exists /\ toggles < MaxToggles
    /\ toggles' = toggles + 1
    /\ pausing' = [row EXCEPT !.active = ~row.active]
    /\ UNCHANGED <<jumped, row, guard, task, check, editing, up, gens, claims, disowned>>

\* ... and update_topic writes it all back but the knowledge and the
\* generation, whatever another process committed in between.
PauseWrite ==
    /\ pausing # None
    /\ row' = [row EXCEPT !.active = pausing.active, !.status = pausing.status,
                          !.error = pausing.error, !.attempts = pausing.attempts,
                          !.age = IF pausing.status = row.status THEN row.age ELSE pausing.age,
                          !.cfg = pausing.cfg]
    /\ pausing' = None
    /\ disowned' = (disowned \/ (row'.status # row.status /\ ClaimAlive))
    /\ UNCHANGED <<toggles, jumped, guard, task, check, editing, up, gens, claims>>

\* edit_topic_handler loads the topic, then awaits DNS validation ...
EditRead ==
    /\ Loop /\ Exists /\ editing = 0
    /\ editing' = row.gen
    /\ UNCHANGED <<toggles, jumped, row, guard, task, check, pausing, up, gens, claims, disowned>>

\* ... and update_topic_config writes the configuration columns by id.
EditWrite ==
    /\ Loop /\ editing # 0
    /\ row' = IF Exists THEN [row EXCEPT !.cfg = editing] ELSE row
    /\ editing' = 0
    /\ UNCHANGED <<toggles, jumped, guard, task, check, pausing, up, gens, claims, disowned>>

-----------------------------------------------------------------------------
(* Initializers *)

\* _run_init: without a token it takes the guard, and exits in silence when the
\* slot is busy; then get_topic and, claimed, straight to the snapshot.
RunInit(t) ==
    /\ Loop /\ task[t].pc = "queued"
    /\ \/ /\ ~task[t].owns /\ guard # Free
          /\ Done(t)
          /\ UNCHANGED guard
       \/ /\ task[t].owns \/ guard = Free
          /\ ~Exists
          /\ Done(t)
          /\ guard' = IF task[t].owns /\ guard = t THEN Free ELSE guard
       \/ /\ task[t].owns \/ guard = Free
          /\ Exists
          /\ guard' = IF task[t].owns THEN guard ELSE t
          /\ task' = Working(t, row, None, row, task[t].claim)
    /\ disowned' = (disowned \/ (task'[t].pc = "working" /\ row.claim # task[t].claim))
    /\ UNCHANGED <<toggles, jumped, row, check, pausing, editing, up, gens, claims>>

\* _init_new_topics: one NEW topic per tick, guard first, then the claim.
TickInit ==
    /\ Loop /\ task[Ticker].pc = "idle"
    /\ guard = Free
    /\ Claimable("NEW")
    /\ row' = ClaimedRow
    /\ claims' = claims + 1
    /\ guard' = Ticker
    /\ task' = Working(Ticker, row, None, ClaimedRow, claims + 1)
    /\ UNCHANGED <<toggles, jumped, check, pausing, editing, up, gens, disowned>>

\* _cmd_init finds the topic by name ...
CliFind(t) ==
    /\ task[t].pc = "idle" /\ Exists
    /\ task' = [task EXCEPT ![t] = [Idle EXCEPT !.pc = "named", !.gen = row.gen, !.attempts = row.attempts]]
    /\ UNCHANGED <<toggles, jumped, row, guard, check, pausing, editing, up, gens, claims, disowned>>

\* ... and initialize_new_topic, not claimed, looks the id up again and claims
\* it with the status it reads.
CliClaim(t) ==
    /\ task[t].pc = "named"
    /\ Exists /\ row.status # "RESEARCHING" /\ Claimable(row.status)
    /\ row' = ClaimedRow
    /\ claims' = claims + 1
    /\ task' = Working(t, task[t], row.status, ClaimedRow, claims + 1)
    /\ UNCHANGED <<toggles, jumped, guard, check, pausing, editing, up, gens, disowned>>

\* TopicInitRefused: gone, already being initialised, or paused.
CliRefused(t) ==
    /\ task[t].pc = "named"
    /\ Exists => row.status = "RESEARCHING" \/ ~row.active
    /\ Done(t)
    /\ UNCHANGED <<toggles, jumped, row, guard, check, pausing, editing, up, gens, claims, disowned>>

Runs(t) == task[t].pc = "working" /\ (t \in ServerTasks => Loop)

\* An empty corpus: back to NEW on a re-init, an error the first time.
InitEmpty(t) ==
    /\ Runs(t)
    /\ SetInitStatus(t, IF task[t].attempts > 0 THEN "NEW" ELSE "ERROR")
    /\ Done(t) /\ Release(t)
    /\ UNCHANGED <<toggles, jumped, check, pausing, editing, up, gens, claims, disowned>>

\* The fetch, the LLM or an aborted commit raised.
InitFail(t) ==
    /\ Runs(t)
    /\ SetInitStatus(t, "ERROR")
    /\ Done(t) /\ Release(t)
    /\ UNCHANGED <<toggles, jumped, check, pausing, editing, up, gens, claims, disowned>>

\* Mutant: the commit looks at the status and the version only.
InitCommitAnyTopic(t) ==
    /\ Runs(t)
    /\ Exists /\ row.status = "RESEARCHING"
    /\ row.version = task[t].snapVersion
    /\ row.version < MaxVersion
    /\ row' = [InitStatus("READY", 0) EXCEPT !.version = row.version + 1, !.base = task[t].gen]
    /\ Done(t) /\ Release(t)
    /\ UNCHANGED <<toggles, jumped, check, pausing, editing, up, gens, claims, disowned>>

\* _commit_init_transition: generation and knowledge version of the snapshot,
\* and RESEARCHING; anything else aborts (InitFail).
InitCommit(t) ==
    /\ Runs(t)
    /\ Fenced("RESEARCHING", task[t].snapGen)
    /\ row.version = task[t].snapVersion
    /\ row.version < MaxVersion
    /\ row' = [InitStatus("READY", 0) EXCEPT !.version = row.version + 1, !.base = task[t].gen]
    /\ Done(t) /\ Release(t)
    /\ UNCHANGED <<toggles, jumped, check, pausing, editing, up, gens, claims, disowned>>

\* wait_for cancels a server initializer at its deadline: the claim is handed
\* back as ERROR (the caller claimed, so no prior status is known) ...
InitTimedOut(t) ==
    /\ Runs(t) /\ t \in ServerTasks
    /\ task[t].age = InitTimeout
    /\ SetInitStatus(t, "ERROR")
    /\ task' = [task EXCEPT ![t].pc = "reason"]
    /\ UNCHANGED <<toggles, jumped, guard, check, pausing, editing, up, gens, claims, disowned>>

\* ... and the reason is written, fenced to that ERROR; then the guard goes.
TimeoutReason(t) ==
    /\ Loop /\ task[t].pc = "reason"
    /\ row' = IF Fenced("ERROR", task[t].gen) THEN InitStatus("ERROR", task[t].attempts) ELSE row
    /\ Done(t) /\ Release(t)
    /\ UNCHANGED <<toggles, jumped, check, pausing, editing, up, gens, claims, disowned>>

\* Ctrl-C on the CLI: the claim goes back to the status it was taken from.
CliInterrupt(t) ==
    /\ Runs(t) /\ t \in CliTasks
    /\ SetInitStatus(t, task[t].prior)
    /\ Done(t)
    /\ UNCHANGED <<toggles, jumped, guard, check, pausing, editing, up, gens, claims, disowned>>

\* A CLI process dies without a word and leaves the claim behind.
CliKilled(t) ==
    /\ Live(t) /\ t \in CliTasks
    /\ Done(t)
    /\ UNCHANGED <<toggles, jumped, row, guard, check, pausing, editing, up, gens, claims, disowned>>

-----------------------------------------------------------------------------
(* Checks of the same topic, in the server: they hold the guard and move the *)
(* knowledge version under their own generation and version fences.          *)
CheckBegin ==
    /\ Loop /\ guard = Free
    /\ Exists /\ row.status = "READY"
    /\ guard' = Check
    /\ check' = [gen |-> row.gen, version |-> row.version]
    /\ UNCHANGED <<toggles, jumped, row, task, pausing, editing, up, gens, claims, disowned>>

CheckEnd ==
    /\ Loop /\ check # None
    /\ \/ UNCHANGED row
       \/ /\ Exists /\ row.gen = check.gen /\ row.version = check.version
          /\ row.version < MaxVersion
          /\ row' = [row EXCEPT !.version = row.version + 1]
    /\ check' = None
    /\ guard' = IF guard = Check THEN Free ELSE guard
    /\ UNCHANGED <<toggles, jumped, task, pausing, editing, up, gens, claims, disowned>>

-----------------------------------------------------------------------------
(* Recovery, crash and time *)

\* Mutant: the recovery window is no longer than the init deadline.
RecoverAtDeadline ==
    /\ Loop /\ Exists
    /\ row.status = "RESEARCHING" /\ row.age >= InitTimeout
    /\ row' = InitStatus("ERROR", row.attempts)
    /\ disowned' = (disowned \/ ClaimAlive)
    /\ UNCHANGED <<toggles, jumped, guard, task, check, pausing, editing, up, gens, claims>>

\* Mutant: recovery passes paused topics over.
RecoverEnabled ==
    /\ Loop /\ Exists /\ row.active
    /\ row.status = "RESEARCHING" /\ row.age >= StuckAfter
    /\ row' = InitStatus("ERROR", row.attempts)
    /\ disowned' = (disowned \/ ClaimAlive)
    /\ UNCHANGED <<toggles, jumped, guard, task, check, pausing, editing, up, gens, claims>>

\* recover_stuck_researching, by the scheduler's recovery job.
RecoverStuck ==
    /\ Loop /\ Exists
    /\ row.status = "RESEARCHING" /\ row.age >= StuckAfter
    /\ row' = InitStatus("ERROR", row.attempts)
    /\ disowned' = (disowned \/ ClaimAlive)
    /\ UNCHANGED <<toggles, jumped, guard, task, check, pausing, editing, up, gens, claims>>

\* The server process dies with everything it holds in memory.
Crash ==
    /\ up
    /\ up' = FALSE
    /\ guard' = Free
    /\ check' = None
    /\ pausing' = None
    /\ editing' = 0
    /\ task' = [t \in Tasks |-> IF t \in ServerTasks THEN Idle ELSE task[t]]
    /\ UNCHANGED <<toggles, jumped, row, gens, claims, disowned>>

\* lifespan start-up: recover_stuck_topics takes every RESEARCHING row for dead.
Restart ==
    /\ ~up
    /\ up' = TRUE
    /\ IF Exists /\ row.status = "RESEARCHING"
         THEN /\ row' = InitStatus("ERROR", row.attempts)
              /\ disowned' = (disowned \/ ClaimAlive)
         ELSE UNCHANGED <<row, disowned>>
    /\ UNCHANGED <<toggles, jumped, guard, task, check, pausing, editing, gens, claims>>

\* A unit of time: queued tasks start and cancelled ones end within it, and no
\* server initializer outlives its deadline.
Elapse ==
    /\ pausing = None
    /\ \A t \in ServerTasks :
          /\ task[t].pc \notin {"queued", "reason"}
          /\ task[t].pc = "working" => task[t].age < InitTimeout
    /\ row' = IF Exists /\ row.age < StuckAfter THEN [row EXCEPT !.age = row.age + 1] ELSE row
    /\ task' = [t \in Tasks |->
                  IF t \in ServerTasks /\ task[t].pc = "working"
                    THEN [task[t] EXCEPT !.age = task[t].age + 1] ELSE task[t]]
    /\ row' # row \/ task' # task
    /\ UNCHANGED <<toggles, jumped, guard, check, pausing, editing, up, gens, claims, disowned>>

\* The wall clock jumps ahead: every row is at once that much older, and nothing the event
\* loop times is.  Only the age of a RESEARCHING row is ever looked at, and a jump that
\* meets a handler between its read and its write might as well come after the write.
ClockJump ==
    /\ pausing = None
    /\ Exists /\ row.status = "RESEARCHING"
    /\ \E a \in row.age + 1 .. StuckAfter : row' = [row EXCEPT !.age = a]
    /\ jumped' = row.claim
    /\ UNCHANGED <<toggles, guard, task, check, pausing, editing, up, gens, claims, disowned>>

-----------------------------------------------------------------------------
Init ==
    /\ row \in {None} \union
         {[gen |-> 1, status |-> s, active |-> TRUE, error |-> FALSE, attempts |-> a,
           age |-> 0, claim |-> 0, version |-> IF s = "READY" THEN 1 ELSE 0,
           base |-> IF s = "READY" THEN 1 ELSE 0, cfg |-> 1] :
          s \in {"NEW", "READY"}, a \in {0, 1}}
    /\ guard = Free
    /\ task = [t \in Tasks |-> Idle]
    /\ check = None
    /\ pausing = None
    /\ editing = 0
    /\ up = TRUE
    /\ gens = IF row = None THEN 0 ELSE 1
    /\ claims = 0 /\ toggles = 0
    /\ disowned = FALSE /\ jumped = 0

Initializer(t) ==
    \/ InitEmpty(t) \/ InitFail(t) \/ InitCommit(t) \/ InitTimedOut(t) \/ TimeoutReason(t)
Handlers ==
    \/ \E t \in WebTasks : CreateTopic(t) \/ Retry(t)
    \/ ImportTopic \/ DeleteTopic \/ PauseRead \/ PauseWrite \/ EditRead \/ EditWrite
CliStep(t) == CliFind(t) \/ CliClaim(t) \/ CliRefused(t) \/ CliInterrupt(t) \/ CliKilled(t)

Next ==
    \/ Handlers
    \/ \E t \in WebTasks : RunInit(t)
    \/ TickInit
    \/ \E t \in Tasks : Initializer(t)
    \/ \E t \in CliTasks : CliStep(t)
    \/ CheckBegin \/ CheckEnd
    \/ RecoverStuck \/ Crash \/ Restart \/ Elapse \/ ClockJump

Spec == Init /\ [][Next]_vars

\* The event loop runs the tasks and timers it holds, the interval jobs run, a
\* dead server is started again, and time passes.
Fairness ==
    /\ WF_vars(Elapse) /\ WF_vars(Restart) /\ WF_vars(RecoverStuck)
    /\ WF_vars(PauseWrite) /\ WF_vars(CheckEnd)
    /\ WF_vars(\E t \in WebTasks : RunInit(t))
    /\ WF_vars(\E t \in ServerTasks : InitTimedOut(t) \/ TimeoutReason(t))
FairSpec == Spec /\ Fairness

-----------------------------------------------------------------------------
(* Properties *)

\* Types of the row, of what each process holds, and of the history.
TypeOK ==
    /\ row \in Rows \union {None}
    /\ pausing \in Rows \union {None}
    /\ guard \in Tasks \union {Free, Check}
    /\ task \in [Tasks -> TaskRecord]
    /\ check \in {None} \union [gen: 1..MaxGen, version: 0..MaxVersion]
    /\ editing \in 0..MaxGen
    /\ up \in BOOLEAN /\ disowned \in BOOLEAN /\ jumped \in 0..MaxClaims
    /\ gens \in 0..MaxGen /\ claims \in 0..MaxClaims /\ toggles \in 0..MaxToggles

\* A READY topic has knowledge of its own incarnation: the status and the
\* knowledge land in one transaction, and no handler that read another moment
\* of the row (or the row of a deleted topic) writes READY back without it.
ReadyHasKnowledge == Exists /\ row.status = "READY" => row.version > 0

\* A step in which task t takes the row out of RESEARCHING.
Terminates(t) ==
    /\ Live(t) /\ task'[t].pc # task[t].pc
    /\ Exists /\ row' # None
    /\ row.status = "RESEARCHING" /\ row'.status # "RESEARCHING"

\* The fence (status and generation) is enough as long as no initializer works
\* without its claim, because recovery wrote it off alive or because its topic
\* was replaced before it started: then no terminal write hits another's claim.
ClaimHeldUnlessDisowned ==
    [][~disowned => \A t \in Tasks : Terminates(t) => task[t].claim = row.claim]_vars

\* Periodic recovery never gives up on an initializer of the server, unless the wall clock
\* jumped ahead under its claim: the init deadline runs out first, whenever the task was
\* started, and whatever the clock did under earlier claims.
RecoversOnlyAbandoned ==
    [][RecoverStuck /\ row.claim # jumped
         => ~\E t \in ServerTasks : Live(t) /\ task[t].claim = row.claim]_vars

\* A server initializer stores a baseline only in the incarnation it fetched
\* for: nothing built for a deleted topic reaches the one that took its id.
ServerBaselineIsOwn ==
    [][\A t \in ServerTasks :
         task[t].pc = "working" /\ Exists /\ row' # None /\ row'.base # row.base
           /\ task'[t].pc # "working"
         => row'.base = row'.gen]_vars

\* RESEARCHING does not last: the initializer ends, or recovery takes the row.
ResearchEnds == (Exists /\ row.status = "RESEARCHING") ~> ~(Exists /\ row.status = "RESEARCHING")

=============================================================================
