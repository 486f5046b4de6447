----------------------------- MODULE Migrations -----------------------------
(***************************************************************************)
(* Opening the database: every process that starts (the server, each       *)
(* command) validates the ledger of applied migrations, backs the database *)
(* up when some are pending, and applies them one transaction each.  What  *)
(* is pending was read before the write lock is taken, so two processes    *)
(* may set out to apply the same migration; processes of an older and of a *)
(* newer release may meet at one database.                                 *)
(***************************************************************************)
EXTENDS Naturals, FiniteSets

CONSTANTS
    Processes, None,
    Newest,      \* the registry of the newest release is 1..Newest
    MaxStarts    \* bound: processes started

VARIABLES
    ledger,  \* schema_version
    schema,  \* the migrations whose bodies took effect in the database
    lock,    \* SQLite's write lock
    process, \* per process: where it is, its registry, the migration it is at
    starts

vars == <<ledger, schema, lock, process, starts>>

Moved(p, at) == process' = [process EXCEPT ![p].at = at]

\* Mutant: the highest version speaks for all below it.
HighestKnown(versions, known) == \A v \in versions : v <= known

\* _validate_ledger: the first of the known migrations, without a hole.
ValidLedger(versions, known) == versions = 1..Cardinality(versions) /\ Cardinality(versions) <= known

\* init_db, run_migrations
Open(p) ==
    /\ process[p].at = "down" /\ starts < MaxStarts
    /\ starts' = starts + 1
    /\ \E known \in 1..Newest :
        LET next == IF ledger = {} THEN 1 ELSE (CHOOSE v \in ledger : \A u \in ledger : u <= v) + 1
            at == IF ~ValidLedger(ledger, known) THEN "refused"
                  ELSE IF next > known THEN "serving" ELSE "backup"
        IN process' = [process EXCEPT ![p] = [at |-> at, known |-> known, next |-> next]]
    /\ UNCHANGED <<ledger, schema, lock>>

\* _backup_db: a copy that fails its integrity check ends the start.
Backup(p) ==
    /\ process[p].at = "backup"
    /\ \E at \in {"begin", "failed"} : Moved(p, at)
    /\ UNCHANGED <<ledger, schema, lock, starts>>

BeginImmediate(p) ==
    /\ process[p].at = "begin"
    /\ \/ lock = None /\ lock' = p /\ Moved(p, "body")
       \/ lock # None /\ Moved(p, "failed") /\ UNCHANGED lock    \* busy_timeout
    /\ UNCHANGED <<ledger, schema, starts>>

\* After a rollback nothing of the migration is left.
RolledBack(p) == schema

\* The body raises, or the ledger has the row already.
Abandon(p) ==
    /\ process[p].at = "body" /\ lock' = None /\ schema' = RolledBack(p)
    /\ Moved(p, "failed")
    /\ UNCHANGED <<ledger, starts>>

Commit(p) ==
    /\ process[p].at = "body" /\ process[p].next \notin ledger
    /\ ledger' = ledger \union {process[p].next}
    /\ schema' = schema \union {process[p].next}
    /\ lock' = None
    /\ process' = [process EXCEPT ![p] =
                     [at |-> IF @.next < @.known THEN "begin" ELSE "serving",
                      known |-> @.known, next |-> @.next + 1]]
    /\ UNCHANGED starts

\* The process ends, at any point; SQLite rolls its transaction back.
Exit(p) ==
    /\ process[p].at # "down"
    /\ Moved(p, "down")
    /\ lock' = IF lock = p THEN None ELSE lock
    /\ schema' = IF lock = p THEN RolledBack(p) ELSE schema
    /\ UNCHANGED <<ledger, starts>>

\* A database as releases and commands left it, or as a partial restore did.
Init ==
    /\ ledger \in SUBSET (1..Newest) /\ schema = ledger
    /\ lock = None
    /\ process = [p \in Processes |-> [at |-> "down", known |-> 1, next |-> 1]]
    /\ starts = 0

Next == \E p \in Processes :
    Open(p) \/ Backup(p) \/ BeginImmediate(p) \/ Abandon(p) \/ Commit(p) \/ Exit(p)

Spec == Init /\ [][Next]_vars

-----------------------------------------------------------------------------
(* Properties *)

\* No process serves a database it has not the schema of: when it begins to
\* serve, the migrations of its release, all of them and no others, are applied.
ServesItsSchema ==
    [][\A p \in Processes :
        process[p].at # "serving" /\ process'[p].at = "serving"
            => schema' = 1..process'[p].known]_vars
=============================================================================
