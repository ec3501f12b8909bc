----------------------------- MODULE Migration -----------------------------
(***************************************************************************)
(* migrate_db: processes that start against the same database (proxies and *)
(* commands of the CLI) bring its schema up to date.  The table            *)
(* migration_lock is their lock: creating it fails while it exists.  A     *)
(* process that dies leaves it behind, and an operator breaks it with the  *)
(* command drop_migration_lock, alone or with --and-migrate.               *)
(*                                                                         *)
(* Migrator::up is sea-orm's: it reads the pending migrations once, then   *)
(* executes and records them one by one; a statement that meets its own    *)
(* result (a table that exists) fails.                                     *)
(***************************************************************************)
EXTENDS Integers

CONSTANTS
    Procs,          \* processes that call migrate_db
    Overriding,     \* those of them that do it with override_existing_lock
    Migrations,     \* how many migrations there are
    MaxCrashes      \* bound: processes that die

ASSUME MigrationAssumption ==
    /\ Overriding \subseteq Procs
    /\ Migrations \in Nat /\ MaxCrashes \in Nat

VARIABLES
    lock,           \* does the table migration_lock exist?
    applied,        \* how many migrations seaql_migrations records
    executed,       \* how many migrations changed the schema
    pc,             \* where each process is in migrate_db
    todo,           \* the next migration of the list that Migrator::up read
    crashes         \* processes that died so far

migrationVars == <<lock, applied, executed, pc, todo, crashes>>

\* Between acquiring the lock and giving it back.
Migrating == {"up", "execute", "record", "drop", "dropFailed"}
migrators == {p \in Procs : pc[p] \in Migrating}

MigrationInit ==
    /\ lock = FALSE
    /\ applied \in 0..Migrations /\ executed = applied
    /\ pc = [p \in Procs |-> "check"]
    /\ todo = [p \in Procs |-> 0]
    /\ crashes = 0

Goto(p, there) == pc' = [pc EXCEPT ![p] = there]

\* get_pending_migrations
Check(p) ==
    /\ pc[p] = "check"
    /\ Goto(p, IF applied = Migrations THEN "ready" ELSE "lock")
    /\ UNCHANGED <<lock, applied, executed, todo, crashes>>

\* Mutant: the lock is taken to be acquired when the table exists.
AcquireIfExists(p) ==
    /\ pc[p] = "lock" /\ lock' = TRUE
    /\ Goto(p, "up")
    /\ UNCHANGED <<applied, executed, todo, crashes>>

\* CREATE TABLE migration_lock succeeds.
Acquire(p) ==
    /\ pc[p] = "lock" /\ ~lock
    /\ lock' = TRUE
    /\ Goto(p, "up")
    /\ UNCHANGED <<applied, executed, todo, crashes>>

\* It fails: look again in a second,
Retry(p) ==
    /\ pc[p] = "lock" /\ lock /\ p \notin Overriding
    /\ Goto(p, "check")
    /\ UNCHANGED <<lock, applied, executed, todo, crashes>>

\* or go on after ten seconds in which the operator may still press ctrl+c "if
\* other migrations are actually running".
Override(p) ==
    /\ pc[p] = "lock" /\ lock /\ p \in Overriding
    /\ migrators = {}
    /\ Goto(p, "up")
    /\ UNCHANGED <<lock, applied, executed, todo, crashes>>

\* Migrator::up reads the pending migrations.
Up(p) ==
    /\ pc[p] = "up" /\ todo' = [todo EXCEPT ![p] = applied + 1]
    /\ Goto(p, "execute")
    /\ UNCHANGED <<lock, applied, executed, crashes>>

Execute(p) ==
    /\ pc[p] = "execute"
    /\ \/ todo[p] > Migrations /\ Goto(p, "drop") /\ UNCHANGED executed
       \/ todo[p] <= Migrations /\ executed < todo[p]
          /\ executed' = todo[p] /\ Goto(p, "record")
       \/ todo[p] <= Migrations /\ Goto(p, "dropFailed") /\ UNCHANGED executed
    /\ UNCHANGED <<lock, applied, todo, crashes>>

Record(p) ==
    /\ pc[p] = "record"
    /\ applied' = todo[p]
    /\ todo' = [todo EXCEPT ![p] = @ + 1]
    /\ Goto(p, "execute")
    /\ UNCHANGED <<lock, executed, crashes>>

\* Mutant: an error returns before the lock is dropped.
DropIfMigrated(p) ==
    /\ pc[p] \in {"drop", "dropFailed"}
    /\ lock' = (pc[p] = "dropFailed")
    /\ Goto(p, IF lock /\ pc[p] = "drop" THEN "ready" ELSE "failed")
    /\ todo' = [todo EXCEPT ![p] = 0]
    /\ UNCHANGED <<applied, executed, crashes>>

\* DROP TABLE migration_lock, which fails when somebody has dropped it; then
\* the result of Migrator::up is returned.
Drop(p) ==
    /\ pc[p] \in {"drop", "dropFailed"}
    /\ lock' = FALSE
    /\ Goto(p, IF lock /\ pc[p] = "drop" THEN "ready" ELSE "failed")
    /\ todo' = [todo EXCEPT ![p] = 0]
    /\ UNCHANGED <<applied, executed, crashes>>

\* The command drop_migration_lock, for an operator who is "positive no
\* migration is running".
DropMigrationLock ==
    /\ lock /\ migrators = {}
    /\ lock' = FALSE
    /\ UNCHANGED <<applied, executed, pc, todo, crashes>>

\* A process dies, and is started again.
Crash(p) ==
    /\ crashes < MaxCrashes /\ crashes' = crashes + 1
    /\ pc[p] \notin {"failed", "crashed"}
    /\ Goto(p, "crashed")
    /\ todo' = [todo EXCEPT ![p] = 0]
    /\ UNCHANGED <<lock, applied, executed>>

Restart(p) ==
    /\ pc[p] = "crashed"
    /\ Goto(p, "check")
    /\ UNCHANGED <<lock, applied, executed, todo, crashes>>

MigrateStep(p) ==
    \/ Check(p) \/ Acquire(p) \/ Retry(p) \/ Override(p)
    \/ Up(p) \/ Execute(p) \/ Record(p) \/ Drop(p)

MigrationNext ==
    \/ \E p \in Procs : MigrateStep(p) \/ Crash(p) \/ Restart(p)
    \/ DropMigrationLock

MigrationSpec == MigrationInit /\ [][MigrationNext]_migrationVars

-----------------------------------------------------------------------------
MigrationTypeOK ==
    /\ lock \in BOOLEAN
    /\ applied \in 0..Migrations
    /\ executed \in 0..Migrations
    /\ pc \in [Procs -> Migrating \cup {"check", "lock", "ready", "failed", "crashed"}]
    /\ todo \in [Procs -> 0..(Migrations + 1)]
    /\ crashes \in 0..MaxCrashes

\* "It is very important that only one process is running the migrations at a
\* time!" (migrate_db), and the lock is held as long as it does.
OneMigrator ==
    /\ \A p, q \in migrators : p = q
    /\ migrators # {} => lock

\* A process gets a connection from get_migrated_db only to a database with
\* the newest schema, whoever migrated it and whatever failed on the way.
ReadyMigrated == \A p \in Procs : pc[p] = "ready" => applied = Migrations

\* seaql_migrations never records a migration that did not run; the two differ
\* only by the migration a process is recording, or died recording.
RecordsExecuted ==
    /\ applied \in {executed, executed - 1}
    /\ applied # executed =>
         (\E p \in Procs : pc[p] = "record") \/ crashes > 0

\* What a migrator knows of the schema: nobody changes it behind its back.
MigratorKnows ==
    \A p \in Procs :
        /\ pc[p] \in {"execute", "record"} => todo[p] = applied + 1
        /\ pc[p] = "record" => executed = todo[p]
        /\ pc[p] = "drop" => applied = Migrations

\* The inductive invariant.
MigrationInv ==
    MigrationTypeOK /\ OneMigrator /\ ReadyMigrated /\ RecordsExecuted /\ MigratorKnows

U == INSTANCE Upgrade WITH ready <- {p \in Procs : pc[p] = "ready"}

\* migrate_db implements Upgrade: migrations are applied one by one and in order,
\* and a process is ready only when all of them are.
Upgrades == U!Spec

\* A process that waits for the lock gets its connection, or an error, as long
\* as no process dies: a lock that is left behind stops everybody.
MigrationEnds ==
    \A p \in Procs : pc[p] = "lock" ~>
        pc[p] \in {"ready", "failed"} \/ crashes > 0
=============================================================================
