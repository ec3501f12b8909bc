--------------------------- MODULE MigrationProofs ---------------------------
(***************************************************************************)
(* Migration is correct for every number of processes, migrations and      *)
(* crashes: MigrationInv is inductive, and migrate_db implements Upgrade.  *)
(***************************************************************************)
EXTENDS Migration, TLAPS

\* The invariant holds before any process has started to migrate.
LEMMA InitMigrationInv == MigrationInit => MigrationInv
<1> SUFFICES ASSUME MigrationInit PROVE MigrationInv
    OBVIOUS
<1> USE MigrationAssumption DEF MigrationInit
<1>1. MigrationTypeOK
  <2>1. lock \in BOOLEAN
    BY Zenon
  <2>2. pc \in [Procs -> Migrating \cup {"check", "lock", "ready", "failed", "crashed"}]
    BY DEF Migrating
  <2>3. todo \in [Procs -> 0..(Migrations + 1)]
    OBVIOUS
  <2>4. applied \in 0..Migrations /\ executed \in 0..Migrations /\ crashes \in 0..MaxCrashes
    OBVIOUS
  <2> QED
    BY <2>1, <2>2, <2>3, <2>4 DEF MigrationTypeOK
<1>2. OneMigrator
    BY DEF OneMigrator, migrators, Migrating
<1>3. ReadyMigrated /\ MigratorKnows /\ RecordsExecuted
    BY DEF ReadyMigrated, MigratorKnows, RecordsExecuted
<1> QED
    BY <1>1, <1>2, <1>3 DEF MigrationInv

\* Every step of a process, of the operator or of fate preserves the invariant:
\* the lock keeps the migrators apart, and nobody else writes the schema.
LEMMA StepMigrationInv ==
    MigrationInv /\ [MigrationNext]_migrationVars => MigrationInv'
<1> SUFFICES ASSUME MigrationInv, [MigrationNext]_migrationVars PROVE MigrationInv'
    OBVIOUS
<1> USE MigrationAssumption DEF MigrationInv, MigrationTypeOK, OneMigrator, ReadyMigrated,
        RecordsExecuted, MigratorKnows, migrators, Migrating, Goto
<1>1. ASSUME NEW p \in Procs, Check(p) PROVE MigrationInv'
    BY <1>1 DEF Check
<1>2. ASSUME NEW p \in Procs, Acquire(p) PROVE MigrationInv'
    BY <1>2 DEF Acquire
<1>3. ASSUME NEW p \in Procs, Retry(p) PROVE MigrationInv'
    BY <1>3 DEF Retry
<1>4. ASSUME NEW p \in Procs, Override(p) PROVE MigrationInv'
    BY <1>4 DEF Override
<1>5. ASSUME NEW p \in Procs, Up(p) PROVE MigrationInv'
    BY <1>5 DEF Up
<1>6. ASSUME NEW p \in Procs, Execute(p) PROVE MigrationInv'
    BY <1>6 DEF Execute
<1>7. ASSUME NEW p \in Procs, Record(p) PROVE MigrationInv'
<2> USE <1>7 DEF Record
<2>1. MigrationTypeOK'
    OBVIOUS
<2>2. OneMigrator'
    OBVIOUS
<2>3. ReadyMigrated' /\ RecordsExecuted' /\ MigratorKnows'
    OBVIOUS
<2> QED
    BY <2>1, <2>2, <2>3
<1>8. ASSUME NEW p \in Procs, Drop(p) PROVE MigrationInv'
<2> USE <1>8 DEF Drop
<2>1. MigrationTypeOK'
  <3>1. lock' \in BOOLEAN
    OBVIOUS
  <3>2. todo' \in [Procs -> 0..(Migrations + 1)]
    OBVIOUS
  <3>3. pc' \in [Procs -> Migrating \cup {"check", "lock", "ready", "failed", "crashed"}]
    OBVIOUS
  <3> QED
    BY <3>1, <3>2, <3>3
<2>2. migrators = {p} /\ migrators' = {}
    OBVIOUS
<2>3. OneMigrator'
    BY <2>2
<2>4. ReadyMigrated' /\ RecordsExecuted' /\ MigratorKnows'
    OBVIOUS
<2> QED
    BY <2>1, <2>3, <2>4
<1>9. ASSUME NEW p \in Procs, Crash(p) PROVE MigrationInv'
    BY <1>9 DEF Crash
<1>10. ASSUME NEW p \in Procs, Restart(p) PROVE MigrationInv'
    BY <1>10 DEF Restart
<1>11. CASE DropMigrationLock
    BY <1>11 DEF DropMigrationLock
<1>12. CASE UNCHANGED migrationVars
    BY <1>12 DEF migrationVars
<1> QED
    BY <1>1, <1>2, <1>3, <1>4, <1>5, <1>6, <1>7, <1>8, <1>9, <1>10, <1>11, <1>12
       DEF MigrationNext, MigrateStep

\* At most one process migrates and holds the lock while it does; a process is
\* ready only on a complete schema; what is recorded was executed.
THEOREM MigrationInvariant == MigrationSpec => []MigrationInv
BY InitMigrationInv, StepMigrationInv, PTL DEF MigrationSpec

\* The theorem's parts by name: the mutual exclusion of migrate_db,
THEOREM OneMigratorAlways == MigrationSpec => []OneMigrator
BY MigrationInvariant, PTL DEF MigrationInv

\* and what get_migrated_db promises to its caller.
THEOREM ReadyAlwaysMigrated == MigrationSpec => []ReadyMigrated
BY MigrationInvariant, PTL DEF MigrationInv

\* A step of Migration is a step of Upgrade, or leaves its variables alone.
LEMMA StepUpgrades ==
    MigrationInv /\ [MigrationNext]_migrationVars => [U!Next]_(U!vars)
<1> SUFFICES ASSUME MigrationInv, [MigrationNext]_migrationVars PROVE [U!Next]_(U!vars)
    OBVIOUS
<1> USE MigrationAssumption DEF MigrationInv, MigrationTypeOK, OneMigrator, ReadyMigrated,
        MigratorKnows, migrators, Migrating, Goto, U!vars
<1>1. ASSUME NEW p \in Procs, Check(p) PROVE U!Ready(p) \/ UNCHANGED U!vars
    BY <1>1 DEF Check, U!Ready
<1>2. ASSUME NEW p \in Procs, Acquire(p) PROVE U!Begin(p)
    BY <1>2 DEF Acquire, U!Begin
<1>3. ASSUME NEW p \in Procs, Retry(p) PROVE UNCHANGED U!vars
    BY <1>3 DEF Retry
<1>4. ASSUME NEW p \in Procs, Override(p) PROVE U!Begin(p)
    BY <1>4 DEF Override, U!Begin
<1>5. ASSUME NEW p \in Procs, Up(p) \/ Execute(p) PROVE UNCHANGED U!vars
    BY <1>5 DEF Up, Execute
<1>6. ASSUME NEW p \in Procs, Record(p) PROVE U!Apply
    BY <1>6 DEF Record, U!Apply
<1>7. ASSUME NEW p \in Procs, Drop(p) PROVE U!Ready(p) \/ U!End
    BY <1>7 DEF Drop, U!Ready, U!End
<1>8. ASSUME NEW p \in Procs, Crash(p) PROVE U!End \/ U!Leave(p)
    BY <1>8 DEF Crash, U!End, U!Leave
<1>9. ASSUME NEW p \in Procs, Restart(p) PROVE UNCHANGED U!vars
    BY <1>9 DEF Restart
<1>10. CASE DropMigrationLock
    BY <1>10 DEF DropMigrationLock
<1>11. CASE UNCHANGED migrationVars
    BY <1>11 DEF migrationVars
<1> QED
    BY <1>1, <1>2, <1>3, <1>4, <1>5, <1>6, <1>7, <1>8, <1>9, <1>10, <1>11
       DEF MigrationNext, MigrateStep, U!Next

\* migrate_db implements Upgrade: one process at a time, one migration after
\* the other, and nobody works with an incomplete schema.
THEOREM MigrationImplementsUpgrade == MigrationSpec => Upgrades
<1>1. MigrationInit => U!Init
    BY MigrationAssumption DEF MigrationInit, U!Init, migrators, Migrating
<1> QED
    BY <1>1, StepUpgrades, MigrationInvariant, PTL DEF MigrationSpec, Upgrades, U!Spec
=============================================================================
