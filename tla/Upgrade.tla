------------------------------ MODULE Upgrade ------------------------------
(***************************************************************************)
(* What the start of a process promises about the database: one process    *)
(* at a time upgrades the schema, migration by migration, and a process is *)
(* ready only on a schema that has all of them.                            *)
(***************************************************************************)
EXTENDS Naturals

CONSTANTS Procs, Migrations

VARIABLES
    migrators,      \* the process that upgrades the schema, if any
    applied,        \* how many migrations the schema has
    ready           \* the processes that work with the schema

vars == <<migrators, applied, ready>>

Init == migrators = {} /\ applied \in 0..Migrations /\ ready = {}

Begin(p) ==
    /\ migrators = {} /\ migrators' = {p}
    /\ UNCHANGED <<applied, ready>>

Apply ==
    /\ migrators # {} /\ applied < Migrations /\ applied' = applied + 1
    /\ UNCHANGED <<migrators, ready>>

\* The upgrade is over, or was given up.
End ==
    /\ migrators' = {}
    /\ UNCHANGED <<applied, ready>>

\* A process that finds a complete schema, or has just completed it, is ready.
Ready(p) ==
    /\ applied = Migrations
    /\ ready' = ready \cup {p}
    /\ migrators' \in {migrators, {}}
    /\ UNCHANGED applied

Leave(p) ==
    /\ ready' = ready \ {p}
    /\ UNCHANGED <<migrators, applied>>

Next ==
    \/ \E p \in Procs : Begin(p) \/ Ready(p) \/ Leave(p)
    \/ Apply \/ End

Spec == Init /\ [][Next]_vars
=============================================================================
