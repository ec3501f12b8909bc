----------------------------- MODULE Semaphores -----------------------------
(***************************************************************************)
(* The semaphores that limit concurrent requests (frontend/authorization.rs).*)
(* There is one per ip address, registered user and bearer token, made by  *)
(* the first request that needs it and kept in a cache that forgets an     *)
(* entry nobody asked for during TimeToIdle (app/mod.rs).  A forgotten     *)
(* semaphore lives on for those that hold or await one of its permits.     *)
(*                                                                         *)
(* A tokio semaphore is fair: it is a line of holders and waiters, and the *)
(* first "size" of the line hold the permits.                              *)
(***************************************************************************)
EXTENDS Integers, Sequences, FiniteSets, FiniteSetsExt, SequencesExt, TLC

CONSTANTS
    MaxSemaphores,  \* bound: semaphores that exist at the same time
    TimeToIdle      \* 120 seconds, in ticks

VARIABLES
    semaphores,     \* each semaphore: its size and its line
    cached          \* per key: its semaphore and for how long nobody asked for it

NoSemaphore == [size |-> 0, line |-> <<>>]

InitSemaphores == semaphores = [i \in 1..MaxSemaphores |-> NoSemaphore] /\ cached = <<>>

CachedIds(c) == {c[k].id : k \in DOMAIN c}

\* Dropping the last Arc of a semaphore frees it.
Freed(s, c) == [i \in DOMAIN s |-> IF s[i].line = <<>> /\ i \notin CachedIds(c) THEN NoSemaphore ELSE s[i]]

FreeId == Min({i \in DOMAIN semaphores : semaphores[i].line = <<>> /\ i \notin CachedIds(cached)})

\* The semaphore get_with returns for key.
IdFor(key) == IF key \in DOMAIN cached THEN cached[key].id ELSE FreeId

\* get_with(key, Semaphore::new(size)), then acquire_owned: p joins the line.  The
\* size only counts for the request that makes the semaphore.
GetWith(key, size, p) ==
    LET id == IdFor(key)
        s == IF key \in DOMAIN cached THEN semaphores[id].size ELSE size IN
    /\ cached' = (key :> [id |-> id, idle |-> 0]) @@ cached
    /\ semaphores' = [semaphores EXCEPT ![id] = [size |-> s, line |-> Append(@.line, p)]]

\* acquire_owned returned.
Holds(p, id) == \E i \in 1..Len(semaphores[id].line) : i <= semaphores[id].size /\ semaphores[id].line[i] = p

\* The permit, or the place in the line, is dropped; 0 is no semaphore.
Leave(p, id) ==
    semaphores' = IF id = 0 THEN semaphores
                  ELSE Freed([semaphores EXCEPT ![id].line = SelectSeq(@, LAMBDA q : q # p)], cached)

\* A tick passes for the cache.
IdleTick ==
    LET kept == {k \in DOMAIN cached : cached[k].idle + 1 < TimeToIdle} IN
    /\ cached' = [k \in kept |-> [cached[k] EXCEPT !.idle = @ + 1]]
    /\ semaphores' = Freed(semaphores, cached')
=============================================================================
