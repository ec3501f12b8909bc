----------------------------- MODULE Admission -----------------------------
(***************************************************************************)
(* What a JSON-RPC request passes before it is proxied                     *)
(* (frontend/authorization.rs, frontend/rpc_proxy_http.rs), beside the     *)
(* accounts that it is checked against.                                    *)
(*                                                                         *)
(* A request with an rpc key is checked against what the database says of  *)
(* the key, through a cache that keeps an answer, "unknown" too, for       *)
(* TimeToLive; requests that miss together share one fetch, which is three *)
(* queries of the replica.  Then it waits for a permit of its user, its    *)
(* headers are checked and the rate limiter is asked.  A request without a *)
(* key is rate limited first, and then waits for a permit of its ip.       *)
(* Clients send one request after another, for ever.                       *)
(***************************************************************************)
EXTENDS Accounts

CONSTANTS
    TimeToLive,     \* 600 seconds, in ticks
    MaxTime,        \* 120 seconds, in ticks: the timeout of proxy_web3_rpc
    PublicMax,      \* public_max_concurrent_requests
    AllProcs,       \* bound: the processes
    AllClients      \* and clients of all scenarios

VARIABLES
    cache,          \* rpc_secret_key_cache: by secret key, the checks and their age
    fetching,       \* by secret key, the client whose request runs the fetch
    request         \* per client: its request

admissionVars == <<cache, fetching, request>>
vars == <<accountsVars, sems, admissionVars>>

Clients == DOMAIN request
Secret(c) == scenario.clients[c].secret      \* 0: no key in the url

\* AuthorizationChecks::default(): no key id.
Unknown == [user_id |-> 0, key_id |-> 0, concurrent |-> 0, origin |-> 0, mode |-> "best"]
Idle == [pc |-> "idle", checks |-> Unknown, tier |-> "free", sem |-> 0, age |-> 0]

InitAdmission ==
    /\ cache = <<>> /\ fetching = <<>>
    /\ request = [c \in DOMAIN scenario.clients |-> Idle]

Init == InitSemaphores /\ InitAccounts /\ InitAdmission

Req(c, pc) == request[c].pc = pc

\* The request is answered, or its client is gone; a permit is dropped with it.
Answer(c) ==
    /\ request' = [request EXCEPT ![c] = Idle]
    /\ Leave(c, request[c].sem) /\ UNCHANGED cached

Without(f, k) == [x \in DOMAIN f \ {k} |-> f[x]]

-----------------------------------------------------------------------------

Arrive(c) ==
    /\ Req(c, "idle")
    /\ request' = [request EXCEPT ![c].pc = IF Secret(c) = 0 THEN "throttle" ELSE "lookup"]
    /\ UNCHANGED <<accountsVars, sems, cache, fetching>>

\* Mutant of Lookup: the cache forgets by idle time, so that a hit keeps an entry.
LookupKeeps(c) ==
    /\ Req(c, "lookup")
    /\ \/ /\ Secret(c) \in DOMAIN cache
          /\ request' = [request EXCEPT ![c].pc = "checked", ![c].checks = cache[Secret(c)].checks]
          /\ cache' = [cache EXCEPT ![Secret(c)].age = 0] /\ UNCHANGED fetching
       \/ /\ Secret(c) \notin DOMAIN cache \cup DOMAIN fetching
          /\ request' = [request EXCEPT ![c].pc = "key"]
          /\ fetching' = (Secret(c) :> c) @@ fetching /\ UNCHANGED cache
    /\ UNCHANGED <<accountsVars, sems>>

\* try_get_with: a hit, or the fetch, unless another request runs it.
Lookup(c) ==
    /\ Req(c, "lookup")
    /\ \/ /\ Secret(c) \in DOMAIN cache
          /\ request' = [request EXCEPT ![c].pc = "checked", ![c].checks = cache[Secret(c)].checks]
          /\ UNCHANGED fetching
       \/ /\ Secret(c) \notin DOMAIN cache \cup DOMAIN fetching
          /\ request' = [request EXCEPT ![c].pc = "key"]
          /\ fetching' = (Secret(c) :> c) @@ fetching
    /\ UNCHANGED <<accountsVars, sems, cache>>

\* The requests that wait for the fetch of c.
Waiting(c) == {w \in Clients : Req(w, "lookup") /\ Secret(w) = Secret(c)}

\* The fetch is done: its result is cached, and given to all that wait for it.
Fetched(c, checks) ==
    /\ cache' = (Secret(c) :> [checks |-> checks, age |-> 0]) @@ cache
    /\ fetching' = Without(fetching, Secret(c))
    /\ request' = [w \in Clients |-> IF w \in Waiting(c) \cup {c} THEN [Idle EXCEPT !.pc = "checked", !.checks = checks]
                                     ELSE request[w]]

\* Its queries: the active key, ...
FetchKey(c) ==
    /\ Req(c, "key")
    /\ LET found == {k \in KeyWith(replica, Secret(c)) : replica.rpc_key[k].active} IN
       \/ found = {} /\ Fetched(c, Unknown)
       \/ \E k \in found :
            /\ request' = [request EXCEPT ![c].pc = "user", ![c].checks =
                 [Unknown EXCEPT !.user_id = replica.rpc_key[k].user_id, !.key_id = k,
                                 !.origin = replica.rpc_key[k].origin, !.mode = scenario.clients[c].mode]]
            /\ UNCHANGED <<cache, fetching>>
    /\ UNCHANGED <<accountsVars, sems>>

\* ... its user, ...
FetchUser(c) ==
    /\ Req(c, "user")
    /\ request' = [request EXCEPT ![c].pc = "tier", ![c].tier = replica.user[request[c].checks.user_id].tier]
    /\ UNCHANGED <<accountsVars, sems, cache, fetching>>

\* ... and the user's tier.
FetchTier(c) ==
    /\ Req(c, "tier")
    /\ Fetched(c, [request[c].checks EXCEPT !.concurrent = replica.user_tier[request[c].tier]])
    /\ UNCHANGED <<accountsVars, sems>>

Fetches(c) == request[c].pc \in {"key", "user", "tier"}

\* A query fails: all that wait for the fetch get the error, and nothing is cached.
FetchFails(c) ==
    /\ Fetches(c) /\ drops > 0 /\ drops' = drops - 1
    /\ fetching' = Without(fetching, Secret(c))
    /\ \E W \in SUBSET Waiting(c) :
         request' = [w \in Clients |-> IF w \in W \cup {c} THEN Idle ELSE request[w]]
    /\ UNCHANGED <<scenario, tables, job, sems, cache>>

\* rate_limit_by_rpc_key: an unknown key is refused; registered_user_semaphore makes
\* the request wait for a permit, unless the tier has no limit (-1).
Checked(c) ==
    /\ Req(c, "checked")
    /\ LET r == request[c].checks
           key == <<"user", r.user_id>> IN
       \/ r.key_id = 0 /\ Answer(c)
       \/ /\ r.key_id # 0 /\ r.concurrent = -1
          /\ request' = [request EXCEPT ![c].pc = "line"] /\ UNCHANGED sems
       \/ /\ r.key_id # 0 /\ r.concurrent # -1
          /\ GetWith(key, r.concurrent, c)
          /\ request' = [request EXCEPT ![c].pc = "line", ![c].sem = IdFor(key)]
    /\ UNCHANGED <<accountsVars, cache, fetching>>

\* rate_limit_by_ip: the rate limiter first, then ip_semaphore.
Throttle(c) ==
    /\ Req(c, "throttle")
    /\ \/ Answer(c)
       \/ LET key == <<"ip", 0>> IN
          /\ GetWith(key, PublicMax, c)
          /\ request' = [request EXCEPT ![c].pc = "line", ![c].sem = IdFor(key)]
    /\ UNCHANGED <<accountsVars, cache, fetching>>

HasPermit(c) == IF request[c].sem = 0 THEN TRUE ELSE Holds(c, request[c].sem)
Allowed(c) == LET o == request[c].checks.origin IN o = 0 \/ o = scenario.clients[c].origin

\* Mutant of Admit: the permit of a request that is refused is never given back.
AdmitLeaks(c) ==
    /\ Req(c, "line") /\ HasPermit(c)
    /\ \/ Allowed(c) /\ request' = [request EXCEPT ![c].pc = "proxy"]
       \/ Secret(c) # 0 /\ request' = [request EXCEPT ![c] = Idle]
    /\ UNCHANGED <<accountsVars, sems, cache, fetching>>

\* Mutant of Admit: the permit is dropped before the request is proxied.
AdmitReleases(c) ==
    /\ Req(c, "line") /\ HasPermit(c)
    /\ Allowed(c) /\ request' = [request EXCEPT ![c].pc = "proxy"]
    /\ Leave(c, request[c].sem)
    /\ UNCHANGED <<accountsVars, cached, cache, fetching>>

\* With the permit: Authorization::try_new checks the headers and the rate limiter is
\* asked (for a key, only now).  Then the request is proxied.
Admit(c) ==
    /\ Req(c, "line") /\ HasPermit(c)
    /\ \/ Allowed(c) /\ request' = [request EXCEPT ![c].pc = "proxy"] /\ UNCHANGED sems
       \/ Secret(c) # 0 /\ Answer(c)
    /\ UNCHANGED <<accountsVars, cache, fetching>>

\* proxy_web3_rpc returned, or timed out.
Finish(c) ==
    /\ Req(c, "proxy") /\ Answer(c)
    /\ UNCHANGED <<accountsVars, cache, fetching>>

\* The client closes its connection, which drops the handler; another request takes
\* over its fetch.
Disconnect(c) ==
    /\ ~Req(c, "idle") /\ drops > 0 /\ drops' = drops - 1
    /\ Answer(c)
    /\ fetching' = IF Fetches(c) THEN Without(fetching, Secret(c)) ELSE fetching
    /\ UNCHANGED <<scenario, tables, job, cache>>

\* A tick of the clock ages the caches and the requests under way.
Tick ==
    /\ \A c \in Clients : request[c].age < MaxTime
    /\ DOMAIN cache # {} \/ DOMAIN cached # {} \/ \E c \in Clients : Req(c, "proxy")
    /\ cache' = [s \in {s \in DOMAIN cache : cache[s].age + 1 < TimeToLive} |-> [cache[s] EXCEPT !.age = @ + 1]]
    /\ request' = [c \in Clients |-> IF Req(c, "proxy") THEN [request[c] EXCEPT !.age = @ + 1] ELSE request[c]]
    /\ IdleTick
    /\ UNCHANGED <<accountsVars, fetching>>

Serve(c) ==
    \/ Lookup(c) \/ FetchKey(c) \/ FetchUser(c) \/ FetchTier(c) \/ Checked(c) \/ Throttle(c) \/ Admit(c) \/ Finish(c)

Next ==
    \/ AccountsNext /\ UNCHANGED admissionVars
    \/ \E c \in Clients : Arrive(c) \/ Serve(c) \/ FetchFails(c) \/ Disconnect(c)
    \/ Tick

\* Replication and the clock go on, and the next step of a handler, a command or a
\* request is eventually taken.  Nothing is promised about clients that leave.
FairSpec ==
    /\ Init /\ [][Next]_vars
    /\ WF_vars(Tick) /\ WF_vars(Replicate /\ UNCHANGED admissionVars)
    /\ \A p \in AllProcs : WF_vars(p \in Procs /\ Step(p) /\ UNCHANGED admissionVars)
    /\ \A c \in AllClients : WF_vars(c \in Clients /\ Serve(c))

-----------------------------------------------------------------------------
(* Properties.                                                             *)

\* Types; a fetch is run by a request for its key, which is not cached, and a cached
\* semaphore exists; keys and logins belong to users.
TypeOK ==
    /\ DOMAIN fetching \subseteq {Secret(c) : c \in Clients}
    /\ \A s \in DOMAIN fetching : Fetches(fetching[s]) /\ Secret(fetching[s]) = s /\ s \notin DOMAIN cache
    /\ \A s \in DOMAIN cache : cache[s].age \in 0..(TimeToLive - 1)
    /\ \A k \in DOMAIN cached : cached[k].idle \in 0..(TimeToIdle - 1) /\ semaphores[cached[k].id] # NoSemaphore
    /\ \A c \in Clients : request[c].age \in 0..MaxTime
    /\ \A k \in DOMAIN db.rpc_key : db.rpc_key[k].user_id \in DOMAIN db.user
    /\ \A l \in db.login : l.user_id \in DOMAIN db.user

\* A semaphore admits no more requests than its size: the permit is kept until the
\* answer is there, whatever ended the ones before (rpc_proxy_http.rs hands the permit
\* through the call of proxy_web3_rpc).
PermitsBound ==
    \A i \in DOMAIN semaphores :
        Cardinality({c \in Clients : Req(c, "proxy") /\ request[c].sem = i}) <= semaphores[i].size

\* What the database says of a key now.
ChecksNow(s) ==
    LET found == {k \in KeyWith(db, s) : db.rpc_key[k].active} IN
    IF found = {} THEN Unknown
    ELSE LET k == CHOOSE k \in found : TRUE
             u == db.rpc_key[k].user_id IN
         [Unknown EXCEPT !.user_id = u, !.key_id = k, !.origin = db.rpc_key[k].origin,
                         !.concurrent = db.user_tier[db.user[u].tier]]

\* Changes of a key, its owner or its tier take effect, however busy the key is: in the
\* end, the cache has nothing about it that the database does not say (the entries of
\* rpc_secret_key_cache live for a fixed time, and "unknown" is one of them).
ChangesTakeEffect ==
    \A c \in AllClients :
        <>[](c \in Clients /\ Secret(c) \in DOMAIN cache =>
                [cache[Secret(c)].checks EXCEPT !.mode = "best"] = ChecksNow(Secret(c)))

\* Every request is answered: no permit is lost, and no fetch is left behind by the
\* request that ran it (ip_semaphore, registered_user_semaphore, authorization_checks).
RequestsAnswered ==
    \A c \in AllClients : (c \in Clients /\ ~Req(c, "idle")) ~> (c \in Clients /\ Req(c, "idle"))

\* Not true of the code: a user runs no more requests at once than its tier allows
\* ("Limit the number of concurrent requests from the given rpc key.",
\* authorization.rs:485).  The cache forgets a semaphore while a request that had to
\* wait for its permit still runs.
ConcurrencyLimited ==
    \A c \in Clients : Req(c, "proxy") /\ request[c].checks.concurrent > 0 =>
        Cardinality({d \in Clients : /\ Req(d, "proxy")
                                     /\ request[d].checks.user_id = request[c].checks.user_id})
            <= request[c].checks.concurrent

\* Not true of the code: a request is proxied in the mode of its route ("authenticated
\* fastest with and without trailing slash", frontend/mod.rs).  The mode is cached with
\* the checks of the key.
ModeOfRoute ==
    \A c \in Clients : Req(c, "proxy") /\ Secret(c) # 0 => request[c].checks.mode = scenario.clients[c].mode
=============================================================================
