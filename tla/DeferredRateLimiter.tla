------------------------ MODULE DeferredRateLimiter ------------------------
(***************************************************************************)
(* DeferredRateLimiter<K>::throttle for one key: proxies that share one    *)
(* redis counter, each with a local counter in front of it.  Far from the  *)
(* limit a request is allowed at once and redis is incremented by a        *)
(* background task; close to the limit the request waits for redis; above  *)
(* it the request is denied without asking redis.  Redis may fail, with or *)
(* without having counted the request.                                     *)
(***************************************************************************)
EXTENDS Integers, FiniteSets

CONSTANTS
    Proxies,        \* processes that share the redis server
    Requests,       \* calls of throttle, each made once, with count = 1
    Max,            \* max_requests_per_period
    MaxPeriod,      \* bound: periods that a behaviour goes through
    NoProxy,        \* where a request that was not made yet is
    NoCount         \* no entry in local_cache

ASSUME LimiterAssumption ==
    /\ IsFiniteSet(Requests)
    /\ Max \in Nat \ {0}
    /\ MaxPeriod \in Nat
    /\ NoProxy \notin Proxies
    /\ NoCount \notin Int

VARIABLES
    period,     \* the period that throttle_key names
    counted,    \* requests that redis counted under the current key
    local,      \* local[p]: the AtomicU64 in local_cache, or NoCount
    since,      \* since[p]: the period of the count stored in it last
    pc,         \* pc[r]: how far throttle, or its background task, has come
    at,         \* at[r]: the proxy that got the request
    reply,      \* reply[r]: <<new_count, period>> that redis answered
    attached,   \* requests whose counter is still the one in local_cache
    allowed,    \* requests of this period that were answered Allowed
    denied,     \* requests that were answered RetryAt
    failed      \* requests that redis failed, or that were dropped, in this period

counters == <<counted, local, since, attached>>
answers == <<allowed, denied, failed>>
vars == <<period, counters, pc, at, reply, answers>>

Init ==
    /\ period = 0
    /\ counted = {}
    /\ local = [p \in Proxies |-> NoCount]
    /\ since = [p \in Proxies |-> 0]
    /\ pc = [r \in Requests |-> "idle"]
    /\ at = [r \in Requests |-> NoProxy]
    /\ reply = [r \in Requests |-> <<0, 0>>]
    /\ attached = {}
    /\ allowed = {} /\ denied = {} /\ failed = {}

\* From here on a request waits for redis: 99 % of the limit, or one below it.
Limit == IF Max <= 100 THEN Max - 1 ELSE (99 * Max) \div 100

Initializing(p) == \E r \in Requests : at[r] = p /\ pc[r] \in {"init", "init_got"}

-----------------------------------------------------------------------------
(* throttle, up to the local decision                                      *)

\* local_cache.get_with, no entry: the first request initializes it from
\* redis, the others wait for that.
Miss(r, p) ==
    /\ pc[r] = "idle" /\ local[p] = NoCount
    /\ at' = [at EXCEPT ![r] = p]
    /\ pc' = [pc EXCEPT ![r] = IF Initializing(p) THEN "wait" ELSE "init"]
    /\ UNCHANGED <<period, counters, reply, answers>>

\* Mutant: the background task is not spawned.
FetchAddNoJob(r, p) ==
    LET expected == local[p] + 1 IN
    /\ pc[r] = "idle" \/ (pc[r] = "wait" /\ at[r] = p)
    /\ local[p] # NoCount
    /\ at' = [at EXCEPT ![r] = p]
    /\ local' = [local EXCEPT ![p] = expected]
    /\ attached' = attached \cup {r}
    /\ pc' = [pc EXCEPT ![r] = IF expected > Limit /\ expected <= Max THEN "ask" ELSE "done"]
    /\ allowed' = IF expected <= Limit THEN allowed \cup {r} ELSE allowed
    /\ denied' = IF expected > Max THEN denied \cup {r} ELSE denied
    /\ UNCHANGED <<period, counted, since, reply, failed>>

\* An entry: count locally and decide.
FetchAdd(r, p) ==
    LET expected == local[p] + 1 IN
    /\ pc[r] = "idle" \/ (pc[r] = "wait" /\ at[r] = p)
    /\ local[p] # NoCount
    /\ at' = [at EXCEPT ![r] = p]
    /\ local' = [local EXCEPT ![p] = expected]
    /\ attached' = attached \cup {r}
    /\ \/ /\ expected > Max
          /\ denied' = denied \cup {r}
          /\ pc' = [pc EXCEPT ![r] = "done"]
          /\ UNCHANGED allowed
       \/ /\ expected <= Max /\ expected > Limit
          /\ pc' = [pc EXCEPT ![r] = "ask"]
          /\ UNCHANGED <<allowed, denied>>
       \/ /\ expected <= Limit
          /\ allowed' = allowed \cup {r}
          /\ pc' = [pc EXCEPT ![r] = "job"]
          /\ UNCHANGED denied
    /\ UNCHANGED <<period, counted, since, reply, failed>>

-----------------------------------------------------------------------------
(* RedisRateLimiter::throttle_label, as throttle sees it                   *)

Got(s) == CASE s = "init" -> "init_got" [] s = "ask" -> "ask_got" [] s = "job" -> "job_got"

\* Redis increments the counter of the current period and answers with it.
RedisAnswers(r) ==
    /\ pc[r] \in {"init", "ask", "job"}
    /\ counted' = counted \cup {r}
    /\ reply' = [reply EXCEPT ![r] = <<Cardinality(counted'), period>>]
    /\ pc' = [pc EXCEPT ![r] = Got(@)]
    /\ UNCHANGED <<period, local, since, attached, at, answers>>

\* The request is answered from what redis said.  An answer about an earlier
\* period does not count for this one.
Answer(r) ==
    IF reply[r][1] > Max
    THEN denied' = denied \cup {r} /\ UNCHANGED allowed
    ELSE /\ allowed' = IF reply[r][2] = period THEN allowed \cup {r} ELSE allowed
         /\ UNCHANGED denied

\* The initializing request creates the entry.
InitStore(r) ==
    /\ pc[r] = "init_got"
    /\ local' = [local EXCEPT ![at[r]] = reply[r][1]]
    /\ since' = [since EXCEPT ![at[r]] = reply[r][2]]
    /\ attached' = attached \cup {r}
    /\ pc' = [pc EXCEPT ![r] = "done"]
    /\ Answer(r)
    /\ UNCHANGED <<period, counted, at, reply, failed>>

\* Mutant: the count of redis is added to the local counter.
StoreAdds(r) ==
    /\ pc[r] \in {"ask_got", "job_got"}
    /\ \/ /\ r \in attached
          /\ local' = [local EXCEPT ![at[r]] = @ + reply[r][1]]
          /\ since' = [since EXCEPT ![at[r]] = reply[r][2]]
       \/ r \notin attached /\ UNCHANGED <<local, since>>
    /\ pc' = [pc EXCEPT ![r] = "done"]
    /\ IF pc[r] = "ask_got" THEN Answer(r) ELSE UNCHANGED <<allowed, denied>>
    /\ UNCHANGED <<period, counted, attached, at, reply, failed>>

\* A request or a background task overwrites the local counter.
Store(r) ==
    /\ pc[r] \in {"ask_got", "job_got"}
    /\ \/ /\ r \in attached
          /\ local' = [local EXCEPT ![at[r]] = reply[r][1]]
          /\ since' = [since EXCEPT ![at[r]] = reply[r][2]]
       \/ r \notin attached /\ UNCHANGED <<local, since>>
    /\ pc' = [pc EXCEPT ![r] = "done"]
    /\ IF pc[r] = "ask_got" THEN Answer(r) ELSE UNCHANGED <<allowed, denied>>
    /\ UNCHANGED <<period, counted, attached, at, reply, failed>>

\* "if we get a redis error, just let the user through": the initializing
\* request starts the local counter at 0, the others leave it as it is.
RedisFails(r) ==
    /\ pc[r] \in {"init", "ask", "job"}
    /\ counted' \in {counted, counted \cup {r}}
    /\ failed' = failed \cup {r}
    /\ allowed' = IF pc[r] = "job" THEN allowed ELSE allowed \cup {r}
    /\ \/ /\ pc[r] = "init"
          /\ local' = [local EXCEPT ![at[r]] = 0]
          /\ since' = [since EXCEPT ![at[r]] = period]
          /\ attached' = attached \cup {r}
       \/ pc[r] # "init" /\ UNCHANGED <<local, since, attached>>
    /\ pc' = [pc EXCEPT ![r] = "done"]
    /\ UNCHANGED <<period, at, reply, denied>>

\* Mutant: nobody takes over the initialization.
AbandonOnly(r) ==
    /\ pc[r] \in {"init", "init_got", "wait", "ask", "ask_got"}
    /\ failed' = failed \cup {r}
    /\ pc' = [pc EXCEPT ![r] = "done"]
    /\ UNCHANGED <<period, counters, at, reply, allowed, denied>>

\* The client goes away and the future of throttle is dropped.  If it was
\* initializing the entry, one of the requests that wait takes over.  What it
\* added to the local counter stays there.
Abandon(r) ==
    LET waiting == {q \in Requests : at[q] = at[r] /\ pc[q] = "wait"} \ {r} IN
    /\ pc[r] \in {"init", "init_got", "wait", "ask", "ask_got"}
    /\ failed' = failed \cup {r}
    /\ \/ /\ pc[r] \in {"init", "init_got"} /\ waiting # {}
          /\ \E q \in waiting : pc' = [pc EXCEPT ![r] = "done", ![q] = "init"]
       \/ /\ pc[r] \in {"init", "init_got"} => waiting = {}
          /\ pc' = [pc EXCEPT ![r] = "done"]
    /\ UNCHANGED <<period, counters, at, reply, allowed, denied>>

-----------------------------------------------------------------------------
(* Time                                                                    *)

\* Mutant: only keys below their limit expire.
ExpireBelowMax(p) ==
    /\ local[p] # NoCount /\ local[p] < Max
    /\ \A r \in Requests : at[r] = p => pc[r] # "wait"
    /\ local' = [local EXCEPT ![p] = NoCount]
    /\ attached' = {r \in attached : at[r] # p}
    /\ UNCHANGED <<period, counted, since, pc, at, reply, answers>>

\* The time to live of the entry is over.  Tasks that still hold the counter
\* store into one that nobody reads.  (A request that waited for the entry
\* reads it long before.)
Expire(p) ==
    /\ local[p] # NoCount
    /\ \A r \in Requests : at[r] = p => pc[r] # "wait"
    /\ local' = [local EXCEPT ![p] = NoCount]
    /\ attached' = {r \in attached : at[r] # p}
    /\ UNCHANGED <<period, counted, since, pc, at, reply, answers>>

\* The next throttle_key: redis counts from 0.
Rollover ==
    /\ period < MaxPeriod
    /\ period' = period + 1
    /\ counted' = {} /\ allowed' = {} /\ failed' = {}
    /\ UNCHANGED <<local, since, attached, pc, at, reply, denied>>

Done ==
    /\ \A r \in Requests : pc[r] = "done"
    /\ UNCHANGED vars

Next ==
    \/ \E r \in Requests, p \in Proxies : Miss(r, p) \/ FetchAdd(r, p)
    \/ \E r \in Requests : 
        RedisAnswers(r) \/ RedisFails(r) \/ InitStore(r) \/ Store(r) \/ Abandon(r)
    \/ \E p \in Proxies : Expire(p)
    \/ Rollover
    \/ Done

Spec == Init /\ [][Next]_vars

\* The tasks run, redis answers or fails, and the cache has a time to live.
FairSpec ==
    /\ Spec
    /\ \A r \in Requests :
          WF_vars(RedisAnswers(r) \/ RedisFails(r) \/ InitStore(r) \/ Store(r))
    /\ \A r \in Requests, p \in Proxies : WF_vars(pc[r] = "wait" /\ FetchAdd(r, p))
    /\ \A p \in Proxies : WF_vars(Expire(p))

-----------------------------------------------------------------------------
(* Properties                                                              *)

Steps == {"idle", "init", "init_got", "wait", "ask", "ask_got", "job", "job_got", "done"}

\* The counters and the steps of the requests have their types, and exactly
\* the requests that were made are at a proxy.
TypeOK ==
    /\ period \in 0..MaxPeriod
    /\ counted \subseteq Requests
    /\ local \in [Proxies -> Nat \cup {NoCount}]
    /\ since \in [Proxies -> 0..MaxPeriod]
    /\ pc \in [Requests -> Steps]
    /\ at \in [Requests -> Proxies \cup {NoProxy}]
    /\ reply \in [Requests -> Nat \X (0..MaxPeriod)]
    /\ attached \subseteq Requests
    /\ allowed \subseteq Requests /\ denied \subseteq Requests /\ failed \subseteq Requests
    /\ \A r \in Requests : pc[r] = "idle" <=> at[r] = NoProxy

\* Requests whose increment has not reached redis yet.
Pending == {r \in Requests : pc[r] \in {"init", "ask", "job"}}

\* Every request that throttle lets through in a period is in the redis
\* count of that period, or its background task has still to count it, or
\* redis failed: no path through the local cache allows for free.
AllowedAccounted == allowed \subseteq counted \cup Pending \cup failed

\* A reply that is under way is of this period and counted in it, or of an
\* earlier period.
RepliesCounted ==
    \A r \in Requests : pc[r] \in {"init_got", "ask_got", "job_got"} =>
        /\ reply[r][2] <= period
        /\ reply[r][2] = period => r \in counted

\* Inductive: the accounts hold because answers follow replies, and replies
\* follow the count of their period.
Accounts == TypeOK /\ RepliesCounted /\ AllowedAccounted

\* What a proxy may know of the use of the key in this period.
Used(p) == counted \cup failed \cup {r \in Pending : at[r] = p}

\* A local counter that was read from redis in this period is never ahead of
\* the use of the key by more than the requests it denied: replies that are
\* stored late or out of order, by tasks of an expired entry too, never make
\* throttle deny a key that has not used up its limit.
NoFalseDenial ==
    \A p \in Proxies :
        local[p] # NoCount /\ since[p] = period =>
            local[p] <= Cardinality(Used(p)) \/ Cardinality(Used(p)) >= Max

\* A key that the local counter denies is not denied for ever: the entry's
\* time to live ends, although denied requests never ask redis again.
DenialEnds ==
    \A p \in Proxies :
        (local[p] # NoCount /\ local[p] >= Max) ~> (local[p] = NoCount \/ local[p] < Max)

\* Requests that wait for the entry of another one are answered, also when
\* that one is dropped in between.
WaitersAnswered ==
    \A r \in Requests : pc[r] = "wait" ~> pc[r] = "done"

\* The comment in throttle on its background update: "rate limit has enough
\* headroom that it should be safe to do this in the background".  With one
\* proxy and no failure, no more than Max requests are allowed in a period.
HeadroomSafe == failed = {} => Cardinality(allowed) <= Max
=============================================================================
