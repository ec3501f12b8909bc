--------------------------- MODULE LimiterProofs ---------------------------
(* Proofs about DeferredRateLimiter, for any proxies, requests and limit.  *)
EXTENDS DeferredRateLimiter, FiniteSetTheorems, TLAPS

\* What redis answers is a count.
LEMMA CountType ==
    ASSUME NEW S \in SUBSET Requests
    PROVE  Cardinality(S) \in Nat
BY LimiterAssumption, FS_Subset, FS_CardinalityType

\* With an empty cache and no count nothing is allowed.
LEMMA InitAccounts == Init => Accounts
BY LimiterAssumption
   DEF Init, Accounts, TypeOK, Steps, RepliesCounted, AllowedAccounted

\* A request that finds no entry initializes it or waits.
LEMMA MissAccounts ==
    ASSUME Accounts, NEW r \in Requests, NEW p \in Proxies, Miss(r, p)
    PROVE  Accounts'
<1> USE LimiterAssumption DEF Miss, counters, answers
<1>1. TypeOK'
    BY DEF Accounts, TypeOK, Steps
<1>2. RepliesCounted'
    BY DEF Accounts, TypeOK, RepliesCounted
<1>3. AllowedAccounted'
    BY DEF Accounts, TypeOK, AllowedAccounted, Pending
<1> QED BY <1>1, <1>2, <1>3 DEF Accounts

\* The local decision: what is allowed at once has its background task.
LEMMA FetchAddAccounts ==
    ASSUME Accounts, NEW r \in Requests, NEW p \in Proxies, FetchAdd(r, p)
    PROVE  Accounts'
<1> USE LimiterAssumption DEF FetchAdd
<1>1. local[p] + 1 \in Nat
    BY DEF Accounts, TypeOK
<1>2. TypeOK'
    BY <1>1 DEF Accounts, TypeOK, Steps
<1>3. RepliesCounted'
    BY DEF Accounts, TypeOK, RepliesCounted
<1>4. AllowedAccounted'
    BY DEF Accounts, TypeOK, AllowedAccounted, Pending
<1> QED BY <1>2, <1>3, <1>4 DEF Accounts

\* An increment moves a request from those that are pending to the counted.
LEMMA RedisAnswersAccounts ==
    ASSUME Accounts, NEW r \in Requests, RedisAnswers(r)
    PROVE  Accounts'
<1> USE LimiterAssumption DEF RedisAnswers, answers
<1>1. counted' \in SUBSET Requests /\ Cardinality(counted') \in Nat
    BY CountType DEF Accounts, TypeOK
<1>2. Got(pc[r]) \in {"init_got", "ask_got", "job_got"}
    BY DEF Got
<1>3. TypeOK'
    BY <1>1, <1>2 DEF Accounts, TypeOK, Steps
<1>4. RepliesCounted'
    BY <1>1 DEF Accounts, TypeOK, RepliesCounted
<1>5. AllowedAccounted'
    BY <1>2 DEF Accounts, TypeOK, AllowedAccounted, Pending
<1> QED BY <1>3, <1>4, <1>5 DEF Accounts

\* What redis answers in this period was counted in it.
LEMMA AnswerAccounted ==
    ASSUME Accounts, NEW r \in Requests, Answer(r), UNCHANGED <<period, counted, failed>>,
           pc[r] \in {"init_got", "ask_got"},
           pc' = [pc EXCEPT ![r] = "done"]
    PROVE  /\ AllowedAccounted'
           /\ allowed' \subseteq Requests /\ denied' \subseteq Requests
BY DEF Answer, Accounts, TypeOK, RepliesCounted, AllowedAccounted, Pending

\* The initializing request is answered from the reply it created the entry
\* with.
LEMMA InitStoreAccounts ==
    ASSUME Accounts, NEW r \in Requests, InitStore(r)
    PROVE  Accounts'
<1> USE LimiterAssumption DEF InitStore
<1>1. AllowedAccounted' /\ allowed' \subseteq Requests /\ denied' \subseteq Requests
    BY AnswerAccounted
<1>2. reply[r][1] \in Nat /\ reply[r][2] \in 0..MaxPeriod
    BY DEF Accounts, TypeOK
<1>3. TypeOK'
    BY <1>1, <1>2 DEF Accounts, TypeOK, Steps
<1>4. RepliesCounted'
    BY DEF Accounts, TypeOK, RepliesCounted
<1> QED BY <1>1, <1>3, <1>4 DEF Accounts

\* A request that asked redis is answered from the reply; a background task
\* answers nobody.
LEMMA StoreAccounts ==
    ASSUME Accounts, NEW r \in Requests, Store(r)
    PROVE  Accounts'
<1> USE LimiterAssumption DEF Store
<1>1. AllowedAccounted' /\ allowed' \subseteq Requests /\ denied' \subseteq Requests
    <2>1. CASE pc[r] = "ask_got"
        BY <2>1, AnswerAccounted
    <2>2. CASE pc[r] = "job_got"
        BY <2>2 DEF Accounts, TypeOK, AllowedAccounted, Pending
    <2> QED BY <2>1, <2>2
<1>2. reply[r][1] \in Nat /\ reply[r][2] \in 0..MaxPeriod
    BY DEF Accounts, TypeOK
<1>3. TypeOK'
    BY <1>1, <1>2 DEF Accounts, TypeOK, Steps
<1>4. RepliesCounted'
    BY DEF Accounts, TypeOK, RepliesCounted
<1> QED BY <1>1, <1>3, <1>4 DEF Accounts

\* A redis error is on the account of the request.
LEMMA RedisFailsAccounts ==
    ASSUME Accounts, NEW r \in Requests, RedisFails(r)
    PROVE  Accounts'
<1> USE LimiterAssumption DEF RedisFails
<1>1. TypeOK'
    BY DEF Accounts, TypeOK, Steps
<1>2. RepliesCounted'
    BY DEF Accounts, TypeOK, RepliesCounted
<1>3. AllowedAccounted'
    BY DEF Accounts, TypeOK, AllowedAccounted, Pending
<1> QED BY <1>1, <1>2, <1>3 DEF Accounts

\* A dropped request is on its own account, and one that waits may become
\* pending in its place.
LEMMA AbandonAccounts ==
    ASSUME Accounts, NEW r \in Requests, Abandon(r)
    PROVE  Accounts'
<1> USE LimiterAssumption DEF Abandon, counters
<1>1. TypeOK'
    BY DEF Accounts, TypeOK, Steps
<1>2. RepliesCounted'
    BY DEF Accounts, TypeOK, RepliesCounted
<1>3. AllowedAccounted'
    BY DEF Accounts, TypeOK, AllowedAccounted, Pending
<1> QED BY <1>1, <1>2, <1>3 DEF Accounts

\* Expiring an entry changes no account.
LEMMA ExpireAccounts ==
    ASSUME Accounts, NEW p \in Proxies, Expire(p)
    PROVE  Accounts'
<1> USE LimiterAssumption DEF Expire, answers
<1>1. TypeOK'
    BY DEF Accounts, TypeOK
<1>2. RepliesCounted' /\ AllowedAccounted'
    BY DEF Accounts, RepliesCounted, AllowedAccounted, Pending
<1> QED BY <1>1, <1>2 DEF Accounts

\* Replies that are under way when the period ends are of an earlier one.
LEMMA RolloverAccounts ==
    ASSUME Accounts, Rollover
    PROVE  Accounts'
<1> USE LimiterAssumption DEF Rollover
<1>1. TypeOK'
    BY DEF Accounts, TypeOK
<1>2. RepliesCounted'
    BY DEF Accounts, TypeOK, RepliesCounted
<1>3. AllowedAccounted'
    BY DEF AllowedAccounted
<1> QED BY <1>1, <1>2, <1>3 DEF Accounts

\* Every step of the limiter preserves the accounts.
LEMMA NextAccounts == Accounts /\ [Next]_vars => Accounts'
<1> SUFFICES ASSUME Accounts, [Next]_vars PROVE Accounts'
    OBVIOUS
<1>1. CASE UNCHANGED vars
    <2>1. UNCHANGED <<period, counted, local, since, attached, pc, at, reply, allowed, denied, failed>>
        BY <1>1 DEF vars, counters, answers
    <2> QED BY <2>1 DEF Accounts, TypeOK, RepliesCounted, AllowedAccounted, Pending
<1>2. CASE Next
    BY <1>1, <1>2, MissAccounts, FetchAddAccounts, RedisAnswersAccounts, InitStoreAccounts,
       StoreAccounts, RedisFailsAccounts, AbandonAccounts, ExpireAccounts, RolloverAccounts
       DEF Next, Done
<1> QED BY <1>1, <1>2

\* Accounts is an invariant of the limiter.
THEOREM AccountsKept == Spec => []Accounts
BY InitAccounts, NextAccounts, PTL DEF Spec

\* However replies, failures, drops, expirations and periods interleave, on
\* any number of proxies, throttle lets no request through that redis has not
\* counted, will not count and has not failed to count.
THEOREM AlwaysAccounted == Spec => []AllowedAccounted
<1>1. Accounts => AllowedAccounted
    BY DEF Accounts
<1> QED BY <1>1, AccountsKept, PTL
=============================================================================
