------------------------------ MODULE Requests ------------------------------
(***************************************************************************)
(* How a JSON-RPC request becomes a response (proxy_web3_rpc and           *)
(* proxy_cached_request in app/mod.rs, block_number.rs, and the canonical  *)
(* blocks of rpcs/blockchain.rs): the dispatch on the method, the rewrite  *)
(* of the block parameter, the block that keys the response cache, the     *)
(* forwarding that concurrent requests with the same key share, the stat,  *)
(* and the 120 s timeout around all of it.  A batch runs its requests      *)
(* concurrently.                                                           *)
(*                                                                         *)
(* Methods stand for the arms of the match.  A block parameter is a tuple: *)
(* <<"latest">>, <<"number", n>>, <<"hash", b>> ...  What a server answers *)
(* is abstracted to whether it is an error, and to the greatest height the *)
(* proxy knew when the answer came.                                        *)
(***************************************************************************)
EXTENDS Chain, Sequences, FiniteSetsExt

CONSTANTS
    Clients,
    Scenarios,      \* the payloads the clients may send: a function from
                    \* clients to sequences of requests, of which one with
                    \* several requests is a batch
    FirstTip,       \* the tip of the servers' chain at the start
    FinalizedLag,   \* 10: blocks from latest to finalized
    SafeLag,        \* 3: blocks from latest to safe
    MaxMoves,       \* bound: changes of the servers' tip
    MaxFaults       \* bound: forwarded requests a server answers with an error
                    \* object, or not at all

BatchSize == Max({Len(s[c]) : s \in Scenarios, c \in Clients})
Tasks == Clients \X (1..BatchSize)
Numbers == {Number[b] : b \in Blocks}

ASSUME RequestsAssumption ==
    /\ FirstTip \in Blocks
    /\ FinalizedLag \in Nat /\ SafeLag \in Nat /\ MaxMoves \in Nat /\ MaxFaults \in Nat
    /\ \A s \in Scenarios : DOMAIN s = Clients
    /\ \A s \in Scenarios : \A c \in Clients : Len(s[c]) \in Nat /\ DOMAIN s[c] = 1..Len(s[c])

VARIABLES
    payload,        \* what each client sends
    tip,            \* the tip of the servers' chain
    head,           \* watch_consensus_head
    blocks_by_number,
    blocks_by_hash,
    response_cache, \* its entries: a key and the response kept for it
    client,         \* per client: waiting for its payload's answer, or done
    task,           \* per request: where proxy_cached_request is
    stats,          \* per request: how many response stats were sent
    moves, faults

upstream == <<payload, tip, moves>>
blocks == <<blocks_by_number, blocks_by_hash>>
vars == <<payload, tip, head, blocks, response_cache, client, task, stats, moves, faults>>

-----------------------------------------------------------------------------
(* The methods, by the arm that serves them.                               *)

\* Refused: not supported, not implemented, only over websockets, "test", and
\* web3_sha3 without its parameter.
Refused == {"eth_sign", "eth_newFilter", "eth_subscribe", "test"}
\* Answered from the config or a literal.
Local == {"eth_chainId", "eth_accounts"}
\* A response never cached: traces.
Traces == {"trace_block", "debug_traceTransaction"}
\* What a block hash names does not change.
ByHash == {"eth_getBlockByHash", "eth_getTransactionByBlockHashAndIndex"}
\* The methods with a block parameter; every other method is keyed by the head.
ByBlock == {"eth_call", "eth_getBalance"}

Absent == <<"absent">>
Latest == <<"latest">>

\* block_num_to_U64: U64 subtraction panics below zero.
Panics(block, latest) ==
    \/ block[1] = "finalized" /\ latest < FinalizedLag
    \/ block[1] = "safe" /\ latest < SafeLag
BlockNumToU64(block, latest) ==
    CASE block[1] = "earliest" -> 0
      [] block[1] = "finalized" -> latest - FinalizedLag
      [] block[1] = "safe" -> latest - SafeLag
      [] block[1] = "number" -> block[2]
      [] OTHER -> latest
\* Only "latest" is replaced; the server must see "pending".
Cleaned(block, latest) == IF block = Latest THEN <<"number", latest>> ELSE block

\* clean_block_number appends the head when the parameter is missing, and leaves
\* alone what it cannot read (block_needed then falls back to the head).
CleanBlockNumber(block, latest) ==
    IF block = Absent THEN <<"number", latest>> ELSE Cleaned(block, latest)

\* eth_getLogs: an absent fromBlock is the earliest block, an absent toBlock the
\* head, and neither is written into the params.
FromBlock(block) == IF block = Absent THEN <<"earliest">> ELSE block

\* block_needed: the heights that key the response; none is cached forever.
BlockNeeded(method, params, latest) ==
    CASE method \in ByHash -> <<>>
      [] method = "eth_getLogs" /\ params.from[1] = "hash" -> <<>>
      [] method = "eth_getLogs" /\ params.from[1] # "hash" ->
            <<BlockNumToU64(FromBlock(params.from), latest), BlockNumToU64(params.to, latest)>>
      [] method \in ByBlock -> <<BlockNumToU64(params.from, latest)>>
      [] OTHER -> <<latest>>

NewParams(method, params, latest) ==
    CASE method \in ByBlock -> [params EXCEPT !.from = CleanBlockNumber(@, latest)]
      [] method = "eth_getLogs" -> [from |-> Cleaned(params.from, latest),
                                    to |-> Cleaned(params.to, latest)]
      [] OTHER -> params

BlockPanics(method, params, latest) ==
    /\ method \in ByBlock \/ (method = "eth_getLogs" /\ params.from[1] # "hash")
    /\ Panics(params.from, latest) \/ Panics(params.to, latest)

-----------------------------------------------------------------------------
(* The cache.                                                              *)

NoReply == [id |-> <<>>, method |-> "none", params |-> <<>>, error |-> FALSE, height |-> NoNum]
Unused == [pc |-> "none", method |-> "none", params |-> <<>>, head |-> NoNum,
           nums |-> <<>>, found |-> <<>>, reply |-> NoReply]

\* The greatest height the proxy has seen a block of.
Height == Max({Number[b] : b \in blocks_by_hash} \cup {NoNum})
Reply(t, error) ==
    [id |-> <<>>, method |-> task[t].method, params |-> task[t].params,
     error |-> error, height |-> Height]

\* The others are not looked up in response_cache.
Cacheable(r) == r.method \notin Traces \cup {"eth_estimateGas", "eth_sendRawTransaction"}
\* Mutant of ResponseCacheKey: the key forgets to_block.
KeyWithoutToBlock(r) ==
    [blocks |-> IF r.found = <<>> THEN <<>> ELSE <<r.found[1]>>, method |-> r.method, params |-> r.params,
     cache_errors |-> r.found # <<>>]

\* ResponseCacheKey, compared by ==: from_block and to_block by hash.
ResponseCacheKey(r) ==
    [blocks |-> r.found, method |-> r.method, params |-> r.params,
     cache_errors |-> r.found # <<>>]

Waiters(k) == {t \in Tasks : task[t].pc = "waiting" /\ ResponseCacheKey(task[t]) = k}
Fetching(k) == \E t \in Tasks :
    task[t].pc = "forward" /\ Cacheable(task[t]) /\ ResponseCacheKey(task[t]) = k

Init ==
    /\ payload \in Scenarios
    /\ tip = FirstTip /\ head = NoBlock
    /\ blocks_by_number = [n \in Numbers |-> NoBlock]
    /\ blocks_by_hash = {}
    /\ response_cache = {}
    /\ client = [c \in Clients |-> "idle"]
    /\ task = [t \in Tasks |-> Unused]
    /\ stats = [t \in Tasks |-> 0]
    /\ moves = 0 /\ faults = 0

-----------------------------------------------------------------------------
(* The chain.                                                              *)

\* The servers' chain grows, or another fork overtakes it.
Mine(b) ==
    /\ moves < MaxMoves /\ b # tip /\ Number[b] >= Number[tip]
    /\ tip' = b /\ moves' = moves + 1
    /\ UNCHANGED <<payload, head, blocks, response_cache, client, task, stats, faults>>

\* try_cache_block.
CacheBlock(b, heaviest_chain) ==
    /\ blocks_by_number' =
        IF heaviest_chain THEN [blocks_by_number EXCEPT ![Number[b]] = b] ELSE blocks_by_number
    /\ blocks_by_hash' = blocks_by_hash \cup {b}

\* process_block_from_rpc: enough servers agree on a head, the tip or, while
\* they catch up, the block below it.
ConsensusHead(b) ==
    /\ b \in {tip, Parent[tip]} \ {NoBlock, head}
    /\ CacheBlock(b, TRUE)
    /\ head' = b
    /\ UNCHANGED <<upstream, response_cache, client, task, stats, faults>>

-----------------------------------------------------------------------------
(* A client and its requests.                                              *)

Set(t, r) == task' = [task EXCEPT ![t] = r]
Faulty(fault) ==
    IF fault THEN faults < MaxFaults /\ faults' = faults + 1 ELSE UNCHANGED faults
Fail(t) == Set(t, [task[t] EXCEPT !.pc = "failed"])

\* proxy_web3_rpc: a batch reads the head once for all its requests.
BatchHead(p) == IF Len(p) > 1 THEN Num(head) ELSE NoNum

Receive(c) ==
    LET p == payload[c] IN
    /\ client[c] = "idle" /\ p # <<>>
    /\ \/ /\ Len(p) > 1 /\ head = NoBlock
          /\ client' = [client EXCEPT ![c] = "failed"]
          /\ UNCHANGED task
       \/ /\ Len(p) > 1 => head # NoBlock
          /\ client' = [client EXCEPT ![c] = "running"]
          /\ task' = [t \in Tasks |->
               IF t[1] = c /\ t[2] \in DOMAIN p
               THEN [Unused EXCEPT !.pc = "start", !.method = p[t[2]].method,
                                   !.params = p[t[2]].params, !.head = BatchHead(p)]
               ELSE task[t]]
    /\ UNCHANGED <<upstream, head, blocks, response_cache, stats, faults>>

HeadNum(t) == IF task[t].head # NoNum THEN task[t].head ELSE Num(head)

Starting(t) == task[t].pc = "start" /\ UNCHANGED <<upstream, head, blocks, response_cache, client, stats, faults>>

\* Returned at once, without a stat.
Refuse(t) ==
    /\ Starting(t) /\ task[t].method \in Refused
    /\ Set(t, [task[t] EXCEPT !.pc = "done", !.reply = [Reply(t, TRUE) EXCEPT !.id = t]])

AnswerLocally(t) ==
    /\ Starting(t)
    /\ \/ /\ task[t].method \in Local
          /\ Set(t, [task[t] EXCEPT !.pc = "stat", !.reply = Reply(t, FALSE)])
       \/ /\ task[t].method = "eth_blockNumber" /\ HeadNum(t) # NoNum
          /\ Set(t, [task[t] EXCEPT !.pc = "stat", !.reply = Reply(t, FALSE),
                                    !.head = HeadNum(t)])
       \/ task[t].method = "eth_blockNumber" /\ HeadNum(t) = NoNum /\ Fail(t)

\* eth_estimateGas goes to any synced server; eth_sendRawTransaction to several,
\* and only when there is a head.
ForwardAtOnce(t) ==
    /\ Starting(t)
    /\ \/ task[t].method = "eth_estimateGas" /\ Set(t, [task[t] EXCEPT !.pc = "forward"])
       \/ /\ task[t].method = "eth_sendRawTransaction"
          /\ IF HeadNum(t) = NoNum THEN Fail(t) ELSE Set(t, [task[t] EXCEPT !.pc = "forward"])

Proxied(t) ==
    /\ task[t].method \notin Refused \cup Local
    /\ task[t].method \notin {"eth_blockNumber", "eth_estimateGas", "eth_sendRawTransaction"}

\* Methods of the node's admin, an unknown head, a block that cannot be read in
\* the params of eth_getLogs, and a panic of block_num_to_U64 (which also drops
\* the rest of a batch, as Timeout may).
ProxyFails(m, p, h) ==
    \/ m = "admin_peers"
    \/ h = NoNum
    \/ m = "eth_getLogs" /\ p.from[1] # "hash" /\ "bad" \in {p.from[1], p.to[1]}
    \/ BlockPanics(m, p, h)

\* The last arm: everything else, once the head is known.
ProxyCachedRequest(t) ==
    LET m == task[t].method
        p == task[t].params
        h == HeadNum(t) IN
    /\ Starting(t) /\ Proxied(t)
    /\ \/ ProxyFails(m, p, h) /\ Fail(t)
       \/ /\ ~ProxyFails(m, p, h) /\ m \in Traces
          /\ Set(t, [task[t] EXCEPT !.pc = "forward", !.head = h])
       \/ /\ ~ProxyFails(m, p, h) /\ m \in ByBlock /\ p.from[1] = "hash"
          /\ Set(t, [task[t] EXCEPT !.pc = "hash", !.head = h])
       \/ /\ ~ProxyFails(m, p, h) /\ m \notin Traces /\ ~(m \in ByBlock /\ p.from[1] = "hash")
          /\ LET nums == BlockNeeded(m, p, h) IN
             Set(t, [task[t] EXCEPT !.pc = IF nums = <<>> THEN "lookup" ELSE "resolve",
                        !.head = h, !.nums = nums, !.params = NewParams(m, p, h)])

\* Web3Rpcs::block for the {"blockHash": ...} of a parameter: the known block, or
\* a server's.  When it cannot be had, the head keys the response.
ResolveHash(t) ==
    LET b == task[t].params.from[2] IN
    /\ task[t].pc = "hash"
    /\ \/ /\ Set(t, [task[t] EXCEPT !.pc = "resolve", !.nums = <<Number[b]>>])
          /\ CacheBlock(b, FALSE)
       \/ /\ b \notin blocks_by_hash
          /\ Set(t, [task[t] EXCEPT !.pc = "resolve", !.nums = <<task[t].head>>])
          /\ UNCHANGED blocks
    /\ UNCHANGED <<upstream, head, response_cache, client, stats, faults>>

\* The next height to resolve, and the request once its block b is found.
Wanted(t) == task[t].nums[Len(task[t].found) + 1]
Found(t, b) ==
    LET found == Append(task[t].found, b) IN
    [task[t] EXCEPT !.found = found,
                    !.pc = IF Len(found) = Len(task[t].nums) THEN "lookup" ELSE "resolve"]

\* cannonical_block: waits until the head has the height, then takes the block
\* kept for it, or asks a server.
CannonicalBlock(t) ==
    /\ task[t].pc = "resolve" /\ Wanted(t) <= Num(head)
    /\ LET b == blocks_by_number[Wanted(t)] IN
       Set(t, IF b # NoBlock THEN Found(t, b) ELSE [task[t] EXCEPT !.pc = "ask"])
    /\ UNCHANGED <<upstream, head, blocks, response_cache, client, stats, faults>>

\* The server answers from the chain it follows, and the block is kept as the
\* heaviest chain's.
BlockAnswered(t) ==
    /\ task[t].pc = "ask"
    /\ \/ \E b \in Blocks :
            /\ Number[b] = Wanted(t) /\ (Extends(tip, b) \/ Extends(head, b))
            /\ Set(t, Found(t, b))
            /\ CacheBlock(b, TRUE)
            /\ UNCHANGED faults
       \/ Faulty(TRUE) /\ Fail(t) /\ UNCHANGED blocks
    /\ UNCHANGED <<upstream, head, response_cache, client, stats>>

\* Mutant of Lookup: a cache hit returns at once, without an id and a stat.
LookupHitReturns(t) ==
    LET k == ResponseCacheKey(task[t])
        hits == {e \in response_cache : e.key = k} IN
    /\ task[t].pc = "lookup"
    /\ \/ \E e \in hits : Set(t, [task[t] EXCEPT !.pc = "done", !.reply = e.reply])
       \/ hits = {} /\ Fetching(k) /\ Set(t, [task[t] EXCEPT !.pc = "waiting"])
       \/ hits = {} /\ ~Fetching(k) /\ Set(t, [task[t] EXCEPT !.pc = "forward"])
    /\ UNCHANGED <<upstream, head, blocks, response_cache, client, stats, faults>>
\* Mutant of Lookup: nobody waits for the fetch of another.
LookupAlone(t) ==
    LET k == ResponseCacheKey(task[t])
        hits == {e \in response_cache : e.key = k} IN
    /\ task[t].pc = "lookup"
    /\ \/ \E e \in hits : Set(t, [task[t] EXCEPT !.pc = "stat", !.reply = e.reply])
       \/ hits = {} /\ Set(t, [task[t] EXCEPT !.pc = "forward"])
    /\ UNCHANGED <<upstream, head, blocks, response_cache, client, stats, faults>>

\* response_cache.try_get_with: a hit, a response some other request is already
\* fetching, or a fetch of its own.
Lookup(t) ==
    LET k == ResponseCacheKey(task[t])
        hits == {e \in response_cache : e.key = k} IN
    /\ task[t].pc = "lookup"
    /\ \/ \E e \in hits : Set(t, [task[t] EXCEPT !.pc = "stat", !.reply = e.reply])
       \/ hits = {} /\ Fetching(k) /\ Set(t, [task[t] EXCEPT !.pc = "waiting"])
       \/ hits = {} /\ ~Fetching(k) /\ Set(t, [task[t] EXCEPT !.pc = "forward"])
    /\ UNCHANGED <<upstream, head, blocks, response_cache, client, stats, faults>>

\* A server answers, with a result or with an error object; the answer is kept,
\* and given to those who wait for it.  An Err is given to them, and not kept.
Forwarded(t) ==
    LET k == ResponseCacheKey(task[t]) IN
    /\ task[t].pc = "forward" /\ Cacheable(task[t])
    /\ \/ \E error \in BOOLEAN :
            /\ Faulty(error)
            /\ response_cache' = response_cache \cup {[key |-> k, reply |-> Reply(t, error)]}
            /\ task' = [u \in Tasks |-> IF u \in Waiters(k) \cup {t}
                          THEN [task[u] EXCEPT !.pc = "stat", !.reply = Reply(t, error)]
                          ELSE task[u]]
       \/ /\ Faulty(TRUE)
          /\ task' = [u \in Tasks |-> IF u \in Waiters(k) \cup {t}
                        THEN [task[u] EXCEPT !.pc = "failed"] ELSE task[u]]
          /\ UNCHANGED response_cache
    /\ UNCHANGED <<upstream, head, blocks, client, stats>>

\* Traces, eth_estimateGas and eth_sendRawTransaction: nothing is kept.  The
\* latter returns without a stat, and so does a failed estimate.  That a
\* transaction is already known counts as a result.
ForwardedUncached(t) ==
    LET m == task[t].method IN
    /\ task[t].pc = "forward" /\ ~Cacheable(task[t])
    /\ \/ \E outcome \in {"result", "error", "known"} :
            /\ outcome = "known" => m = "eth_sendRawTransaction"
            /\ Faulty(outcome # "result")
            /\ Set(t, [task[t] EXCEPT
                 !.pc = IF m \in Traces \/ (m = "eth_estimateGas" /\ outcome = "result")
                        THEN "stat" ELSE "done",
                 !.reply = [Reply(t, outcome = "error") EXCEPT !.id = t]])
       \/ Faulty(TRUE) /\ Fail(t)
    /\ UNCHANGED <<upstream, head, blocks, response_cache, client, stats>>

\* Mutant of Respond: the id stays that of the cached response.
RespondAsCached(t) ==
    /\ task[t].pc = "stat"
    /\ Set(t, [task[t] EXCEPT !.pc = "done"])
    /\ stats' = [stats EXCEPT ![t] = @ + 1]
    /\ UNCHANGED <<upstream, head, blocks, response_cache, client, faults>>

\* The response gets the request's id, and the stat goes to the stat channel.
Respond(t) ==
    /\ task[t].pc = "stat"
    /\ Set(t, [task[t] EXCEPT !.pc = "done", !.reply.id = t])
    /\ stats' = [stats EXCEPT ![t] = @ + 1]
    /\ UNCHANGED <<upstream, head, blocks, response_cache, client, faults>>

TasksOf(c) == {t \in Tasks : t[1] = c /\ task[t].pc # "none"}

\* All responses of the payload are there; one Err fails a batch.
Finish(c) ==
    /\ client[c] = "running"
    /\ \A t \in TasksOf(c) : task[t].pc \in {"done", "failed"}
    /\ client' = [client EXCEPT ![c] =
         IF \E t \in TasksOf(c) : task[t].pc = "failed" THEN "failed" ELSE "answered"]
    /\ UNCHANGED <<upstream, head, blocks, response_cache, task, stats, faults>>

\* Mutant of Timeout: those who wait for a dropped fetch are not woken.
TimeoutForgets(c) ==
    /\ client[c] = "running"
    /\ client' = [client EXCEPT ![c] = "timeout"]
    /\ task' = [t \in Tasks |-> IF t \in TasksOf(c)
                  THEN [Unused EXCEPT !.pc = "dropped"] ELSE task[t]]
    /\ UNCHANGED <<upstream, head, blocks, response_cache, stats, faults>>

\* 120 s are over: the futures are dropped.  A request that waits for a fetch
\* among them looks again.
Timeout(c) ==
    /\ client[c] = "running"
    /\ client' = [client EXCEPT ![c] = "timeout"]
    /\ LET dropped == {u \in TasksOf(c) : task[u].pc = "forward" /\ Cacheable(task[u])}
           orphans == UNION {Waiters(ResponseCacheKey(task[u])) : u \in dropped} IN
       task' = [t \in Tasks |->
                  IF t \in TasksOf(c) THEN [Unused EXCEPT !.pc = "dropped"]
                  ELSE IF t \in orphans THEN [task[t] EXCEPT !.pc = "lookup"]
                  ELSE task[t]]
    /\ UNCHANGED <<upstream, head, blocks, response_cache, stats, faults>>

\* The caches drop what is idle or does not fit.
Evict(e) ==
    /\ response_cache' = response_cache \ {e}
    /\ UNCHANGED <<upstream, head, blocks, client, task, stats, faults>>

RequestStep(t) ==
    \/ Refuse(t) \/ AnswerLocally(t) \/ ForwardAtOnce(t) \/ ProxyCachedRequest(t)
    \/ ResolveHash(t) \/ CannonicalBlock(t) \/ BlockAnswered(t)
    \/ Lookup(t) \/ Forwarded(t) \/ ForwardedUncached(t) \/ Respond(t)

Next ==
    \/ \E b \in Blocks : Mine(b) \/ ConsensusHead(b)
    \/ \E c \in Clients : Receive(c) \/ Finish(c) \/ Timeout(c)
    \/ \E t \in Tasks : RequestStep(t)
    \/ \E e \in response_cache : Evict(e)

Spec == Init /\ [][Next]_vars

\* The runtime polls every future that can proceed, and servers answer.  The
\* timeout may come at any time, and no fairness is asked of it.
FairSpec ==
    /\ Spec
    /\ \A c \in Clients : WF_vars(Finish(c) \/ \E i \in 1..BatchSize : RequestStep(<<c, i>>))

-----------------------------------------------------------------------------
(* Properties.                                                             *)

Pcs == {"none", "start", "hash", "resolve", "ask", "lookup", "waiting", "forward", "stat",
        "done", "failed", "dropped"}

\* Types; the heights of a request are resolved in order and at those heights,
\* and a key has as many blocks as block_needed asks for.
TypeOK ==
    /\ tip \in Blocks /\ head \in MaybeBlock
    /\ blocks_by_number \in [Numbers -> MaybeBlock]
    /\ blocks_by_hash \subseteq Blocks
    /\ client \in [Clients -> {"idle", "running", "answered", "failed", "timeout"}]
    /\ stats \in [Tasks -> Nat]
    /\ \A t \in Tasks :
        LET r == task[t] IN
        /\ r.pc \in Pcs
        /\ Len(r.found) <= Len(r.nums)
        /\ \A i \in DOMAIN r.found : Number[r.found[i]] = r.nums[i]
        /\ r.pc \in {"lookup", "waiting", "forward"} => Len(r.found) = Len(r.nums)

\* Every response answers its own request, although it may have been fetched for
\* another one: it carries the id of this request, its method, and its params
\* after the rewrite of "latest".
OwnAnswer ==
    \A t \in Tasks : task[t].pc = "done" =>
        /\ task[t].reply.id = t
        /\ task[t].reply.method = task[t].method
        /\ task[t].reply.params = task[t].params

\* No response is older than the heights it is asked for: when the answer was
\* fetched, by whichever request, the proxy already knew a block of each height
\* this request needs, the head it saw included.
FreshAnswer ==
    \A t \in Tasks : task[t].pc = "done" =>
        \A i \in DOMAIN task[t].nums : task[t].reply.height >= task[t].nums[i]

\* "get the head block now so that any requests that need it all use the same
\* block" (proxy_web3_rpc_requests), as far as it goes: the requests of a batch
\* take the same height for the head, however the head moves meanwhile.
BatchSameHead ==
    \A t, u \in Tasks :
        (t[1] = u[1] /\ NoNum \notin {task[t].head, task[u].head}) => task[t].head = task[u].head

\* A response of a method that is accounted for has its stat sent, and once: a
\* cache hit, a shared fetch and a fetch of its own alike.
StatSentOnce ==
    \A t \in Tasks :
        /\ stats[t] <= 1
        /\ (/\ task[t].pc = "done"
            /\ task[t].method \notin Refused \cup {"eth_sendRawTransaction"}
            /\ task[t].method = "eth_estimateGas" => ~task[t].reply.error)
           => stats[t] = 1

\* Requests that wait for a response have one fetch in flight for them, and
\* no key has two.
OneFetchPerKey ==
    \A t \in Tasks : (task[t].pc \in {"waiting", "forward"} /\ Cacheable(task[t])) =>
        Cardinality({u \in Tasks : /\ task[u].pc = "forward" /\ Cacheable(task[u])
                                   /\ ResponseCacheKey(task[u]) = ResponseCacheKey(task[t])}) = 1

\* "If a future block is requested, this might wait forever": nothing else
\* does.  A payload is answered, fails or times out, or one of its requests is
\* waiting for a height above the head.  In particular it does not hang on the
\* fetch of a request that was dropped.
Answered ==
    \A c \in Clients :
        client[c] = "running" ~>
            \/ client[c] # "running"
            \/ \E t \in TasksOf(c) : task[t].pc = "resolve" /\ Wanted(t) > Num(head)

\* cannonical_block: "Get the heaviest chain's block from cache or backend rpc".
\* A block taken from the cache is on the chain of the consensus head.
CachedBlockCanonical ==
    [][\A t \in Tasks : (task[t].pc = "resolve" /\ Len(task'[t].found) > Len(task[t].found)) =>
            Extends(head, task'[t].found[Len(task'[t].found)])]_vars
=============================================================================
