--------------------------- MODULE RequestsProofs ---------------------------
(***************************************************************************)
(* Shared fetches, cached answers, stats and batches, for any clients,     *)
(* payloads, blocks and faults.                                            *)
(***************************************************************************)
EXTENDS Requests, FiniteSetTheorems, TLAPS

Fields == {"pc", "method", "params", "head", "nums", "found", "reply"}
ReplyFields == {"id", "method", "params", "error", "height"}

\* What holds of one request, where it is and whatever the others do.
TaskOK(t, r, n) ==
    /\ DOMAIN r = Fields /\ DOMAIN r.reply = ReplyFields
    /\ r.pc \in {"hash", "resolve", "ask", "lookup", "waiting"} => Cacheable(r)
    /\ r.pc \in {"stat", "done"} => r.reply.method = r.method /\ r.reply.params = r.params
    /\ r.pc = "done" => r.reply.id = t
    /\ r.pc \notin {"done", "dropped"} => n = 0
    /\ n \in {0, 1}
    /\ (/\ r.pc = "done"
        /\ r.method \notin Refused \cup {"eth_sendRawTransaction"}
        /\ r.method = "eth_estimateGas" => ~r.reply.error)
       => n = 1

\* The fetches that are shared: one per key, and one for each that waits.
Fetches(t) == task[t].pc = "forward" /\ Cacheable(task[t])
Key(t) == ResponseCacheKey(task[t])
FetchOK ==
    /\ \A t, u \in Tasks : (Fetches(t) /\ Fetches(u) /\ Key(t) = Key(u)) => t = u
    /\ \A t \in Tasks : task[t].pc = "waiting" => \E u \in Tasks : Fetches(u) /\ Key(u) = Key(t)

\* Only the requests of a payload exist, and those of a batch know the head.
HeadOK ==
    \A t \in Tasks :
        /\ client[t[1]] = "idle" => task[t].pc = "none"
        /\ task[t].pc \in {"none", "dropped"} => task[t].head = NoNum
        /\ (task[t].pc \notin {"none", "dropped"} /\ Len(payload[t[1]]) > 1) => task[t].head # NoNum
        /\ (Len(payload[t[1]]) <= 1 /\ t[2] # 1) => task[t].pc = "none"

\* The inductive invariant.
RequestsInv ==
    /\ payload \in Scenarios /\ head \in Blocks \cup {NoBlock}
    /\ task = [t \in Tasks |-> task[t]] /\ stats = [t \in Tasks |-> stats[t]]
    /\ client = [c \in Clients |-> client[c]]
    /\ \A t \in Tasks : TaskOK(t, task[t], stats[t])
    /\ \A e \in response_cache : /\ DOMAIN e.reply = ReplyFields
                                 /\ e.reply.method = e.key.method /\ e.reply.params = e.key.params
    /\ FetchOK
    /\ HeadOK
    /\ BatchSameHead

-----------------------------------------------------------------------------

\* A step of one request that is not a shared fetch, and that neither starts a second
\* fetch of a key nor waits for none.
LEMMA SetStep ==
    ASSUME RequestsInv, NEW t \in Tasks, NEW r, NEW n,
           task' = [task EXCEPT ![t] = r], stats' = [stats EXCEPT ![t] = n],
           UNCHANGED <<payload, head, client, response_cache>>,
           TaskOK(t, r, n), task[t].pc \notin {"none", "dropped"}, r.pc \notin {"none", "dropped"},
           ~Fetches(t),
           (r.pc = "forward" /\ Cacheable(r)) => ~Fetching(ResponseCacheKey(r)),
           r.pc = "waiting" => Fetching(ResponseCacheKey(r)),
           task[t].head # NoNum => r.head = task[t].head
    PROVE  RequestsInv'
<1>1. task' = [u \in Tasks |-> task'[u]] /\ stats' = [u \in Tasks |-> stats'[u]]
      /\ task'[t] = r /\ stats'[t] = n /\ \A u \in Tasks : u # t => task'[u] = task[u] /\ stats'[u] = stats[u]
  BY DEF RequestsInv
<1>2. \A u \in Tasks : TaskOK(u, task'[u], stats'[u])
  BY <1>1 DEF RequestsInv
<1>3. \A u \in Tasks : u # t => (Fetches(u)' <=> Fetches(u)) /\ Key(u)' = Key(u)
  BY <1>1 DEF Fetches, Key
<1>4. /\ Fetches(t)' <=> (r.pc = "forward" /\ Cacheable(r))
      /\ Key(t)' = ResponseCacheKey(r)
  BY <1>1 DEF Fetches, Key
<1>5. \A k : Fetching(k) <=> \E u \in Tasks : u # t /\ Fetches(u)' /\ Key(u)' = k
  BY <1>3 DEF Fetching, Fetches, Key
<1>6. ASSUME NEW u \in Tasks, NEW v \in Tasks, Fetches(u)', Fetches(v)', Key(u)' = Key(v)' PROVE u = v
  <2>1. CASE u # t /\ v # t
    BY <1>3, <1>6, <2>1 DEF RequestsInv, FetchOK
  <2>2. CASE u = t \/ v = t
    BY <1>4, <1>5, <1>6, <2>2
  <2> QED BY <2>1, <2>2
<1>7. ASSUME NEW u \in Tasks, task'[u].pc = "waiting" PROVE \E v \in Tasks : Fetches(v)' /\ Key(v)' = Key(u)'
  <2>1. CASE u = t
    BY <1>1, <1>4, <1>5, <1>7, <2>1
  <2>2. CASE u # t
    <3>1. PICK v \in Tasks : Fetches(v) /\ Key(v) = Key(u)
      BY <1>1, <1>7, <2>2 DEF RequestsInv, FetchOK
    <3> QED BY <1>3, <2>2, <3>1
  <2> QED BY <2>1, <2>2
<1>8. FetchOK'
  BY <1>6, <1>7 DEF FetchOK
<1>9. Len(payload[t[1]]) > 1 => task[t].head # NoNum
  BY DEF RequestsInv, HeadOK
<1>10. HeadOK'
  BY <1>1, <1>9 DEF RequestsInv, HeadOK
<1>11. BatchSameHead'
  <2> SUFFICES ASSUME NEW u \in Tasks, NEW v \in Tasks, u[1] = v[1],
                      task'[u].head # NoNum, task'[v].head # NoNum
               PROVE  task'[u].head = task'[v].head
    BY DEF BatchSameHead
  <2>1. CASE Len(payload[u[1]]) > 1
    <3>1. ASSUME NEW w \in Tasks, w[1] = u[1], task'[w].head # NoNum PROVE task'[w].head = task[w].head
      BY <1>1, <1>9, <2>1, <3>1
    <3> QED BY <3>1 DEF RequestsInv, BatchSameHead
  <2>2. CASE ~(Len(payload[u[1]]) > 1)
    <3>1. payload \in Scenarios /\ u[1] \in Clients
      BY DEF RequestsInv, Tasks
    <3>2. Len(payload[u[1]]) <= 1
      BY <2>2, <3>1, RequestsAssumption
    <3>3. task'[u].pc # "none" /\ task'[v].pc # "none"
      BY <1>1 DEF RequestsInv, HeadOK
    <3>4. u[2] = 1 /\ v[2] = 1
      BY <1>10, <3>2, <3>3 DEF HeadOK
    <3>5. u = v
      BY <3>4 DEF Tasks
    <3> QED BY <3>5
  <2> QED BY <2>1, <2>2
<1> QED BY <1>1, <1>2, <1>8, <1>10, <1>11 DEF RequestsInv

\* The same, for the steps before a stat is due.
LEMMA SetOnly ==
    ASSUME RequestsInv, NEW t \in Tasks, NEW r, Set(t, r),
           UNCHANGED <<payload, head, client, response_cache, stats>>,
           TaskOK(t, r, 0), task[t].pc \notin {"none", "done", "dropped"}, r.pc \notin {"none", "dropped"},
           ~Fetches(t),
           (r.pc = "forward" /\ Cacheable(r)) => ~Fetching(ResponseCacheKey(r)),
           r.pc = "waiting" => Fetching(ResponseCacheKey(r)),
           task[t].head # NoNum => r.head = task[t].head
    PROVE  RequestsInv'
<1>1. stats[t] = 0
  BY DEF RequestsInv, TaskOK
<1>2. stats' = [stats EXCEPT ![t] = 0]
  BY <1>1 DEF RequestsInv
<1>3. task' = [task EXCEPT ![t] = r]
  BY DEF Set
<1> QED BY <1>2, <1>3, SetStep

\* A request that is not a fetch of its own may fail at any point.
LEMMA FailStep ==
    ASSUME RequestsInv, NEW t \in Tasks, Fail(t), ~Fetches(t),
           task[t].pc \notin {"none", "done", "dropped"},
           UNCHANGED <<payload, head, client, response_cache, stats>>
    PROVE  RequestsInv'
<1> DEFINE r == [task[t] EXCEPT !.pc = "failed"]
<1>1. DOMAIN task[t] = Fields /\ DOMAIN task[t].reply = ReplyFields
  BY DEF RequestsInv, TaskOK
<1>2. r.pc = "failed" /\ DOMAIN r = Fields /\ r.reply = task[t].reply /\ r.head = task[t].head
  BY <1>1 DEF Fields
<1>3. TaskOK(t, r, 0)
  BY <1>1, <1>2 DEF TaskOK
<1>4. Set(t, r)
  BY DEF Fail
<1> HIDE DEF r
<1> QED BY <1>2, <1>3, <1>4, SetOnly

\* The fields after an EXCEPT.
LEMMA Fielded ==
    ASSUME RequestsInv, NEW t \in Tasks
    PROVE  /\ DOMAIN task[t] = Fields /\ DOMAIN task[t].reply = ReplyFields
           /\ \A error : /\ Reply(t, error).method = task[t].method /\ Reply(t, error).params = task[t].params
                         /\ Reply(t, error).error = error
                         /\ DOMAIN Reply(t, error) = ReplyFields
  BY DEF RequestsInv, TaskOK, Reply, ReplyFields

\* A refused method is answered with the request's own id and no stat.
LEMMA RefuseStep ==
    ASSUME RequestsInv, NEW t \in Tasks, Refuse(t)
    PROVE  RequestsInv'
<1> DEFINE y == Reply(t, TRUE)
           x == [y EXCEPT !.id = t]
           r == [task[t] EXCEPT !.pc = "done", !.reply = x]
<1>1. DOMAIN x = ReplyFields /\ x.id = t /\ x.method = task[t].method /\ x.params = task[t].params
  <2>1. DOMAIN y = ReplyFields /\ y.method = task[t].method /\ y.params = task[t].params
    BY Fielded
  <2> HIDE DEF y
  <2> QED BY <2>1 DEF ReplyFields
<1> HIDE DEF x
<1>2. DOMAIN r = Fields /\ r.pc = "done" /\ r.reply = x /\ r.method = task[t].method
      /\ r.params = task[t].params /\ r.head = task[t].head
  BY Fielded DEF Fields
<1>3. Set(t, r) /\ task[t].pc = "start" /\ task[t].method \in Refused
      /\ UNCHANGED <<payload, head, client, response_cache, stats>>
  BY DEF Refuse, Starting, upstream, x
<1> HIDE DEF r
<1>4. TaskOK(t, r, 0)
  BY <1>1, <1>2, <1>3 DEF TaskOK
<1> QED BY <1>2, <1>3, <1>4, SetOnly DEF Fetches

\* A local answer is for the request's method and params, and its stat is yet to come.
LEMMA AnswerLocallyStep ==
    ASSUME RequestsInv, NEW t \in Tasks, AnswerLocally(t)
    PROVE  RequestsInv'
<1>1. task[t].pc = "start" /\ UNCHANGED <<payload, head, client, response_cache, stats>> /\ ~Fetches(t)
  BY DEF AnswerLocally, Starting, upstream, Fetches
<1>2. CASE Fail(t)
  BY <1>1, <1>2, FailStep
<1>3. DOMAIN Reply(t, FALSE) = ReplyFields /\ Reply(t, FALSE).method = task[t].method
      /\ Reply(t, FALSE).params = task[t].params
  BY DEF Reply, ReplyFields
<1>4. CASE Set(t, [task[t] EXCEPT !.pc = "stat", !.reply = Reply(t, FALSE)])
  <2> DEFINE r == [task[t] EXCEPT !.pc = "stat", !.reply = Reply(t, FALSE)]
  <2>1. DOMAIN r = Fields /\ r.pc = "stat" /\ r.reply = Reply(t, FALSE) /\ r.method = task[t].method
        /\ r.params = task[t].params /\ r.head = task[t].head
    BY Fielded DEF Fields
  <2> HIDE DEF r
  <2>2. TaskOK(t, r, 0)
    BY <1>3, <2>1 DEF TaskOK
  <2> QED BY <1>1, <1>4, <2>1, <2>2, SetOnly DEF r
<1>5. CASE Set(t, [task[t] EXCEPT !.pc = "stat", !.reply = Reply(t, FALSE), !.head = HeadNum(t)])
  <2> DEFINE r == [task[t] EXCEPT !.pc = "stat", !.reply = Reply(t, FALSE), !.head = HeadNum(t)]
  <2>1. DOMAIN r = Fields /\ r.pc = "stat" /\ r.reply = Reply(t, FALSE) /\ r.method = task[t].method
        /\ r.params = task[t].params /\ r.head = HeadNum(t)
    BY Fielded DEF Fields
  <2> HIDE DEF r
  <2>2. TaskOK(t, r, 0)
    BY <1>3, <2>1 DEF TaskOK
  <2> QED BY <1>1, <1>5, <2>1, <2>2, SetOnly DEF r, HeadNum
<1> QED BY <1>2, <1>4, <1>5 DEF AnswerLocally

\* A request forwarded at once is not one that others can wait for.
LEMMA ForwardAtOnceStep ==
    ASSUME RequestsInv, NEW t \in Tasks, ForwardAtOnce(t)
    PROVE  RequestsInv'
<1> DEFINE r == [task[t] EXCEPT !.pc = "forward"]
<1>1. task[t].pc = "start" /\ UNCHANGED <<payload, head, client, response_cache, stats>> /\ ~Fetches(t)
      /\ task[t].method \in {"eth_estimateGas", "eth_sendRawTransaction"} /\ (Fail(t) \/ Set(t, r))
  BY DEF ForwardAtOnce, Starting, upstream, Fetches
<1>2. DOMAIN r = Fields /\ r.pc = "forward" /\ r.reply = task[t].reply /\ r.method = task[t].method
      /\ r.head = task[t].head
  BY Fielded DEF Fields
<1> HIDE DEF r
<1>3. TaskOK(t, r, 0) /\ ~Cacheable(r)
  BY <1>1, <1>2, Fielded DEF TaskOK, Cacheable
<1> QED BY <1>1, <1>2, <1>3, SetOnly, FailStep

\* From one step to the next, before there is a reply.
LEMMA OnwardStep ==
    ASSUME RequestsInv, NEW t \in Tasks, NEW r, Set(t, r),
           UNCHANGED <<payload, head, client, response_cache, stats>>,
           DOMAIN r = Fields, r.method = task[t].method, r.reply = task[t].reply,
           task[t].pc \in {"start", "hash", "resolve", "ask"},
           \/ r.pc \in {"hash", "resolve", "ask", "lookup"} /\ Cacheable(task[t])
           \/ r.pc = "forward" /\ ~Cacheable(task[t]),
           task[t].head # NoNum => r.head = task[t].head
    PROVE  RequestsInv'
<1>1. Cacheable(r) <=> Cacheable(task[t])
  BY DEF Cacheable
<1>2. TaskOK(t, r, 0)
  BY <1>1, Fielded DEF TaskOK
<1>3. ~Fetches(t)
  BY DEF Fetches
<1>4. r.pc \notin {"none", "dropped", "waiting"} /\ ~(r.pc = "forward" /\ Cacheable(r))
      /\ task[t].pc \notin {"none", "done", "dropped"}
  BY <1>1
<1> QED BY <1>2, <1>3, <1>4, SetOnly

\* The rewrite of the block parameter starts the request on its heights; nothing is
\* answered yet, and its head is that of its batch.
LEMMA ProxyStep ==
    ASSUME RequestsInv, NEW t \in Tasks, ProxyCachedRequest(t)
    PROVE  RequestsInv'
<1> DEFINE m == task[t].method
           p == task[t].params
           h == HeadNum(t)
           nums == BlockNeeded(m, p, h)
           q == NewParams(m, p, h)
           c == IF nums = <<>> THEN "lookup" ELSE "resolve"
<1>1. task[t].pc = "start" /\ UNCHANGED <<payload, head, client, response_cache, stats>> /\ ~Fetches(t)
      /\ Proxied(t)
  BY DEF ProxyCachedRequest, Starting, upstream, Fetches
<1>2. task[t].head # NoNum => h = task[t].head
  BY DEF HeadNum
<1>3. Cacheable(task[t]) <=> m \notin Traces
  BY <1>1 DEF Cacheable, Proxied
<1>4. CASE Fail(t)
  BY <1>1, <1>4, FailStep
<1>5. CASE m \in Traces /\ Set(t, [task[t] EXCEPT !.pc = "forward", !.head = h])
  <2> DEFINE r == [task[t] EXCEPT !.pc = "forward", !.head = h]
  <2>1. DOMAIN r = Fields /\ r.pc = "forward" /\ r.method = m /\ r.reply = task[t].reply /\ r.head = h
    BY Fielded DEF Fields
  <2>2. Set(t, r)
    BY <1>5
  <2> HIDE DEF r, h, m
  <2> QED BY <1>1, <1>2, <1>3, <1>5, <2>1, <2>2, OnwardStep DEF m
<1>6. CASE m \notin Traces /\ Set(t, [task[t] EXCEPT !.pc = "hash", !.head = h])
  <2> DEFINE r == [task[t] EXCEPT !.pc = "hash", !.head = h]
  <2>1. DOMAIN r = Fields /\ r.pc = "hash" /\ r.method = m /\ r.reply = task[t].reply /\ r.head = h
    BY Fielded DEF Fields
  <2>2. Set(t, r)
    BY <1>6
  <2> HIDE DEF r, h, m
  <2> QED BY <1>1, <1>2, <1>3, <1>6, <2>1, <2>2, OnwardStep DEF m
<1>7. CASE m \notin Traces /\ Set(t, [task[t] EXCEPT !.pc = c, !.head = h, !.nums = nums, !.params = q])
  <2> DEFINE r == [task[t] EXCEPT !.pc = c, !.head = h, !.nums = nums, !.params = q]
  <2>1. Set(t, r)
    BY <1>7
  <2>2. c \in {"lookup", "resolve"}
    OBVIOUS
  <2> HIDE DEF q, nums, h, m, c
  <2>3. DOMAIN r = Fields /\ r.pc = c /\ r.method = task[t].method /\ r.reply = task[t].reply /\ r.head = h
    BY Fielded DEF Fields
  <2> HIDE DEF r
  <2> QED BY <1>1, <1>2, <1>3, <1>7, <2>1, <2>2, <2>3, OnwardStep DEF m
<1>8. ByBlock \cap Traces = {}
  BY DEF ByBlock, Traces
<1> QED BY <1>4, <1>5, <1>6, <1>7, <1>8 DEF ProxyCachedRequest

\* A block hash becomes the one height the request needs.
LEMMA ResolveHashStep ==
    ASSUME RequestsInv, NEW t \in Tasks, ResolveHash(t)
    PROVE  RequestsInv'
<1>1. PICK nums : Set(t, [task[t] EXCEPT !.pc = "resolve", !.nums = nums])
  BY DEF ResolveHash
<1> DEFINE r == [task[t] EXCEPT !.pc = "resolve", !.nums = nums]
<1>2. DOMAIN r = Fields /\ r.pc = "resolve" /\ r.method = task[t].method /\ r.reply = task[t].reply
      /\ r.head = task[t].head
  BY Fielded DEF Fields
<1>3. task[t].pc = "hash" /\ UNCHANGED <<payload, head, client, response_cache, stats>>
  BY DEF ResolveHash, upstream
<1>4. Cacheable(task[t])
  BY <1>3 DEF RequestsInv, TaskOK
<1> QED BY <1>1, <1>2, <1>3, <1>4, OnwardStep

\* The request once a block is found.
LEMMA FoundFields ==
    ASSUME RequestsInv, NEW t \in Tasks, NEW b
    PROVE  /\ DOMAIN Found(t, b) = Fields /\ Found(t, b).pc \in {"lookup", "resolve"}
           /\ Found(t, b).method = task[t].method /\ Found(t, b).reply = task[t].reply
           /\ Found(t, b).head = task[t].head
<1> DEFINE found == Append(task[t].found, b)
           c == IF Len(found) = Len(task[t].nums) THEN "lookup" ELSE "resolve"
<1>1. Found(t, b) = [task[t] EXCEPT !.found = found, !.pc = c]
  BY DEF Found
<1>2. c \in {"lookup", "resolve"}
  OBVIOUS
<1> HIDE DEF found, c
<1> QED BY <1>1, <1>2, Fielded DEF Fields

\* A block of the caches extends the request's key, before any fetch.
LEMMA CannonicalBlockStep ==
    ASSUME RequestsInv, NEW t \in Tasks, CannonicalBlock(t)
    PROVE  RequestsInv'
<1>1. task[t].pc = "resolve" /\ UNCHANGED <<payload, head, client, response_cache, stats>>
  BY DEF CannonicalBlock, upstream
<1>2. Cacheable(task[t])
  BY <1>1 DEF RequestsInv, TaskOK
<1>3. ASSUME NEW b, Set(t, Found(t, b)) PROVE RequestsInv'
  BY <1>1, <1>2, <1>3, FoundFields, OnwardStep
<1>4. CASE Set(t, [task[t] EXCEPT !.pc = "ask"])
  <2> DEFINE r == [task[t] EXCEPT !.pc = "ask"]
  <2>1. DOMAIN r = Fields /\ r.pc = "ask" /\ r.method = task[t].method /\ r.reply = task[t].reply
        /\ r.head = task[t].head
    BY Fielded DEF Fields
  <2>2. Set(t, r)
    BY <1>4
  <2> HIDE DEF r
  <2> QED BY <1>1, <1>2, <2>1, <2>2, OnwardStep
<1> QED BY <1>3, <1>4 DEF CannonicalBlock

\* So does a block that a server sent; its failure fails the request.
LEMMA BlockAnsweredStep ==
    ASSUME RequestsInv, NEW t \in Tasks, BlockAnswered(t)
    PROVE  RequestsInv'
<1>1. task[t].pc = "ask" /\ UNCHANGED <<payload, head, client, response_cache, stats>> /\ ~Fetches(t)
  BY DEF BlockAnswered, upstream, Fetches
<1>2. Cacheable(task[t])
  BY <1>1 DEF RequestsInv, TaskOK
<1>3. ASSUME NEW b, Set(t, Found(t, b)) PROVE RequestsInv'
  BY <1>1, <1>2, <1>3, FoundFields, OnwardStep
<1>4. CASE Fail(t)
  BY <1>1, <1>4, FailStep
<1> QED BY <1>3, <1>4 DEF BlockAnswered

\* A hit matches the key, a miss waits for the one fetch or becomes it.
LEMMA LookupStep ==
    ASSUME RequestsInv, NEW t \in Tasks, Lookup(t)
    PROVE  RequestsInv'
<1> DEFINE k == ResponseCacheKey(task[t])
<1>1. task[t].pc = "lookup" /\ UNCHANGED <<payload, head, client, response_cache, stats>> /\ ~Fetches(t)
  BY DEF Lookup, upstream, Fetches
<1>2. Cacheable(task[t]) /\ DOMAIN task[t] = Fields /\ DOMAIN task[t].reply = ReplyFields
  BY <1>1 DEF RequestsInv, TaskOK
<1>3. ASSUME NEW c \in {"waiting", "forward"}, Set(t, [task[t] EXCEPT !.pc = c]),
             c = "waiting" => Fetching(k), c = "forward" => ~Fetching(k)
      PROVE  RequestsInv'
  <2> DEFINE r == [task[t] EXCEPT !.pc = c]
  <2>1. DOMAIN r = Fields /\ r.pc = c /\ r.method = task[t].method /\ r.reply = task[t].reply
        /\ r.head = task[t].head /\ r.found = task[t].found /\ r.params = task[t].params
    BY <1>2 DEF Fields
  <2>2. Set(t, r)
    BY <1>3
  <2> HIDE DEF r
  <2>3. ResponseCacheKey(r) = k /\ Cacheable(r)
    BY <1>2, <2>1 DEF ResponseCacheKey, Cacheable
  <2>4. TaskOK(t, r, 0)
    BY <1>2, <2>1, <2>3 DEF TaskOK
  <2>5. r.pc \notin {"none", "dropped"} /\ task[t].pc \notin {"none", "done", "dropped"}
    BY <1>1, <2>1
  <2> HIDE DEF k
  <2> QED BY <1>1, <1>3, <2>1, <2>2, <2>3, <2>4, <2>5, SetOnly
<1>4. ASSUME NEW e \in response_cache, e.key = k, Set(t, [task[t] EXCEPT !.pc = "stat", !.reply = e.reply])
      PROVE  RequestsInv'
  <2> DEFINE r == [task[t] EXCEPT !.pc = "stat", !.reply = e.reply]
  <2>1. DOMAIN r = Fields /\ r.pc = "stat" /\ r.method = task[t].method /\ r.reply = e.reply
        /\ r.head = task[t].head /\ r.params = task[t].params
    BY <1>2 DEF Fields
  <2>2. Set(t, r)
    BY <1>4
  <2> HIDE DEF r
  <2>3. DOMAIN e.reply = ReplyFields /\ e.reply.method = task[t].method /\ e.reply.params = task[t].params
    BY <1>4 DEF RequestsInv, ResponseCacheKey
  <2>4. TaskOK(t, r, 0)
    BY <2>1, <2>3 DEF TaskOK
  <2> QED BY <1>1, <2>1, <2>2, <2>4, SetOnly
<1> QED BY <1>3, <1>4 DEF Lookup

\* An answer that is not cached is for this request alone.
LEMMA ForwardedUncachedStep ==
    ASSUME RequestsInv, NEW t \in Tasks, ForwardedUncached(t)
    PROVE  RequestsInv'
<1> DEFINE m == task[t].method
<1>1. task[t].pc = "forward" /\ UNCHANGED <<payload, head, client, response_cache, stats>> /\ ~Fetches(t)
      /\ ~Cacheable(task[t])
  BY DEF ForwardedUncached, upstream, Fetches
<1>2. DOMAIN task[t] = Fields
  BY Fielded
<1>3. CASE Fail(t)
  BY <1>1, <1>3, FailStep
<1>4. ASSUME NEW outcome \in {"result", "error", "known"},
             outcome = "known" => m = "eth_sendRawTransaction",
             Set(t, [task[t] EXCEPT
                 !.pc = IF m \in Traces \/ (m = "eth_estimateGas" /\ outcome = "result")
                        THEN "stat" ELSE "done",
                 !.reply = [Reply(t, outcome = "error") EXCEPT !.id = t]])
      PROVE  RequestsInv'
  <2> DEFINE c == IF m \in Traces \/ (m = "eth_estimateGas" /\ outcome = "result") THEN "stat" ELSE "done"
             a == [Reply(t, outcome = "error") EXCEPT !.id = t]
             r == [task[t] EXCEPT !.pc = c, !.reply = a]
  <2>1. Set(t, r)
    BY <1>4
  <2>2. DOMAIN a = ReplyFields /\ a.id = t /\ a.method = m /\ a.params = task[t].params
        /\ a.error = (outcome = "error")
    BY DEF Reply, ReplyFields
  <2>3. c \in {"stat", "done"} /\ (c = "done" => m \notin Traces /\ (m = "eth_estimateGas" => outcome # "result"))
    OBVIOUS
  <2> HIDE DEF c, a
  <2>4. DOMAIN r = Fields /\ r.pc = c /\ r.method = task[t].method /\ r.reply = a
        /\ r.head = task[t].head /\ r.params = task[t].params
    BY <1>2 DEF Fields
  <2> HIDE DEF r
  <2>5. m \in Traces \cup {"eth_estimateGas", "eth_sendRawTransaction"}
    BY <1>1 DEF Cacheable
  <2>6. c = "done" => (m = "eth_sendRawTransaction" \/ (m = "eth_estimateGas" /\ outcome = "error"))
    BY <1>4, <2>3, <2>5
  <2>7. outcome = "error" => a.error
    BY <2>2
  <2>8. TaskOK(t, r, 0)
    BY <2>2, <2>3, <2>4, <2>6, <2>7 DEF TaskOK
  <2> QED BY <1>1, <2>1, <2>3, <2>4, <2>8, SetOnly
<1> QED BY <1>3, <1>4 DEF ForwardedUncached

\* The response gets the request's id and its stat is sent, once.
LEMMA RespondStep ==
    ASSUME RequestsInv, NEW t \in Tasks, Respond(t)
    PROVE  RequestsInv'
<1> DEFINE r == [task[t] EXCEPT !.pc = "done", !.reply.id = t]
<1>1. task[t].pc = "stat" /\ UNCHANGED <<payload, head, client, response_cache>> /\ ~Fetches(t)
  BY DEF Respond, upstream, Fetches
<1>2. /\ DOMAIN task[t] = Fields /\ DOMAIN task[t].reply = ReplyFields /\ stats[t] = 0
      /\ task[t].reply.method = task[t].method /\ task[t].reply.params = task[t].params
  BY <1>1 DEF RequestsInv, TaskOK
<1>3. stats' = [stats EXCEPT ![t] = 1]
  BY <1>2 DEF Respond, RequestsInv
<1>4. task' = [task EXCEPT ![t] = r]
  BY DEF Respond, Set
<1>5. DOMAIN r = Fields /\ r.pc = "done" /\ r.method = task[t].method /\ r.head = task[t].head
      /\ r.params = task[t].params /\ r.reply = [task[t].reply EXCEPT !.id = t]
  BY <1>2 DEF Fields
<1> HIDE DEF r
<1>6. DOMAIN r.reply = ReplyFields /\ r.reply.id = t /\ r.reply.method = task[t].reply.method
      /\ r.reply.params = task[t].reply.params
  BY <1>2, <1>5 DEF ReplyFields
<1>7. TaskOK(t, r, 1)
  BY <1>2, <1>5, <1>6 DEF TaskOK
<1> QED BY <1>1, <1>3, <1>4, <1>5, <1>7, SetStep

\* The end of a shared fetch, for the request that made it and all that wait for it.
LEMMA SharedStep ==
    ASSUME RequestsInv, NEW t \in Tasks, Fetches(t),
           UNCHANGED <<payload, head, client, stats>>,
           task' = [u \in Tasks |-> task'[u]],
           \A u \in Tasks \ (Waiters(Key(t)) \cup {t}) : task'[u] = task[u],
           \A u \in Waiters(Key(t)) \cup {t} :
               /\ TaskOK(u, task'[u], stats[u])
               /\ task'[u].pc \in {"stat", "failed"} /\ task'[u].head = task[u].head,
           \A e \in response_cache' : /\ DOMAIN e.reply = ReplyFields
                                      /\ e.reply.method = e.key.method /\ e.reply.params = e.key.params
    PROVE  RequestsInv'
<1> DEFINE W == Waiters(Key(t)) \cup {t}
<1>1. \A u \in W : u \in Tasks /\ task[u].pc \in {"waiting", "forward"} /\ Key(u) = Key(t)
  BY DEF Waiters, Key, Fetches
<1>2. \A u \in Tasks : TaskOK(u, task'[u], stats'[u])
  BY DEF RequestsInv
<1>3. \A u \in W : ~Fetches(u)' /\ task'[u].pc # "waiting"
  BY <1>1 DEF Fetches
<1>4. \A u \in Tasks \ W : task'[u].pc = task[u].pc /\ (Fetches(u)' <=> Fetches(u)) /\ Key(u)' = Key(u)
  BY DEF Fetches, Key
<1>5. \A u \in Tasks : (task[u].pc = "waiting" /\ Key(u) = Key(t)) => u \in W
  BY DEF Waiters, Key
<1>6. \A u \in Tasks : (Fetches(u) /\ Key(u) # Key(t)) => u \notin W
  BY <1>1
<1>7. \A u, v \in Tasks : (Fetches(u)' /\ Fetches(v)' /\ Key(u)' = Key(v)') => u = v
  BY <1>3, <1>4 DEF RequestsInv, FetchOK
<1>8. ASSUME NEW u \in Tasks, task'[u].pc = "waiting" PROVE \E v \in Tasks : Fetches(v)' /\ Key(v)' = Key(u)'
  <2>1. u \in Tasks \ W /\ task[u].pc = "waiting" /\ Key(u) # Key(t)
    BY <1>3, <1>4, <1>5, <1>8
  <2>2. PICK v \in Tasks : Fetches(v) /\ Key(v) = Key(u)
    BY <2>1 DEF RequestsInv, FetchOK
  <2> QED BY <1>4, <1>6, <2>1, <2>2
<1>9. FetchOK'
  BY <1>7, <1>8 DEF FetchOK
<1>10. \A u \in Tasks : task'[u].head = task[u].head
  OBVIOUS
<1>11. \A u \in Tasks : /\ task'[u].pc = "none" <=> task[u].pc = "none"
                        /\ task'[u].pc = "dropped" <=> task[u].pc = "dropped"
  BY <1>1, <1>4
<1>12. HeadOK'
  BY <1>10, <1>11 DEF RequestsInv, HeadOK
<1>13. BatchSameHead'
  BY <1>10 DEF RequestsInv, BatchSameHead
<1> QED BY <1>2, <1>9, <1>12, <1>13 DEF RequestsInv

\* The one fetch of a key ends: it and all that wait for it get an answer to that
\* key, and nobody is left waiting.
LEMMA ForwardedStep ==
    ASSUME RequestsInv, NEW t \in Tasks, Forwarded(t)
    PROVE  RequestsInv'
<1> DEFINE k == ResponseCacheKey(task[t])
           W == Waiters(k) \cup {t}
<1>1. Fetches(t) /\ Key(t) = k /\ UNCHANGED <<payload, head, client, stats>>
  BY DEF Forwarded, upstream, Fetches, Key
<1>2. ASSUME NEW u \in W
      PROVE  /\ u \in Tasks /\ DOMAIN task[u] = Fields /\ DOMAIN task[u].reply = ReplyFields
             /\ stats[u] = 0 /\ task[u].method = task[t].method /\ task[u].params = task[t].params
  <2>1. u \in Tasks /\ task[u].pc \in {"waiting", "forward"} /\ ResponseCacheKey(task[u]) = k
    BY <1>1 DEF Waiters, Fetches
  <2>2. task[u].method = task[t].method /\ task[u].params = task[t].params
    BY <2>1 DEF ResponseCacheKey
  <2> QED BY <2>1, <2>2 DEF RequestsInv, TaskOK
<1>3. CASE /\ task' = [u \in Tasks |-> IF u \in Waiters(k) \cup {t}
                        THEN [task[u] EXCEPT !.pc = "failed"] ELSE task[u]]
           /\ UNCHANGED response_cache
  <2>1. task' = [u \in Tasks |-> task'[u]] /\ \A u \in Tasks \ W : task'[u] = task[u]
    BY <1>3
  <2>2. ASSUME NEW u \in W
        PROVE  TaskOK(u, task'[u], stats[u]) /\ task'[u].pc = "failed" /\ task'[u].head = task[u].head
    <3>1. task'[u] = [task[u] EXCEPT !.pc = "failed"]
      BY <1>2, <1>3
    <3>2. DOMAIN task'[u] = Fields /\ task'[u].pc = "failed" /\ task'[u].head = task[u].head
          /\ task'[u].reply = task[u].reply
      BY <1>2, <3>1 DEF Fields
    <3> QED BY <1>2, <3>2 DEF TaskOK
  <2>3. \A e \in response_cache' : /\ DOMAIN e.reply = ReplyFields
                                   /\ e.reply.method = e.key.method /\ e.reply.params = e.key.params
    BY <1>3 DEF RequestsInv
  <2> HIDE DEF k
  <2> QED BY <1>1, <2>1, <2>2, <2>3, SharedStep
<1>4. ASSUME NEW error \in BOOLEAN,
             response_cache' = response_cache \cup {[key |-> k, reply |-> Reply(t, error)]},
             task' = [u \in Tasks |-> IF u \in Waiters(k) \cup {t}
                        THEN [task[u] EXCEPT !.pc = "stat", !.reply = Reply(t, error)]
                        ELSE task[u]]
      PROVE  RequestsInv'
  <2> DEFINE a == Reply(t, error)
  <2>1. task' = [u \in Tasks |-> task'[u]] /\ \A u \in Tasks \ W : task'[u] = task[u]
    BY <1>4
  <2>2. DOMAIN a = ReplyFields /\ a.method = task[t].method /\ a.params = task[t].params
    BY DEF Reply, ReplyFields
  <2>3. k.method = task[t].method /\ k.params = task[t].params
    BY DEF ResponseCacheKey
  <2>4. ASSUME NEW u \in W
        PROVE  TaskOK(u, task'[u], stats[u]) /\ task'[u].pc = "stat" /\ task'[u].head = task[u].head
    <3>1. task'[u] = [task[u] EXCEPT !.pc = "stat", !.reply = a]
      BY <1>2, <1>4
    <3> HIDE DEF a
    <3>2. DOMAIN task'[u] = Fields /\ task'[u].pc = "stat" /\ task'[u].head = task[u].head
          /\ task'[u].reply = a /\ task'[u].method = task[u].method /\ task'[u].params = task[u].params
      BY <1>2, <3>1 DEF Fields
    <3> QED BY <1>2, <2>2, <3>2 DEF TaskOK
  <2> HIDE DEF k, a
  <2>5. response_cache' = response_cache \cup {[key |-> k, reply |-> a]}
    BY <1>4 DEF k, a
  <2>6. \A e \in response_cache' : /\ DOMAIN e.reply = ReplyFields
                                   /\ e.reply.method = e.key.method /\ e.reply.params = e.key.params
    BY <2>2, <2>3, <2>5 DEF RequestsInv
  <2> QED BY <1>1, <2>1, <2>4, <2>6, SharedStep
<1> QED BY <1>3, <1>4 DEF Forwarded

\* A request before it is received, and once it is dropped.
LEMMA UnusedFields ==
    /\ DOMAIN Unused = Fields /\ Unused.reply = NoReply /\ Unused.head = NoNum
    /\ DOMAIN NoReply = ReplyFields
    /\ DOMAIN [Unused EXCEPT !.pc = "dropped"] = Fields
    /\ [Unused EXCEPT !.pc = "dropped"].pc = "dropped"
    /\ [Unused EXCEPT !.pc = "dropped"].head = NoNum
    /\ DOMAIN [Unused EXCEPT !.pc = "dropped"].reply = ReplyFields
<1>1. DOMAIN NoReply = ReplyFields
  BY DEF NoReply, ReplyFields
<1>2. DOMAIN Unused = Fields /\ Unused.reply = NoReply /\ Unused.head = NoNum
  BY DEF Unused, Fields
<1> QED BY <1>1, <1>2 DEF Fields

\* A timeout drops fetches with their requests; those that waited look again.
LEMMA TimeoutStep ==
    ASSUME RequestsInv, NEW c \in Clients, Timeout(c)
    PROVE  RequestsInv'
<1> DEFINE dropped == {u \in TasksOf(c) : task[u].pc = "forward" /\ Cacheable(task[u])}
           orphans == UNION {Waiters(ResponseCacheKey(task[u])) : u \in dropped}
           D == TasksOf(c)
<1>1. /\ UNCHANGED <<payload, head, response_cache, stats>> /\ client[c] = "running"
      /\ client' = [client EXCEPT ![c] = "timeout"]
      /\ task' = [t \in Tasks |-> IF t \in D THEN [Unused EXCEPT !.pc = "dropped"]
                                  ELSE IF t \in orphans THEN [task[t] EXCEPT !.pc = "lookup"]
                                  ELSE task[t]]
  BY DEF Timeout, upstream
<1>2. \A t \in D : t \in Tasks /\ t[1] = c /\ task[t].pc # "none"
  BY DEF TasksOf
<1>3. \A t \in Tasks : t \in orphans <=>
        (task[t].pc = "waiting" /\ \E u \in D : Fetches(u) /\ Key(u) = Key(t))
  BY DEF Waiters, Fetches, Key
<1>4. \A t \in Tasks : /\ t \in D => task'[t] = [Unused EXCEPT !.pc = "dropped"]
                       /\ (t \notin D /\ t \in orphans) => task'[t] = [task[t] EXCEPT !.pc = "lookup"]
                       /\ (t \notin D /\ t \notin orphans) => task'[t] = task[t]
  BY <1>1
<1>5. task' = [t \in Tasks |-> task'[t]]
  BY <1>1
<1> HIDE DEF D, orphans
<1>6. ASSUME NEW t \in Tasks, t \in D
      PROVE  /\ TaskOK(t, task'[t], stats[t]) /\ task'[t].pc = "dropped" /\ task'[t].head = NoNum
             /\ ~Fetches(t)'
  <2>1. /\ DOMAIN task'[t] = Fields /\ DOMAIN task'[t].reply = ReplyFields
        /\ task'[t].pc = "dropped" /\ task'[t].head = NoNum
    BY <1>4, <1>6, UnusedFields
  <2>2. stats[t] \in {0, 1}
    BY DEF RequestsInv, TaskOK
  <2> QED BY <2>1, <2>2 DEF TaskOK, Fetches
<1>7. ASSUME NEW t \in Tasks, t \notin D, t \in orphans
      PROVE  /\ TaskOK(t, task'[t], stats[t]) /\ task'[t].pc = "lookup" /\ task'[t].head = task[t].head
             /\ task[t].pc = "waiting" /\ ~Fetches(t)'
  <2>1. task[t].pc = "waiting"
    BY <1>3, <1>7
  <2>2. DOMAIN task[t] = Fields /\ DOMAIN task[t].reply = ReplyFields /\ Cacheable(task[t]) /\ stats[t] = 0
    BY <2>1 DEF RequestsInv, TaskOK
  <2>3. DOMAIN task'[t] = Fields /\ task'[t].pc = "lookup" /\ task'[t].head = task[t].head
        /\ task'[t].reply = task[t].reply /\ task'[t].method = task[t].method
    BY <1>4, <1>7, <2>2 DEF Fields
  <2> QED BY <2>1, <2>2, <2>3 DEF TaskOK, Fetches, Cacheable
<1>8. \A t \in Tasks : TaskOK(t, task'[t], stats'[t])
  BY <1>1, <1>4, <1>6, <1>7 DEF RequestsInv
<1>9. \A t \in Tasks : (t \notin D /\ t \notin orphans) =>
        (Fetches(t)' <=> Fetches(t)) /\ Key(t)' = Key(t) /\ task'[t].pc = task[t].pc
  BY <1>4 DEF Fetches, Key
<1>10. FetchOK'
  <2>1. \A u, v \in Tasks : (Fetches(u)' /\ Fetches(v)' /\ Key(u)' = Key(v)') => u = v
    BY <1>6, <1>7, <1>9 DEF RequestsInv, FetchOK
  <2>2. ASSUME NEW u \in Tasks, task'[u].pc = "waiting" PROVE \E v \in Tasks : Fetches(v)' /\ Key(v)' = Key(u)'
    <3>1. u \notin D /\ u \notin orphans /\ task[u].pc = "waiting"
      BY <1>6, <1>7, <1>9, <2>2
    <3>2. PICK v \in Tasks : Fetches(v) /\ Key(v) = Key(u)
      BY <3>1 DEF RequestsInv, FetchOK
    <3>3. v \notin D /\ v \notin orphans
      BY <1>3, <3>1, <3>2 DEF Fetches
    <3> QED BY <1>9, <3>1, <3>2, <3>3
  <2> QED BY <2>1, <2>2 DEF FetchOK
<1>11. \A t \in Tasks : task'[t].head = (IF t \in D THEN NoNum ELSE task[t].head)
  BY <1>4, <1>6, <1>7
<1>12. \A t \in Tasks : /\ task'[t].pc = "none" <=> task[t].pc = "none"
                        /\ task'[t].pc = "dropped" <=> (t \in D \/ task[t].pc = "dropped")
  BY <1>2, <1>6, <1>7, <1>9
<1>13. HeadOK'
  <2> SUFFICES ASSUME NEW t \in Tasks
               PROVE  /\ client'[t[1]] = "idle" => task'[t].pc = "none"
                      /\ task'[t].pc \in {"none", "dropped"} => task'[t].head = NoNum
                      /\ (task'[t].pc \notin {"none", "dropped"} /\ Len(payload[t[1]]) > 1) => task'[t].head # NoNum
                      /\ (Len(payload[t[1]]) <= 1 /\ t[2] # 1) => task'[t].pc = "none"
    BY <1>1 DEF HeadOK
  <2>1. t[1] \in Clients
    BY DEF Tasks
  <2>2. client'[t[1]] = "idle" => client[t[1]] = "idle"
    BY <1>1, <2>1 DEF RequestsInv
  <2> QED BY <1>11, <1>12, <2>2 DEF RequestsInv, HeadOK
<1>14. BatchSameHead'
  BY <1>11 DEF RequestsInv, BatchSameHead
<1>15. client' = [d \in Clients |-> client'[d]]
  BY <1>1 DEF RequestsInv
<1>16. stats' = [t \in Tasks |-> stats'[t]]
  BY <1>1 DEF RequestsInv
<1> QED BY <1>1, <1>5, <1>8, <1>10, <1>13, <1>14, <1>15, <1>16 DEF RequestsInv

\* The requests of a payload start with the same head, or each with none.
LEMMA ReceiveStep ==
    ASSUME RequestsInv, NEW c \in Clients, Receive(c)
    PROVE  RequestsInv'
<1> DEFINE p == payload[c]
           new(t) == t[1] = c /\ t[2] \in DOMAIN p
           r(t) == [Unused EXCEPT !.pc = "start", !.method = p[t[2]].method,
                                  !.params = p[t[2]].params, !.head = BatchHead(p)]
<1>1. UNCHANGED <<payload, head, response_cache, stats>> /\ client[c] = "idle"
  BY DEF Receive, upstream
<1>2. payload \in Scenarios /\ Len(p) \in Nat /\ DOMAIN p = 1..Len(p)
  BY RequestsAssumption DEF RequestsInv
<1>3. \A t \in Tasks : t[1] = c => task[t].pc = "none" /\ task[t].head = NoNum /\ stats[t] = 0
  BY DEF RequestsInv, HeadOK, TaskOK, Receive
<1>4. \A t \in Tasks : t[1] \in Clients
  BY DEF Tasks
<1>5. ASSUME NEW s, s # "idle", client' = [client EXCEPT ![c] = s]
      PROVE  /\ client' = [d \in Clients |-> client'[d]]
             /\ \A d \in Clients : client'[d] = "idle" => client[d] = "idle" /\ d # c
  BY <1>5 DEF RequestsInv
<1>6. stats' = [t \in Tasks |-> stats'[t]]
  BY <1>1 DEF RequestsInv
<1>7. CASE client' = [client EXCEPT ![c] = "failed"] /\ UNCHANGED task
  <2>1. HeadOK'
    BY <1>1, <1>4, <1>5, <1>7 DEF RequestsInv, HeadOK
  <2>2. FetchOK' /\ BatchSameHead'
    BY <1>7 DEF RequestsInv, FetchOK, Fetches, Key, BatchSameHead
  <2> QED BY <1>1, <1>5, <1>6, <1>7, <2>1, <2>2 DEF RequestsInv
<1>8. CASE /\ Len(p) > 1 => head # NoBlock
           /\ client' = [client EXCEPT ![c] = "running"]
           /\ task' = [t \in Tasks |-> IF new(t) THEN r(t) ELSE task[t]]
  <2>1. task' = [t \in Tasks |-> task'[t]]
    BY <1>8
  <2>2. ASSUME NEW t \in Tasks, new(t)
        PROVE  /\ DOMAIN task'[t] = Fields /\ task'[t].pc = "start" /\ task'[t].head = BatchHead(p)
               /\ task'[t].reply = NoReply
    <3>1. task'[t] = r(t)
      BY <1>8, <2>2
    <3> QED BY <3>1, UnusedFields DEF Fields
  <2>3. \A t \in Tasks : ~new(t) => task'[t] = task[t]
    BY <1>8
  <2>4. Len(p) > 1 => BatchHead(p) # NoNum
    <3>1. head \in Blocks \cup {NoBlock}
      BY DEF RequestsInv
    <3>2. head # NoBlock => Num(head) \in Nat
      BY <3>1, ChainAssumption DEF Num
    <3>3. NoNum \notin Nat
      BY DEF NoNum
    <3> HIDE DEF p
    <3> QED BY <1>8, <3>2, <3>3 DEF BatchHead
  <2>5. \A t \in Tasks : new(t) => t[1] = c
    OBVIOUS
  <2>6. \A t \in Tasks : (new(t) /\ Len(p) <= 1) => t[2] = 1
    BY <1>2
  <2>7. \A t \in Tasks : t[1] = c => task[t].pc = "none" /\ p = payload[t[1]]
    BY <1>3
  <2> HIDE DEF new, p
  <2>8. \A t \in Tasks : TaskOK(t, task'[t], stats'[t])
    BY <1>1, <1>3, <2>2, <2>3, <2>5, UnusedFields DEF RequestsInv, TaskOK
  <2>9. FetchOK'
    <3>1. \A t \in Tasks : /\ Fetches(t)' => ~new(t)
                           /\ Fetches(t) => ~new(t)
                           /\ ~new(t) => (Fetches(t)' <=> Fetches(t)) /\ Key(t)' = Key(t)
                           /\ task'[t].pc = "waiting" => ~new(t)
      BY <2>2, <2>3, <2>5, <2>7 DEF Fetches, Key
    <3>2. ASSUME NEW u \in Tasks, task'[u].pc = "waiting" PROVE \E v \in Tasks : Fetches(v)' /\ Key(v)' = Key(u)'
      <4>1. PICK v \in Tasks : Fetches(v) /\ Key(v) = Key(u)
        BY <2>3, <3>1, <3>2 DEF RequestsInv, FetchOK
      <4> QED BY <3>1, <3>2, <4>1
    <3>3. \A u, v \in Tasks : (Fetches(u)' /\ Fetches(v)' /\ Key(u)' = Key(v)') => u = v
      BY <3>1 DEF RequestsInv, FetchOK
    <3> QED BY <3>2, <3>3 DEF FetchOK
  <2>10. HeadOK'
    <3> SUFFICES ASSUME NEW t \in Tasks
                 PROVE  /\ client'[t[1]] = "idle" => task'[t].pc = "none"
                        /\ task'[t].pc \in {"none", "dropped"} => task'[t].head = NoNum
                        /\ (task'[t].pc \notin {"none", "dropped"} /\ Len(payload[t[1]]) > 1) => task'[t].head # NoNum
                        /\ (Len(payload[t[1]]) <= 1 /\ t[2] # 1) => task'[t].pc = "none"
      BY <1>1 DEF HeadOK
    <3>1. client'[t[1]] = "idle" => client[t[1]] = "idle" /\ t[1] # c
      BY <1>4, <1>5, <1>8
    <3>2. CASE new(t)
      BY <2>2, <2>4, <2>5, <2>6, <2>7, <3>1, <3>2
    <3>3. CASE ~new(t)
      BY <2>3, <3>1, <3>3 DEF RequestsInv, HeadOK
    <3> QED BY <3>2, <3>3
  <2>11. BatchSameHead'
    <3>1. \A t \in Tasks : t[1] = c => task'[t].head \in {NoNum, BatchHead(p)}
      BY <1>3, <2>2, <2>3
    <3>2. \A t \in Tasks : t[1] # c => task'[t].head = task[t].head
      BY <2>3, <2>5
    <3> QED BY <3>1, <3>2 DEF RequestsInv, BatchSameHead
  <2> QED BY <1>1, <1>5, <1>6, <1>8, <2>1, <2>8, <2>9, <2>10, <2>11 DEF RequestsInv
<1> QED BY <1>7, <1>8 DEF Receive

\* Steps that leave the requests alone.
LEMMA OtherStep ==
    ASSUME RequestsInv, UNCHANGED <<payload, task, stats>>,
           head' \in Blocks \cup {NoBlock}, response_cache' \subseteq response_cache,
           client' = [c \in Clients |-> client'[c]],
           \A c \in Clients : client'[c] = "idle" => client[c] = "idle"
    PROVE  RequestsInv'
<1>1. \A t \in Tasks : t[1] \in Clients
  BY DEF Tasks
<1>2. HeadOK'
  BY <1>1 DEF RequestsInv, HeadOK
<1>3. FetchOK' /\ BatchSameHead'
  BY DEF RequestsInv, FetchOK, Fetches, Key, BatchSameHead
<1> QED BY <1>2, <1>3 DEF RequestsInv

\* Ending a payload changes no request.
LEMMA FinishStep ==
    ASSUME RequestsInv, NEW c \in Clients, Finish(c)
    PROVE  RequestsInv'
<1> DEFINE s == IF \E t \in TasksOf(c) : task[t].pc = "failed" THEN "failed" ELSE "answered"
<1>1. s # "idle"
  OBVIOUS
<1>2. client' = [client EXCEPT ![c] = s] /\ UNCHANGED <<payload, head, response_cache, task, stats>>
  BY DEF Finish, upstream
<1> HIDE DEF s
<1>3. client' = [d \in Clients |-> client'[d]] /\ \A d \in Clients : client'[d] = "idle" => client[d] = "idle"
  BY <1>1, <1>2 DEF RequestsInv
<1> QED BY <1>2, <1>3, OtherStep DEF RequestsInv

\* Every step keeps the invariant.
LEMMA RequestsNext ==
    ASSUME RequestsInv, [Next]_vars
    PROVE  RequestsInv'
<1>1. CASE UNCHANGED vars
  BY <1>1, OtherStep DEF vars, RequestsInv
<1>2. ASSUME NEW b \in Blocks, Mine(b) PROVE RequestsInv'
  BY <1>2, OtherStep DEF Mine, RequestsInv
<1>3. ASSUME NEW b \in Blocks, ConsensusHead(b) PROVE RequestsInv'
  BY <1>3, OtherStep DEF ConsensusHead, upstream, RequestsInv
<1>4. ASSUME NEW e \in response_cache, Evict(e) PROVE RequestsInv'
  BY <1>4, OtherStep DEF Evict, upstream, RequestsInv
<1>5. ASSUME NEW c \in Clients, Receive(c) \/ Finish(c) \/ Timeout(c) PROVE RequestsInv'
  BY <1>5, ReceiveStep, FinishStep, TimeoutStep
<1>6. ASSUME NEW t \in Tasks, RequestStep(t) PROVE RequestsInv'
  BY <1>6, RefuseStep, AnswerLocallyStep, ForwardAtOnceStep, ProxyStep, ResolveHashStep,
     CannonicalBlockStep, BlockAnsweredStep, LookupStep, ForwardedStep, ForwardedUncachedStep,
     RespondStep DEF RequestStep
<1> QED BY <1>1, <1>2, <1>3, <1>4, <1>5, <1>6 DEF Next

\* No request has started.
LEMMA RequestsInit ==
    ASSUME Init
    PROVE  RequestsInv
<1>1. task = [t \in Tasks |-> task[t]] /\ stats = [t \in Tasks |-> stats[t]]
      /\ client = [c \in Clients |-> client[c]]
  BY DEF Init
<1>2. \A t \in Tasks : task[t] = Unused /\ stats[t] = 0
  BY DEF Init
<1>3. Unused.pc = "none"
  BY DEF Unused
<1>4. \A t \in Tasks : TaskOK(t, task[t], stats[t])
  BY <1>2, <1>3, UnusedFields DEF TaskOK
<1>5. FetchOK /\ HeadOK /\ BatchSameHead
  BY <1>2, <1>3, UnusedFields DEF FetchOK, Fetches, HeadOK, BatchSameHead
<1> QED BY <1>1, <1>4, <1>5 DEF RequestsInv, Init

\* The invariant holds whatever the requests, the servers and the timeouts do.
THEOREM RequestsInvariant == Spec => []RequestsInv
<1>1. Init => RequestsInv
  BY RequestsInit
<1>2. RequestsInv /\ [Next]_vars => RequestsInv'
  BY RequestsNext
<1> QED BY <1>1, <1>2, PTL DEF Spec

\* A response answers its own request, with its own id, also when it was fetched for
\* another request or comes from the cache (proxy_cached_request).
THEOREM OwnAnswerAlways == Spec => []OwnAnswer
<1>1. RequestsInv => OwnAnswer
  BY DEF RequestsInv, TaskOK, OwnAnswer
<1> QED BY <1>1, RequestsInvariant, PTL

\* The stat of a response is sent, and never twice (the end of proxy_cached_request).
THEOREM StatSentOnceAlways == Spec => []StatSentOnce
<1>1. RequestsInv => StatSentOnce
  BY DEF RequestsInv, TaskOK, StatSentOnce
<1> QED BY <1>1, RequestsInvariant, PTL

\* The requests of a batch use one head, and late ones are not moved to another
\* (proxy_web3_rpc_requests).
THEOREM BatchSameHeadAlways == Spec => []BatchSameHead
<1>1. RequestsInv => BatchSameHead
  BY DEF RequestsInv
<1> QED BY <1>1, RequestsInvariant, PTL

\* Whoever waits has a fetch to wait for, timeouts included, and it is the only one
\* (response_cache.try_get_with).
THEOREM OneFetchPerKeyAlways == Spec => []OneFetchPerKey
<1>1. RequestsInv => OneFetchPerKey
  <2> SUFFICES ASSUME RequestsInv, NEW t \in Tasks,
                      task[t].pc \in {"waiting", "forward"}, Cacheable(task[t])
               PROVE  Cardinality({u \in Tasks : /\ task[u].pc = "forward" /\ Cacheable(task[u])
                                   /\ ResponseCacheKey(task[u]) = ResponseCacheKey(task[t])}) = 1
    BY DEF OneFetchPerKey
  <2> DEFINE S == {u \in Tasks : /\ task[u].pc = "forward" /\ Cacheable(task[u])
                                 /\ ResponseCacheKey(task[u]) = ResponseCacheKey(task[t])}
  <2>1. \A u : u \in S <=> (u \in Tasks /\ Fetches(u) /\ Key(u) = Key(t))
    BY DEF Fetches, Key
  <2> HIDE DEF S
  <2>2. PICK v \in Tasks : Fetches(v) /\ Key(v) = Key(t)
    BY DEF RequestsInv, FetchOK, Fetches
  <2>3. S = {v}
    BY <2>1, <2>2 DEF RequestsInv, FetchOK
  <2>4. Cardinality(S) = 1
    BY <2>3, FS_Singleton
  <2> QED BY <2>4 DEF S
<1> QED BY <1>1, RequestsInvariant, PTL
=============================================================================
