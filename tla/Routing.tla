------------------------------ MODULE Routing ------------------------------
(***************************************************************************)
(* One request on its way through try_send_best_consensus_head_connection: *)
(* best_available_rpc picks the usable servers for the blocks it needs,    *)
(* tries to open a handle on them in a random order that prefers the lower *)
(* latency, and the answer decides whether another server is asked.        *)
(* Meanwhile the heads, the consensus and the state of the servers change. *)
(*                                                                         *)
(* Servers are named by their connection: a reload in the middle of a      *)
(* request is left to the Consensus module.  OpenRequestResult::RetryAt    *)
(* never leaves best_available_rpc, because the minimum of None and a time *)
(* is None; the branch of the caller that sleeps is not reached.           *)
(***************************************************************************)
EXTENDS Integers, FiniteSets, SequencesExt

CONSTANTS
    Rpcs,           \* the servers in by_name
    Tier,           \* Tier[r]
    Latency,        \* Latency[r]: the ewma that head_latency holds
    DataLimit,      \* DataLimit[r]: blocks below its head that a server has
    MaxBlock,       \* bound: block numbers are 1..MaxBlock
    Now,            \* a block n is Now - n seconds old
    MaxLag,         \* max_block_lag, or NoBlock
    MaxAge,         \* max_block_age, or NoBlock
    Needs,          \* the pairs <<min_block_needed, max_block_needed>> asked
    NoBlock,        \* None
    NoConsensus     \* watch_consensus_rpcs_sender holds None

ASSUME RoutingAssumption ==
    /\ IsFiniteSet(Rpcs)
    /\ MaxBlock \in Nat /\ Now \in Nat /\ Now >= MaxBlock
    /\ {NoBlock, NoConsensus} \cap Int = {}
    /\ \A r \in Rpcs : Latency[r] \in Int /\ Tier[r] \in Int
    /\ Needs \subseteq ((1..MaxBlock) \cup {NoBlock}) \X ((1..MaxBlock) \cup {NoBlock})

Blocks == 1..MaxBlock

VARIABLES
    head,       \* head[r]: the number of the server's head block, or NoBlock
    consensus,  \* [head, rpcs] or NoConsensus
    need,       \* the blocks the request needs
    pc,         \* "loop", "try", "sent" or "done"
    skip,       \* skip_rpcs: servers that got the request, in order
    usable,     \* [rpcs, fastest, old]: the servers picked, the fastest of
                \* each group, and whether it was for an old block
    tries,      \* servers still to try for a handle
    refused,    \* servers that gave no handle since they were picked
    missing,    \* method_not_available_response is Some
    result      \* what the caller gets

env == <<head, consensus>>
vars == <<env, need, pc, skip, usable, tries, refused, missing, result>>

Skipped == {skip[i] : i \in DOMAIN skip}

AtLeast(a, b) == IF a >= b THEN a ELSE b
AtMost(a, b) == IF a <= b THEN a ELSE b

-----------------------------------------------------------------------------
(* best_available_rpc                                                      *)

has_block_data(r, n) ==
    head[r] # NoBlock /\ n <= head[r] /\ n >= head[r] - DataLimit[r]

\* The block that is compared with the head: the lower bound if there is one.
NeededBlock ==
    CASE need = <<NoBlock, NoBlock>> -> consensus.head
      [] need[1] = NoBlock /\ need[2] # NoBlock -> need[2]
      [] OTHER -> need[1]

Age(n) == Now - n

\* The servers for an old block: those that have the blocks and whose heads
\* are neither too low nor too old.
WithBlocks ==
    {r \in Rpcs \ Skipped :
        /\ \A n \in {need[1], need[2]} \ {NoBlock} : has_block_data(r, n)
        /\ head[r] # NoBlock
        /\ MaxLag # NoBlock => AtMost(head[r], consensus.head) >= consensus.head - MaxLag
        /\ MaxAge # NoBlock => Age(head[r]) <= AtLeast(Age(consensus.head) - MaxAge, 0)}

Usable ==
    CASE NeededBlock < consensus.head -> WithBlocks
      [] NeededBlock = consensus.head -> consensus.rpcs \ Skipped
      [] NeededBlock > consensus.head -> {}

\* Old blocks: by tier, then by head up to the consensus head.  Otherwise
\* there is one group.
Group(r) ==
    IF NeededBlock < consensus.head
    THEN <<Tier[r], AtMost(head[r], consensus.head)>>
    ELSE <<0, 0>>

Before(g, h) == g[1] < h[1] \/ (g[1] = h[1] /\ g[2] < h[2])

\* Mutant: the groups are shuffled together.
ShufflesOfAll == SetToSeqs(Usable)

\* The groups in the order of their keys, each one shuffled.
Shuffles ==
    {s \in SetToSeqs(Usable) :
        \A i, j \in DOMAIN s : i < j => ~Before(Group(s[j]), Group(s[i]))}

\* The server of each group that wins all its windows.
Fastest ==
    {r \in Usable : \A q \in Usable : Group(q) = Group(r) => Latency[r] <= Latency[q]}

\* Mutant: the window does not wrap around.
TriesNotCircular(s) ==
    LET mates(i) == {j \in DOMAIN s : Group(s[j]) = Group(s[i])}
        last == {i \in DOMAIN s : i + 1 \notin mates(i)}
        fastest(i) == IF Latency[s[i + 1]] < Latency[s[i]] THEN s[i + 1] ELSE s[i]
        kept == {i \in DOMAIN s : i \notin last}
        nth == SetToSortSeq(kept, <)
    IN  [k \in DOMAIN nth |-> fastest(nth[k])]

\* circular_tuple_windows over each group: of every server and the next one,
\* the one with the lower latency.
Tries(s) ==
    LET mates(i) == {j \in DOMAIN s : Group(s[j]) = Group(s[i])}
        next(i) == IF i + 1 \in mates(i) THEN i + 1
                   ELSE CHOOSE j \in mates(i) : \A k \in mates(i) : j <= k
    IN  [i \in DOMAIN s |->
            IF Latency[s[next(i)]] < Latency[s[i]] THEN s[next(i)] ELSE s[i]]

-----------------------------------------------------------------------------
(* try_send_best_consensus_head_connection                                 *)

Init ==
    /\ head = [r \in Rpcs |-> NoBlock]
    /\ consensus = NoConsensus
    /\ need \in Needs
    /\ pc = "loop"
    /\ skip = <<>> /\ tries = <<>>
    /\ usable = [rpcs |-> {}, fastest |-> {}, old |-> FALSE]
    /\ refused = {}
    /\ missing = FALSE
    /\ result = "none"

\* The loop is over: the error saved before, or -32043.
GiveUp ==
    /\ pc' = "done"
    /\ result' = IF missing THEN "missing" ELSE "unavailable"
    /\ UNCHANGED <<env, need, skip, usable, tries, refused, missing>>

\* Every server was asked.
AllSkipped == pc = "loop" /\ Len(skip) >= Cardinality(Rpcs) /\ GiveUp

\* No consensus, or a block above its head: NotReady at once.
NotSynced ==
    /\ pc = "loop" /\ Len(skip) < Cardinality(Rpcs)
    /\ \/ consensus = NoConsensus
       \/ /\ consensus # NoConsensus
          /\ need[1] # NoBlock /\ need[2] # NoBlock => need[1] <= need[2]
          /\ NeededBlock > consensus.head
    /\ GiveUp

\* min_block_needed above max_block_needed is an error of the caller.
InvalidBounds ==
    /\ pc = "loop" /\ Len(skip) < Cardinality(Rpcs)
    /\ consensus # NoConsensus
    /\ need[1] # NoBlock /\ need[2] # NoBlock /\ need[1] > need[2]
    /\ pc' = "done"
    /\ result' = "invalid"
    /\ UNCHANGED <<env, need, skip, usable, tries, refused, missing>>

Pick ==
    /\ pc = "loop" /\ Len(skip) < Cardinality(Rpcs)
    /\ consensus # NoConsensus
    /\ need[1] # NoBlock /\ need[2] # NoBlock => need[1] <= need[2]
    /\ NeededBlock <= consensus.head
    /\ usable' = [rpcs |-> Usable, fastest |-> Fastest, old |-> NeededBlock < consensus.head]
    /\ \E s \in Shuffles : tries' = Tries(s)
    /\ refused' = {}
    /\ pc' = "try"
    /\ UNCHANGED <<env, need, skip, missing, result>>

\* try_request_handle gave a handle: connected and below the hard limit, as
\* the server may or may not be at any moment.
Handle ==
    /\ pc = "try" /\ tries # <<>>
    /\ skip' = Append(skip, Head(tries))
    /\ pc' = "sent"
    /\ UNCHANGED <<env, need, usable, tries, refused, missing, result>>

\* try_request_handle gave NotReady, RetryAt or an error.
NoHandle ==
    /\ pc = "try" /\ tries # <<>>
    /\ refused' = refused \cup {Head(tries)}
    /\ tries' = Tail(tries)
    /\ UNCHANGED <<env, need, pc, skip, usable, missing, result>>

NoneAvailable == pc = "try" /\ tries = <<>> /\ GiveUp

\* A result, or an error.  Errors about limits and errors of servers that
\* lack the data are returned like any other: the continue statements there
\* belong to the loops over the patterns.
Respond(kind) ==
    /\ pc = "sent"
    /\ kind \in {"success", "error", "rate_limited", "no_data"}
    /\ result' = kind
    /\ pc' = "done"
    /\ UNCHANGED <<env, need, skip, usable, tries, refused, missing>>

\* The server does not support the method; others may.
MethodMissing ==
    /\ pc = "sent"
    /\ missing' = TRUE
    /\ pc' = "loop"
    /\ UNCHANGED <<env, need, skip, usable, tries, refused, result>>

\* Mutant: the server is not skipped when it failed.
BackendErrorSameServer ==
    /\ pc = "sent"
    /\ pc' = "loop"
    /\ skip' = Front(skip)
    /\ UNCHANGED <<env, need, usable, tries, refused, missing, result>>

\* "Backend server error on {}! Retrying on another."
BackendError ==
    /\ pc = "sent"
    /\ pc' = "loop"
    /\ UNCHANGED <<env, need, skip, usable, tries, refused, missing, result>>

-----------------------------------------------------------------------------
(* The rest of the proxy.  Heads and consensus are read only when servers  *)
(* are picked, so it is enough that they change before.                    *)

\* send_head_block_result: a server reports another head, or none.
NewHead(r, n) ==
    /\ pc = "loop" /\ head[r] # n
    /\ head' = [head EXCEPT ![r] = n]
    /\ UNCHANGED <<consensus, need, pc, skip, usable, tries, refused, missing, result>>

\* process_block_from_rpc: the servers of a consensus have its head.
NewConsensus ==
    /\ pc = "loop"
    /\ \/ consensus' = NoConsensus
       \/ \E n \in Blocks, S \in SUBSET {r \in Rpcs : head[r] # NoBlock} :
            /\ \A r \in S : head[r] >= n
            /\ consensus' = [head |-> n, rpcs |-> S]
    /\ UNCHANGED <<head, need, pc, skip, usable, tries, refused, missing, result>>

Request ==
    \/ AllSkipped \/ NotSynced \/ InvalidBounds \/ Pick
    \/ Handle \/ NoHandle \/ NoneAvailable
    \/ \E kind \in {"success", "error", "rate_limited", "no_data"} : Respond(kind)
    \/ MethodMissing \/ BackendError

Next ==
    \/ Request
    \/ \E r \in Rpcs, n \in Blocks \cup {NoBlock} : NewHead(r, n)
    \/ NewConsensus

Spec == Init /\ [][Next]_vars

\* The task of the request runs, and the servers answer or fail.
FairSpec == Spec /\ WF_vars(Request)

-----------------------------------------------------------------------------
(* Properties                                                              *)

\* The state of a request has its type.
TypeOK ==
    /\ head \in [Rpcs -> Blocks \cup {NoBlock}]
    /\ consensus \in [head : Blocks, rpcs : SUBSET Rpcs] \cup {NoConsensus}
    /\ need \in Needs
    /\ pc \in {"loop", "try", "sent", "done"}
    /\ skip \in Seq(Rpcs) /\ tries \in Seq(Rpcs)
    /\ usable \in [rpcs : SUBSET Rpcs, fastest : SUBSET Rpcs, old : BOOLEAN]
    /\ refused \subseteq Rpcs
    /\ missing \in BOOLEAN
    /\ result \in {"none", "success", "error", "rate_limited", "no_data", "missing",
                   "unavailable", "invalid"}
    /\ pc = "done" <=> result # "none"

\* No server gets the same request twice, however often the consensus
\* changes while the request is retried.
OncePerServer ==
    \A i, j \in DOMAIN skip : i # j => skip[i] # skip[j]

\* best_available_rpc gives up only after the fastest server of every group
\* it may use refused a handle.
FastestTried ==
    (pc = "done" /\ tries = <<>>) => usable.fastest \subseteq refused \cup Skipped

\* For an old block a server of a higher tier is asked only after the
\* fastest servers of the lower tiers refused or failed.
LowerTierFirst ==
    (pc = "sent" /\ usable.old) =>
        \A r \in usable.fastest :
            Tier[r] < Tier[Last(skip)] => r \in refused \cup Skipped

\* A request ends, with a response or an error, also when the servers keep
\* failing and the consensus keeps changing.
Ends == <>(pc = "done")

\* OpenRequestResult::NotReady is "Unable to start a request because no
\* servers are synced": not while a usable server was never tried.
NotReadyOnlyUnsynced ==
    (pc = "done" /\ tries = <<>>) => usable.rpcs \subseteq refused \cup Skipped

\* The comment on error responses: "some errors should be retried on other
\* nodes".  A limit or missing data is not what the client gets while another
\* usable server was not asked.
RetriedOnOthers ==
    result \in {"rate_limited", "no_data"} => usable.rpcs \subseteq refused \cup Skipped

\* The comment on old blocks: "check all the rpcs. ignore rpcs that are still
\* syncing".  A server that is on the consensus head is not syncing.
SyncedNotIgnored ==
    [][ (pc = "loop" /\ pc' = "try" /\ usable'.old) =>
          \A r \in Rpcs \ Skipped :
            /\ head[r] # NoBlock /\ head[r] >= consensus.head
            /\ \A n \in {need[1], need[2]} \ {NoBlock} : has_block_data(r, n)
            => r \in usable'.rpcs ]_vars
=============================================================================
