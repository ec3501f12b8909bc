----------------------------- MODULE Broadcast -----------------------------
(***************************************************************************)
(* A transaction on its way through try_send_all_synced_connections:       *)
(* all_connections opens a handle on up to max_count servers, the synced   *)
(* ones first; if there is none the request waits for another consensus;   *)
(* the servers are asked in parallel and the most common response is the   *)
(* result.                                                                 *)
(*                                                                         *)
(* A group of servers without head subscription (the private ones) gets no *)
(* heads and has no consensus.  The sort keys of the servers depend on the *)
(* load and change all the time: any order within synced_rpcs and all_rpcs *)
(* is taken.  all_connections reports no retry time, because the minimum   *)
(* of None and a time is None.                                             *)
(***************************************************************************)
EXTENDS Integers, FiniteSets, SequencesExt

CONSTANTS
    Rpcs,           \* the servers in by_name
    Backups,        \* those that are backups
    AllowBackups,   \* allow_backups
    MaxCount,       \* max_count
    Subscribed,     \* the group subscribes to heads
    Successes,      \* different results
    JsonErrors,     \* different errors with a JSON-RPC code
    Failures,       \* different errors without one
    Rank,           \* Rank[x]: the order of the formatted responses
    NoResponse

Responses == Successes \cup JsonErrors \cup Failures

ASSUME BroadcastAssumption ==
    /\ IsFiniteSet(Rpcs) /\ Backups \subseteq Rpcs
    /\ MaxCount \in Nat \ {0}
    /\ {AllowBackups, Subscribed} \subseteq BOOLEAN
    /\ Successes \cap JsonErrors = {}
    /\ (Successes \cup JsonErrors) \cap Failures = {}
    /\ NoResponse \notin Responses
    /\ \A x, y \in Responses : Rank[x] = Rank[y] => x = y

VARIABLES
    synced,     \* rpcs of the consensus, {} without one
    has,        \* servers whose head block is min_block_needed or above
    pc,         \* "start", "collect", "wait", "sent" or "done"
    todo,       \* servers that all_connections has still to look at
    tried,      \* tried
    selected,   \* servers with an open handle, in order
    first,      \* synced_rpcs, as all_connections read them
    limited,    \* a server was rate limited and told when to retry
    seen,       \* the watch receiver has no unseen consensus
    response,   \* response[r]: what a server answered
    result      \* what the caller gets

env == <<synced, has>>
vars == <<env, pc, todo, tried, selected, first, limited, seen, response, result>>

Selected == {selected[i] : i \in DOMAIN selected}

Init ==
    /\ synced = {} /\ has = {}
    /\ pc = "start"
    /\ todo = <<>> /\ tried = {} /\ selected = <<>> /\ first = {}
    /\ limited = FALSE /\ seen = TRUE
    /\ response = [r \in Rpcs |-> NoResponse]
    /\ result = NoResponse

-----------------------------------------------------------------------------
(* all_connections                                                         *)

\* The synced servers, and then all of them, in the order of their keys.
Collect ==
    /\ pc = "start"
    /\ first' = synced
    /\ \E s \in SetToSeqs(synced), t \in SetToSeqs(Rpcs) : todo' = s \o t
    /\ tried' = {} /\ selected' = <<>> /\ limited' = FALSE
    /\ pc' = "collect"
    /\ UNCHANGED <<env, seen, response, result>>

\* One turn of the loop: skip the server, or try to get a handle.  At any
\* moment a server may be disconnected or its hard limit used up.
Try ==
    /\ pc = "collect" /\ todo # <<>> /\ Len(selected) < MaxCount
    /\ LET r == Head(todo) IN
       /\ tried' = tried \cup {r}
       /\ \/ UNCHANGED <<selected, limited>>
          \/ /\ r \notin tried
             /\ r \in Backups => AllowBackups
             /\ r \in has
             /\ \/ selected' = Append(selected, r) /\ UNCHANGED limited
                \/ limited' = TRUE /\ UNCHANGED selected
    /\ todo' = Tail(todo)
    /\ UNCHANGED <<env, pc, first, seen, response, result>>

\* Mutant: what changed in the meantime counts as seen.
CollectedSeen ==
    /\ pc = "collect"
    /\ todo = <<>> \/ Len(selected) = MaxCount
    /\ pc' = IF selected = <<>> THEN "wait" ELSE "sent"
    /\ seen' = TRUE
    /\ UNCHANGED <<env, todo, tried, selected, first, limited, response, result>>

\* The loop is over, with handles or with Err(None).
Collected ==
    /\ pc = "collect"
    /\ todo = <<>> \/ Len(selected) = MaxCount
    /\ pc' = IF selected = <<>> THEN "wait" ELSE "sent"
    /\ UNCHANGED <<env, todo, tried, selected, first, limited, seen, response, result>>

-----------------------------------------------------------------------------
(* try_send_all_synced_connections                                         *)

\* watch_consensus_rpcs.changed, and again.
Changed ==
    /\ pc = "wait" /\ ~seen
    /\ seen' = TRUE
    /\ pc' = "start"
    /\ UNCHANGED <<env, todo, tried, selected, first, limited, response, result>>

Answer(r, x) ==
    /\ pc = "sent" /\ r \in Selected /\ response[r] = NoResponse
    /\ response' = [response EXCEPT ![r] = x]
    /\ UNCHANGED <<env, pc, todo, tried, selected, first, limited, seen, result>>

Count(x) == Cardinality({r \in Selected : response[r] = x})

Given == {response[r] : r \in Selected}

\* Mutant: any answer from a server is as good as a result.
EligibleOk ==
    IF Given \cap (Successes \cup JsonErrors) # {}
    THEN Given \cap (Successes \cup JsonErrors)
    ELSE Given

\* What the loop over the counts does not pass over.
Eligible ==
    {x \in Given :
        /\ x \in JsonErrors => Given \cap Successes = {}
        /\ x \in Failures => Given \cap (Successes \cup JsonErrors) = {}}

\* most_common_ordered: the higher count, then the lower key.
Earlier(x, y) ==
    Count(x) > Count(y) \/ (Count(x) = Count(y) /\ Rank[x] < Rank[y])

MostCommon ==
    /\ pc = "sent"
    /\ \A r \in Selected : response[r] # NoResponse
    /\ \E x \in Eligible :
        /\ \A y \in Eligible \ {x} : Earlier(x, y)
        /\ result' = x
    /\ pc' = "done"
    /\ UNCHANGED <<env, todo, tried, selected, first, limited, seen, response>>

-----------------------------------------------------------------------------
(* The rest of the proxy                                                   *)

\* A server reports a block that is high enough, or falls behind.
NewHead(r) ==
    /\ Subscribed /\ pc \in {"start", "collect", "wait"}
    /\ has' = IF r \in has THEN has \ {r} ELSE has \cup {r}
    /\ UNCHANGED <<synced, pc, todo, tried, selected, first, limited, seen, response, result>>

\* send_replace: the receiver has something to see, even if it is the same.
NewConsensus ==
    /\ Subscribed /\ pc \in {"start", "collect", "wait"}
    /\ synced' \in SUBSET has
    /\ seen' = FALSE
    /\ UNCHANGED <<has, pc, todo, tried, selected, first, limited, response, result>>

Task ==
    \/ Collect \/ Try \/ Collected \/ Changed \/ MostCommon
    \/ \E r \in Rpcs, x \in Responses : Answer(r, x)

Next ==
    \/ Task
    \/ \E r \in Rpcs : NewHead(r)
    \/ NewConsensus

Spec == Init /\ [][Next]_vars

\* The task runs, and the servers answer or fail.
FairSpec == Spec /\ WF_vars(Task)

-----------------------------------------------------------------------------
(* Properties                                                              *)

\* No server gets the transaction twice, although the synced servers are in
\* both lists that all_connections goes through.
SentOnce == \A i, j \in DOMAIN selected : i # j => selected[i] # selected[j]

\* "this prefers synced servers": others are used only after every synced
\* server was tried.
SyncedFirst == ~(Selected \subseteq first) => first \subseteq tried

\* A request that waits for another consensus has tried the current one: a
\* change during all_connections is not lost.
NoLostChange == (pc = "wait" /\ seen) => first = synced

\* try_send_parallel_requests returns "the most common success or most
\* common error": a success if there is one, and among successes, or else
\* among errors of the same kind, one that no other outnumbers.
MostCommonResult ==
    result # NoResponse =>
        \A y \in Given :
            /\ y \in Successes => result \in Successes
            /\ y \in JsonErrors => result \notin Failures
            /\ \A kind \in {Successes, JsonErrors, Failures} :
                    {result, y} \subseteq kind => Count(y) <= Count(result)

\* all_connections: "return the earliest retry_after (if no rpcs are synced,
\* this will be None)".  The request waits for another consensus, and not for
\* the rate limits, only if no server is synced or none of those that it tried
\* told a time to retry at.
EarliestRetryKept == (pc = "wait" /\ first # {}) => ~limited

\* The comment on eth_sendRawTransaction: "if we are sending the transaction
\* privately, no matter the proxy_mode, we send to ALL private rpcs".
PrivateSent == <>(pc = "done")
=============================================================================
