------------------------------ MODULE Web3Rpc ------------------------------
(***************************************************************************)
(* The life of the connections to one upstream server: spawn, connect with *)
(* retries, the subscription tasks and their restart after an error, and   *)
(* the hand-over from one connection to its successor when the config is   *)
(* reloaded (apply_server_configs).  A connection reports its head to the  *)
(* block funnel through the channel block_sender; the channel is lossless  *)
(* and in order, so what counts is the last message of each connection.    *)
(*                                                                         *)
(* Connections of the name are numbered in the order they are spawned.     *)
(* Blocks are their numbers; hash equality is equality of numbers.  Every  *)
(* misbehaviour of a server or of redis costs one of MaxFaults faults.     *)
(***************************************************************************)
EXTENDS Integers, Sequences, FiniteSets, FiniteSetsExt

CONSTANTS
    Generations,    \* bound: how many connections are spawned for the name
    Configs,        \* what the config may say of them: a ws_url (or else an
                    \* http_url), and subscribe_txs
    Ladder,         \* the depths check_block_data_limit tries
    Depths,         \* how far back a server may be able to serve, or -1
    MaxBlock,       \* bound: the height of the chain
    MaxFaults       \* bound: failures of servers

Conns == 1..Generations
NoConn == 0
Blocks == 1..MaxBlock
NoBlock == 0        \* None, and H256::zero()
Failed == -1        \* Err instead of a block
Rounds == 1..(MaxFaults + 1)

ASSUME Web3RpcAssumption ==
    /\ Generations \in Nat /\ MaxBlock \in Nat /\ MaxFaults \in Nat
    /\ \A s \in Configs : Len(s) <= Generations /\ s \in Seq([ws : BOOLEAN, txs : BOOLEAN])
    /\ 0 \in Ladder /\ Ladder \subseteq Nat /\ Depths \subseteq Nat \cup {-1}
    /\ IsFiniteSet(Ladder)

VARIABLES
    config,         \* the Web3RpcConfig of each connection
    tip,            \* the chain's height at the servers
    faults,         \* failures so far
    rpc,            \* per connection: the fields of Web3Rpc and its main task
    heads,          \* per connection and round: the subscribe_new_heads task
    health,         \* per connection and round: the health check task
    txs,            \* per connection and round: subscribe_pending_transactions
    reported,       \* the last head each connection sent to block_sender
    by_name,        \* the connection by_name holds
    reload,         \* where apply_server_configs is
    kept            \* did the old connection have a head when it was replaced?

tasks == <<heads, health, txs>>
vars == <<config, tip, faults, rpc, tasks, reported, by_name, reload, kept>>

Idle == [pc |-> "none", last_hash |-> NoBlock, next |-> 0, msg |-> NoBlock, then |-> "none"]

\* Web3Rpc::spawn: a connection before its subscribe task runs.
Unspawned ==
    [main |-> "none", lock |-> "free", provider |-> "none", head_block |-> NoBlock,
     block_data_limit |-> 0, reconnect |-> TRUE, disconnect |-> FALSE, round |-> 0]

Init ==
    /\ config \in Configs
    /\ tip = 1 /\ faults = 0
    /\ rpc = [c \in Conns |-> Unspawned]
    /\ heads = [c \in Conns |-> [k \in Rounds |-> Idle]]
    /\ health = [c \in Conns |-> [k \in Rounds |-> "none"]]
    /\ txs = [c \in Conns |-> [k \in Rounds |-> "none"]]
    /\ reported = [c \in Conns |-> NoBlock]
    /\ by_name = NoConn /\ reload = "idle" /\ kept = FALSE

Fault ==
    /\ faults < MaxFaults
    /\ faults' = faults + 1

\* provider.read().await gives a provider: no connect holds the write lock.
Available(c) == rpc[c].lock = "free" /\ rpc[c].provider # "none"

-----------------------------------------------------------------------------
(* connect and retrying_connect                                            *)

Connecting(c) == rpc[c].main \in {"connect", "reconnect"}

\* The write lock is taken.  A websocket that is replaced loses its head.
TryWrite(c) ==
    /\ Connecting(c) /\ rpc[c].lock = "free"
    /\ IF config[c].ws /\ rpc[c].provider # "none"
       THEN /\ reported' = [reported EXCEPT ![c] = NoBlock]
            /\ rpc' = [rpc EXCEPT ![c].head_block = NoBlock, ![c].provider = "none",
                                  ![c].lock = "held"]
       ELSE /\ rpc' = [rpc EXCEPT ![c].lock = "held"]
            /\ UNCHANGED reported
    /\ UNCHANGED <<config, tip, faults, tasks, by_name, reload, kept>>

\* The attempt ends with an error: retrying_connect sleeps and tries again.
Unlock(c, provider) ==
    /\ rpc' = [rpc EXCEPT ![c].lock = "free", ![c].provider = provider]
    /\ UNCHANGED tasks

\* check_block_data_limit: the deepest rung of the ladder reached before the
\* first failure; nothing is stored when even the head cannot be queried.
BlockDataLimit(c, depth) ==
    LET served == {l \in Ladder : l <= depth}
    IN  IF served = {} THEN rpc[c].block_data_limit ELSE Max(served)

\* retrying_connect returns.  The first connect of a round starts the tasks of
\* the round; the connect after an error leads to the next round.
Connected(c, fields) ==
    IF fields.main = "reconnect"
    THEN /\ rpc' = [rpc EXCEPT ![c] = [fields EXCEPT !.main = "connect"]]
         /\ UNCHANGED tasks
    ELSE LET k == fields.round + 1
         IN  /\ rpc' = [rpc EXCEPT ![c] = [fields EXCEPT !.main = "join", !.round = k]]
             /\ health' = [health EXCEPT ![c][k] = "run"]
             /\ heads' = [heads EXCEPT ![c][k].pc = "provider"]
             /\ txs' = IF config[c].txs THEN [txs EXCEPT ![c][k] = "provider"] ELSE txs

\* Mutant: the lock is not given back when the server is on another chain.
AttemptKeepsLock(c) ==
    /\ rpc[c].lock = "held"
    /\ \/ /\ Fault
          /\ rpc' = [rpc EXCEPT ![c].provider = "wrong", ![c].lock = "leaked"]
          /\ UNCHANGED tasks
       \/ /\ \E d \in Depths :
                Connected(c, [rpc[c] EXCEPT !.lock = "free", !.provider = "right",
                                            !.block_data_limit = BlockDataLimit(c, d)])
          /\ UNCHANGED faults
    /\ UNCHANGED <<config, tip, reported, by_name, reload, kept>>

\* connect, with the lock held: no provider; a server on another chain; an
\* error from eth_chainId or from the limit check; or success.  The provider is
\* stored before it is checked.
Attempt(c) ==
    /\ rpc[c].lock = "held"
    /\ \/ Fault /\ config[c].ws /\ Unlock(c, "none")
       \/ Fault /\ Unlock(c, "wrong")
       \/ Fault /\ Unlock(c, "right")
       \/ /\ \E d \in Depths :
                Connected(c, [rpc[c] EXCEPT !.lock = "free", !.provider = "right",
                                            !.block_data_limit = BlockDataLimit(c, d)])
          /\ UNCHANGED faults
    /\ UNCHANGED <<config, tip, reported, by_name, reload, kept>>

\* try_write fails while a request reads the provider: connect then takes the
\* provider that is there.
LockBusy(c) ==
    /\ Connecting(c) /\ Available(c)
    /\ by_name = c
    /\ Connected(c, rpc[c])
    /\ UNCHANGED <<config, tip, faults, reported, by_name, reload, kept>>

-----------------------------------------------------------------------------
(* send_head_block_result                                                  *)

\* The task goes on after the report, or is over.
Resumed(task) ==
    IF task.then = "ok" THEN [Idle EXCEPT !.pc = "ok"]
    ELSE [task EXCEPT !.pc = task.then, !.msg = NoBlock, !.then = "none"]

\* Mutant: an error clears the head without telling the block funnel.
SendHeadSwallowsError(c, k, result, task) ==
    IF result \in Blocks
    THEN /\ rpc' = [rpc EXCEPT ![c].head_block = result]
         /\ heads' = [heads EXCEPT ![c][k] = [task EXCEPT !.msg = result, !.pc = "send"]]
    ELSE /\ rpc' = [rpc EXCEPT ![c].head_block = NoBlock]
         /\ heads' = [heads EXCEPT ![c][k] = Resumed(task)]

\* The head is written first and sent in a later step; a server whose data
\* limit is unknown is asked for it in between.
SendHead(c, k, result, task) ==
    CASE result \in Blocks ->
            /\ rpc' = [rpc EXCEPT ![c].head_block = result]
            /\ heads' = [heads EXCEPT ![c][k] =
                 [task EXCEPT !.msg = result,
                    !.pc = IF rpc[c].block_data_limit = 0 THEN "limit" ELSE "send"]]
      [] result = NoBlock /\ rpc[c].head_block = NoBlock ->
            /\ heads' = [heads EXCEPT ![c][k] = Resumed(task)]
            /\ UNCHANGED rpc
      [] OTHER ->
            /\ rpc' = [rpc EXCEPT ![c].head_block = NoBlock]
            /\ heads' = [heads EXCEPT ![c][k] = [task EXCEPT !.msg = NoBlock, !.pc = "send"]]

\* The limit is checked with whatever provider there is; failures are ignored.
HeadLimit(c, k) ==
    /\ heads[c][k].pc = "limit" /\ Available(c)
    /\ \E d \in Depths : rpc' = [rpc EXCEPT ![c].block_data_limit = BlockDataLimit(c, d)]
    /\ heads' = [heads EXCEPT ![c][k].pc = "send"]
    /\ UNCHANGED <<config, tip, faults, health, txs, reported, by_name, reload, kept>>

HeadSend(c, k) ==
    /\ heads[c][k].pc = "send"
    /\ reported' = [reported EXCEPT ![c] = heads[c][k].msg]
    /\ heads' = [heads EXCEPT ![c][k] = Resumed(heads[c][k])]
    /\ UNCHANGED <<config, tip, faults, rpc, health, txs, by_name, reload, kept>>

-----------------------------------------------------------------------------
(* subscribe_new_heads                                                     *)

\* wait_for_provider
HeadsStart(c, k) ==
    /\ heads[c][k].pc = "provider" /\ Available(c)
    /\ heads' = [heads EXCEPT ![c][k].pc = IF config[c].ws THEN "open" ELSE "top"]
    /\ UNCHANGED <<config, tip, faults, rpc, health, txs, reported, by_name, reload, kept>>

\* http: one round of polling for the latest block.
PollTop(c, k) ==
    /\ heads[c][k].pc = "top"
    /\ heads' = [heads EXCEPT ![c][k].pc = IF rpc[c].disconnect THEN "clear" ELSE "poll"]
    /\ UNCHANGED <<config, tip, faults, rpc, health, txs, reported, by_name, reload, kept>>

Poll(c, k) ==
    /\ heads[c][k].pc = "poll" /\ Available(c)
    /\ LET task == [heads[c][k] EXCEPT !.then = "top"]
       IN  \/ /\ tip # task.last_hash
              /\ SendHead(c, k, tip, [task EXCEPT !.last_hash = tip])
              /\ UNCHANGED faults
           \/ /\ tip = task.last_hash
              /\ heads' = [heads EXCEPT ![c][k].pc = "top"]
              /\ UNCHANGED <<rpc, faults>>
           \/ /\ Fault
              /\ \E result \in {NoBlock, Failed} : SendHead(c, k, result, task)
    /\ UNCHANGED <<config, tip, health, txs, reported, by_name, reload, kept>>

\* ws: subscribe, query the current block, then follow the stream.
Open(c, k) ==
    /\ heads[c][k].pc = "open"
    /\ \/ /\ heads' = [heads EXCEPT ![c][k].pc = "query", ![c][k].next = tip + 1]
          /\ UNCHANGED faults
       \/ /\ Fault
          /\ heads' = [heads EXCEPT ![c][k] = [Idle EXCEPT !.pc = "error"]]
    /\ UNCHANGED <<config, tip, rpc, health, txs, reported, by_name, reload, kept>>

Query(c, k) ==
    /\ heads[c][k].pc = "query"
    /\ LET task == [heads[c][k] EXCEPT !.then = "stream"]
       IN  \/ /\ SendHead(c, k, tip, [task EXCEPT !.last_hash = tip])
              /\ UNCHANGED faults
           \/ /\ Fault
              /\ \E result \in {NoBlock, Failed} : SendHead(c, k, result, task)
           \/ /\ Fault
              /\ heads' = [heads EXCEPT ![c][k] = [Idle EXCEPT !.pc = "error"]]
              /\ UNCHANGED rpc
    /\ UNCHANGED <<config, tip, health, txs, reported, by_name, reload, kept>>

StreamBlock(c, k) ==
    /\ heads[c][k].pc = "stream" /\ heads[c][k].next <= tip
    /\ LET task == [heads[c][k] EXCEPT !.next = @ + 1, !.then = "stream"]
           block == heads[c][k].next
       IN  IF rpc[c].disconnect
           THEN heads' = [heads EXCEPT ![c][k] = [task EXCEPT !.pc = "clear"]] /\ UNCHANGED rpc
           ELSE IF block = task.last_hash
           THEN heads' = [heads EXCEPT ![c][k] = task] /\ UNCHANGED rpc
           ELSE SendHead(c, k, block, [task EXCEPT !.last_hash = block])
    /\ UNCHANGED <<config, tip, faults, health, txs, reported, by_name, reload, kept>>

\* The server closes the stream.  Streams of a connection that was told to
\* disconnect may also close for free: the chain of the model is finite.
StreamEnd(c, k) ==
    /\ heads[c][k].pc = "stream"
    /\ \/ Fault
       \/ rpc[c].disconnect /\ heads[c][k].next > MaxBlock /\ UNCHANGED faults
    /\ heads' = [heads EXCEPT ![c][k].pc = "clear"]
    /\ UNCHANGED <<config, tip, rpc, health, txs, reported, by_name, reload, kept>>

\* Mutant: the task ends and leaves the head as it is.
HeadsClearSilently(c, k) ==
    /\ heads[c][k].pc = "clear"
    /\ heads' = [heads EXCEPT ![c][k] = [Idle EXCEPT !.pc = "ok"]]
    /\ UNCHANGED <<config, tip, faults, rpc, health, txs, reported, by_name, reload, kept>>

\* The head is cleared at the end of the task.
HeadsClear(c, k) ==
    /\ heads[c][k].pc = "clear"
    /\ SendHead(c, k, NoBlock, [heads[c][k] EXCEPT !.then = "ok"])
    /\ UNCHANGED <<config, tip, faults, health, txs, reported, by_name, reload, kept>>

HeadsStep(c, k) ==
    \/ HeadsStart(c, k) \/ PollTop(c, k) \/ Poll(c, k) \/ Open(c, k) \/ Query(c, k)
    \/ StreamBlock(c, k) \/ StreamEnd(c, k) \/ HeadsClear(c, k)
    \/ HeadLimit(c, k) \/ HeadSend(c, k)

-----------------------------------------------------------------------------
(* The other tasks of a round, and the main loop of subscribe              *)

\* The health check loop ends with the disconnect.  Its queries change nothing
\* here; one that waits for a provider when the provider is cleared never ends.
HealthStep(c, k) ==
    /\ health[c][k] = "run" /\ rpc[c].disconnect
    /\ health' = [health EXCEPT ![c][k] = "done"]
    /\ UNCHANGED <<config, tip, faults, rpc, heads, txs, reported, by_name, reload, kept>>

\* subscribe_pending_transactions: http waits for the disconnect, ws follows a
\* stream; the transactions themselves go to another channel.
TxsStep(c, k) ==
    /\ \/ /\ txs[c][k] = "provider" /\ Available(c)
          /\ txs' = [txs EXCEPT ![c][k] = "run"]
          /\ UNCHANGED faults
       \/ /\ txs[c][k] = "run" /\ rpc[c].disconnect
          /\ txs' = [txs EXCEPT ![c][k] = "ok"]
          /\ UNCHANGED faults
       \/ /\ txs[c][k] = "run" /\ config[c].ws /\ Fault
          /\ \E end \in {"ok", "error"} : txs' = [txs EXCEPT ![c][k] = end]
    /\ UNCHANGED <<config, tip, rpc, heads, health, reported, by_name, reload, kept>>

\* try_join_all over the tasks of this round: it returns at the first error,
\* and the tasks that still run are not stopped.
Join(c) ==
    /\ rpc[c].main = "join"
    /\ LET k == rpc[c].round
       IN  \/ /\ heads[c][k].pc = "error" \/ txs[c][k] = "error"
              /\ rpc' = [rpc EXCEPT ![c].main =
                    IF rpc[c].reconnect THEN "reconnect"
                    ELSE IF rpc[c].disconnect THEN "done" ELSE "failed"]
           \/ /\ heads[c][k].pc = "ok" /\ health[c][k] = "done"
              /\ txs[c][k] \in {"ok", "none"}
              /\ rpc' = [rpc EXCEPT ![c].main = "done"]
    /\ UNCHANGED <<config, tip, faults, tasks, reported, by_name, reload, kept>>

-----------------------------------------------------------------------------
(* apply_server_configs: the name is handed to a new connection            *)

Old == by_name - 1

Spawn ==
    /\ reload = "idle" /\ by_name < Len(config)
    /\ rpc' = [rpc EXCEPT ![by_name + 1].main = "connect"]
    /\ reload' = "spawned"
    /\ UNCHANGED <<config, tip, faults, tasks, reported, by_name, kept>>

\* Mutant: the old connection is disconnected without waiting for the new one.
InstallWithoutWait ==
    /\ reload = "spawned"
    /\ by_name' = by_name + 1
    /\ kept' = (by_name # NoConn /\ rpc[by_name].head_block # NoBlock)
    /\ reload' = IF by_name = NoConn THEN "idle" ELSE "disconnect"
    /\ UNCHANGED <<config, tip, faults, rpc, tasks, reported>>

\* by_name.insert; the old connection is kept until the new one has a head,
\* if it has a head itself.
Install ==
    /\ reload = "spawned"
    /\ by_name' = by_name + 1
    /\ kept' = (by_name # NoConn /\ rpc[by_name].head_block # NoBlock)
    /\ reload' = IF by_name = NoConn THEN "idle" ELSE IF kept' THEN "wait" ELSE "disconnect"
    /\ UNCHANGED <<config, tip, faults, rpc, tasks, reported>>

NewSynced ==
    /\ reload = "wait" /\ rpc[by_name].head_block # NoBlock
    /\ reload' = "disconnect"
    /\ UNCHANGED <<config, tip, faults, rpc, tasks, reported, by_name, kept>>

\* Web3Rpc::disconnect, in three steps: no reconnects, the disconnect watch,
\* and the provider once the lock is free.
Disconnect ==
    /\ \/ /\ reload = "disconnect" /\ reload' = "signal"
          /\ rpc' = [rpc EXCEPT ![Old].reconnect = FALSE]
       \/ /\ reload = "signal" /\ reload' = "clear"
          /\ rpc' = [rpc EXCEPT ![Old].disconnect = TRUE]
       \/ /\ reload = "clear" /\ rpc[Old].lock = "free" /\ reload' = "idle"
          /\ rpc' = [rpc EXCEPT ![Old].provider = "none"]
    /\ UNCHANGED <<config, tip, faults, tasks, reported, by_name, kept>>

-----------------------------------------------------------------------------
NewBlock ==
    /\ tip < MaxBlock /\ tip' = tip + 1
    /\ UNCHANGED <<config, faults, rpc, tasks, reported, by_name, reload, kept>>

ConnectStep(c) ==
    \/ TryWrite(c) \/ Attempt(c)

ReloadStep == Install \/ NewSynced \/ Disconnect

Next ==
    \/ \E c \in Conns :
          \/ ConnectStep(c) \/ LockBusy(c) \/ Join(c)
          \/ \E k \in Rounds : HeadsStep(c, k) \/ HealthStep(c, k) \/ TxsStep(c, k)
    \/ Spawn \/ ReloadStep
    \/ NewBlock

Spec == Init /\ [][Next]_vars

\* Every task runs, the chain grows, and a stream that is watched either
\* gives its next block or, once the model's chain is at its end, closes.
Fairness ==
    /\ \A c \in Conns :
          /\ WF_vars(ConnectStep(c)) /\ WF_vars(Join(c))
          /\ \A k \in Rounds : WF_vars(HeadsStep(c, k))
    /\ WF_vars(ReloadStep)
    /\ WF_vars(NewBlock)

FairSpec == Spec /\ Fairness

-----------------------------------------------------------------------------
\* Types of the state of a connection (Web3Rpc) and of its tasks.
TypeOK ==
    /\ config \in Configs
    /\ tip \in Blocks /\ faults \in 0..MaxFaults
    /\ rpc \in [Conns ->
          [main : {"none", "connect", "join", "reconnect", "done", "failed"},
           lock : {"free", "held"},
           provider : {"none", "right", "wrong"},
           head_block : Blocks \cup {NoBlock},
           block_data_limit : Ladder,
           reconnect : BOOLEAN, disconnect : BOOLEAN, round : Rounds \cup {0}]]
    /\ heads \in [Conns -> [Rounds ->
          [pc : {"none", "provider", "top", "poll", "open", "query", "stream", "clear",
                 "limit", "send", "ok", "error"},
           last_hash : Blocks \cup {NoBlock}, next : 0..(MaxBlock + 1),
           msg : Blocks \cup {NoBlock}, then : {"none", "top", "stream", "ok"}]]]
    /\ health \in [Conns -> [Rounds -> {"none", "run", "done"}]]
    /\ txs \in [Conns -> [Rounds -> {"none", "provider", "run", "ok", "error"}]]
    /\ reported \in [Conns -> Blocks \cup {NoBlock}]
    /\ by_name \in Conns \cup {NoConn}
    /\ reload \in {"idle", "spawned", "wait", "disconnect", "signal", "clear"}
    /\ kept \in BOOLEAN

Sending(c) == \E k \in Rounds : heads[c][k].pc \in {"limit", "send"}

\* What the block funnel is told is what the connection believes: unless a
\* report is under way, the last message of a connection is its head_block
\* (send_head_block_result writes one and sends the other in two steps; connect
\* resets both).  Connections that also subscribe to transactions are left out:
\* an error there leaves a second subscribe_new_heads task running.
HeadReported ==
    \A c \in DOMAIN config : ~config[c].txs /\ ~Sending(c) => reported[c] = rpc[c].head_block

\* Only one task of a connection reports heads at a time, so that a report is
\* never overtaken by an older one (again without transaction subscriptions).
OneReporter ==
    \A c \in DOMAIN config :
        \A j, k \in Rounds :
            ~config[c].txs /\
            heads[c][j].pc \notin {"none", "ok", "error"} /\
            heads[c][k].pc \notin {"none", "ok", "error"} => j = k

\* A reload hands a server over without a gap: unless servers fail, a name
\* that was synced when it was replaced has a connection with a head at every
\* moment from then on (the wait loop of apply_server_configs, disconnect).
ReloadWithoutGap ==
    faults = 0 /\ kept => \E c \in Conns : rpc[c].head_block # NoBlock

\* retrying_connect ends: every failed attempt gives the lock back, and once
\* the server behaves the subscriptions are started (again).
ConnectEnds ==
    \A c \in Conns : Connecting(c) ~> rpc[c].main \in {"join", "done", "failed"}

\* A websocket connection that was told to disconnect leaves the rotation for
\* good, provided its data limit is known.
DisconnectedLeaves ==
    \A c \in Conns :
        c \in DOMAIN config /\ config[c].ws /\ ~config[c].txs =>
            <>[](rpc[c].disconnect /\ rpc[c].block_data_limit # 0 => reported[c] = NoBlock)

\* "subscribe to blocks and transactions with automatic reconnects" (one.rs:684):
\* after its stream of new heads has ended, a connection that was not told to
\* disconnect subscribes again.
AutomaticReconnects ==
    \A c \in Conns : \A k \in Rounds :
        heads[c][k].pc = "ok" ~> rpc[c].disconnect \/ rpc[c].round > k
=============================================================================
