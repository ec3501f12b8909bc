# A TLA+ model of web3-proxy

web3-proxy stands between JSON-RPC clients and a set of Ethereum servers. It
follows the heads of all servers, elects the ones that are in sync, sends each
request to a server that can answer it, and limits how much a client may ask.
This directory holds TLA+ modules for the parts of it where the order of
events matters, TLC configurations that check them on small instances, and
proofs that TLAPS checks for every instance.

Run a model with `tlc -config <file>.cfg <module>`, a proof with
`tlapm <module>.tla`. `PROJECT.json` lists the runs, maps every definition to
the lines it models, and lists hazards, findings and theorems.

## The system

| Part | State | Operations | What makes it hard |
| --- | --- | --- | --- |
| Server connection (`rpcs/one.rs`, `request.rs`, `provider.rs`) | head block, provider, block data limit, rate limits, `disconnect` | connect, retry, subscribe to heads and transactions, health check, open a handle | several tasks per server; reconnects; errors that take a server out of rotation |
| Block funnel (`rpcs/blockchain.rs`, `rpcs/consensus.rs`) | heads per tier, the consensus, the announced head | take a `(block, rpc)` pair, search for a shared head, publish | parent lookups that wait for upstream servers in the middle of a search; reloads meanwhile |
| Set of servers (`rpcs/many.rs`) | `by_name`, two watch channels, block caches | spawn, reload the config, route a request, broadcast a transaction | a request sees several versions of the consensus; retries |
| Block caches (`rpcs/blockchain.rs`) | `blocks_by_hash`, `blocks_by_number` | cache a block, canonical block by number | reorganizations; waiting for future blocks |
| Pending transactions (`rpcs/transactions.rs`) | cache of seen hashes | look up, broadcast | duplicates from all servers; receivers that lag |
| Rate limiters (`deferred-rate-limiter`, `redis-rate-limiter`) | a counter per key and period in redis, a cached copy per proxy | throttle | late and reordered replies, redis errors, expiry, f32 time |
| App (`app/mod.rs`, `block_number.rs`) | response cache, config, servers | dispatch by method, cache, reload, migrate | one fetch for many waiting requests; timeouts; processes that migrate together |
| Authorization (`frontend/authorization.rs`, `rpc_proxy_http.rs`) | cached checks, semaphores | check ip, key, headers; take a permit | stale checks; permits on every path out; semaphores that expire |
| Websockets (`frontend/rpc_proxy_ws.rs`, `app/ws.rs`) | subscriptions of a connection | subscribe, unsubscribe, forward | tasks that outlive the client |
| Accounts (`frontend/users.rs`, `frontend/admin.rs`, the CLI's commands) | users, keys, logins, tiers, admins | log in, change keys, imitate, import | queries outside transactions, against a lagging replica, by handlers that are dropped |
| Statistics and daemon (`app_stats.rs`, `proxyd.rs`) | aggregates of a period, tasks, config file | add, save every period, reload, shut down | shutdown with messages in the queue; tasks that wait for each other |

How they interact: the connections send heads to the block funnel over one
channel; the funnel publishes the elected servers and their head over two
watch channels; routing and broadcast read these and the connections
themselves; a config reload replaces connections under all of them; the
limiters and the semaphores decide before a request gets that far, from what
the accounts say; a websocket feeds requests and subscriptions from one client;
the daemon owns the tasks, and the stat loop gets a stat from every response.

## The modules

| Module | Models |
| --- | --- |
| `Chain` | blocks, their parents and numbers |
| `HeadFeed` | abstract: what the rest of the proxy may rely on about the published consensus and head |
| `Consensus` | the block funnel: `process_incoming_blocks`, `process_block_from_rpc`, `ConsensusFinder`, `ConnectionsGroup`, the parent lookup, the replacement of a connection by a reload |
| `Routing` | one request in `try_send_best_consensus_head_connection` and `best_available_rpc` |
| `Broadcast` | one transaction in `try_send_all_synced_connections`, `all_connections` and `try_send_parallel_requests` |
| `DeferredRateLimiter` | `throttle` for one key, on several proxies in front of one redis |
| `RedisRateLimiter` | `throttle_label` with its f32 clock and expiring keys |
| `Web3Rpc` | the connections of one server: connect, subscriptions, restart, and the hand-over by a reload |
| `Requests` | `proxy_web3_rpc`: dispatch, block parameters, canonical blocks, response cache, batch, stat, timeout |
| `Subscriptions` | one websocket, its subscriptions, and the funnel of pending transactions |
| `Semaphores` | the cache of semaphores and their lines, used by the next two |
| `Accounts` | the tables, and every endpoint and command that changes them |
| `Admission` | a request before it is proxied; composes `Accounts` and `Semaphores` |
| `Upgrade` | abstract: what the start of a process promises about the schema |
| `Migration` | `migrate_db` on several processes; implements `Upgrade` |
| `Daemon` | the command `proxyd`: start, config, stat loop, end; composes `Migration` |
| `ConsensusProofs`, `LimiterProofs`, `RoutingProofs`, `BroadcastProofs`, `RequestsProofs`, `MigrationProofs` | theorems |
| `MC*` | instances for TLC |

### Consensus

The funnel is one task, so its state is what the task keeps between two awaits:
`pc` says where it is, `rpc_to_block` and `highest` are the groups of the
finder (one per tier, a server is in the groups of its tier and of all later
ones), `tier`, `left`, `maybe_head`, `primary`, `backup`, `psum`, `bsum` and
`voted` are the local variables of the search. `consensus` and `head` are the
two watch channels. One iteration of the search loop is one step: it only reads
`by_name`, whose entries a reload replaces but never removes. A step to the
parent block is separate, because `Web3Rpcs::block` may find it in its cache or
have to ask a server; whether it is cached is left open. Reloads happen between
any two steps. Two connections of one name are two members of `Rpcs`, ordered
by `Gen` as `created_at` orders them.

Sending on the head channel cannot fail: the app keeps a receiver
(`watch_consensus_head_receiver` in `app/mod.rs`).

The age of blocks matters for one decision only (a server whose head is too old
is removed like one without a head). A message may therefore carry "no block"
instead of any block when `MaxBlockAge` is set.

### Routing

`head` and `consensus` are the environment; the request has a program counter,
the list `skip` of the servers that got it, and the servers still to `tries`.
Latency is a fixed order. A server may refuse a handle, fail, answer, or lack
the method, at every attempt. `head` and `consensus` change only while the
request is about to look at them, which is the only time it reads them.
`OpenRequestResult::RetryAt` never leaves `best_available_rpc` (the minimum of
`None` and a time is `None`), so the branch of the caller that sleeps is not
reached and not modelled.

### Broadcast

`synced` and `has` are the environment: the consensus servers, and the servers
whose head is high enough. `Subscribed = FALSE` is the group of private
servers, which is spawned without a head subscription and so never has either.
Any order within the two lists is taken, since the sort key depends on
load. Responses are of three kinds (result, JSON-RPC error, failure), which is
what the counting of the most common one tells apart.

### Rate limiters

`DeferredRateLimiter` follows a set of requests for one key. `counted` are the
requests redis has in the counter of the current period, `local[p]` is the
cached counter of proxy `p`, and `pc` says for each request whether it
initializes the entry, waits for another one that does, waits for redis or has
left a background task. `Abandon` is a client that leaves: its future is
dropped, and if it was the initializer a waiting request takes over, as moka's
`get_with` does. `Expire` is the time to live; a task that still holds
the old counter stores into one that nobody reads. It is disabled while a
request that waited for the entry has not read it yet, which takes
microseconds against a time to live of a period.

`RedisRateLimiter` is the arithmetic: `now_as_secs` and `period_id` round as
f32 does at times between 2^30 and 2^31 seconds. `next_period`, which only
fills in the time to retry at, is left out.

### Web3Rpc

`rpc[c]` holds the fields of connection `c` and where its main task is. Each
pass of `subscribe` is a round with its own tasks (`heads`, `health`, `txs`),
because `try_join_all` leaves the tasks of an earlier round running. `reported`
is the last message a connection sent to the funnel. `SendHead` writes the head
and `HeadSend` sends it, as two steps. `Spawn`, `Install`, `NewSynced` and
`Disconnect` are `apply_server_configs`. The provider is none, the right one, or
one with the wrong chain id; `LockBusy` is the `try_write` that fails. Of the
health check only its end is kept: what it finds changes nothing else here.

### Requests

`payload` is what each client sends, one request or a batch; `task` has one
entry per request with its stage, its params after the rewrite, the heights it
needs (`nums`) and the blocks found for them. A response is abstracted to its
id, method, params, whether it is an error, and the greatest height the proxy
knew when it came. Methods of one arm of the match stand for each other.
`Timeout` drops the futures of a payload, and those who wait for a fetch among
them look again. A panic (`finalized` below its lag) fails the request.

### Subscriptions

The reader, the writer, one task per message and one task per subscription.
`queue` is the response channel, `delivered` what the client got. Heads come
over a watch channel (only the last value), transactions over a broadcast ring
of `Capacity`. The three forms in which transactions are sent are one.

### Accounts, Semaphores, Admission

A process runs a script of operations; an operation is a sequence of steps, one
for each statement that writes or transaction, and `Drop` ends it at any of
them. Reads that the code sends to the replica read `replica`, which catches up
with `db` at any time. What is drawn at random is the number of the operation.
The commands of the CLI find their rows in one step and save in the next.

In `Admission` clients send requests for ever. `cache` is
`rpc_secret_key_cache`, `fetching` the request that runs the fetch of a key;
fetch, permit, headers and rate limit come in the order of the code. The origin
stands for all headers. Rate limits are only their outcome here. A semaphore is
a line, whose first `size` members hold the permits.

### Migration and Daemon

`lock` is the table `migration_lock`; `executed` is the schema, `applied` what
`seaql_migrations` records. `Migrator::up` is sea-orm's and modelled from how it
is used. The operator is assumed to do what the messages of `migrate_db` ask:
the lock is dropped or overridden only while nobody migrates. The code cannot
check this, and nothing is claimed for an operator who does otherwise.

`Daemon` adds the process: `main` is where `run` is, `thread` the thread that
reads the config file, `config` the task that applies it, `stats` the stat loop
with its channel and map, `rows` what it saved. Time passes in periods; a second
has `Second` units, because the division that finds the current period keeps
fractions.

## What is checked

Every property of a passing run also fails for a mutant of the code that
`PROJECT.json` names, a definition with a plausible bug in it.

| Run | Instance | Shows |
| --- | --- | --- |
| `consensus_reload` | 3 blocks, a backup, a name with two connections in different tiers, lag limit 1; 466,240 states | a consensus that did not need the backups has enough servers with distinct names, and its servers have its head; the funnel implements `HeadFeed`, so the head goes down only through the backups |
| `consensus_tiers` | forked chain, different soft limits, a server beyond the last tier, no lag limit; 588,222 states | a consensus has enough soft limit and no backup, also where a tier needs the servers of the next one; every search ends if upstream servers answer |
| `limiter` | 2 proxies, 3 requests, limit 2, 2 periods; 86,774 states | nothing is allowed without being counted; no key is denied that has not used up its limit; a local counter at its limit goes away; waiting requests are answered |
| `redis_keys` | 8000 s from a fixed time, steps of 11 s and 1 h; 86,628 states | the counter of a period id starts from nothing when the id comes around |
| `routing` | 3 servers in 2 tiers, 2 block numbers, requests for the head, an old block, a range and contradicting bounds; 327,888 states | the fastest of each group is tried; better tiers first; every request ends |
| `broadcast` | 3 servers, one a backup, 4 responses; 1.5 million states | a change of the consensus is not slept through; the result is the most common of the best kind |
| `connection` | a websocket replaced by an http connection, and a websocket that also subscribes to transactions; 2 blocks, 1 failure; 93,237 states | the funnel was told what the connection believes; a reload leaves no gap; connecting ends; a websocket that was told to disconnect leaves the rotation |
| `daemon` | a proxy and an operator's command, 1 migration, 1 failure, 2 requests, 1 change of the config; 211,068 states | `Migration` implements `Upgrade`; answered requests are neither lost nor counted twice, and are saved at an orderly end; a process that waits for the migration lock gets on; configs take effect; the process ends when it should |
| `requests` | 4 blocks with a fork; every arm and form of block alone, batches of 2, 2 clients; 310,567 states | a shared response answers the request it is given to and is no older than the heights asked for; stats are sent once; one fetch per key; only future blocks wait |
| `subscriptions` | 7 scripts of up to 3 messages, up to 3 heads, a transaction announced twice, a ring of 1; 60,143 states | the newest head arrives; an unsubscribe stops all but the notification under way; transactions have no gap; tasks end after the client is gone |
| `accounts` | 13 scenarios with up to 3 clients or 2 processes; 97,190 states | permits bound and are given back; requests are answered; changes take effect; users come with keys; changes of a key do not undo each other; a repeated import succeeds |

The plainer invariants are kept out of these runs. Those of `Consensus`,
`Routing`, `Broadcast`, `Requests` and `Migration`, and most type invariants,
are proved (below). The others have a configuration on the same instance, and
hold:

| Configuration | Invariants |
| --- | --- |
| `MCWeb3RpcPlain.cfg` (`MCWeb3Rpc`) | `TypeOK`; `OneReporter`: one task at a time reports heads |
| `MCDaemonPlain.cfg` (`MCDaemon`) | `TypeOK`, `MigrationInv`; `OneRowPerPeriod`: one row per period and key; `PeriodBegun`: nothing is booked under a period that has not begun |
| `MCRequestsPlain.cfg` (`MCRequests`) | `TypeOK` |
| `MCSubscriptionsPlain.cfg` (`MCSubscriptions`) | `TypeOK`; `HeadsInOrder`; `OneResponse`: one response per message |
| `MCAccountsPlain.cfg` (`MCAccounts`) | `TypeOK`; `OneUserPerAddress`; `ImitationsOnTrail`: an admin's imitation is on the trail |

One run shows that the code does not do what a comment says:

| Run | Comment | What happens |
| --- | --- | --- |
| `broadcast_private` | "we send to ALL private rpcs" | private servers have no head and fail the check for the block needed |

More comments do not hold. These have a configuration of their own, with
which TLC shows the counterexample:

| Configuration | Comment | What happens |
| --- | --- | --- |
| `MCConsensusBackwards.cfg` (`MCConsensus`) | "min_consensus_block_num keeps us from ever going backwards" | the search steps to the parent before it ends, and a result through the backups is one block lower |
| `MCRedisPerMinute.cfg` (`RedisRateLimiter`) | "period_id will be the minute of the current time" | it changes every 128 seconds |
| `MCRoutingNotReady.cfg` (`MCRouting`) | "Unable to start a request because no servers are synced" | the slowest server of a group is never tried |
| `MCRoutingRetry.cfg` (`MCRouting`) | "some errors should be retried on other nodes" | `continue` goes on with the inner loop |
| `MCRoutingAge.cfg` (`MCRouting`) | "check all the rpcs. ignore rpcs that are still syncing" | synced servers are ignored when `max_block_age` is set |
| `MCWeb3RpcReconnect.cfg` (`MCWeb3Rpc`) | "subscribe to blocks and transactions with automatic reconnects" | a stream of heads that ends is not an error, and nothing subscribes again |

TLC shows the following when they are put into the named configuration:

* `Consensus!OwnHeadReported` ("all providers with the same consensus head
  block"), an invariant, in `MCConsensus.cfg`: a new connection is in the
  consensus through the vote of the one it replaced.
* `Consensus!SearchEnds` under `LocallyFairSpec` ("be sure there is a timeout on
  this or it might loop forever"), in `MCConsensusTiers.cfg`: the parent lookup
  of the funnel has none.
* `DeferredRateLimiter!HeadroomSafe` ("enough headroom that it should be safe to
  do this in the background"), an invariant, in `MCDeferredRateLimiter.cfg` with
  `OneProxy`, `FourRequests`, `Max = 3` and `MaxPeriod = 0`: a late reply
  overwrites what was added since, and the limit is exceeded.
* `Broadcast!EarliestRetryKept` ("return the earliest retry_after"), an
  invariant, in `MCBroadcast.cfg`: the minimum of `None` and a time is `None`.
* `Requests!CachedBlockCanonical` ("Get the heaviest chain's block"), an action
  property, in `MCRequests.cfg`: after a reorganization `blocks_by_number` keeps
  the old block below the new head.
* `Subscriptions!TransactionsDeduplicated` ("dedupe transaction"), an invariant,
  in `MCSubscriptions.cfg`: nothing is ever put into the cache of seen
  transactions.
* `Admission!ConcurrencyLimited` ("Limit the number of concurrent requests from
  the given rpc key"), an invariant, in `MCAccounts.cfg`: a semaphore is
  forgotten while a request that waited for it still runs.
* `Admission!ModeOfRoute` ("authenticated fastest"), an invariant, in
  `MCAccounts.cfg`: the mode is cached with the checks of the key.
* `Daemon!PeriodAligned` ("start the interval when the next period starts"), an
  invariant, in `MCDaemon.cfg`: dividing a `Duration` keeps its fraction.

### Bounds

* Blocks: three heights are enough for a search that steps down, hits the lag
  limit and finds a fork. The number of iterations without a minimum is 10 in
  the code and `DefaultLag` here.
* Servers: three connections make a quorum of two with one to spare, and leave
  one to be replaced. Names and tiers are assigned so that every branch of the
  search is taken.
* Limiter: three requests against a limit of two are one too many, and the first
  two take the background path and the path that waits for redis; two proxies
  make a reply of one stale for the other; two periods make a reply late for its
  period. Requests count 1, as both callers in `authorization.rs` ask for.
* Redis: 8000 seconds are more than two rounds of the period ids, and steps of
  11 seconds meet every rounding boundary. Counts above the limit plus one are
  not told apart.

* Connection: two generations make a hand-over; one failure is enough for each
  error path and for the restart after it, two failures in a row are not
  covered. Two blocks tell a new head from the same one. The chain is finite, so
  a stream that waits for a block to notice `disconnect` closes after the last.
* Daemon: one migration can fail, be half done or be recorded; the proofs cover
  any number. One period passes, so that there is a row at the tick and one at
  the end. One failure is a crash or a refused row, not both.
* Requests: four blocks have a fork and a height above it. The lags of
  `finalized` and `safe` are 2 and 1 instead of 10 and 3, so that both panic and
  succeed. One failure and one move of the tip; the head follows in its own steps.
* Subscriptions: the ring holds one transaction instead of 256, so that two make
  a receiver lag.
* Accounts: each scenario is a conflict that the code could get wrong, with the
  operations that meet in it. Conflicts across scenarios are not covered. Times
  to live and to idle are 2 ticks, as is the timeout of a request.

### Fairness

* `Consensus!FairSpec`: the funnel's task runs, and an upstream server answers
  or fails. The first is the tokio scheduler; the second is an assumption, which
  `LocallyFairSpec` drops.
* `DeferredRateLimiter!FairSpec`: tasks run, redis answers or fails (its
  connection pool has timeouts), and the time to live passes.
* `Routing!FairSpec`, `Broadcast!FairSpec`: the request's task runs and servers
  answer or fail. Nothing is assumed about heads or consensus.
* `Web3Rpc!FairSpec`: tasks run, servers answer or fail, and the chain grows to
  its bound. Failures are bounded, so in the end a server behaves.
* `Requests!FairSpec`: requests run and servers answer or fail. Nothing is
  assumed about heads, and the timeout need not come.
* `Subscriptions!FairSpec`: tasks run. Nothing is assumed about the client, the
  chain or the servers.
* `Admission!FairSpec`: handlers, commands and requests go on, the clock and the
  replication too. A proxied request ends because of its timeout of 120 s. An
  import that fails is run again. Clients need not send or leave.
* `Daemon!FairSpec`: tasks, threads and processes run, and a first head arrives.
  A future that is ready ends the `select` of `run`; nothing else has to end it.

## What is proved

All from the named assumptions of the modules, which give the constants their
types, and for every value of the constants.

`ConsensusProofs`, for every finite set of servers, every block tree and every
setting, from `ChainAssumption` (a parent is one lower) and
`ConsensusAssumption` (types of the settings):

* `Invariant`: `IndInv` is inductive. The properties alone are not: that an
  elected server has the head needs that every name counted during the search
  has it (`SearchSound`), which needs that the groups nest (`GroupsNest`); that
  the head does not go down needs the relation between the iterations left, the
  candidate and the minimum, `Number[maybe_head] + 1 >= min_num + left`.
* `QuorumAlwaysServes`, `ServersAlwaysHaveHead`, `AlwaysWithinMaxLag`,
  `ChannelsAlwaysAgree`, `TypeCorrect` follow from it.
* `HeadOnlyForward`: an action property, from the same invariant.
* `Refinement`: `Spec => FeedSpec`. A step that elects maps to `Install`, one
  that gives up to `Withdraw`, the send to `Announce`, all others stutter.

`LimiterProofs`, for every set of proxies, finite set of requests and limit:

* `AlwaysAccounted`: what is allowed is counted, about to be, or met a failure.
  The inductive invariant `Accounts` adds that a reply under way is of an
  earlier period or counted in this one: a request is allowed from its reply,
  steps after the count.

`RoutingProofs`, for any finite set of servers, tiers and latencies:

* `OnceAlways`, `FastestAlwaysTried`, `LowerTierAlwaysFirst`, from the inductive
  `RoutingInv`: what is left to try was not asked before; the fastest server of
  each group is left to try, refused or was asked; for an old block what is left
  is ordered by tier. The work is in the lemmas about shuffles and windows.

`BroadcastProofs`, for any finite set of servers and responses:

* `SentOnceAlways`, `SyncedAlwaysFirst`, `NeverLostChange`, `AlwaysMostCommon`,
  from `BroadcastInv`. It adds that the synced servers that were not tried yet
  are at the front of the list (`SyncedAhead`).

`RequestsProofs`, for any clients, payloads, block tree and lags:

* `OwnAnswerAlways`, `StatSentOnceAlways`, `BatchSameHeadAlways`,
  `OneFetchPerKeyAlways`, from `RequestsInv`. It says what each stage of a
  request knows (`TaskOK`), that a cached response answers its key, that a
  waiting request has a fetch (`FetchOK`), and whose head a batch uses (`HeadOK`).

`MigrationProofs`, for any processes, number of migrations and crashes, and an
operator as described above:

* `MigrationInvariant`: `MigrationInv` is inductive. `MigratorKnows` is the
  strengthening: what the migrator read is still so when it executes and records.
* `OneMigratorAlways` and `ReadyAlwaysMigrated` follow.
* `MigrationImplementsUpgrade`: `Acquire` and `Override` map to `Begin`, `Record`
  to `Apply`, `Drop` to `Ready` or `End`; executing a migration stutters.

Model-checked only: liveness (out of the prover's reach), `SoftLimitCovered`
(a sum over a set), `NoFalseDenial` (cardinalities over reordered replies),
`FreshAnswer` (a maximum over the known blocks), and everything about
`RedisRateLimiter`, `Web3Rpc`, `Subscriptions`, `Accounts`, `Admission` and the
parts of `Daemon` beyond `Migration`.

## What is not modelled

* Parsing, formatting, logging, metrics, alerts and status pages. They change no
  state that another part reads.
* Latency estimates, hard limits of servers and `active_requests`. They are
  floating point or times, and only order servers or make one refuse; `Routing`
  takes any refusal and a fixed order.
* Queries that only read: statistics, revert logs, the commands that list,
  count or export. Other tables than those of `Accounts`.
* A lock that is broken while a migration runs, as said above, and database
  errors in `migrate_db` outside the migrations themselves.
* Connections that subscribe to pending transactions are in `Web3Rpc`, but left
  out of `HeadReported` and `OneReporter`: an error there leaves a second task
  that reports heads, and neither holds.
* The parts are composed where one decides what the other does (`Daemon` with
  `Migration`, `Admission` with `Accounts`), not all at once: `Routing` and
  `Broadcast` see arbitrary heads instead of those of `Consensus`, `Requests` a
  head that is the tip of the servers' chain or its parent, and `Consensus`
  arbitrary messages instead of those of `Web3Rpc`.
