------------------------------- MODULE Daemon -------------------------------
(***************************************************************************)
(* The life of one proxy process (the command proxyd): it migrates the     *)
(* database together with the other processes of Migration, spawns the     *)
(* app, follows its config file, serves until something ends it, and saves *)
(* the stats of the requests it answered, once per period and at the end.  *)
(***************************************************************************)
EXTENDS Migration, Integers, Sequences, FiniteSets, Functions, FiniteSetsExt

CONSTANTS
    Proxy,          \* the process
    TopConfigs,     \* what the config file may say: does it parse, does it pass
                    \* the checks of spawn, do its servers work, has it a db_url,
                    \* has it private_rpcs
    Stats,          \* the stats that requests may leave
    Period,         \* period_seconds
    Second,         \* how many units of time a second has
    Starts,         \* times at which the stat loop may start
    MaxPeriods,     \* bound: periods that pass
    MaxStats,       \* bound: requests answered
    MaxEdits,       \* bound: changes of the config file
    MaxFaults       \* bound: processes that die and saves that fail, together

ASSUME DaemonAssumption ==
    /\ Proxy \in Procs
    /\ Period \in Nat \ {0} /\ Second \in Nat \ {0} /\ Starts \subseteq Nat
    /\ MaxPeriods \in Nat /\ MaxStats \in Nat /\ MaxEdits \in Nat /\ MaxFaults \in Nat

VARIABLES
    main,           \* where run is
    file,           \* the config file
    edits,          \* changes of it
    thread,         \* the thread that reads it: running or not, and what it read
    config,         \* the config task: where it is, the watch channel, the config
                    \* it works on, and the one in effect
    private,        \* was the app spawned with private_rpcs?
    stats,          \* the stat loop
    rows,           \* what this process put into the table rpc_accounting
    answered,       \* requests of this process that left a stat
    dbErrors        \* saves that failed

daemonVars == <<main, file, edits, thread, config, private, stats, rows, answered, dbErrors>>
vars == <<migrationVars, daemonVars>>

NoConfig == [parses |-> FALSE, sane |-> FALSE, works |-> FALSE, db |-> FALSE, private |-> FALSE]

\* ProxyResponseStat::key: what is kept of a request depends on its log level.
Key(s) ==
    [rpc_key_id |-> IF s.log_level = "None" THEN "none" ELSE s.rpc_key_id,
     origin |-> IF s.rpc_key_id = "none" THEN s.origin ELSE "none",
     method |-> IF s.log_level = "Aggregated" THEN "none" ELSE s.method]
Keys == {Key(s) : s \in Stats}

\* ProxyResponseAggregate
Default == [frontend_requests |-> 0, backend_requests |-> 0, cache_hits |-> 0]
Add(a, s) ==
    [frontend_requests |-> a.frontend_requests + 1,
     backend_requests |-> a.backend_requests + s.backend_requests,
     cache_hits |-> a.cache_hits + (IF s.backend_requests = 0 THEN 1 ELSE 0)]

Nothing == [k \in Keys |-> Default]

StatsOff == [pc |-> "none", queue |-> <<>>, map |-> Nothing, saving |-> Nothing,
             t0 |-> 0, elapsed |-> 0, ticks |-> 0, shutdown |-> 0]
ConfigOff == [pc |-> "none", watch |-> NoConfig, unseen |-> FALSE, new |-> NoConfig,
              active |-> NoConfig]

Dead == [runs |-> FALSE, top_config |-> NoConfig]

Init ==
    /\ MigrationInit
    /\ main = "boot" /\ file \in TopConfigs /\ edits = 0
    /\ thread = Dead
    /\ config = ConfigOff /\ private = FALSE
    /\ stats = StatsOff /\ rows = {}
    /\ answered = [s \in Stats |-> 0] /\ dbErrors = 0

MayFail == crashes + dbErrors < MaxFaults

Running == main \in {"head", "serve", "stopping", "waiting"}

-----------------------------------------------------------------------------
(* Start: main reads the config, run spawns the app                        *)

Boot ==
    /\ main = "boot" /\ pc[Proxy] # "crashed"
    /\ main' = IF file.parses THEN "spawn" ELSE "error"
    /\ thread' = [thread EXCEPT !.top_config = file]
    /\ UNCHANGED <<migrationVars, file, edits, config, private, stats, rows, answered, dbErrors>>

\* Web3ProxyApp::spawn, after the database: the checks, the stat loop (only with
\* a database), the servers, and the config task; then the config thread.
Spawn ==
    /\ main = "spawn"
    /\ LET top == thread.top_config
       IN  IF ~top.sane \/ (top.db /\ pc[Proxy] = "failed")
           THEN /\ main' = "error"
                /\ UNCHANGED <<thread, config, private, stats>>
           ELSE /\ top.db => pc[Proxy] = "ready"
                /\ main' = "head"
                /\ thread' = [thread EXCEPT !.runs = TRUE]
                /\ private' = top.private
                /\ config' = [ConfigOff EXCEPT !.pc = "take", !.watch = top]
                /\ \E t \in Starts :
                     stats' = IF top.db THEN [StatsOff EXCEPT !.pc = "select", !.t0 = t]
                                        ELSE StatsOff
    /\ UNCHANGED <<migrationVars, file, edits, rows, answered, dbErrors>>

\* The first head block is there, and the frontend is started.
FirstHead ==
    /\ main = "head" /\ config.active # NoConfig
    /\ main' = "serve"
    /\ UNCHANGED <<migrationVars, file, edits, thread, config, private, stats, rows, answered, dbErrors>>

-----------------------------------------------------------------------------
(* The config file, its thread and the config task                         *)

Edit ==
    /\ edits < MaxEdits /\ edits' = edits + 1
    /\ file' \in TopConfigs \ {file}
    /\ UNCHANGED <<migrationVars, main, thread, config, private, stats, rows, answered, dbErrors>>

\* A new config is sent to the task; without a receiver the thread panics.
ReadFile ==
    /\ Running /\ thread.runs
    /\ file.parses /\ file # thread.top_config
    /\ thread' = [runs |-> config.pc # "failed", top_config |-> file]
    /\ config' = IF config.pc = "failed" THEN config
                 ELSE [config EXCEPT !.watch = file, !.unseen = TRUE]
    /\ UNCHANGED <<migrationVars, main, file, edits, private, stats, rows, answered, dbErrors>>

TakeConfig ==
    /\ Running
    /\ config.pc = "take" \/ (config.pc = "wait" /\ config.unseen)
    /\ config' = [config EXCEPT !.pc = "apply", !.new = config.watch, !.unseen = FALSE]
    /\ UNCHANGED <<migrationVars, main, file, edits, thread, private, stats, rows, answered, dbErrors>>

\* Mutant: a config that arrives while another is applied counts as seen.
ApplyMarksSeen ==
    /\ Running /\ config.pc = "apply"
    /\ config' = [config EXCEPT !.pc = "wait", !.active = config.new, !.unseen = FALSE]
    /\ UNCHANGED <<migrationVars, main, file, edits, thread, private, stats, rows, answered, dbErrors>>

\* apply_top_config: it ends with an error, or a panic when private_rpcs are
\* to be turned on (todo!), and ends the task with it.
ApplyConfig ==
    /\ Running /\ config.pc = "apply"
    /\ config' = IF config.new.works /\ (config.new.private => private)
                 THEN [config EXCEPT !.pc = "wait", !.active = config.new]
                 ELSE [config EXCEPT !.pc = "failed"]
    /\ UNCHANGED <<migrationVars, main, file, edits, thread, private, stats, rows, answered, dbErrors>>

-----------------------------------------------------------------------------
(* Requests and the stat loop                                              *)

\* A request is answered and its stat sent.  Once the loop has ended the send
\* fails, and the request with it.
Answer(s) ==
    /\ main \in {"serve", "stopping", "waiting"}
    /\ stats.pc \notin {"none", "done"}
    /\ SumFunction(answered) < MaxStats
    /\ answered' = [answered EXCEPT ![s] = @ + 1]
    /\ stats' = [stats EXCEPT !.queue = Append(@, s)]
    /\ UNCHANGED <<migrationVars, main, file, edits, thread, config, private, rows, dbErrors>>

\* The start of the first period: Duration::checked_div keeps the fraction, here
\* up to the unit of time, and so does the product.
CurrentPeriod(t) == (t \div Period) * Period
\* interval_at: the n-th tick
Instant(n) ==
    stats.t0 + (Period * Second - (stats.t0 - CurrentPeriod(stats.t0))) + (n - 1) * Period * Second
Now == IF stats.elapsed = 0 THEN stats.t0 ELSE Instant(stats.elapsed)

TickDue == stats.ticks < stats.elapsed

\* period_timestamp: it starts with the current period and follows the ticks.
PeriodTimestamp == CurrentPeriod(stats.t0) \div Second + stats.ticks * Period

StatStep(new) ==
    /\ Running /\ stats' = new
    /\ UNCHANGED <<migrationVars, main, file, edits, thread, config, private, answered>>

Receive ==
    /\ stats.pc = "select" /\ stats.queue # <<>>
    /\ LET s == Head(stats.queue)
       IN  StatStep([stats EXCEPT !.queue = Tail(@), !.map[Key(s)] = Add(@, s)])
    /\ UNCHANGED <<rows, dbErrors>>

\* The map is drained at a tick, and at the shutdown.
Tick ==
    /\ stats.pc = "select" /\ TickDue
    /\ StatStep([stats EXCEPT !.pc = "tick", !.saving = stats.map, !.map = Nothing])
    /\ UNCHANGED <<rows, dbErrors>>

\* Mutant: the loop returns where it should break.
ShutdownReturns ==
    /\ stats.pc = "select" /\ stats.shutdown > 0
    /\ StatStep([stats EXCEPT !.pc = "done", !.map = Nothing])
    /\ UNCHANGED <<rows, dbErrors>>

Shutdown ==
    /\ stats.pc = "select" /\ stats.shutdown > 0
    /\ StatStep([stats EXCEPT !.pc = "final", !.saving = stats.map, !.map = Nothing])
    /\ UNCHANGED <<rows, dbErrors>>

\* One aggregate after the other is inserted; errors are logged.
Save(k) ==
    /\ stats.pc \in {"tick", "final"} /\ stats.saving[k] # Default
    /\ StatStep([stats EXCEPT !.saving[k] = Default])
    /\ \/ /\ rows' = rows \cup {[id |-> Cardinality(rows), key |-> k, period |-> PeriodTimestamp,
                                 sums |-> stats.saving[k]]}
          /\ UNCHANGED dbErrors
       \/ /\ MayFail /\ dbErrors' = dbErrors + 1
          /\ UNCHANGED rows

Saved ==
    /\ stats.pc \in {"tick", "final"} /\ stats.saving = Nothing
    /\ StatStep(IF stats.pc = "final" THEN [stats EXCEPT !.pc = "done"]
                ELSE [stats EXCEPT !.pc = "select", !.ticks = @ + 1])
    /\ UNCHANGED <<rows, dbErrors>>

StatLoop == Receive \/ Tick \/ Shutdown \/ Saved \/ \E k \in Keys : Save(k)

Clock ==
    /\ stats.pc \notin {"none", "done"} /\ stats.elapsed < MaxPeriods
    /\ StatStep([stats EXCEPT !.elapsed = @ + 1])
    /\ UNCHANGED <<rows, dbErrors>>

-----------------------------------------------------------------------------
(* The end                                                                 *)

MainStep(there) ==
    /\ main' = there
    /\ UNCHANGED <<migrationVars, file, edits, thread, config, private, rows, answered, dbErrors>>

\* A shutdown is asked for through the channel (the tests do).
RequestShutdown ==
    /\ main = "serve" /\ stats.shutdown = 0
    /\ stats' = [stats EXCEPT !.shutdown = 1]
    /\ MainStep("serve")

\* With the process goes everything but the database and the file.
Die ==
    /\ thread' = Dead /\ config' = ConfigOff /\ private' = FALSE
    /\ stats' = StatsOff /\ rows' = {} /\ answered' = [s \in Stats |-> 0]
    /\ UNCHANGED <<file, edits, dbErrors>>

\* select: an app task, the frontend or prometheus fails; the process ends with
\* the error, and with it the stat loop.
Fails ==
    /\ main = "serve" /\ main' = "error"
    /\ Die
    /\ UNCHANGED migrationVars

\* The frontend or prometheus ends, ctrl-c, or the shutdown channel.
Quits ==
    /\ main = "serve"
    /\ MainStep("stopping")
    /\ UNCHANGED stats

\* Mutant: the other tasks are not told to shut down.
StopSilently ==
    /\ main = "stopping"
    /\ MainStep("waiting")
    /\ UNCHANGED stats

Stop ==
    /\ main = "stopping"
    /\ stats' = [stats EXCEPT !.shutdown = @ + 1]
    /\ MainStep("waiting")

\* The process ends; what the stat loop has done is kept for the record.
Exit ==
    /\ main = "waiting" /\ main' = "finished"
    /\ thread' = Dead /\ config' = ConfigOff
    /\ UNCHANGED <<migrationVars, file, edits, private, stats, rows, answered, dbErrors>>

\* Mutant: the background tasks are not waited for.
FinishAtOnce == Exit

Finish ==
    /\ stats.pc \in {"none", "done"}
    /\ Exit

ProxyCrash ==
    /\ main \notin {"error", "finished"} /\ main' = "boot"
    /\ Die
    /\ MayFail /\ Crash(Proxy)

Migrate(p) ==
    /\ p = Proxy => main = "spawn" /\ thread.top_config.sane /\ thread.top_config.db
    /\ MigrateStep(p)
    /\ UNCHANGED daemonVars

Others ==
    /\ \/ \E p \in Procs : Restart(p)
       \/ MayFail /\ \E p \in Procs \ {Proxy} : Crash(p)
       \/ DropMigrationLock
    /\ UNCHANGED daemonVars

RunStep == Boot \/ Spawn \/ FirstHead \/ Stop \/ Finish
EndStep == Fails \/ Quits
ConfigStep == TakeConfig \/ ApplyConfig

Next ==
    \/ RunStep \/ EndStep \/ RequestShutdown \/ ProxyCrash
    \/ Edit \/ ReadFile \/ ConfigStep
    \/ \E s \in Stats : Answer(s)
    \/ StatLoop \/ Clock
    \/ \E p \in Procs : Migrate(p)
    \/ Others

Spec == Init /\ [][Next]_vars

\* Tasks, threads and processes run.  Whether a process fails, quits or dies,
\* and what requests and operators do, is left open; but select does return
\* once one of its futures is ready.
Fairness ==
    /\ WF_vars(RunStep) /\ WF_vars(ReadFile) /\ WF_vars(ConfigStep) /\ WF_vars(StatLoop)
    /\ WF_vars((config.pc = "failed" \/ stats.shutdown > 0) /\ EndStep)
    /\ \A p \in Procs : WF_vars(Migrate(p))

FairSpec == Spec /\ Fairness

-----------------------------------------------------------------------------
\* Types of the state of the daemon's tasks, and of the stats on their way.
TypeOK ==
    /\ MigrationTypeOK
    /\ main \in {"boot", "spawn", "head", "serve", "stopping", "waiting", "finished", "error"}
    /\ file \in TopConfigs /\ edits \in 0..MaxEdits
    /\ thread \in [runs : BOOLEAN, top_config : TopConfigs \cup {NoConfig}]
    /\ config.pc \in {"none", "take", "apply", "wait", "failed"}
    /\ {config.watch, config.new, config.active} \subseteq TopConfigs \cup {NoConfig}
    /\ config.unseen \in BOOLEAN /\ private \in BOOLEAN
    /\ stats.pc \in {"none", "select", "tick", "final", "done"}
    /\ stats.queue \in Seq(Stats)
    /\ stats.elapsed \in 0..MaxPeriods /\ stats.ticks \in 0..MaxPeriods
    /\ stats.shutdown \in 0..2
    /\ answered \in [Stats -> 0..MaxStats] /\ dbErrors \in 0..MaxFaults

\* The requests of a key, and the backend requests they made.
Asked(k) ==
    LET of == {s \in Stats : Key(s) = k}
    IN  <<MapThenSumSet(LAMBDA s : answered[s], of),
          MapThenSumSet(LAMBDA s : answered[s] * s.backend_requests, of)>>

\* What of them is in the channel, in the map, being saved, and in the database.
Kept(k) ==
    LET queued == {i \in DOMAIN stats.queue : Key(stats.queue[i]) = k}
        mine == {r \in rows : r.key = k}
    IN  <<Cardinality(queued) + stats.map[k].frontend_requests
            + stats.saving[k].frontend_requests
            + MapThenSumSet(LAMBDA r : r.sums.frontend_requests, mine),
          MapThenSumSet(LAMBDA i : stats.queue[i].backend_requests, queued)
            + stats.map[k].backend_requests + stats.saving[k].backend_requests
            + MapThenSumSet(LAMBDA r : r.sums.backend_requests, mine)>>

\* No answered request is forgotten or counted twice: at every moment it is in
\* the channel, in the map, being saved or in the database (stat_loop drains
\* the map while stats arrive), unless the database refuses it.
StatsAccounted == dbErrors = 0 => \A k \in Keys : Asked(k) = Kept(k)

\* After an orderly end all that the loop had received is in the database: run
\* waits for the stat loop, and the loop saves what it has (only the channel
\* may still hold stats).
FinishedSaved ==
    main = "finished" => stats.map = Nothing /\ stats.saving = Nothing

\* A period has at most one row of a key: its counts are not split, and the
\* rows of two periods are not confused (drain, then period_timestamp advances).
OneRowPerPeriod ==
    \A r, s \in rows : r.key = s.key /\ r.period = s.period => r = s

\* However late the loop is, it never books a request under a period that has
\* not begun (interval_at and period_timestamp advance together).
PeriodBegun == stats.pc # "none" => PeriodTimestamp * Second <= Now

\* "start the interval when the next period starts" (app_stats.rs:344): periods
\* begin at multiples of period_seconds.
PeriodAligned == PeriodTimestamp % Period = 0

\* The config in effect follows the file: changes that come while another one
\* is applied, or right after the start, are not lost.
ConfigFollows ==
    []<>(\/ config.active = file \/ ~file.parses
         \/ config.pc = "failed" \/ ~Running)

\* Once it is told to, or one of its key tasks has failed, the process ends;
\* nobody waits for somebody who is not told (broadcast, background_handles).
Ends ==
    (main = "serve" /\ (config.pc = "failed" \/ stats.shutdown > 0)) \/ main = "stopping"
        ~> main \in {"finished", "error", "boot"}
=============================================================================
