------------------------------ MODULE MCDaemon ------------------------------
(* A proxy, and the command of an operator that migrates with the override. *)
EXTENDS Daemon, TLC

CONSTANTS proxy, operator

MCProcs == {proxy, operator}

Top(ok, works, db, relays) ==
    [parses |-> TRUE, sane |-> ok, works |-> works, db |-> db, private |-> relays]
MCConfigs == {NoConfig, Top(TRUE, TRUE, TRUE, FALSE), Top(TRUE, TRUE, FALSE, TRUE)}

Stat(rpc_key_id, level, backend) ==
    [rpc_key_id |-> rpc_key_id, log_level |-> level, origin |-> "o", method |-> "m",
     backend_requests |-> backend]
MCStats == {Stat("key", "Detailed", 0), Stat("key", "None", 2)}
=============================================================================
