----------------------------- MODULE MCWeb3Rpc -----------------------------
(* A websocket connection replaced by an http one, and a websocket that    *)
(* also subscribes to transactions.                                        *)
EXTENDS Web3Rpc

Ws == [ws |-> TRUE, txs |-> FALSE]
Http == [ws |-> FALSE, txs |-> FALSE]
WsTxs == [ws |-> TRUE, txs |-> TRUE]

MCConfigs == {<<Ws, Http>>, <<WsTxs>>}
MCLadder == {0, 1}
MCDepths == {-1, 1}
=============================================================================
