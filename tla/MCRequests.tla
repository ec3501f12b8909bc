----------------------------- MODULE MCRequests -----------------------------
(* Instances of Requests for TLC.                                          *)
EXTENDS Requests

CONSTANTS a0, a1, b1, b2, batcher, single

\* a1 and b1 compete at height 1; b2 extends b1.
MCBlocks == {a0, a1, b1, b2}
MCParent == [b \in MCBlocks |-> CASE b = a0 -> NoBlock [] b \in {a1, b1} -> a0 [] b = b2 -> b1]
MCNumber == [b \in MCBlocks |-> CASE b = a0 -> 0 [] b \in {a1, b1} -> 1 [] b = b2 -> 2]

Call(block) == [method |-> "eth_call", params |-> [from |-> block, to |-> Absent]]
Logs(from, to) == [method |-> "eth_getLogs", params |-> [from |-> from, to |-> to]]
Plain(m) == [method |-> m, params |-> [from |-> Absent, to |-> Absent]]

Two(p, q) == [c \in {batcher, single} |-> IF c = batcher THEN p ELSE q]

\* One request for each arm of the dispatch and each form of a block, alone ...
Alone ==
    {Call(x) : x \in {Latest, Absent, <<"pending">>, <<"earliest">>, <<"finalized">>, <<"safe">>,
                      <<"number", 1>>, <<"number", 3>>, <<"hash", a1>>, <<"bad">>}}
    \cup {Logs(Latest, Latest), Logs(<<"hash", b1>>, Absent), Logs(<<"bad">>, Absent)}
    \cup {Plain(m) : m \in {"eth_estimateGas", "eth_sendRawTransaction", "eth_blockNumber",
                            "eth_chainId", "eth_getBlockByHash",
                            "trace_block", "admin_peers", "eth_subscribe"}}

\* ... two in a batch, and two clients whose requests may share a response.
MCScenarios ==
    {Two(<<>>, <<r>>) : r \in Alone}
    \cup {Two(<<Call(Latest), r>>, <<>>) : r \in {Call(<<"number", 1>>), Plain("eth_blockNumber")}}
    \cup {Two(<<Call(Latest)>>, <<Call(<<"number", 1>>)>>)}
    \cup {Two(<<Logs(Absent, Absent)>>, <<Logs(Absent, Absent)>>)}
=============================================================================
