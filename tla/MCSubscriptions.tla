-------------------------- MODULE MCSubscriptions --------------------------
(* Instances of Subscriptions for TLC.                                     *)
EXTENDS Subscriptions

CONSTANTS r1, r2, x

Script(messages, heads, announced) == [messages |-> messages, heads |-> heads, announced |-> announced]

\* Subscriptions to heads, two at once and one that is given up; a transaction
\* that two servers announce; and every other kind of message.
MCScripts ==
    {Script(<<Heads, Heads>>, 1, {}),
     Script(<<Heads, Unsubscribe(1)>>, 2, {}),
     Script(<<Heads, Close>>, 3, {}),
     Script(<<PendingTxs, Unsubscribe(1)>>, 0, {<<r1, x>>, <<r2, x>>}),
     Script(<<Logs, Heads, UnsubscribeArray(2)>>, 1, {}),
     Script(<<Rpc, Garbage, UnsubscribeNothing>>, 0, {}),
     Script(<<Ping, Pong, Close>>, 0, {})}
=============================================================================
