------------------------------ MODULE MCRouting ------------------------------
(* Instances of Routing for TLC.                                           *)
EXTENDS Routing

CONSTANTS a, b, c

ThreeRpcs == {a, b, c}

\* a and b share a tier; c is a tier above, and the fastest.
MCTier == [r \in {a, b, c} |-> IF r = c THEN 1 ELSE 0]
MCLatency == [r \in {a, b, c} |-> CASE r = a -> 2 [] r = b -> 3 [] r = c -> 1]
\* b keeps no block below its head.
MCDataLimit == [r \in {a, b, c} |-> IF r = b THEN 0 ELSE MaxBlock]

\* The head, an old block, a range, and bounds that contradict each other.
MCNeeds == {<<NoBlock, NoBlock>>, <<NoBlock, 1>>, <<1, 2>>, <<2, 1>>}
=============================================================================
