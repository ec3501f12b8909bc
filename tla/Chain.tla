------------------------------- MODULE Chain -------------------------------
(***************************************************************************)
(* The block tree that the upstream servers report.  A block is an opaque  *)
(* value: the proxy only ever looks at its hash (identity), its parent     *)
(* hash and its number (Web3ProxyBlock in rpcs/blockchain.rs).             *)
(***************************************************************************)
EXTENDS Integers, FiniteSets

CONSTANTS
    Blocks,     \* the blocks some upstream server may report
    Parent,     \* Parent[b]: the block with b's parent hash, or NoBlock
    Number,     \* Number[b]: the height of b
    NoBlock     \* the None of Option<Web3ProxyBlock>

ASSUME ChainAssumption ==
    /\ NoBlock \notin Blocks
    /\ Number \in [Blocks -> Nat]
    /\ Parent \in [Blocks -> Blocks \cup {NoBlock}]
    /\ \A b \in Blocks : Parent[b] \in Blocks => Number[b] = Number[Parent[b]] + 1

MaybeBlock == Blocks \cup {NoBlock}

\* Option<U64> ordered as Rust orders it: None is below every Some(n).
NoNum == -1
Num(b) == IF b = NoBlock THEN NoNum ELSE Number[b]

\* Parent hashes lead from h (itself included) down to b.  Stated as
\* membership in every set that contains h and is closed under Parent.
Extends(h, b) ==
    \A S \in SUBSET Blocks :
        (/\ h \in S
         /\ \A x \in S : Parent[x] \in Blocks => Parent[x] \in S)
        => b \in S

Larger(m, n) == IF m >= n THEN m ELSE n
=============================================================================
