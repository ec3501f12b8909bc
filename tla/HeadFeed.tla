------------------------------ MODULE HeadFeed ------------------------------
(***************************************************************************)
(* What the consensus tracker promises to the rest of the proxy, through   *)
(* the two watch channels of Web3Rpcs: the set of servers that currently   *)
(* serve the head, and the head block itself.  How a set is elected is     *)
(* left open; Consensus.tla is shown to implement this specification.      *)
(***************************************************************************)
EXTENDS Chain

CONSTANTS
    Rpcs,           \* connections to upstream servers
    MinHeadRpcs     \* Web3Rpcs.min_head_rpcs

VARIABLES
    consensus,      \* watch_consensus_rpcs_sender
    head            \* watch_consensus_head_sender

\* None in watch_consensus_rpcs_sender.
NoConsensus ==
    [tier |-> 0, head |-> NoBlock, rpcs |-> {}, voted |-> NoBlock, needed |-> FALSE]

ConsensusWeb3Rpcs ==
    [tier : Nat, head : Blocks, rpcs : SUBSET Rpcs, voted : MaybeBlock, needed : BOOLEAN]

FeedInit ==
    /\ consensus = NoConsensus
    /\ head = NoBlock

\* No tier reaches a quorum: the servers are withdrawn, the head is kept.
Withdraw ==
    /\ consensus' = NoConsensus
    /\ UNCHANGED head

\* A set of servers is elected.  Unless the backups were needed for it, the
\* set is large enough and its head is not below the head already announced.
Install ==
    /\ consensus' \in ConsensusWeb3Rpcs
    /\ ~consensus'.needed =>
          /\ Cardinality(consensus'.rpcs) >= MinHeadRpcs
          /\ Num(consensus'.head) >= Num(head)
    /\ UNCHANGED head

\* The head of the elected set is sent to everyone who watches the head.
Announce ==
    /\ consensus # NoConsensus
    /\ head' = consensus.head
    /\ UNCHANGED consensus

FeedNext ==
    \/ Withdraw
    \/ Install
    \/ Announce

FeedSpec == FeedInit /\ [][FeedNext]_<<consensus, head>>
=============================================================================
