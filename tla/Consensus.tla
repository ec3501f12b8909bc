----------------------------- MODULE Consensus -----------------------------
(***************************************************************************)
(* The block funnel of Web3Rpcs: the one task that receives (block, rpc)   *)
(* pairs from all upstream connections, keeps the head of every connection *)
(* per tier (ConsensusFinder), searches for a head block that enough       *)
(* servers share, and publishes the result on two watch channels.          *)
(*                                                                         *)
(* The task is a loop with a program counter.  The search walks from the   *)
(* highest block of a tier towards its ancestors, one loop iteration per   *)
(* Scan step; it may have to ask an upstream server for a parent block,    *)
(* and during that await a config reload may replace connections.          *)
(***************************************************************************)
EXTENDS HeadFeed, FiniteSetsExt

CONSTANTS
    Names,              \* server names of the config
    NameOf,             \* NameOf[r]: Web3Rpc.name; a reload makes a second r
    Gen,                \* Gen[r]: order of Web3Rpc.created_at among one name
    Tier,               \* Tier[r]: Web3Rpc.tier
    Backup,             \* Backup[r]: Web3Rpc.backup
    SoftLimit,          \* SoftLimit[r]: Web3Rpc.soft_limit
    NoRpc,              \* a name that by_name does not hold
    MaxTier,            \* the last tier of ConsensusFinder::new
    MinSumSoftLimit,    \* Web3Rpcs.min_sum_soft_limit
    MaxBlockLag,        \* Web3Rpcs.max_block_lag, or NoNum for None
    MaxBlockAge,        \* is Web3Rpcs.max_block_age set?
    DefaultLag          \* iterations of a search without a minimum (10)

ASSUME ConsensusAssumption ==
    /\ IsFiniteSet(Rpcs) /\ IsFiniteSet(Names)
    /\ NoRpc \notin Rpcs
    /\ NameOf \in [Rpcs -> Names]
    /\ Gen \in [Rpcs -> Nat]
    /\ Tier \in [Rpcs -> Nat]
    /\ Backup \in [Rpcs -> BOOLEAN]
    /\ SoftLimit \in [Rpcs -> Nat]
    /\ MaxTier \in Nat
    /\ MinHeadRpcs \in Nat
    /\ MinSumSoftLimit \in Nat
    /\ MaxBlockLag \in Nat \cup {NoNum}
    /\ MaxBlockAge \in BOOLEAN
    /\ DefaultLag \in Nat

VARIABLES
    by_name,        \* name -> the connection that serves it, or NoRpc
    rpc_to_block,   \* tier -> rpc -> its head in ConnectionsGroup, or NoBlock
    highest,        \* tier -> ConnectionsGroup.highest_block
    pc,             \* where the block funnel is
    min_num,        \* min_block_num of best_consensus_connections
    tier,           \* the tier being searched
    left,           \* iterations left in the search loop
    maybe_head,     \* maybe_head_block
    primary,        \* primary_consensus_rpcs
    backup,         \* backup_consensus_rpcs
    psum,           \* primary_sum_soft_limit
    bsum,           \* backup_sum_soft_limit
    voted           \* backup_rpcs_voted

groups == <<rpc_to_block, highest>>
search == <<left, maybe_head, primary, backup, psum, bsum, voted>>
vars == <<by_name, groups, consensus, head, pc, min_num, tier, search>>

Tiers == 0..MaxTier

SearchIdle ==
    /\ left = 0 /\ maybe_head = NoBlock
    /\ primary = {} /\ backup = {}
    /\ psum = 0 /\ bsum = 0
    /\ voted = NoBlock

Init ==
    /\ FeedInit
    /\ by_name = [n \in Names |-> NoRpc]
    /\ rpc_to_block = [t \in Tiers |-> [r \in Rpcs |-> NoBlock]]
    /\ highest = [t \in Tiers |-> NoBlock]
    /\ pc = "recv" /\ min_num = NoNum /\ tier = 0
    /\ SearchIdle

-----------------------------------------------------------------------------
(* ConnectionsGroup and ConsensusFinder: heads per tier                    *)

Members(t) == {r \in Rpcs : rpc_to_block[t][r] # NoBlock}

\* ConsensusFinder keeps rpc in the groups of its own and of all worse tiers.
InGroup(r, t) == Tier[r] <= t

\* ConnectionsGroup::insert
Insert(r, b) ==
    /\ rpc_to_block' = [t \in Tiers |->
          IF InGroup(r, t) THEN [rpc_to_block[t] EXCEPT ![r] = b] ELSE rpc_to_block[t]]
    /\ highest' = [t \in Tiers |->
          IF InGroup(r, t) /\ Num(b) > Num(highest[t]) THEN b ELSE highest[t]]

\* ConnectionsGroup::remove: when the highest block goes, look for one of the
\* remaining heads that is even higher.
HighestWithout(r, t) ==
    LET above == {rpc_to_block[t][x] : x \in Members(t) \ {r}}
        higher == {b \in above : Number[b] > Num(highest[t])}
    IN  IF rpc_to_block[t][r] = highest[t] /\ higher # {}
        THEN CHOOSE b \in higher : \A c \in higher : Number[c] <= Number[b]
        ELSE highest[t]

Remove(r) ==
    /\ rpc_to_block' = [t \in Tiers |->
          IF InGroup(r, t) THEN [rpc_to_block[t] EXCEPT ![r] = NoBlock] ELSE rpc_to_block[t]]
    /\ highest' = [t \in Tiers |->
          IF InGroup(r, t) THEN HighestWithout(r, t) ELSE highest[t]]

\* The block under which the finder knew rpc before this update.
Previous(r) == rpc_to_block[MaxTier][r]

-----------------------------------------------------------------------------
(* process_block_from_rpc: one message                                     *)

Synced == consensus.rpcs # {}

\* A reload spawns the next connection of a name after it installed the
\* previous one; a connection sends blocks from its spawn on.
Current(n) == IF by_name[n] = NoRpc THEN -1 ELSE Gen[by_name[n]]
Spawned(r) == Gen[r] <= Current(NameOf[r]) + 1

\* update_rpc: record the new head (or drop the rpc: no block, or a block
\* older than max_block_age), and search only if something changed.
ProcessBlock(r, b) ==
    /\ pc = "recv" /\ Spawned(r)
    /\ \/ /\ b # NoBlock
          /\ Insert(r, b)
          /\ pc' = IF Previous(r) # b THEN "best" ELSE "recv"
       \/ /\ b # NoBlock => MaxBlockAge
          /\ Remove(r)
          /\ pc' = IF Previous(r) # NoBlock THEN "best" ELSE "recv"
    /\ UNCHANGED <<by_name, consensus, head, min_num, tier, search>>

\* Mutant: the counted servers survive into the next tier.
SearchResetKeepsCount ==
    /\ left' = 0 /\ maybe_head' = NoBlock
    /\ psum' = 0 /\ bsum' = 0
    /\ voted' = NoBlock
    /\ UNCHANGED <<primary, backup>>

SearchReset ==
    /\ left' = 0 /\ maybe_head' = NoBlock
    /\ primary' = {} /\ backup' = {}
    /\ psum' = 0 /\ bsum' = 0
    /\ voted' = NoBlock

\* Mutant: the head is withdrawn too.
SearchFailsForgetsHead ==
    /\ consensus' = NoConsensus /\ head' = NoBlock
    /\ pc' = "recv" /\ tier' = 0 /\ min_num' = NoNum
    /\ SearchReset
    /\ UNCHANGED <<by_name, groups>>

\* No tier gave a result: withdraw the consensus servers, keep the head.
SearchFails ==
    /\ consensus' = NoConsensus
    /\ pc' = "recv" /\ tier' = 0 /\ min_num' = NoNum
    /\ SearchReset
    /\ UNCHANGED <<by_name, groups, head>>

\* Mutant: the same tier is searched again.
TierFailsRetriesTier ==
    \/ /\ tier < MaxTier
       /\ tier' = tier /\ pc' = "tier"
       /\ SearchReset
       /\ UNCHANGED <<by_name, groups, consensus, head, min_num>>
    \/ tier >= MaxTier /\ SearchFails

\* best_consensus_connections asks the next tier, if there is one.
TierFails ==
    \/ /\ tier < MaxTier
       /\ tier' = tier + 1 /\ pc' = "tier"
       /\ SearchReset
       /\ UNCHANGED <<by_name, groups, consensus, head, min_num>>
    \/ tier >= MaxTier /\ SearchFails

\* min_block_num: not further than max_block_lag below the highest known
\* block, and not below the head announced last.
MinBlockNum ==
    Larger(IF MaxBlockLag = NoNum THEN NoNum
           ELSE Larger(Num(highest[MaxTier]) - MaxBlockLag, 0),
           Num(head))

\* best_consensus_connections: prologue
BestConsensus ==
    /\ pc = "best"
    /\ \/ highest[MaxTier] = NoBlock /\ SearchFails
       \/ /\ highest[MaxTier] # NoBlock
          /\ min_num' = MinBlockNum
          /\ tier' = 0 /\ pc' = "tier"
          /\ UNCHANGED <<by_name, groups, consensus, head, search>>

-----------------------------------------------------------------------------
(* consensus_head_connections: the search in one tier                      *)

MaxLagConsensusToHighest ==
    IF min_num = NoNum THEN DefaultLag
    ELSE Larger(Number[highest[tier]] + 1 - min_num, 0)

StartTier ==
    /\ pc = "tier"
    /\ \/ /\ highest[tier] = NoBlock \/ Cardinality(Members(tier)) < MinHeadRpcs
          /\ TierFails
       \/ /\ highest[tier] # NoBlock /\ Cardinality(Members(tier)) >= MinHeadRpcs
          /\ maybe_head' = highest[tier]
          /\ left' = MaxLagConsensusToHighest
          /\ pc' = "scan"
          /\ UNCHANGED <<by_name, groups, consensus, head, min_num, tier,
                         primary, backup, psum, bsum, voted>>

\* The servers whose head is maybe_head and that were not counted on a later
\* block of the same chain, by name: two connections of one name count once.
Agreeing ==
    {NameOf[r] : r \in {x \in Members(tier) : rpc_to_block[tier][x] = maybe_head}}
        \ (primary \cup backup)

Counted == {n \in Agreeing : by_name[n] # NoRpc}

\* Mutant: backups count as primaries.
NewPrimariesAndBackups == Counted

NewPrimaries == {n \in Counted : ~Backup[by_name[n]]}

\* Once the backups have voted, the set with the backups stays as it is.
NewBackups == IF voted = NoBlock THEN Counted ELSE {}

SumOfLimits(S) == MapThenSumSet(LAMBDA n : SoftLimit[by_name[n]], S)

Enough(S, sum) == sum >= MinSumSoftLimit /\ Cardinality(S) >= MinHeadRpcs

\* Mutant: backups_needed asks whether the backups voted, the wrong way round.
ElectNeededInverted(names, vote, needed) ==
    /\ consensus' = [tier |-> tier, head |-> maybe_head,
                     rpcs |-> {by_name[n] : n \in {m \in names : by_name[m] # NoRpc}},
                     voted |-> vote, needed |-> vote = NoBlock]
    /\ pc' = IF consensus.head = maybe_head THEN "recv" ELSE "publish"
    /\ tier' = 0 /\ min_num' = NoNum
    /\ SearchReset
    /\ UNCHANGED <<by_name, groups, head>>

\* The result replaces the consensus; the head is sent in a second step,
\* unless the previous consensus had the same head.
Elect(names, vote, needed) ==
    /\ consensus' = [tier |-> tier, head |-> maybe_head,
                     rpcs |-> {by_name[n] : n \in {m \in names : by_name[m] # NoRpc}},
                     voted |-> vote, needed |-> needed]
    /\ pc' = IF consensus.head = maybe_head THEN "recv" ELSE "publish"
    /\ tier' = 0 /\ min_num' = NoNum
    /\ SearchReset
    /\ UNCHANGED <<by_name, groups, head>>

\* One iteration of the loop, up to the lookup of the parent block.
Scan ==
    /\ pc = "scan" /\ left > 0
    /\ LET primary2 == primary \cup NewPrimaries
           backup2 == backup \cup NewBackups
           psum2 == psum + SumOfLimits(NewPrimaries)
           bsum2 == bsum + SumOfLimits(NewBackups)
       IN  \/ Counted # Agreeing /\ ~Synced /\ TierFails
           \/ /\ Counted = Agreeing \/ Synced
              /\ Enough(primary2, psum2)
              /\ Elect(primary2, voted, FALSE)
           \/ /\ Counted = Agreeing \/ Synced
              /\ ~Enough(primary2, psum2)
              /\ primary' = primary2 /\ psum' = psum2
              /\ backup' = backup2 /\ bsum' = bsum2
              /\ voted' = IF /\ voted = NoBlock /\ backup2 # primary2
                             /\ Enough(backup2, bsum2)
                          THEN maybe_head ELSE voted
              /\ pc' = "parent"
              /\ UNCHANGED <<by_name, groups, consensus, head, min_num, tier, left, maybe_head>>

\* The loop ran out of iterations without enough primary servers.
ScanEnds ==
    /\ pc = "scan" /\ left = 0
    /\ \/ ~Enough(primary, psum) /\ voted = NoBlock /\ TierFails
       \/ (Enough(primary, psum) \/ voted # NoBlock) /\ Elect(primary, voted, TRUE)

\* Web3Rpcs::block answers with the parent block.
ParentFound ==
    /\ Parent[maybe_head] # NoBlock
    /\ maybe_head' = Parent[maybe_head]
    /\ left' = left - 1
    /\ pc' = "scan"
    /\ UNCHANGED <<by_name, groups, consensus, head, min_num, tier,
                   primary, backup, psum, bsum, voted>>

\* Web3Rpcs::block answers with an error.
ParentFails ==
    \/ voted # NoBlock /\ Elect(primary, voted, TRUE)
    \/ voted = NoBlock /\ TierFails

\* The parent is in blocks_by_hash.
ParentCached == pc = "parent" /\ ParentFound

\* It is not, and there is no consensus server that could be asked for it.
ParentUnavailable == pc = "parent" /\ ~Synced /\ ParentFails

\* It is not: ask the best consensus server with eth_getBlockByHash.
ParentRequest ==
    /\ pc = "parent" /\ Synced
    /\ pc' = "fetch"
    /\ UNCHANGED <<by_name, groups, consensus, head, min_num, tier, search>>

ParentReply == pc = "fetch" /\ (ParentFound \/ ParentFails)

\* process_block_from_rpc, after the consensus was replaced
SendHead ==
    /\ pc = "publish"
    /\ head' = consensus.head
    /\ pc' = "recv"
    /\ UNCHANGED <<by_name, groups, consensus, min_num, tier, search>>

\* apply_server_configs puts a new connection under its name.
InstallRpc(r) ==
    /\ Gen[r] = Current(NameOf[r]) + 1
    /\ by_name' = [by_name EXCEPT ![NameOf[r]] = r]
    /\ UNCHANGED <<groups, consensus, head, pc, min_num, tier, search>>

Next ==
    \/ \E r \in Rpcs, b \in MaybeBlock : ProcessBlock(r, b)
    \/ BestConsensus \/ StartTier \/ Scan \/ ScanEnds
    \/ ParentCached \/ ParentUnavailable \/ ParentRequest \/ ParentReply
    \/ SendHead
    \/ \E r \in Rpcs : InstallRpc(r)

Spec == Init /\ [][Next]_vars

\* The funnel task is polled by the runtime whenever it can go on, and every
\* request to an upstream server is answered or fails.
Funnel ==
    \/ BestConsensus \/ StartTier \/ Scan \/ ScanEnds
    \/ ParentCached \/ ParentUnavailable \/ ParentRequest
    \/ SendHead

FairSpec == Spec /\ WF_vars(Funnel) /\ WF_vars(ParentReply)

\* The same without a promise about the upstream server.
LocallyFairSpec == Spec /\ WF_vars(Funnel)

-----------------------------------------------------------------------------
(* Properties                                                              *)

\* The two running sums are left out: they are folds over finite sets.
TypeOK ==
    /\ by_name \in [Names -> Rpcs \cup {NoRpc}]
    /\ rpc_to_block \in [Tiers -> [Rpcs -> MaybeBlock]]
    /\ highest \in [Tiers -> MaybeBlock]
    /\ consensus \in ConsensusWeb3Rpcs \cup {NoConsensus}
    /\ head \in MaybeBlock
    /\ pc \in {"recv", "best", "tier", "scan", "parent", "fetch", "publish"}
    /\ min_num \in Nat \cup {NoNum}
    /\ tier \in Tiers
    /\ left \in Nat
    /\ maybe_head \in MaybeBlock /\ voted \in MaybeBlock
    /\ primary \in SUBSET Names /\ backup \in SUBSET Names

AtRest == pc \in {"recv", "publish"}

\* A consensus that did not need the backups is served by at least
\* min_head_rpcs servers with distinct names, even when connections are
\* replaced while the search waits for a parent block.
QuorumServes ==
    consensus # NoConsensus /\ ~consensus.needed =>
        Cardinality({NameOf[r] : r \in consensus.rpcs}) >= MinHeadRpcs

RolesKept ==
    \A r, s \in Rpcs : NameOf[r] = NameOf[s] =>
        Backup[r] = Backup[s] /\ SoftLimit[r] = SoftLimit[s]

\* Unless a reload changes a server's role, such a consensus has the
\* configured soft limit, and none of its servers is a backup.
SoftLimitCovered ==
    RolesKept /\ consensus # NoConsensus =>
        /\ \A r \in consensus.rpcs : ~Backup[r]
        /\ ~consensus.needed =>
              MapThenSumSet(LAMBDA r : SoftLimit[r], consensus.rpcs) >= MinSumSoftLimit

\* Between two messages, every server of the consensus has, through some
\* connection of its name in the elected tier, the consensus head or a
\* descendant of it: nobody is asked for a head it never reported.
ServersHaveHead ==
    AtRest /\ consensus # NoConsensus =>
        \A r \in consensus.rpcs : \E s \in Rpcs :
            /\ NameOf[s] = NameOf[r]
            /\ InGroup(s, consensus.tier)
            /\ rpc_to_block[consensus.tier][s] \in Blocks
            /\ Extends(rpc_to_block[consensus.tier][s], consensus.head)

\* A consensus that did not need the backups is at most max_block_lag below
\* the highest block any server ever reported.
WithinMaxLag ==
    AtRest /\ consensus # NoConsensus /\ ~consensus.needed /\ MaxBlockLag # NoNum =>
        Num(consensus.head) + MaxBlockLag >= Num(highest[MaxTier])

\* Whoever sees a consensus between two messages sees its head on the other
\* channel too.
ChannelsAgree ==
    pc # "publish" /\ consensus # NoConsensus => head = consensus.head

\* Announced heads do not go down, unless the backups were needed.
HeadForward == [][Num(head') >= Num(head) \/ consensus.needed]_vars

\* consensus.rs:161 "min_consensus_block_num keeps us from ever going
\* backwards", consensus.rs:523 "we also want to be sure we don't ever go
\* backwards!": the announced head never goes down.
HeadNeverBackwards == [][Num(head') >= Num(head)]_vars

\* many.rs:50 "all providers with the same consensus head block": every
\* connection of the consensus reported the head or a descendant itself.
OwnHeadReported ==
    AtRest /\ consensus # NoConsensus =>
        \A r \in consensus.rpcs :
            /\ rpc_to_block[MaxTier][r] \in Blocks
            /\ Extends(rpc_to_block[MaxTier][r], consensus.head)

\* The tracker implements what HeadFeed promises.
ImplementsFeed == FeedSpec

\* Every search comes to an end and the funnel takes the next block, however
\* heads and reloads interleave with it, if upstream requests are answered.
\* It does not follow from LocallyFairSpec, although many.rs:823 asks for it:
\* "be sure there is a timeout on this or it might loop forever".
SearchEnds == pc # "recv" ~> pc = "recv"

-----------------------------------------------------------------------------
(* The inductive invariant behind the properties                           *)

Searching == pc \in {"tier", "scan", "parent", "fetch"}
InLoop == pc \in {"scan", "parent", "fetch"}

\* by_name holds a connection under its own name.
NamesMatch == \A n \in Names : by_name[n] # NoRpc => NameOf[by_name[n]] = n

\* A connection is in the groups from its tier on, with the same head, and
\* no head is above the highest block of its group.
GroupsNest ==
    \A t \in Tiers, r \in Rpcs :
        /\ rpc_to_block[t][r] = IF InGroup(r, t) THEN rpc_to_block[MaxTier][r] ELSE NoBlock
        /\ Num(rpc_to_block[t][r]) <= Num(highest[t])

\* The server called n reported b or a descendant of it in the group of tier t.
Has(n, t, b) ==
    \E s \in Rpcs :
        /\ NameOf[s] = n /\ InGroup(s, t)
        /\ rpc_to_block[t][s] \in Blocks
        /\ Extends(rpc_to_block[t][s], b)

\* The search stays above min_num while it has iterations left, and it only
\* counts servers that are on the candidate head or on a descendant.
SearchSound ==
    /\ Searching =>
          /\ min_num >= Num(head)
          /\ MaxBlockLag # NoNum => min_num + MaxBlockLag >= Num(highest[MaxTier])
    /\ InLoop =>
          /\ maybe_head \in Blocks
          /\ left > 0 /\ min_num # NoNum => Number[maybe_head] + 1 >= min_num + left
          /\ \A n \in primary : by_name[n] # NoRpc /\ Has(n, tier, maybe_head)
    /\ pc \in {"parent", "fetch"} => left > 0
    /\ ~InLoop => SearchIdle

\* What was elected last: enough servers, on the head, and not below the
\* announced head.
ElectedSound ==
    /\ QuorumServes
    /\ AtRest /\ consensus # NoConsensus =>
          /\ consensus.tier \in Tiers
          /\ \A r \in consensus.rpcs : Has(NameOf[r], consensus.tier, consensus.head)
    /\ WithinMaxLag
    /\ ChannelsAgree
    /\ pc = "publish" =>
          /\ consensus # NoConsensus
          /\ ~consensus.needed => Num(consensus.head) >= Num(head)

\* The inductive invariant of the election: the type invariant, and what relates
\* the heads, their groups, the search and the published head.
IndInv == TypeOK /\ NamesMatch /\ GroupsNest /\ SearchSound /\ ElectedSound
=============================================================================
