-------------------------- MODULE ConsensusProofs --------------------------
(***************************************************************************)
(* Proofs about Consensus, for every block tree, every set of servers and  *)
(* every setting: IndInv is an inductive invariant, and the safety         *)
(* properties and the implementation of HeadFeed follow from it.           *)
(***************************************************************************)
EXTENDS Consensus, FiniteSetTheorems, TLAPS

\* Numbers of blocks are integers, and NoBlock is below all of them: the
\* order that MinBlockNum and ConnectionsGroup::insert rely on.
LEMMA NumType ==
    /\ \A b \in MaybeBlock : Num(b) \in Int /\ Num(b) >= NoNum
    /\ \A b \in Blocks : b # NoBlock /\ Num(b) = Number[b] /\ Number[b] \in Nat
BY ChainAssumption DEF MaybeBlock, Num, NoNum

\* The search may step from a block to its parent: whoever has the block has
\* the parent too (consensus_head_connections counts it for both).
LEMMA ExtendsParent ==
    ASSUME NEW h \in Blocks, NEW b \in Blocks, Extends(h, b), Parent[b] \in Blocks
    PROVE  Extends(h, Parent[b])
BY DEF Extends

\* A server whose head is the candidate block has it.
LEMMA ExtendsSelf ==
    ASSUME NEW b \in Blocks
    PROVE  Extends(b, b)
BY DEF Extends

\* The initial state of the block funnel satisfies the invariant.
LEMMA InitInv == Init => IndInv
<1> SUFFICES ASSUME Init PROVE IndInv
    OBVIOUS
<1> USE ChainAssumption, ConsensusAssumption
<1>1. TypeOK
    BY DEF Init, FeedInit, SearchIdle, TypeOK, MaybeBlock, Tiers, NoNum
<1>2. NamesMatch /\ GroupsNest
    BY DEF Init, FeedInit, NamesMatch, GroupsNest, Num, NoNum, Tiers
<1>3. SearchSound
    BY DEF Init, SearchSound, Searching, InLoop, SearchIdle
<1>4. ElectedSound
    BY DEF Init, FeedInit, ElectedSound, QuorumServes, WithinMaxLag, ChannelsAgree, AtRest
<1> QED BY <1>1, <1>2, <1>3, <1>4 DEF IndInv

\* The parts of IndInv that a step within one tier leaves alone when it
\* changes neither the connections' heads nor by_name.
LEMMA GroupsKept ==
    ASSUME IndInv, UNCHANGED <<by_name, groups>>
    PROVE  NamesMatch' /\ GroupsNest'
BY DEF IndInv, groups, NamesMatch, GroupsNest, Num, InGroup

\* Has speaks of the heads only.
LEMMA HasKept ==
    ASSUME UNCHANGED groups, NEW n, NEW t, NEW b, Has(n, t, b)
    PROVE  Has(n, t, b)'
BY DEF Has, groups, InGroup, Extends

\* A tier that gives no result leads to the next tier, or withdraws the
\* consensus and keeps the head: the invariant holds again.
LEMMA TierFailsInv ==
    ASSUME IndInv, Searching, TierFails
    PROVE  IndInv'
<1> USE ChainAssumption, ConsensusAssumption
<1>1. UNCHANGED <<by_name, groups, head>> /\ SearchReset
    BY DEF TierFails, SearchFails
<1>2. NamesMatch' /\ GroupsNest'
    BY <1>1, GroupsKept
<1>3. CASE tier < MaxTier /\ tier' = tier + 1 /\ pc' = "tier" /\ UNCHANGED <<consensus, min_num>>
    <2>1. TypeOK'
        BY <1>1, <1>3 DEF IndInv, TypeOK, groups, SearchReset, Tiers, MaybeBlock
    <2>2. SearchSound'
        BY <1>1, <1>3 DEF IndInv, SearchSound, Searching, InLoop, SearchReset, SearchIdle, groups, Num
    <2>3. ElectedSound'
        BY <1>1, <1>3 DEF IndInv, ElectedSound, QuorumServes, WithinMaxLag, ChannelsAgree, AtRest,
                          Searching
    <2> QED BY <1>2, <2>1, <2>2, <2>3 DEF IndInv
<1>4. CASE SearchFails
    <2>1. TypeOK'
        BY <1>1, <1>4 DEF IndInv, TypeOK, groups, SearchFails, SearchReset, Tiers, MaybeBlock, NoNum
    <2>2. SearchSound'
        BY <1>1, <1>4 DEF SearchFails, SearchSound, Searching, InLoop, SearchReset, SearchIdle
    <2>3. ElectedSound'
        BY <1>4 DEF SearchFails, ElectedSound, QuorumServes, WithinMaxLag, ChannelsAgree, AtRest
    <2> QED BY <1>2, <2>1, <2>2, <2>3 DEF IndInv
<1> QED BY <1>3, <1>4 DEF TierFails

\* An election publishes servers that have the head, and enough of them and
\* a head not below the announced one when it claims not to need backups.
LEMMA ElectInv ==
    ASSUME IndInv, InLoop,
           NEW names \in SUBSET Names, NEW vote \in MaybeBlock, NEW needed \in BOOLEAN,
           \A n \in names : by_name[n] # NoRpc /\ Has(n, tier, maybe_head),
           ~needed => left > 0 /\ Cardinality(names) >= MinHeadRpcs,
           Elect(names, vote, needed)
    PROVE  IndInv'
<1> USE ChainAssumption, ConsensusAssumption
<1> DEFINE rpcs == {by_name[n] : n \in {m \in names : by_name[m] # NoRpc}}
<1>1. UNCHANGED <<by_name, groups, head>> /\ SearchReset /\ tier' = 0 /\ min_num' = NoNum
    BY DEF Elect
<1>2. NamesMatch' /\ GroupsNest'
    BY <1>1, GroupsKept
<1>3. /\ consensus' = [tier |-> tier, head |-> maybe_head, rpcs |-> rpcs,
                       voted |-> vote, needed |-> needed]
      /\ pc' = IF consensus.head = maybe_head THEN "recv" ELSE "publish"
    BY DEF Elect
<1>4. maybe_head \in Blocks /\ tier \in Nat /\ tier \in Tiers
    BY DEF IndInv, SearchSound, InLoop, TypeOK, Tiers
<1>5. rpcs \in SUBSET Rpcs
    BY DEF IndInv, TypeOK
<1>6. consensus' \in ConsensusWeb3Rpcs
    BY <1>3, <1>4, <1>5 DEF ConsensusWeb3Rpcs
<1>7. consensus' # NoConsensus
    BY <1>3, <1>4 DEF NoConsensus
<1>8. TypeOK'
    BY <1>1, <1>3, <1>6 DEF IndInv, TypeOK, groups, SearchReset, Tiers, MaybeBlock, NoNum
<1>9. SearchSound'
    BY <1>1, <1>3 DEF SearchSound, Searching, InLoop, SearchReset, SearchIdle
<1>10. ~needed => Num(maybe_head) >= Num(head)
                  /\ (MaxBlockLag # NoNum => Num(maybe_head) + MaxBlockLag >= Num(highest[MaxTier]))
    <2> SUFFICES ASSUME ~needed
                 PROVE  Num(maybe_head) >= Num(head)
                        /\ (MaxBlockLag # NoNum => Num(maybe_head) + MaxBlockLag >= Num(highest[MaxTier]))
        OBVIOUS
    <2>1. Num(maybe_head) \in Nat /\ Num(head) \in Int /\ Num(highest[MaxTier]) \in Int
        BY <1>4, NumType DEF IndInv, TypeOK, Tiers
    <2>2. left > 0 /\ left \in Nat
        BY DEF IndInv, TypeOK
    <2>3. min_num # NoNum => Num(maybe_head) + 1 >= min_num + left
        BY <2>2, <1>4, NumType DEF IndInv, SearchSound, InLoop
    <2>4. Num(maybe_head) >= min_num /\ min_num \in Int
        BY <2>1, <2>2, <2>3 DEF IndInv, TypeOK, NoNum
    <2>5. min_num >= Num(head) /\ (MaxBlockLag # NoNum => min_num + MaxBlockLag >= Num(highest[MaxTier]))
        BY DEF IndInv, SearchSound, InLoop, Searching
    <2> QED BY <2>1, <2>4, <2>5 DEF NoNum
<1>11. {NameOf[r] : r \in rpcs} = names
    BY DEF IndInv, NamesMatch
<1>12. ElectedSound'
    <2>1. QuorumServes'
        BY <1>3, <1>11 DEF QuorumServes
    <2>2. (/\ consensus.tier \in Tiers
           /\ \A r \in consensus.rpcs : Has(NameOf[r], consensus.tier, consensus.head))'
        <3>1. \A r \in rpcs : Has(NameOf[r], tier, maybe_head)
            BY <1>11
        <3>2. consensus'.tier = tier /\ consensus'.head = maybe_head /\ consensus'.rpcs = rpcs
            BY <1>3
        <3> QED BY <3>1, <3>2, <1>1, <1>4 DEF Has, groups, InGroup, Tiers
    <2>3. WithinMaxLag'
        BY <1>1, <1>3, <1>10 DEF WithinMaxLag, groups, Num
    <2>4. ChannelsAgree'
        BY <1>1, <1>3, <1>4 DEF IndInv, ElectedSound, ChannelsAgree, InLoop, NoConsensus
    <2>5. pc' = "publish" => consensus' # NoConsensus /\ (~consensus'.needed => Num(consensus.head)' >= Num(head)')
        BY <1>1, <1>3, <1>7, <1>10 DEF Num
    <2> QED BY <2>1, <2>2, <2>3, <2>4, <2>5, <1>7 DEF ElectedSound, NoConsensus
<1> QED BY <1>2, <1>8, <1>9, <1>12 DEF IndInv

\* One message from a connection: heads and highest blocks move together,
\* and the consensus is only left as it was if the message changed nothing.
LEMMA ProcessBlockInv ==
    ASSUME IndInv, NEW r \in Rpcs, NEW b \in MaybeBlock, ProcessBlock(r, b)
    PROVE  IndInv'
<1> USE ChainAssumption, ConsensusAssumption, NumType
<1>0. /\ pc = "recv" /\ pc' \in {"recv", "best"}
      /\ UNCHANGED <<by_name, consensus, head, min_num, tier, search>>
    BY DEF ProcessBlock
<1>1. PICK c \in MaybeBlock :
          /\ rpc_to_block' = [t \in Tiers |->
                 IF InGroup(r, t) THEN [rpc_to_block[t] EXCEPT ![r] = c] ELSE rpc_to_block[t]]
          /\ pc' = IF Previous(r) # c THEN "best" ELSE "recv"
          /\ \/ Insert(r, b) /\ c = b /\ b \in Blocks
             \/ Remove(r) /\ c = NoBlock
    BY DEF ProcessBlock, Insert, Remove, MaybeBlock
<1>2. /\ highest' \in [Tiers -> MaybeBlock]
      /\ \A t \in Tiers : Num(highest'[t]) >= Num(highest[t]) /\ (InGroup(r, t) => Num(c) <= Num(highest'[t]))
      /\ \A t \in Tiers : highest'[t] = highest[t] \/ (InGroup(r, t) /\ Num(c) > Num(highest[t]))
    <2>1. CASE Insert(r, b) /\ c = b /\ b \in Blocks
        BY <2>1 DEF IndInv, TypeOK, Insert
    <2>2. CASE Remove(r) /\ c = NoBlock
        <3>1. \A t \in Tiers : HighestWithout(r, t) = highest[t]
            BY DEF IndInv, TypeOK, GroupsNest, HighestWithout, Members, MaybeBlock
        <3>2. highest' = highest
            BY <2>2, <3>1 DEF IndInv, TypeOK, Remove
        <3> QED BY <2>2, <3>2 DEF IndInv, TypeOK, Num, NoNum
    <2> QED BY <1>1, <2>1, <2>2
<1>3. rpc_to_block' \in [Tiers -> [Rpcs -> MaybeBlock]]
    BY <1>1 DEF IndInv, TypeOK
<1>4. TypeOK'
    BY <1>0, <1>2, <1>3 DEF IndInv, TypeOK, search
<1>5. NamesMatch'
    BY <1>0 DEF IndInv, NamesMatch
<1>6. GroupsNest'
    <2> SUFFICES ASSUME NEW t \in Tiers, NEW x \in Rpcs
                 PROVE  /\ rpc_to_block'[t][x] = IF InGroup(x, t) THEN rpc_to_block'[MaxTier][x] ELSE NoBlock
                        /\ Num(rpc_to_block'[t][x]) <= Num(highest'[t])
        BY DEF GroupsNest, Num, InGroup
    <2>1. /\ rpc_to_block[t][x] = IF InGroup(x, t) THEN rpc_to_block[MaxTier][x] ELSE NoBlock
          /\ Num(rpc_to_block[t][x]) <= Num(highest[t])
          /\ rpc_to_block[t][x] \in MaybeBlock
        BY DEF IndInv, GroupsNest, TypeOK
    <2>2. MaxTier \in Tiers /\ (InGroup(r, t) => InGroup(r, MaxTier))
        BY DEF Tiers, InGroup
    <2>3. rpc_to_block'[t][x] = IF InGroup(r, t) /\ x = r THEN c ELSE rpc_to_block[t][x]
        BY <1>1 DEF IndInv, TypeOK
    <2>4. rpc_to_block'[MaxTier][x] = IF InGroup(r, MaxTier) /\ x = r THEN c ELSE rpc_to_block[MaxTier][x]
        BY <1>1, <2>2 DEF IndInv, TypeOK
    <2>5. Num(highest'[t]) >= Num(highest[t]) /\ Num(highest'[t]) \in Int /\ Num(highest[t]) \in Int
          /\ Num(rpc_to_block[t][x]) \in Int
        BY <1>2, <2>1 DEF IndInv, TypeOK
    <2>6. CASE x = r
        <3>1. CASE InGroup(r, t)
            BY <1>2, <2>2, <2>3, <2>4, <2>6, <3>1
        <3>2. CASE ~InGroup(r, t)
            BY <2>1, <2>3, <2>5, <2>6, <3>2
        <3> QED BY <3>1, <3>2
    <2>7. CASE x # r
        BY <2>1, <2>3, <2>4, <2>5, <2>7
    <2> QED BY <2>6, <2>7
<1>7. SearchSound'
    BY <1>0, <1>1 DEF IndInv, SearchSound, Searching, InLoop, SearchIdle, search
<1>8. ElectedSound'
    <2>1. CASE pc' = "best"
        BY <1>0, <2>1 DEF IndInv, ElectedSound, QuorumServes, WithinMaxLag, ChannelsAgree, AtRest
    <2>2. CASE pc' = "recv"
        <3>1. Previous(r) = c
            BY <1>1, <2>2
        <3>2. \A t \in Tiers : InGroup(r, t) => rpc_to_block[t][r] = c
            BY <3>1 DEF IndInv, GroupsNest, Previous
        <3>3. rpc_to_block' = rpc_to_block
            BY <1>1, <3>2 DEF IndInv, TypeOK
        <3>4. highest' = highest
            <4>1. \A t \in Tiers : highest'[t] = highest[t]
                <5> SUFFICES ASSUME NEW t \in Tiers, InGroup(r, t), Num(c) > Num(highest[t])
                             PROVE  FALSE
                    BY <1>2
                <5>1. Num(c) <= Num(highest[t])
                    BY <3>2 DEF IndInv, GroupsNest
                <5>2. Num(c) \in Int /\ Num(highest[t]) \in Int
                    BY DEF IndInv, TypeOK
                <5> QED BY <5>1, <5>2
            <4> QED BY <4>1, <1>2 DEF IndInv, TypeOK
        <3>5. UNCHANGED <<consensus, head, highest, rpc_to_block>> /\ pc = "recv" /\ pc' = "recv"
            BY <1>0, <2>2, <3>3, <3>4
        <3> QED BY <3>5 DEF IndInv, ElectedSound, QuorumServes, WithinMaxLag, ChannelsAgree, AtRest,
                            Has, InGroup, Num
    <2> QED BY <1>0, <2>1, <2>2
<1> QED BY <1>4, <1>5, <1>6, <1>7, <1>8 DEF IndInv

\* best_consensus_connections starts with a minimum that is neither below
\* the announced head nor further than max_block_lag below the highest block.
LEMMA BestConsensusInv ==
    ASSUME IndInv, BestConsensus
    PROVE  IndInv'
<1> USE ChainAssumption, ConsensusAssumption
<1>1. CASE SearchFails
    <2>1. UNCHANGED <<by_name, groups, head>>
        BY <1>1 DEF SearchFails
    <2>2. NamesMatch' /\ GroupsNest'
        BY <2>1, GroupsKept
    <2>3. TypeOK'
        BY <1>1 DEF IndInv, TypeOK, groups, SearchFails, SearchReset, Tiers, MaybeBlock, NoNum
    <2>4. SearchSound'
        BY <1>1 DEF SearchFails, SearchSound, Searching, InLoop, SearchReset, SearchIdle
    <2>5. ElectedSound'
        BY <1>1 DEF SearchFails, ElectedSound, QuorumServes, WithinMaxLag, ChannelsAgree, AtRest
    <2> QED BY <2>2, <2>3, <2>4, <2>5 DEF IndInv
<1>2. CASE /\ min_num' = MinBlockNum /\ tier' = 0 /\ pc' = "tier"
           /\ UNCHANGED <<by_name, groups, consensus, head, search>>
    <2>1. NamesMatch' /\ GroupsNest'
        BY <1>2, GroupsKept
    <2>2. Num(head) \in Int /\ Num(highest[MaxTier]) \in Int /\ Num(head) >= NoNum
        BY NumType DEF IndInv, TypeOK, Tiers
    <2>3. /\ MinBlockNum \in Nat \cup {NoNum}
          /\ MinBlockNum >= Num(head)
          /\ MaxBlockLag # NoNum => MinBlockNum + MaxBlockLag >= Num(highest[MaxTier])
        BY <2>2 DEF MinBlockNum, Larger, NoNum
    <2>4. TypeOK'
        BY <1>2, <2>3 DEF IndInv, TypeOK, groups, search, Tiers
    <2>5. SearchSound'
        BY <1>2, <2>3 DEF BestConsensus, IndInv, SearchSound, Searching, InLoop, SearchIdle, search, groups, Num
    <2>6. ElectedSound'
        BY <1>2 DEF BestConsensus, IndInv, ElectedSound, QuorumServes, WithinMaxLag, ChannelsAgree, AtRest
    <2> QED BY <2>1, <2>4, <2>5, <2>6 DEF IndInv
<1> QED BY <1>1, <1>2 DEF BestConsensus

\* A step of the search that elects nobody: what was elected is kept.
LEMMA ElectedKept ==
    ASSUME IndInv, UNCHANGED <<by_name, groups, consensus, head>>, Searching, Searching'
    PROVE  ElectedSound'
BY DEF IndInv, ElectedSound, QuorumServes, WithinMaxLag, ChannelsAgree, AtRest, Searching

\* A tier starts at its highest block, with just enough iterations to reach
\* the minimum.
LEMMA StartTierInv ==
    ASSUME IndInv, StartTier
    PROVE  IndInv'
<1> USE ChainAssumption, ConsensusAssumption
<1>1. pc = "tier" /\ Searching
    BY DEF StartTier, Searching
<1>2. CASE TierFails
    BY <1>1, <1>2, TierFailsInv
<1>3. CASE /\ highest[tier] # NoBlock
           /\ maybe_head' = highest[tier] /\ left' = MaxLagConsensusToHighest /\ pc' = "scan"
           /\ UNCHANGED <<by_name, groups, consensus, head, min_num, tier, primary, backup, psum, bsum, voted>>
    <2>1. NamesMatch' /\ GroupsNest'
        BY <1>3, GroupsKept
    <2>2. highest[tier] \in Blocks /\ Number[highest[tier]] \in Nat
        BY <1>3 DEF IndInv, TypeOK, MaybeBlock
    <2>3. MaxLagConsensusToHighest \in Nat
        BY <2>2 DEF IndInv, TypeOK, MaxLagConsensusToHighest, Larger
    <2>4. TypeOK'
        BY <1>3, <2>2, <2>3 DEF IndInv, TypeOK, groups, MaybeBlock
    <2>5. left' > 0 /\ min_num' # NoNum => Number[maybe_head'] + 1 >= min_num' + left'
        BY <1>3, <2>2 DEF IndInv, TypeOK, MaxLagConsensusToHighest, Larger
    <2>6. primary = {}
        BY <1>1 DEF IndInv, SearchSound, InLoop, SearchIdle
    <2>7. SearchSound'
        BY <1>1, <1>3, <2>2, <2>5, <2>6 DEF IndInv, SearchSound, Searching, InLoop, groups, Num
    <2>8. ElectedSound'
        BY <1>1, <1>3, ElectedKept DEF Searching
    <2> QED BY <2>1, <2>4, <2>7, <2>8 DEF IndInv
<1> QED BY <1>2, <1>3 DEF StartTier

\* The servers counted in one iteration are known by name and have the
\* candidate head.
LEMMA NewPrimariesHave ==
    ASSUME IndInv, InLoop
    PROVE  /\ NewPrimaries \in SUBSET Names /\ NewBackups \in SUBSET Names
           /\ \A n \in NewPrimaries : by_name[n] # NoRpc /\ Has(n, tier, maybe_head)
<1> USE ChainAssumption, ConsensusAssumption
<1>1. maybe_head \in Blocks
    BY DEF IndInv, SearchSound
<1>2. Agreeing \in SUBSET Names
    BY DEF Agreeing, Members
<1>3. ASSUME NEW n \in Agreeing PROVE Has(n, tier, maybe_head)
    <2>1. PICK s \in Rpcs : NameOf[s] = n /\ rpc_to_block[tier][s] = maybe_head
        BY DEF Agreeing, Members
    <2>2. InGroup(s, tier)
        BY <1>1, <2>1 DEF IndInv, GroupsNest, TypeOK
    <2> QED BY <1>1, <2>1, <2>2, ExtendsSelf DEF Has
<1> QED BY <1>2, <1>3 DEF NewPrimaries, NewBackups, Counted

\* One iteration of the loop.
LEMMA ScanInv ==
    ASSUME IndInv, Scan
    PROVE  IndInv'
<1> USE ChainAssumption, ConsensusAssumption
<1> DEFINE primary2 == primary \cup NewPrimaries
<1> DEFINE backup2 == backup \cup NewBackups
<1>1. pc = "scan" /\ left > 0 /\ InLoop /\ Searching
    BY DEF Scan, InLoop, Searching
<1>2. /\ primary2 \in SUBSET Names /\ backup2 \in SUBSET Names
      /\ \A n \in primary2 : by_name[n] # NoRpc /\ Has(n, tier, maybe_head)
    BY <1>1, NewPrimariesHave DEF IndInv, TypeOK, SearchSound
<1>3. CASE TierFails
    BY <1>1, <1>3, TierFailsInv
<1>4. CASE Enough(primary2, psum + SumOfLimits(NewPrimaries)) /\ Elect(primary2, voted, FALSE)
    <2>1. Cardinality(primary2) >= MinHeadRpcs
        BY <1>4 DEF Enough
    <2>2. voted \in MaybeBlock
        BY DEF IndInv, TypeOK
    <2> QED BY <1>1, <1>2, <1>4, <2>1, <2>2, ElectInv
<1>5. CASE /\ primary' = primary2 /\ backup' = backup2
           /\ voted' \in {maybe_head, voted} /\ pc' = "parent"
           /\ UNCHANGED <<by_name, groups, consensus, head, min_num, tier, left, maybe_head>>
    <2>1. NamesMatch' /\ GroupsNest'
        BY <1>5, GroupsKept
    <2>2. TypeOK'
        BY <1>2, <1>5 DEF IndInv, TypeOK, groups
    <2>3. SearchSound'
        BY <1>1, <1>2, <1>5 DEF IndInv, SearchSound, Searching, InLoop, groups, Num, Has, InGroup
    <2>4. ElectedSound'
        BY <1>1, <1>5, ElectedKept DEF Searching
    <2> QED BY <1>5, <2>1, <2>2, <2>3, <2>4 DEF IndInv
<1> QED BY <1>3, <1>4, <1>5 DEF Scan

\* An election that says it needed the backups: all primaries counted so far
\* have the candidate head.
LEMMA ElectWithBackupsInv ==
    ASSUME IndInv, InLoop, Elect(primary, voted, TRUE)
    PROVE  IndInv'
<1>1. /\ primary \in SUBSET Names /\ voted \in MaybeBlock
      /\ \A n \in primary : by_name[n] # NoRpc /\ Has(n, tier, maybe_head)
    BY DEF IndInv, TypeOK, SearchSound
<1> QED BY <1>1, ElectInv

\* The loop ends, or the parent lookup answers with an error.
LEMMA ScanEndsInv ==
    ASSUME IndInv, ScanEnds
    PROVE  IndInv'
<1>1. InLoop /\ Searching
    BY DEF ScanEnds, InLoop, Searching
<1> QED BY <1>1, TierFailsInv, ElectWithBackupsInv DEF ScanEnds

\* The lookup of the parent answers with an error: the tier is given up, or
\* what the backups voted for is returned.
LEMMA ParentFailsInv ==
    ASSUME IndInv, InLoop, ParentFails
    PROVE  IndInv'
BY TierFailsInv, ElectWithBackupsInv DEF ParentFails, InLoop, Searching

\* The parent becomes the candidate: one number lower, one iteration less,
\* and everyone counted so far has it.
LEMMA ParentFoundInv ==
    ASSUME IndInv, pc \in {"parent", "fetch"}, ParentFound
    PROVE  IndInv'
<1> USE ChainAssumption, ConsensusAssumption
<1>1. InLoop /\ Searching /\ InLoop' /\ Searching' /\ pc' = "scan"
    BY DEF ParentFound, InLoop, Searching
<1>2. UNCHANGED <<by_name, groups, consensus, head, min_num, tier, primary, backup, voted>>
    BY DEF ParentFound
<1>3. /\ maybe_head \in Blocks /\ maybe_head' \in Blocks /\ maybe_head' = Parent[maybe_head]
      /\ Number[maybe_head] = Number[maybe_head'] + 1
      /\ Number[maybe_head'] \in Nat
      /\ left \in Nat /\ left > 0 /\ left' = left - 1
    BY <1>1 DEF IndInv, SearchSound, TypeOK, ParentFound
<1>4. NamesMatch' /\ GroupsNest'
    BY <1>2, GroupsKept
<1>5. TypeOK'
    BY <1>1, <1>2, <1>3 DEF IndInv, TypeOK, groups, MaybeBlock
<1>6. ASSUME NEW n \in primary PROVE Has(n, tier, maybe_head')
    <2>1. PICK s \in Rpcs : /\ NameOf[s] = n /\ InGroup(s, tier)
                            /\ rpc_to_block[tier][s] \in Blocks
                            /\ Extends(rpc_to_block[tier][s], maybe_head)
        BY <1>1 DEF IndInv, SearchSound, Has
    <2> QED BY <1>3, <2>1, ExtendsParent DEF Has
<1>7. left' > 0 /\ min_num' # NoNum => Number[maybe_head'] + 1 >= min_num' + left'
    BY <1>1, <1>2, <1>3 DEF IndInv, SearchSound, TypeOK
<1>8. \A n \in primary' : by_name'[n] # NoRpc /\ Has(n, tier, maybe_head)'
    BY <1>1, <1>2, <1>6 DEF IndInv, SearchSound, Has, groups, InGroup
<1>9. SearchSound'
    BY <1>1, <1>2, <1>3, <1>7, <1>8 DEF IndInv, SearchSound, Searching, InLoop, groups, Num
<1>10. ElectedSound'
    BY <1>1, <1>2, ElectedKept
<1> QED BY <1>4, <1>5, <1>9, <1>10 DEF IndInv

\* The request for a parent block only moves the program counter.
LEMMA ParentRequestInv ==
    ASSUME IndInv, ParentRequest
    PROVE  IndInv'
<1>1. /\ pc = "parent" /\ pc' = "fetch"
      /\ UNCHANGED <<by_name, groups, consensus, head, min_num, tier, search>>
    BY DEF ParentRequest
<1>2. NamesMatch' /\ GroupsNest'
    BY <1>1, GroupsKept
<1>3. TypeOK'
    BY <1>1 DEF IndInv, TypeOK, groups, search
<1>4. SearchSound'
    BY <1>1 DEF IndInv, SearchSound, Searching, InLoop, search, groups, Num, Has, InGroup
<1>5. ElectedSound'
    BY <1>1, ElectedKept DEF Searching
<1> QED BY <1>2, <1>3, <1>4, <1>5 DEF IndInv

\* The head is announced.
LEMMA SendHeadInv ==
    ASSUME IndInv, SendHead
    PROVE  IndInv'
<1>1. /\ pc = "publish" /\ pc' = "recv" /\ head' = consensus.head
      /\ UNCHANGED <<by_name, groups, consensus, min_num, tier, search>>
    BY DEF SendHead
<1>2. NamesMatch' /\ GroupsNest'
    BY <1>1, GroupsKept
<1>3. consensus \in ConsensusWeb3Rpcs
    BY <1>1 DEF IndInv, TypeOK, ElectedSound
<1>4. TypeOK'
    BY <1>1, <1>3 DEF IndInv, TypeOK, groups, search, ConsensusWeb3Rpcs, MaybeBlock
<1>5. SearchSound'
    BY <1>1 DEF IndInv, SearchSound, Searching, InLoop, SearchIdle, search
<1>6. ElectedSound'
    BY <1>1 DEF IndInv, ElectedSound, QuorumServes, WithinMaxLag, ChannelsAgree, AtRest,
                groups, Has, InGroup, Num
<1> QED BY <1>2, <1>4, <1>5, <1>6 DEF IndInv

\* A reload replaces a connection under its name, at any point of a search.
LEMMA InstallRpcInv ==
    ASSUME IndInv, NEW r \in Rpcs, InstallRpc(r)
    PROVE  IndInv'
<1> USE ConsensusAssumption
<1>1. /\ by_name' = [by_name EXCEPT ![NameOf[r]] = r]
      /\ UNCHANGED <<groups, consensus, head, pc, min_num, tier, search>>
    BY DEF InstallRpc
<1>2. TypeOK'
    BY <1>1 DEF IndInv, TypeOK, groups, search
<1>3. NamesMatch'
    BY <1>1 DEF IndInv, TypeOK, NamesMatch
<1>4. GroupsNest'
    BY <1>1 DEF IndInv, GroupsNest, groups, Num, InGroup
<1>5. \A n \in Names : by_name[n] # NoRpc => by_name'[n] # NoRpc
    BY <1>1 DEF IndInv, TypeOK
<1>6. SearchSound'
    BY <1>1, <1>5 DEF IndInv, TypeOK, SearchSound, Searching, InLoop, SearchIdle, search, groups, Num,
                      Has, InGroup
<1>7. ElectedSound'
    BY <1>1 DEF IndInv, ElectedSound, QuorumServes, WithinMaxLag, ChannelsAgree, AtRest,
                groups, Has, InGroup, Num
<1> QED BY <1>2, <1>3, <1>4, <1>6, <1>7 DEF IndInv

\* Every step of the block funnel and of a reload preserves the invariant.
LEMMA NextInv == IndInv /\ [Next]_vars => IndInv'
<1> SUFFICES ASSUME IndInv, [Next]_vars PROVE IndInv'
    OBVIOUS
<1>1. CASE UNCHANGED vars
    <2>1. UNCHANGED <<by_name, groups, consensus, head, pc, min_num, tier, search>>
        BY <1>1 DEF vars
    <2>2. TypeOK'
        BY <2>1 DEF IndInv, TypeOK, groups, search
    <2>3. NamesMatch' /\ GroupsNest'
        BY <2>1, GroupsKept
    <2>4. SearchSound'
        BY <2>1 DEF IndInv, SearchSound, Searching, InLoop, SearchIdle, search, groups, Num,
                    Has, InGroup
    <2>5. ElectedSound'
        BY <2>1 DEF IndInv, ElectedSound, QuorumServes, WithinMaxLag, ChannelsAgree, AtRest,
                    groups, Has, InGroup, Num
    <2> QED BY <2>2, <2>3, <2>4, <2>5 DEF IndInv
<1>2. CASE \E r \in Rpcs, b \in MaybeBlock : ProcessBlock(r, b)
    BY <1>2, ProcessBlockInv
<1>3. CASE BestConsensus
    BY <1>3, BestConsensusInv
<1>4. CASE StartTier
    BY <1>4, StartTierInv
<1>5. CASE Scan
    BY <1>5, ScanInv
<1>6. CASE ScanEnds
    BY <1>6, ScanEndsInv
<1>7. CASE ParentCached
    BY <1>7, ParentFoundInv DEF ParentCached
<1>8. CASE ParentUnavailable
    BY <1>8, ParentFailsInv DEF ParentUnavailable, InLoop
<1>9. CASE ParentRequest
    BY <1>9, ParentRequestInv
<1>10. CASE ParentReply
    BY <1>10, ParentFoundInv, ParentFailsInv DEF ParentReply, InLoop
<1>11. CASE SendHead
    BY <1>11, SendHeadInv
<1>12. CASE \E r \in Rpcs : InstallRpc(r)
    BY <1>12, InstallRpcInv
<1> QED
    BY <1>1, <1>2, <1>3, <1>4, <1>5, <1>6, <1>7, <1>8, <1>9, <1>10, <1>11, <1>12 DEF Next

\* The inductive invariant holds in every reachable state.
THEOREM Invariant == Spec => []IndInv
<1>1. Init => IndInv
    BY InitInv
<1>2. IndInv /\ [Next]_vars => IndInv'
    BY NextInv
<1> QED BY <1>1, <1>2, PTL DEF Spec

\* All state of the funnel keeps its type; in particular every elected
\* consensus has a head block and a tier the finder knows.
THEOREM TypeCorrect == Spec => []TypeOK
<1>1. IndInv => TypeOK
    BY DEF IndInv
<1> QED BY <1>1, Invariant, PTL

\* Elect never publishes a consensus with fewer than min_head_rpcs named
\* servers unless it says that backups were needed, whatever a reload does to
\* by_name while the search waits for a parent block.
THEOREM QuorumAlwaysServes == Spec => []QuorumServes
<1>1. IndInv => QuorumServes
    BY DEF IndInv, ElectedSound
<1> QED BY <1>1, Invariant, PTL

\* Every server of a published consensus has reported, through a connection of
\* its name, the consensus head or a descendant of it.
THEOREM ServersAlwaysHaveHead == Spec => []ServersHaveHead
<1>1. IndInv => ServersHaveHead
    BY DEF IndInv, ElectedSound, ServersHaveHead, Has
<1> QED BY <1>1, Invariant, PTL

\* A consensus of primaries is never more than max_block_lag below the highest
\* block the finder has seen.
THEOREM AlwaysWithinMaxLag == Spec => []WithinMaxLag
<1>1. IndInv => WithinMaxLag
    BY DEF IndInv, ElectedSound
<1> QED BY <1>1, Invariant, PTL

\* Between two messages the two watch channels name the same head.
THEOREM ChannelsAlwaysAgree == Spec => []ChannelsAgree
<1>1. IndInv => ChannelsAgree
    BY DEF IndInv, ElectedSound
<1> QED BY <1>1, Invariant, PTL

\* The two channels change in three ways only: the consensus is withdrawn or
\* replaced at the end of a search, and the head is sent after that.
LEMMA ChannelSteps ==
    ASSUME IndInv, [Next]_vars
    PROVE  /\ consensus' # consensus => UNCHANGED head /\ AtRest'
           /\ head' # head => pc = "publish" /\ head' = consensus.head /\ UNCHANGED consensus
<1> USE DEF AtRest
<1>1. ASSUME TierFails PROVE UNCHANGED head /\ (consensus' # consensus => AtRest')
    BY <1>1 DEF TierFails, SearchFails
<1>2. ASSUME NEW S, NEW v, NEW n, Elect(S, v, n) PROVE UNCHANGED head /\ AtRest'
    BY <1>2 DEF Elect
<1>3. ASSUME ParentFails PROVE UNCHANGED head /\ (consensus' # consensus => AtRest')
    BY <1>1, <1>2, <1>3 DEF ParentFails
<1>4. ASSUME ParentFound PROVE UNCHANGED <<head, consensus>>
    BY <1>4 DEF ParentFound
<1>5. CASE UNCHANGED vars
    BY <1>5 DEF vars
<1>6. CASE \E r \in Rpcs, b \in MaybeBlock : ProcessBlock(r, b)
    BY <1>6 DEF ProcessBlock
<1>7. CASE BestConsensus
    BY <1>7 DEF BestConsensus, SearchFails
<1>8. CASE StartTier
    BY <1>1, <1>8 DEF StartTier
<1>9. CASE Scan
    BY <1>1, <1>2, <1>9 DEF Scan
<1>10. CASE ScanEnds
    BY <1>1, <1>2, <1>10 DEF ScanEnds
<1>11. CASE ParentCached \/ ParentUnavailable \/ ParentReply
    BY <1>3, <1>4, <1>11 DEF ParentCached, ParentUnavailable, ParentReply
<1>12. CASE ParentRequest
    BY <1>12 DEF ParentRequest
<1>13. CASE SendHead
    BY <1>13 DEF SendHead
<1>14. CASE \E r \in Rpcs : InstallRpc(r)
    BY <1>14 DEF InstallRpc
<1> QED
    BY <1>5, <1>6, <1>7, <1>8, <1>9, <1>10, <1>11, <1>12, <1>13, <1>14 DEF Next

\* SendHead never announces a head below the last one, unless the consensus it
\* belongs to needed the backups.
THEOREM HeadOnlyForward == Spec => HeadForward
<1>1. IndInv /\ [Next]_vars => [Num(head') >= Num(head) \/ consensus.needed]_vars
    <2> SUFFICES ASSUME IndInv, [Next]_vars, ~consensus.needed
                 PROVE  Num(head') >= Num(head)
        OBVIOUS
    <2>1. CASE head' = head
        BY <2>1, NumType DEF IndInv, TypeOK, Num
    <2>2. CASE head' # head
        BY <2>2, ChannelSteps DEF IndInv, ElectedSound, Num
    <2> QED BY <2>1, <2>2
<1> QED BY <1>1, Invariant, PTL DEF Spec, HeadForward

\* A consensus with distinct names has at least as many connections.
LEMMA NamesBoundRpcs ==
    ASSUME NEW R \in SUBSET Rpcs
    PROVE  /\ Cardinality(R) \in Nat
           /\ Cardinality({NameOf[r] : r \in R}) \in Nat
           /\ Cardinality({NameOf[r] : r \in R}) <= Cardinality(R)
<1> DEFINE T == {NameOf[r] : r \in R}
           f == [r \in R |-> NameOf[r]]
<1>1. IsFiniteSet(R)
    BY ConsensusAssumption, FS_Subset
<1>2. T \in SUBSET Names
    BY ConsensusAssumption
<1>3. IsFiniteSet(T)
    BY <1>2, ConsensusAssumption, FS_Subset
<1>4. f \in Surjection(R, T)
    BY DEF Surjection
<1>5. Cardinality(T) <= Cardinality(R)
    <2> HIDE DEF T, f
    <2> QED BY <1>1, <1>4, FS_Surjection
<1> QED BY <1>1, <1>3, <1>5, FS_CardinalityType

\* Every step of the funnel is a step that HeadFeed allows, or changes neither
\* channel: whoever relies on HeadFeed may be given the consensus tracker.
THEOREM Refinement == Spec => ImplementsFeed
<1>1. Init => FeedInit
    BY DEF Init
<1>2. IndInv /\ [Next]_vars /\ IndInv' => [FeedNext]_<<consensus, head>>
    <2> SUFFICES ASSUME IndInv, [Next]_vars, IndInv', <<consensus, head>>' # <<consensus, head>>
                 PROVE  FeedNext
        OBVIOUS
    <2>1. CASE head' # head
        <3>1. pc = "publish" /\ head' = consensus.head /\ UNCHANGED consensus
            BY <2>1, ChannelSteps
        <3> QED BY <3>1 DEF IndInv, ElectedSound, FeedNext, Announce
    <2>2. CASE consensus' # consensus
        <3>1. UNCHANGED head /\ AtRest'
            BY <2>2, ChannelSteps
        <3>2. CASE consensus' = NoConsensus
            BY <3>1, <3>2 DEF FeedNext, Withdraw
        <3>3. CASE consensus' # NoConsensus
            <4>1. consensus' \in ConsensusWeb3Rpcs
                BY <3>3 DEF IndInv, TypeOK, NoConsensus, ConsensusWeb3Rpcs, MaybeBlock
            <4>2. ASSUME ~consensus'.needed PROVE Cardinality(consensus'.rpcs) >= MinHeadRpcs
                <5>1. consensus'.rpcs \in SUBSET Rpcs
                    BY <4>1 DEF ConsensusWeb3Rpcs
                <5>2. Cardinality({NameOf[r] : r \in consensus'.rpcs}) >= MinHeadRpcs
                    BY <3>3, <4>2 DEF IndInv, ElectedSound, QuorumServes, NoConsensus
                <5> QED BY <5>1, <5>2, NamesBoundRpcs, ConsensusAssumption
            <4>3. ASSUME ~consensus'.needed PROVE Num(consensus'.head) >= Num(head)
                <5>1. Num(head) \in Int
                    BY NumType DEF IndInv, TypeOK
                <5>2. CASE pc' = "publish"
                    BY <3>1, <4>3, <5>2 DEF IndInv, ElectedSound, Num
                <5>3. CASE pc' # "publish"
                    <6>1. pc' = "recv"
                        BY <3>1, <5>3 DEF AtRest
                    <6>2. head' = consensus'.head
                        BY <3>3, <6>1 DEF IndInv, ElectedSound, ChannelsAgree, NoConsensus
                    <6> QED BY <3>1, <5>1, <6>2
                <5> QED BY <5>2, <5>3
            <4> QED BY <3>1, <4>1, <4>2, <4>3 DEF FeedNext, Install
        <3> QED BY <3>2, <3>3
    <2> QED BY <2>1, <2>2
<1> QED BY <1>1, <1>2, Invariant, PTL DEF Spec, ImplementsFeed, FeedSpec
=============================================================================
