--------------------------- MODULE RoutingProofs ---------------------------
(***************************************************************************)
(* Which servers get a request, for any number of servers, tiers and       *)
(* latencies, and however the heads and the consensus change in between.   *)
(***************************************************************************)
EXTENDS Routing, FiniteSetTheorems, SequenceTheorems, WellFoundedInduction, TLAPS

Trying == {tries[i] : i \in DOMAIN tries}

\* The inductive invariant.  What is left to try was picked, and was not asked before;
\* the fastest server of each group is left to try, or refused, or was asked; for an
\* old block the servers left to try are ordered by tier.
RoutingInv ==
    /\ TypeOK
    /\ OncePerServer
    /\ pc = "try" => Trying \cap Skipped = {}
    /\ usable.fastest \subseteq refused \cup Skipped \cup Trying
    /\ (pc = "try" /\ usable.old) =>
            \A i, j \in DOMAIN tries : i < j => Tier[tries[i]] <= Tier[tries[j]]
    /\ LowerTierFirst

-----------------------------------------------------------------------------
(* Shuffles and windows.                                                   *)

\* A nonempty set of naturals has a least element, so next(i) in Tries is defined.
LEMMA LeastExists ==
    ASSUME NEW S \in SUBSET Nat, S # {}
    PROVE  \E j \in S : \A k \in S : j <= k
<1>1. PICK j \in S : \A k \in S : ~(<<k, j>> \in OpToRel(<, Nat))
  BY NatLessThanWellFounded, WFMin, Zenon
<1>2. \A k \in S : ~(k < j)
  BY <1>1 DEF OpToRel
<1> QED BY <1>2

\* The servers that are picked are servers of by_name.
LEMMA UsableSubset ==
    ASSUME TypeOK, consensus # NoConsensus
    PROVE  Usable \subseteq Rpcs /\ Usable \cap Skipped = {}
<1>1. consensus.rpcs \subseteq Rpcs /\ consensus.head \in Int
  BY DEF TypeOK, Blocks
<1>2. WithBlocks \subseteq Rpcs \ Skipped
  BY DEF WithBlocks
<1>3. CASE NeededBlock < consensus.head
  BY <1>2, <1>3 DEF Usable
<1>4. CASE ~(NeededBlock < consensus.head) /\ NeededBlock = consensus.head
  BY <1>1, <1>4 DEF Usable
<1>5. CASE ~(NeededBlock < consensus.head) /\ NeededBlock # consensus.head /\ NeededBlock > consensus.head
  BY <1>5 DEF Usable
<1>6. NeededBlock \in Int
  <2>1. need \in ((1..MaxBlock) \cup {NoBlock}) \X ((1..MaxBlock) \cup {NoBlock})
    BY RoutingAssumption DEF TypeOK
  <2> QED BY <2>1, <1>1, RoutingAssumption DEF NeededBlock
<1> QED BY <1>1, <1>3, <1>4, <1>5, <1>6

\* A shuffle is a sequence of the picked servers, and has each one of them.
LEMMA ShuffleOnto ==
    ASSUME NEW U, IsFiniteSet(U), NEW s \in SetToSeqs(U)
    PROVE  /\ s \in [1..Cardinality(U) -> U] /\ Cardinality(U) \in Nat
           /\ \A r \in U : \E i \in DOMAIN s : s[i] = r
<1> DEFINE D == 1..Cardinality(U)
<1>1. s \in [D -> U] /\ \A i, j \in D : i # j => s[i] # s[j]
  BY DEF SetToSeqs
<1>2. Cardinality(U) \in Nat
  BY FS_CardinalityType
<1>3. Cardinality(D) = Cardinality(U)
  BY <1>2, FS_Interval
<1>4. s \in Injection(D, U)
  BY <1>1, Zenon DEF Injection, IsInjective
<1>5. s \in Surjection(D, U)
  BY <1>3, <1>4, FS_Injection
<1> QED BY <1>1, <1>2, <1>5 DEF Surjection

\* circular_tuple_windows: what is tried at a position is of the group of the server at
\* that position, and is that server if no other of the group is faster.
LEMMA TriesOfGroup ==
    ASSUME NEW U, NEW n \in Nat, NEW s \in [1..n -> U], U \subseteq Rpcs
    PROVE  /\ Tries(s) \in [1..n -> U]
           /\ \A i \in 1..n : Group(Tries(s)[i]) = Group(s[i])
           /\ \A i \in 1..n : (\A q \in U : Group(q) = Group(s[i]) => Latency[s[i]] <= Latency[q])
                                => Tries(s)[i] = s[i]
<1> DEFINE mates(i) == {j \in DOMAIN s : Group(s[j]) = Group(s[i])}
           next(i) == IF i + 1 \in mates(i) THEN i + 1
                      ELSE CHOOSE j \in mates(i) : \A k \in mates(i) : j <= k
<1>1. Tries(s) = [i \in DOMAIN s |-> IF Latency[s[next(i)]] < Latency[s[i]] THEN s[next(i)] ELSE s[i]]
  BY Zenon DEF Tries
<1>2. ASSUME NEW i \in 1..n PROVE next(i) \in mates(i)
  <2>1. mates(i) \in SUBSET Nat /\ mates(i) # {}
    BY <1>2
  <2>2. \E j \in mates(i) : \A k \in mates(i) : j <= k
    BY <2>1, LeastExists
  <2> QED BY <2>2
<1>3. ASSUME NEW i \in 1..n PROVE s[next(i)] \in U /\ Group(s[next(i)]) = Group(s[i])
  BY <1>2, <1>3
<1> HIDE DEF next, mates
<1>4. Tries(s) \in [1..n -> U]
  BY <1>1, <1>3
<1>5. ASSUME NEW i \in 1..n PROVE Group(Tries(s)[i]) = Group(s[i])
  BY <1>1, <1>3
<1>6. ASSUME NEW i \in 1..n, \A q \in U : Group(q) = Group(s[i]) => Latency[s[i]] <= Latency[q]
      PROVE  Tries(s)[i] = s[i]
  <2>1. Latency[s[i]] <= Latency[s[next(i)]]
    BY <1>3, <1>6
  <2>2. Latency[s[i]] \in Int /\ Latency[s[next(i)]] \in Int
    BY <1>3, RoutingAssumption
  <2> QED BY <1>1, <2>1, <2>2
<1> QED BY <1>4, <1>5, <1>6

-----------------------------------------------------------------------------
(* The invariant.                                                          *)

\* What best_available_rpc picks: Trying becomes a part of Usable that has the fastest
\* of each group, in the order of the groups.
LEMMA PickTries ==
    ASSUME TypeOK, consensus # NoConsensus, NEW s \in Shuffles
    PROVE  /\ Tries(s) \in Seq(Usable)
           /\ \A r \in Fastest : \E i \in DOMAIN Tries(s) : Tries(s)[i] = r
           /\ NeededBlock < consensus.head =>
                \A i, j \in DOMAIN Tries(s) : i < j => Tier[Tries(s)[i]] <= Tier[Tries(s)[j]]
<1> DEFINE n == Cardinality(Usable)
<1>1. Usable \subseteq Rpcs
  BY UsableSubset
<1>2. IsFiniteSet(Usable)
  BY <1>1, FS_Subset, RoutingAssumption
<1>3. s \in SetToSeqs(Usable) /\ \A i, j \in DOMAIN s : i < j => ~Before(Group(s[j]), Group(s[i]))
  BY Zenon DEF Shuffles
<1>4. s \in [1..n -> Usable] /\ n \in Nat /\ \A r \in Usable : \E i \in DOMAIN s : s[i] = r
  BY <1>2, <1>3, ShuffleOnto
<1> HIDE DEF n
<1>5. /\ Tries(s) \in [1..n -> Usable]
      /\ \A i \in 1..n : Group(Tries(s)[i]) = Group(s[i])
      /\ \A i \in 1..n : (\A q \in Usable : Group(q) = Group(s[i]) => Latency[s[i]] <= Latency[q])
                              => Tries(s)[i] = s[i]
  BY <1>1, <1>4, TriesOfGroup
<1>6. Tries(s) \in Seq(Usable)
  BY <1>4, <1>5, SeqDef
<1>7. ASSUME NEW r \in Fastest PROVE \E i \in DOMAIN Tries(s) : Tries(s)[i] = r
  <2>1. r \in Usable /\ \A q \in Usable : Group(q) = Group(r) => Latency[r] <= Latency[q]
    BY <1>7 DEF Fastest
  <2>2. PICK i \in 1..n : s[i] = r
    BY <2>1, <1>4
  <2> QED BY <1>5, <2>1, <2>2
<1>8. ASSUME NeededBlock < consensus.head, NEW i \in 1..n, NEW j \in 1..n, i < j
      PROVE  Tier[Tries(s)[i]] <= Tier[Tries(s)[j]]
  <2>1. Group(Tries(s)[i]) = Group(s[i]) /\ Group(Tries(s)[j]) = Group(s[j])
    BY <1>5
  <2>2. \A r \in Rpcs : Group(r)[1] = Tier[r]
    BY <1>8 DEF Group
  <2>3. ~Before(Group(s[j]), Group(s[i]))
    BY <1>3, <1>4, <1>8
  <2>4. Tries(s)[i] \in Rpcs /\ Tries(s)[j] \in Rpcs /\ s[i] \in Rpcs /\ s[j] \in Rpcs
    BY <1>1, <1>4, <1>5
  <2>5. Tier[s[i]] = Tier[Tries(s)[i]] /\ Tier[s[j]] = Tier[Tries(s)[j]]
    BY <2>1, <2>2, <2>4
  <2>6. ~(Tier[s[j]] < Tier[s[i]])
    BY <2>2, <2>3, <2>4 DEF Before
  <2> QED BY <2>4, <2>5, <2>6, RoutingAssumption
<1> QED BY <1>5, <1>6, <1>7, <1>8

\* Init and every step keep the types.
LEMMA TypeInit == Init => TypeOK
<1> SUFFICES ASSUME Init PROVE TypeOK
  OBVIOUS
<1>1. head \in [Rpcs -> Blocks \cup {NoBlock}] /\ consensus = NoConsensus /\ need \in Needs
  BY DEF Init
<1>2. skip \in Seq(Rpcs) /\ tries \in Seq(Rpcs) /\ refused \subseteq Rpcs
  BY DEF Init
<1>3. usable \in [rpcs : SUBSET Rpcs, fastest : SUBSET Rpcs, old : BOOLEAN]
  BY DEF Init
<1>4. missing \in BOOLEAN /\ pc = "loop" /\ result = "none"
  BY Zenon DEF Init
<1> QED BY <1>1, <1>2, <1>3, <1>4 DEF TypeOK

\* No step of a request or of the servers' heads leaves the types.
LEMMA TypeStep == TypeOK /\ [Next]_vars => TypeOK'
<1> SUFFICES ASSUME TypeOK, [Next]_vars PROVE TypeOK'
  OBVIOUS
<1> USE DEF TypeOK
<1>1. CASE AllSkipped
  BY <1>1 DEF AllSkipped, GiveUp, env
<1>2. CASE NotSynced
  BY <1>2 DEF NotSynced, GiveUp, env
<1>3. CASE InvalidBounds
  BY <1>3 DEF InvalidBounds, env
<1>4. CASE Pick
  <2>1. PICK s \in Shuffles : tries' = Tries(s)
    BY <1>4 DEF Pick
  <2>2. consensus # NoConsensus
    BY <1>4 DEF Pick
  <2>3. tries' \in Seq(Usable) /\ Usable \subseteq Rpcs
    BY <2>1, <2>2, PickTries, UsableSubset
  <2>4. tries' \in Seq(Rpcs)
    BY <2>3
  <2>5. Fastest \subseteq Rpcs
    BY <2>3 DEF Fastest
  <2>6. (NeededBlock < consensus.head) \in BOOLEAN
    OBVIOUS
  <2> QED BY <1>4, <2>3, <2>4, <2>5, <2>6 DEF Pick, env
<1>5. CASE Handle
  BY <1>5 DEF Handle, env
<1>6. CASE NoHandle
  BY <1>6 DEF NoHandle, env
<1>7. CASE NoneAvailable
  BY <1>7 DEF NoneAvailable, GiveUp, env
<1>8. ASSUME NEW kind \in {"success", "error", "rate_limited", "no_data"}, Respond(kind)
      PROVE  TypeOK'
  BY <1>8 DEF Respond, env
<1>9. CASE MethodMissing
  BY <1>9 DEF MethodMissing, env
<1>10. CASE BackendError
  BY <1>10 DEF BackendError, env
<1>11. ASSUME NEW r \in Rpcs, NEW m \in Blocks \cup {NoBlock}, NewHead(r, m) PROVE TypeOK'
  BY <1>11 DEF NewHead
<1>12. CASE NewConsensus
  BY <1>12 DEF NewConsensus
<1>13. CASE UNCHANGED vars
  BY <1>13 DEF vars, env
<1> QED
  BY <1>1, <1>2, <1>3, <1>4, <1>5, <1>6, <1>7, <1>8, <1>9, <1>10, <1>11, <1>12, <1>13 DEF Next, Request

\* Steps that leave the servers asked and left to try alone, and do not send.
LEMMA RestStep ==
    ASSUME RoutingInv, TypeOK', UNCHANGED <<skip, usable, tries, refused>>,
           pc' = "try" => pc = "try", pc' = "sent" => pc = "sent"
    PROVE  RoutingInv'
  BY DEF RoutingInv, OncePerServer, Trying, Skipped, LowerTierFirst, Last

\* A new list of servers to try: none that was asked is on it, the fastest are,
\* and the tiers are in order.
LEMMA PickStep ==
    ASSUME RoutingInv, TypeOK', Pick
    PROVE  RoutingInv'
<1>1. PICK s \in Shuffles : tries' = Tries(s)
  BY DEF Pick
<1>2. TypeOK /\ consensus # NoConsensus
  BY DEF Pick, RoutingInv
<1>3. /\ tries' \in Seq(Usable)
      /\ \A r \in Fastest : \E i \in DOMAIN tries' : tries'[i] = r
      /\ NeededBlock < consensus.head =>
           \A i, j \in DOMAIN tries' : i < j => Tier[tries'[i]] <= Tier[tries'[j]]
  BY <1>1, <1>2, PickTries
<1>4. Usable \cap Skipped = {} /\ Skipped' = Skipped
  BY <1>2, UsableSubset DEF Pick, Skipped
<1>5. Trying' \subseteq Usable /\ usable'.fastest \subseteq Trying'
  BY <1>3 DEF Trying, Pick
<1>6. Trying' \cap Skipped' = {}
  BY <1>4, <1>5
<1>7. (pc = "try" /\ usable.old)' => \A i, j \in DOMAIN tries' : i < j => Tier[tries'[i]] <= Tier[tries'[j]]
  BY <1>3 DEF Pick
<1>8. OncePerServer' /\ LowerTierFirst'
  BY DEF RoutingInv, OncePerServer, LowerTierFirst, Pick
<1> QED BY <1>5, <1>6, <1>7, <1>8 DEF RoutingInv

\* A handle: the server was not asked before, and what is of a lower tier and the
\* fastest of its group is not left to try.
LEMMA HandleStep ==
    ASSUME RoutingInv, TypeOK', Handle
    PROVE  RoutingInv'
<1> DEFINE r == Head(tries)
<1>1. tries \in Seq(Rpcs) /\ tries # <<>> /\ skip \in Seq(Rpcs) /\ skip' = Append(skip, r) /\ pc = "try"
      /\ UNCHANGED <<tries, usable, refused>> /\ pc' = "sent"
  BY DEF Handle, RoutingInv, TypeOK
<1>2. r = tries[1] /\ 1 \in DOMAIN tries /\ r \in Trying
  BY <1>1 DEF Trying
<1>3. r \notin Skipped
  BY <1>1, <1>2 DEF RoutingInv
<1>4. DOMAIN skip' = DOMAIN skip \cup {Len(skip) + 1} /\ skip'[Len(skip) + 1] = r
      /\ \A i \in DOMAIN skip : skip'[i] = skip[i] /\ i # Len(skip) + 1
  BY <1>1
<1>5. Skipped' = Skipped \cup {r}
  BY <1>4 DEF Skipped
<1>6. OncePerServer'
  BY <1>3, <1>4 DEF RoutingInv, OncePerServer, Skipped
<1>7. Last(skip') = r
  BY <1>1, <1>4 DEF Last
<1>8. (usable.fastest \subseteq refused \cup Skipped \cup Trying)'
  BY <1>1, <1>5 DEF RoutingInv, Trying
<1>9. ASSUME usable.old, NEW q \in usable.fastest, Tier[q] < Tier[r] PROVE q \in refused \cup Skipped
  <2>1. q \in refused \cup Skipped \cup Trying
    BY <1>9 DEF RoutingInv
  <2>2. \A j \in DOMAIN tries : j # 1 => 1 < j
    BY <1>1
  <2>3. \A j \in DOMAIN tries : j # 1 => Tier[r] <= Tier[tries[j]]
    BY <1>1, <1>2, <1>9, <2>2 DEF RoutingInv
  <2>4. \A j \in DOMAIN tries : Tier[tries[j]] \in Int
    BY <1>1, RoutingAssumption
  <2>5. \A j \in DOMAIN tries : tries[j] # q
    BY <1>2, <1>9, <2>3, <2>4
  <2> QED BY <2>1, <2>5 DEF Trying
<1>10. LowerTierFirst'
  BY <1>1, <1>5, <1>7, <1>9 DEF LowerTierFirst
<1> QED BY <1>1, <1>6, <1>8, <1>10 DEF RoutingInv

\* A server that is refused goes from those left to try to those refused.
LEMMA NoHandleStep ==
    ASSUME RoutingInv, TypeOK', NoHandle
    PROVE  RoutingInv'
<1>1. tries \in Seq(Rpcs) /\ tries # <<>> /\ tries' = Tail(tries) /\ refused' = refused \cup {tries[1]}
      /\ UNCHANGED <<skip, usable, pc>> /\ pc = "try"
  BY DEF NoHandle, RoutingInv, TypeOK
<1>2. DOMAIN tries' = 1..(Len(tries) - 1) /\ DOMAIN tries = 1..Len(tries) /\ Len(tries) \in Nat
      /\ \A i \in DOMAIN tries' : tries'[i] = tries[i + 1]
  BY <1>1
<1>3. Trying \subseteq Trying' \cup {tries[1]} /\ Trying' \subseteq Trying
  <2>1. ASSUME NEW i \in DOMAIN tries, i # 1 PROVE i - 1 \in DOMAIN tries' /\ tries'[i - 1] = tries[i]
    BY <1>2, <2>1
  <2>2. \A i \in DOMAIN tries' : i + 1 \in DOMAIN tries
    BY <1>2
  <2> QED BY <1>2, <2>1, <2>2 DEF Trying
<1>4. Skipped' = Skipped
  BY <1>1 DEF Skipped
<1>5. (usable.fastest \subseteq refused \cup Skipped \cup Trying)'
  BY <1>1, <1>3, <1>4 DEF RoutingInv
<1>6. ASSUME usable.old, NEW i \in DOMAIN tries', NEW j \in DOMAIN tries', i < j
      PROVE  Tier[tries'[i]] <= Tier[tries'[j]]
  <2>1. \A m, n \in DOMAIN tries : m < n => Tier[tries[m]] <= Tier[tries[n]]
    BY <1>1, <1>6 DEF RoutingInv
  <2>2. i + 1 \in DOMAIN tries /\ j + 1 \in DOMAIN tries /\ i + 1 < j + 1
    BY <1>2, <1>6
  <2>3. tries'[i] = tries[i + 1] /\ tries'[j] = tries[j + 1]
    BY <1>2
  <2> QED BY <2>1, <2>2, <2>3
<1>7. OncePerServer' /\ LowerTierFirst'
  BY <1>1 DEF RoutingInv, OncePerServer, LowerTierFirst
<1> QED BY <1>1, <1>3, <1>4, <1>5, <1>6, <1>7 DEF RoutingInv

\* Init satisfies the invariant and every step keeps it.
LEMMA RoutingInductive ==
    /\ Init => RoutingInv
    /\ RoutingInv /\ [Next]_vars => RoutingInv'
<1>1. Init => RoutingInv
  BY TypeInit DEF Init, RoutingInv, OncePerServer, LowerTierFirst
<1>2. ASSUME RoutingInv, [Next]_vars PROVE RoutingInv'
  <2> USE <1>2
  <2>1. TypeOK'
    BY TypeStep DEF RoutingInv
  <2>2. CASE AllSkipped \/ NotSynced \/ NoneAvailable
    BY <2>1, <2>2, RestStep DEF AllSkipped, NotSynced, NoneAvailable, GiveUp
  <2>3. CASE InvalidBounds
    BY <2>1, <2>3, RestStep DEF InvalidBounds
  <2>4. CASE Pick
    BY <2>1, <2>4, PickStep
  <2>5. CASE Handle
    BY <2>1, <2>5, HandleStep
  <2>6. CASE NoHandle
    BY <2>1, <2>6, NoHandleStep
  <2>7. ASSUME NEW kind \in {"success", "error", "rate_limited", "no_data"}, Respond(kind)
        PROVE  RoutingInv'
    BY <2>1, <2>7, RestStep DEF Respond
  <2>8. CASE MethodMissing \/ BackendError
    BY <2>1, <2>8, RestStep DEF MethodMissing, BackendError
  <2>9. ASSUME NEW r \in Rpcs, NEW m \in Blocks \cup {NoBlock}, NewHead(r, m) PROVE RoutingInv'
    BY <2>1, <2>9, RestStep DEF NewHead
  <2>10. CASE NewConsensus
    BY <2>1, <2>10, RestStep DEF NewConsensus
  <2>11. CASE UNCHANGED vars
    BY <2>1, <2>11, RestStep DEF vars
  <2> QED
    BY <2>2, <2>3, <2>4, <2>5, <2>6, <2>7, <2>8, <2>9, <2>10, <2>11 DEF Next, Request
<1> QED BY <1>1, <1>2

\* For any servers, tiers and latencies: what is asked, and in which order, is right at
\* every point of a request (try_send_best_consensus_head_connection).
THEOREM RoutingInvariant == Spec => []RoutingInv
  BY RoutingInductive, PTL DEF Spec

\* No server gets a request twice.
THEOREM OnceAlways == Spec => []OncePerServer
<1>1. RoutingInv => OncePerServer
  BY DEF RoutingInv
<1> QED BY <1>1, RoutingInvariant, PTL

\* A request is given up only after the fastest server of every group was tried.
THEOREM FastestAlwaysTried == Spec => []FastestTried
<1>1. RoutingInv => FastestTried
  BY DEF RoutingInv, FastestTried, Trying
<1> QED BY <1>1, RoutingInvariant, PTL

\* For an old block a server is asked only after the fastest servers of all lower tiers.
THEOREM LowerTierAlwaysFirst == Spec => []LowerTierFirst
<1>1. RoutingInv => LowerTierFirst
  BY DEF RoutingInv
<1> QED BY <1>1, RoutingInvariant, PTL
=============================================================================
