-------------------------- MODULE BroadcastProofs --------------------------
(***************************************************************************)
(* Who gets a transaction and what is answered, for any servers, backups,  *)
(* max_count and responses.                                                *)
(***************************************************************************)
EXTENDS Broadcast, FiniteSetTheorems, SequenceTheorems, TLAPS

Types ==
    /\ synced \subseteq Rpcs /\ has \subseteq Rpcs /\ first \subseteq Rpcs
    /\ todo \in Seq(Rpcs) /\ selected \in Seq(Rpcs)
    /\ pc \in {"start", "collect", "wait", "sent", "done"}
    /\ response \in [Rpcs -> Responses \cup {NoResponse}]

\* The servers that all_connections has still to look at begin with synced ones, among
\* them all that it did not try yet.
SyncedAhead ==
    pc = "collect" =>
        \E k \in 0..Len(todo) :
            /\ \A i \in 1..k : todo[i] \in first
            /\ \A r \in first \ tried : \E i \in 1..k : todo[i] = r

\* The inductive invariant.
BroadcastInv ==
    /\ Types
    /\ SentOnce /\ Selected \subseteq tried
    /\ SyncedFirst /\ SyncedAhead
    /\ (pc \in {"collect", "wait"} /\ seen) => first = synced
    /\ result # NoResponse => pc = "done"
    /\ MostCommonResult

-----------------------------------------------------------------------------

\* Sequences of a set are sequences of its supersets.
LEMMA ShuffleType ==
    ASSUME NEW S \in SUBSET Rpcs, NEW s \in SetToSeqs(S)
    PROVE  s \in Seq(Rpcs) /\ Len(s) \in Nat /\ DOMAIN s = 1..Len(s) /\ \A i \in 1..Len(s) : s[i] \in S
<1>1. IsFiniteSet(S)
  BY FS_Subset, BroadcastAssumption
<1>2. Cardinality(S) \in Nat
  BY <1>1, FS_CardinalityType
<1>3. s \in [1..Cardinality(S) -> S]
  BY DEF SetToSeqs
<1>4. s \in Seq(S)
  BY <1>2, <1>3, SeqDef
<1> QED BY <1>4

\* ... and have each of its elements.
LEMMA ShuffleOnto ==
    ASSUME NEW S \in SUBSET Rpcs, NEW s \in SetToSeqs(S), NEW r \in S
    PROVE  \E i \in 1..Len(s) : s[i] = r
<1> DEFINE D == 1..Cardinality(S)
<1>1. IsFiniteSet(S)
  BY FS_Subset, BroadcastAssumption
<1>2. Cardinality(S) \in Nat
  BY <1>1, FS_CardinalityType
<1>3. Cardinality(D) = Cardinality(S)
  BY <1>2, FS_Interval
<1>4. s \in [D -> S] /\ \A i, j \in D : i # j => s[i] # s[j]
  BY DEF SetToSeqs
<1>5. s \in Injection(D, S)
  BY <1>4, Zenon DEF Injection, IsInjective
<1>6. s \in Surjection(D, S)
  BY <1>1, <1>3, <1>5, FS_Injection
<1>7. \E i \in DOMAIN s : s[i] = r
  BY <1>4, <1>6 DEF Surjection
<1> QED BY <1>7, ShuffleType

\* Steps that change neither what is collected nor the answers.
LEMMA RestStep ==
    ASSUME BroadcastInv, Types',
           UNCHANGED <<todo, tried, selected, first, response, result>>,
           pc' = "collect" => pc = "collect", pc = "done" => pc' = "done",
           (pc' \in {"collect", "wait"} /\ seen') => (pc \in {"collect", "wait"} /\ seen /\ synced' = synced)
    PROVE  BroadcastInv'
<1>1. (SentOnce /\ Selected \subseteq tried /\ SyncedFirst)'
  BY DEF BroadcastInv, SentOnce, Selected, SyncedFirst
<1>2. SyncedAhead'
  BY DEF BroadcastInv, SyncedAhead
<1>3. MostCommonResult'
  <2>1. Selected' = Selected
    BY DEF Selected
  <2>2. Given' = Given /\ \A y : Count(y)' = Count(y)
    BY <2>1 DEF Given, Count
  <2> QED BY <2>2, Zenon DEF BroadcastInv, MostCommonResult
<1> QED BY <1>1, <1>2, <1>3 DEF BroadcastInv

\* The shuffled synced servers and then all servers: the synced ones lead the list.
LEMMA CollectStep ==
    ASSUME BroadcastInv, Collect
    PROVE  BroadcastInv'
<1>1. PICK s \in SetToSeqs(synced), t \in SetToSeqs(Rpcs) : todo' = s \o t
  BY DEF Collect
<1>2. synced \subseteq Rpcs
  BY DEF BroadcastInv, Types
<1>3. s \in Seq(Rpcs) /\ t \in Seq(Rpcs) /\ \A i \in 1..Len(s) : s[i] \in synced
  BY <1>1, <1>2, ShuffleType
<1>4. todo' \in Seq(Rpcs) /\ Len(s) \in 0..Len(todo') /\ \A i \in 1..Len(s) : todo'[i] = s[i]
  BY <1>1, <1>3
<1>5. \A r \in synced : \E i \in 1..Len(s) : s[i] = r
  BY <1>1, <1>2, ShuffleOnto
<1>6. SyncedAhead'
  <2>1. /\ \A i \in 1..Len(s) : todo'[i] \in first'
        /\ \A r \in first' : \E i \in 1..Len(s) : todo'[i] = r
    BY <1>3, <1>4, <1>5 DEF Collect
  <2> QED BY <1>4, <2>1 DEF SyncedAhead
<1>7. Types'
  BY <1>2, <1>4 DEF BroadcastInv, Types, Collect, env
<1>8. (SentOnce /\ Selected \subseteq tried /\ SyncedFirst)'
  BY DEF SentOnce, Selected, SyncedFirst, Collect
<1>9. result = NoResponse /\ result' = NoResponse
  BY DEF BroadcastInv, Collect
<1> QED BY <1>6, <1>7, <1>8, <1>9 DEF BroadcastInv, MostCommonResult, Collect, env

\* One more server of the list: it is selected at most once, and synced ones first.
LEMMA TryStep ==
    ASSUME BroadcastInv, Try
    PROVE  BroadcastInv'
<1> DEFINE r == Head(todo)
<1>1. /\ todo \in Seq(Rpcs) /\ todo # <<>> /\ todo' = Tail(todo) /\ r = todo[1] /\ r \in Rpcs
      /\ selected \in Seq(Rpcs) /\ tried' = tried \cup {r} /\ pc = "collect"
      /\ UNCHANGED <<synced, has, pc, first, seen, response, result>>
  BY DEF BroadcastInv, Types, Try, env
<1>2. Len(todo) \in Nat /\ Len(todo') = Len(todo) - 1 /\ Len(todo) >= 1 /\ todo' \in Seq(Rpcs)
      /\ \A i \in 1..Len(todo') : todo'[i] = todo[i + 1]
  BY <1>1
<1>3. selected' = selected \/ (r \notin tried /\ selected' = Append(selected, r))
  BY DEF Try
<1>4. Types'
  <2>1. selected' \in Seq(Rpcs)
    <3> HIDE DEF r
    <3>1. selected \in Seq(Rpcs) /\ r \in Rpcs
      BY <1>1
    <3>2. Append(selected, r) \in Seq(Rpcs)
      BY <3>1
    <3> QED BY <1>3, <3>1, <3>2
  <2> QED BY <1>1, <1>2, <2>1 DEF BroadcastInv, Types
<1>5. Selected' = Selected \/ (r \notin tried /\ Selected' = Selected \cup {r})
  <2>1. CASE selected' = selected
    BY <2>1 DEF Selected
  <2>2. CASE r \notin tried /\ selected' = Append(selected, r)
    <3>1. DOMAIN selected' = DOMAIN selected \cup {Len(selected) + 1} /\ selected'[Len(selected) + 1] = r
          /\ \A i \in DOMAIN selected : selected'[i] = selected[i]
      BY <1>1, <2>2
    <3> QED BY <3>1, <2>2 DEF Selected
  <2> QED BY <1>3, <2>1, <2>2
<1>6. (Selected \subseteq tried)'
  BY <1>1, <1>5 DEF BroadcastInv
<1>7. SentOnce'
  <2>1. CASE selected' = selected
    BY <2>1 DEF BroadcastInv, SentOnce
  <2>2. CASE r \notin tried /\ selected' = Append(selected, r)
    <3>1. \A i \in DOMAIN selected : selected[i] # r
      BY <2>2 DEF BroadcastInv, Selected
    <3>2. DOMAIN selected' = DOMAIN selected \cup {Len(selected) + 1} /\ selected'[Len(selected) + 1] = r
          /\ \A i \in DOMAIN selected : selected'[i] = selected[i]
      BY <1>1, <2>2
    <3> QED BY <3>1, <3>2 DEF BroadcastInv, SentOnce
  <2> QED BY <1>3, <2>1, <2>2
<1>8. PICK k \in 0..Len(todo) : /\ \A i \in 1..k : todo[i] \in first
                                /\ \A q \in first \ tried : \E i \in 1..k : todo[i] = q
  BY <1>1 DEF BroadcastInv, SyncedAhead
<1>9. CASE k = 0
  <2>1. first \subseteq tried
    BY <1>8, <1>9
  <2>2. SyncedFirst'
    BY <1>1, <2>1 DEF SyncedFirst
  <2>3. SyncedAhead'
    <3>1. 0 \in 0..Len(todo')
      BY <1>2
    <3> QED BY <1>1, <2>1, <3>1 DEF SyncedAhead
  <2> QED BY <1>1, <1>4, <1>6, <1>7, <2>2, <2>3 DEF BroadcastInv, MostCommonResult
<1>10. CASE k # 0
  <2>1. r \in first /\ k - 1 \in 0..Len(todo')
    BY <1>1, <1>2, <1>8, <1>10
  <2>2. SyncedFirst'
    BY <1>1, <1>5, <2>1 DEF BroadcastInv, SyncedFirst
  <2>3. \A i \in 1..(k - 1) : todo'[i] \in first
    BY <1>2, <1>8, <1>10
  <2>4. ASSUME NEW q \in first \ tried' PROVE \E i \in 1..(k - 1) : todo'[i] = q
    <3>1. PICK i \in 1..k : todo[i] = q
      BY <1>1, <1>8, <2>4
    <3>2. i # 1
      BY <1>1, <2>4, <3>1
    <3>3. i - 1 \in 1..(k - 1) /\ todo'[i - 1] = todo[i]
      BY <1>2, <1>8, <3>1, <3>2
    <3> QED BY <3>1, <3>3
  <2>5. SyncedAhead'
    BY <1>1, <2>1, <2>3, <2>4 DEF SyncedAhead
  <2> QED BY <1>1, <1>4, <1>6, <1>7, <2>2, <2>5 DEF BroadcastInv, MostCommonResult
<1> QED BY <1>9, <1>10

\* The answer that is chosen is a most common one of the best kind.
LEMMA MostCommonStep ==
    ASSUME BroadcastInv, MostCommon
    PROVE  BroadcastInv'
<1>1. PICK x \in Eligible : (\A y \in Eligible \ {x} : Earlier(x, y)) /\ result' = x
  BY DEF MostCommon
<1>2. Selected' = Selected /\ Selected \subseteq Rpcs
  BY DEF MostCommon, Selected, BroadcastInv, Types
<1>3. Given' = Given /\ \A y : Count(y)' = Count(y)
  BY <1>2 DEF MostCommon, Given, Count
<1>4. Given \subseteq Responses
  BY <1>2 DEF MostCommon, Given, BroadcastInv, Types
<1>5. \A y : Count(y) \in Nat
  <2>1. IsFiniteSet(Selected)
    BY <1>2, FS_Subset, BroadcastAssumption
  <2>2. \A y : {r \in Selected : response[r] = y} \in SUBSET Selected
    OBVIOUS
  <2> QED BY <2>1, <2>2, FS_Subset, FS_CardinalityType DEF Count
<1>6. ASSUME NEW y \in Given
      PROVE  /\ y \in Successes => x \in Successes
             /\ y \in JsonErrors => x \notin Failures
             /\ \A kind \in {Successes, JsonErrors, Failures} : {x, y} \subseteq kind => Count(y) <= Count(x)
  <2>1. x \in Given /\ x \in Responses
    BY <1>1, <1>4 DEF Eligible
  <2>2. y \in Successes => x \in Successes
    BY <1>1, <1>6, <2>1, BroadcastAssumption DEF Eligible, Responses
  <2>3. y \in JsonErrors => x \notin Failures
    BY <1>1, <1>6, BroadcastAssumption DEF Eligible
  <2>4. ASSUME NEW kind \in {Successes, JsonErrors, Failures}, x \in kind, y \in kind
        PROVE  Count(y) <= Count(x)
    <3>1. y \in Eligible
      BY <1>1, <1>6, <2>4, BroadcastAssumption DEF Eligible
    <3>2. CASE y = x
      BY <1>5, <3>2
    <3>3. CASE y # x
      BY <1>1, <1>5, <3>1, <3>3 DEF Earlier
    <3> QED BY <3>2, <3>3
  <2> QED BY <2>2, <2>3, <2>4
<1>7. MostCommonResult'
  <2>1. result' = x
    BY <1>1
  <2> QED BY <1>3, <1>6, <2>1 DEF MostCommonResult
<1>8. Types'
  BY DEF MostCommon, BroadcastInv, Types, env
<1>9. (SentOnce /\ Selected \subseteq tried /\ SyncedFirst /\ SyncedAhead)'
  BY DEF MostCommon, BroadcastInv, SentOnce, Selected, SyncedFirst, SyncedAhead
<1> QED BY <1>7, <1>8, <1>9 DEF MostCommon, BroadcastInv

\* Init satisfies the invariant and every step keeps it.
LEMMA BroadcastInductive ==
    /\ Init => BroadcastInv
    /\ BroadcastInv /\ [Next]_vars => BroadcastInv'
<1>1. ASSUME Init PROVE BroadcastInv
  <2>1. Types
    BY <1>1 DEF Init, Types
  <2> QED BY <1>1, <2>1 DEF Init, BroadcastInv, SentOnce, Selected, SyncedFirst, SyncedAhead, MostCommonResult
<1>2. ASSUME BroadcastInv, [Next]_vars PROVE BroadcastInv'
  <2> USE <1>2
  <2>1. CASE Collect
    BY <2>1, CollectStep
  <2>2. CASE Try
    BY <2>2, TryStep
  <2>3. CASE Collected
    <3>1. Types'
      BY <2>3 DEF Collected, BroadcastInv, Types, env
    <3> QED BY <2>3, <3>1, RestStep DEF Collected, env
  <2>4. CASE Changed
    <3>1. Types'
      BY <2>4 DEF Changed, BroadcastInv, Types, env
    <3> QED BY <2>4, <3>1, RestStep DEF Changed, env
  <2>5. CASE MostCommon
    BY <2>5, MostCommonStep
  <2>6. ASSUME NEW r \in Rpcs, NEW x \in Responses, Answer(r, x) PROVE BroadcastInv'
    <3>1. Types'
      BY <2>6 DEF Answer, BroadcastInv, Types, env
    <3>2. result' = NoResponse
      BY <2>6 DEF Answer, BroadcastInv
    <3>3. (SentOnce /\ Selected \subseteq tried /\ SyncedFirst /\ SyncedAhead)'
      BY <2>6 DEF Answer, BroadcastInv, SentOnce, Selected, SyncedFirst, SyncedAhead
    <3> QED BY <2>6, <3>1, <3>2, <3>3 DEF Answer, BroadcastInv, MostCommonResult, env
  <2>7. ASSUME NEW r \in Rpcs, NewHead(r) PROVE BroadcastInv'
    <3>1. Types'
      BY <2>7 DEF NewHead, BroadcastInv, Types
    <3> QED BY <2>7, <3>1, RestStep DEF NewHead
  <2>8. CASE NewConsensus
    <3>1. Types'
      BY <2>8 DEF NewConsensus, BroadcastInv, Types
    <3> QED BY <2>8, <3>1, RestStep DEF NewConsensus
  <2>9. CASE UNCHANGED vars
    <3>1. Types'
      BY <2>9 DEF vars, env, BroadcastInv, Types
    <3> QED BY <2>9, <3>1, RestStep DEF vars, env
  <2> QED BY <2>1, <2>2, <2>3, <2>4, <2>5, <2>6, <2>7, <2>8, <2>9 DEF Next, Task
<1> QED BY <1>1, <1>2

\* For any servers and responses: what all_connections collects, and what
\* try_send_parallel_requests answers, is right at every point.
THEOREM BroadcastInvariant == Spec => []BroadcastInv
  BY BroadcastInductive, PTL DEF Spec

\* No server gets the transaction twice.
THEOREM SentOnceAlways == Spec => []SentOnce
<1>1. BroadcastInv => SentOnce
  BY DEF BroadcastInv
<1> QED BY <1>1, BroadcastInvariant, PTL

\* Others get it only after every synced server was tried.
THEOREM SyncedAlwaysFirst == Spec => []SyncedFirst
<1>1. BroadcastInv => SyncedFirst
  BY DEF BroadcastInv
<1> QED BY <1>1, BroadcastInvariant, PTL

\* A change of the consensus during all_connections is not lost.
THEOREM NeverLostChange == Spec => []NoLostChange
<1>1. BroadcastInv => NoLostChange
  BY DEF BroadcastInv, NoLostChange
<1> QED BY <1>1, BroadcastInvariant, PTL

\* The client gets a most common success or, without one, a most common error.
THEOREM AlwaysMostCommon == Spec => []MostCommonResult
<1>1. BroadcastInv => MostCommonResult
  BY DEF BroadcastInv
<1> QED BY <1>1, BroadcastInvariant, PTL
=============================================================================
