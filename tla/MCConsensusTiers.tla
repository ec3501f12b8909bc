-------------------------- MODULE MCConsensusTiers --------------------------
(***************************************************************************)
(* Consensus without reloads: soft limits that differ, a tier that only    *)
(* counts with the next one, a backup, and a server whose configured tier  *)
(* is beyond the tiers of ConsensusFinder.  No max_block_lag.              *)
(***************************************************************************)
EXTENDS Consensus

\*   g - a1 - a2
\*    \- b1
MCBlocks == {"g", "a1", "a2", "b1"}
MCParent == [b \in MCBlocks |->
    CASE b = "g" -> NoBlock
      [] b \in {"a1", "b1"} -> "g"
      [] b = "a2" -> "a1"]
MCNumber == [b \in MCBlocks |->
    CASE b = "g" -> 0
      [] b \in {"a1", "b1"} -> 1
      [] b = "a2" -> 2]

MCRpcs == {"x", "y", "z", "w"}
MCNameOf == [r \in MCRpcs |-> r]
MCGen == [r \in MCRpcs |-> 0]
MCTier == [r \in MCRpcs |-> CASE r \in {"x", "z"} -> 0 [] r = "y" -> 1 [] r = "w" -> 2]
MCBackup == [r \in MCRpcs |-> r = "z"]
MCSoftLimit == [r \in MCRpcs |-> IF r = "y" THEN 2 ELSE 1]
=============================================================================
