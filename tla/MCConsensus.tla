---------------------------- MODULE MCConsensus ----------------------------
(***************************************************************************)
(* Small instances of Consensus: a block tree with one fork, servers in    *)
(* two tiers, one backup, and one server that a reload replaces.           *)
(***************************************************************************)
EXTENDS Consensus

\* a - b - c
MCBlocks == {"a", "b", "c"}
MCParent == [x \in MCBlocks |-> CASE x = "a" -> NoBlock [] x = "b" -> "a" [] x = "c" -> "b"]
MCNumber == [x \in MCBlocks |-> CASE x = "a" -> 0 [] x = "b" -> 1 [] x = "c" -> 2]

MCNames == {"x", "y", "z"}
MCRpcs == {"x1", "x2", "y1", "z1"}
MCNameOf == [r \in MCRpcs |->
    CASE r \in {"x1", "x2"} -> "x" [] r = "y1" -> "y" [] r = "z1" -> "z"]
MCGen == [r \in MCRpcs |-> IF r = "x2" THEN 1 ELSE 0]
MCTier == [r \in MCRpcs |-> IF r = "x2" THEN 1 ELSE 0]
MCBackup == [r \in MCRpcs |-> r = "z1"]
MCSoftLimit == [r \in MCRpcs |-> 1]
=============================================================================
