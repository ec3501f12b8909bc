---------------------------- MODULE MCBroadcast ----------------------------
(* Instances of Broadcast for TLC.                                         *)
EXTENDS Broadcast

CONSTANTS a, b, c, hash, other, known, lost

ThreeRpcs == {a, b, c}
OneBackup == {c}

TwoSuccesses == {hash, other}
OneJsonError == {known}
OneFailure == {lost}

MCRank == [x \in {hash, other, known, lost} |->
             CASE x = lost -> 1 [] x = known -> 2 [] x = hash -> 3 [] x = other -> 4]
=============================================================================
