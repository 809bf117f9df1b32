---------------------------- MODULE MCDblVolume ----------------------------
(* Small instances of DblVolume: payloads of one, two and three sectors,   *)
(* the longer ones compressible by a sector.                               *)
EXTENDS DblVolume, TLC

CONSTANTS v1, v2, v3

LengthAll == (v1 :> 1) @@ (v2 :> 2) @@ (v3 :> 3)
Lengths == [v \in Payloads |-> LengthAll[v]]
Shrinks == [v \in Payloads |-> IF LengthAll[v] = 1 THEN {} ELSE {LengthAll[v] - 1}]
NoCompression == [v \in Payloads |-> {}]
ClusterSymmetry == Permutations(Clusters)
============================================================================
