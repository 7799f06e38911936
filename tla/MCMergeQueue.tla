---------------------------- MODULE MCMergeQueue ----------------------------
(* Instances of MergeQueue for TLC: a batch of two lanes and a batch of one. *)
EXTENDS MergeQueue, TLC

CONSTANTS b1, b2, i1, i2, j1

MCBatchOf == [i \in Item |-> IF i = j1 THEN b2 ELSE b1]
MCPos == [i \in Item |-> IF i = i2 THEN 2 ELSE 1]
MCDependsOn == [i \in Item |-> IF i = i2 THEN {i1} ELSE {}]
=============================================================================
