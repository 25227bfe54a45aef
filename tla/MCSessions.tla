----------------------------- MODULE MCSessions -----------------------------
(* Instances of Sessions for TLC. *)
EXTENDS Sessions, TLC

CONSTANTS b1

OneHome == [t \in Tabs |-> b1]

SessionsSymmetry == Permutations(Tabs)
=============================================================================
