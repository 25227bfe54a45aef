---- MODULE MCWatch ----
(* Instances of Watch for TLC. *)
EXTENDS Watch, TLC

CONSTANTS a, b    \* two viewers

\* The first two sessions are two tabs of viewer a.
Tabs == [s \in Sessions |-> IF s <= 2 THEN a ELSE b]

HandlerSymmetry == Permutations(Handlers)
====
