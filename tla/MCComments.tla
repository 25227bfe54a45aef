---- MODULE MCComments ----
(* Instances of Comments for TLC. *)
EXTENDS Comments, TLC

HandlerSymmetry == Permutations(Handlers)
====
