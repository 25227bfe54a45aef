---- MODULE MCFollows ----
(* Instances of Follows for TLC. *)
EXTENDS Follows, TLC

FollowsSymmetry == Permutations(Handlers) \cup Permutations(RequestIDs)
====
