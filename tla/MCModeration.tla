---- MODULE MCModeration ----
(* Instances of Moderation for TLC. *)
EXTENDS Moderation, TLC

CONSTANTS u1, u2, c1

AuthorOne == [c \in Contents |-> u2]

ModerationSymmetry == Permutations(Handlers) \cup Permutations(RequestIDs)
====
