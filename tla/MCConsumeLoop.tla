---- MODULE MCConsumeLoop ----
(* Instances of ConsumeLoop for TLC. *)
EXTENDS ConsumeLoop, TLC

\* Workers are interchangeable (safety runs only).
WorkerSymmetry == Permutations(Workers)
====
