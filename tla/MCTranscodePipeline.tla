---- MODULE MCTranscodePipeline ----
(* Instances of TranscodePipeline for TLC: all videos hash to one          *)
(* partition, an attempt reports one milestone, and each process has a     *)
(* WORKER_ID of its own.                                                   *)
EXTENDS TranscodePipeline, TLC

OnePartition == [v \in Videos |-> CHOOSE p \in Partitions : TRUE]

OwnIDs == [w \in Workers |-> w]

OneMilestone == <<95>>

\* Videos are interchangeable, and so are workers (safety runs only).
PipelineSymmetry == Permutations(Workers) \cup Permutations(Videos)
====
