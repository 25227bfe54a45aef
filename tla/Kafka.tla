-------------------------------- MODULE Kafka --------------------------------
(***************************************************************************)
(* What the code uses of the Kafka broker: an append-only log for each     *)
(* partition of the transcode topic and the offset the consumer group has  *)
(* committed in it.  The broker is not part of the repository; it is       *)
(* modelled from its use in backend/internal/messaging/kafka.go: records   *)
(* are acknowledged by all in-sync replicas (none is lost once appended),  *)
(* the producer hashes the record key (the video id) to a partition, and   *)
(* committing a record stores "the next offset to consume", whatever was   *)
(* stored before.                                                          *)
(*                                                                         *)
(* Offsets are counted from 1, so committed[p] is at once the last offset  *)
(* committed and the number of records a restarted consumer skips.         *)
(***************************************************************************)
EXTENDS Naturals, Sequences

CONSTANTS Partitions,   \* the partitions of the transcode topic
          Records,      \* what a record can carry
          MaxLog        \* bound: records in one partition

ASSUME MaxLogAssumption == MaxLog \in Nat

VARIABLES log,          \* [Partitions -> Seq(Records)]
          committed     \* [Partitions -> Nat]

kafkaVars == <<log, committed>>

KafkaTypeOK ==
  /\ log \in [Partitions -> Seq(Records)]
  /\ committed \in [Partitions -> Nat]

KafkaInit ==
  /\ log = [p \in Partitions |-> << >>]
  /\ committed = [p \in Partitions |-> 0]

Offsets(p) == 1..Len(log[p])

\* The broker appends record r to partition p.
Produce(p, r) ==
  /\ Len(log[p]) < MaxLog
  /\ log' = [log EXCEPT ![p] = Append(@, r)]
  /\ UNCHANGED committed

\* The broker stores the group's offset: everything up to o counts as consumed.
StoreOffset(p, o) ==
  /\ committed' = [committed EXCEPT ![p] = o]
  /\ UNCHANGED log
=============================================================================
