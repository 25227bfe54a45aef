----------------------------- MODULE ConsumeLoop -----------------------------
(***************************************************************************)
(* The worker's main loop, consume() in backend/cmd/worker/consume.go, run *)
(* by several worker processes of one consumer group: poll a batch, hand   *)
(* each record to the processor, remember the offsets that failed, and     *)
(* commit an offset only if no failed offset at or before it would be      *)
(* skipped (commitTracker).                                                *)
(*                                                                         *)
(* Here the processor is an environment that succeeds or fails at will;    *)
(* TranscodePipeline puts transcode.Service.Process in its place.          *)
(*                                                                         *)
(* External and modelled from its use: the Kafka client keeps the position *)
(* of its next fetch in memory (position), so a record that was polled and *)
(* not committed comes back only after the partition is assigned anew,     *)
(* which resets position to the committed offset.  A worker goes on with   *)
(* the batch it holds after its partition has moved to another worker.     *)
(*                                                                         *)
(* Abstractions: a batch holds records of one partition (the loop treats   *)
(* them one by one, and only the order within a partition matters to it);  *)
(* a failed Poll is a step only when it drops records (PollFails); the     *)
(* process exits on a signal or on a failed commit (Crash, CommitFails)    *)
(* and Start is its restart, with an empty tracker.                        *)
(***************************************************************************)
EXTENDS Deployment, Kafka, Faults

CONSTANT Invalid        \* the records that are not JSON of a transcode event

ASSUME NoPartitionAssumption == None \notin Partitions

VARIABLES assigned,     \* [Partitions -> Workers \cup {None}], by the group
          position,     \* next fetch of a partition's owner starts after it
          loop,         \* where each worker is in consume()
          batch,        \* the polled records not yet dealt with, and where
          failed,       \* failed[w][p]: commitTracker.failed of process w
          handled,      \* history: offsets whose processing ended well once
          dropped       \* history: offsets that a failed Poll fetched

consumerVars == <<assigned, position, loop, batch, failed, handled, dropped>>
loopVars == <<log, committed, assigned, position, loop, batch, failed, handled, dropped>>

NoBatch == [part |-> None, next |-> 0, last |-> 0]

Batch == [part : Partitions \cup {None}, next : Nat, last : Nat]

LoopState == {"down", "poll", "process", "decide"}

\* Offsets never run past the log, and a worker inside a batch is at one of
\* its records.
LoopTypeOK ==
  /\ KafkaTypeOK
  /\ assigned \in [Partitions -> Workers \cup {None}]
  /\ position \in [Partitions -> Nat]
  /\ loop \in [Workers -> LoopState]
  /\ batch \in [Workers -> Batch]
  /\ failed \in [Workers -> [Partitions -> SUBSET Nat]]
  /\ handled \in [Partitions -> SUBSET Nat]
  /\ dropped \in [Partitions -> SUBSET Nat]
  /\ \A p \in Partitions :
       /\ committed[p] <= Len(log[p])
       /\ position[p] <= Len(log[p])
       /\ handled[p] \cup dropped[p] \subseteq Offsets(p)
  /\ \A w \in Workers :
       IF loop[w] \in {"process", "decide"}
       THEN /\ batch[w].part \in Partitions
            /\ 1 <= batch[w].next
            /\ batch[w].next <= batch[w].last
            /\ batch[w].last <= Len(log[batch[w].part])
       ELSE batch[w] = NoBatch

LoopInit ==
  /\ KafkaInit
  /\ assigned = [p \in Partitions |-> None]
  /\ position = [p \in Partitions |-> 0]
  /\ loop = [w \in Workers |-> "poll"]
  /\ batch = [w \in Workers |-> NoBatch]
  /\ failed = [w \in Workers |-> [p \in Partitions |-> {}]]
  /\ handled = [p \in Partitions |-> {}]
  /\ dropped = [p \in Partitions |-> {}]

-----------------------------------------------------------------------------
(***************************************************************************)
(* The record a worker is at, and the tracker's three operations.          *)
(***************************************************************************)

Part(w) == batch[w].part
Offset(w) == batch[w].next
CurrentRecord(w) == log[Part(w)][Offset(w)]

markFailed(w) ==
  failed' = [failed EXCEPT ![w][Part(w)] = @ \cup {Offset(w)}]

\* Mutated: a success clears the whole partition.
markAllRecovered(w) ==
  failed' = [failed EXCEPT ![w][Part(w)] = {}]

markRecovered(w) ==
  failed' = [failed EXCEPT ![w][Part(w)] = @ \ {Offset(w)}]

\* Mutated: the loop before commitTracker.
blocksNothing(w) == FALSE

blocks(w) == \E f \in failed[w][Part(w)] : f <= Offset(w)

\* The for loop's next record, or the next Poll.
NextRecord(w) ==
  IF batch[w].next < batch[w].last
  THEN /\ batch' = [batch EXCEPT ![w].next = @ + 1]
       /\ loop' = [loop EXCEPT ![w] = "process"]
  ELSE /\ batch' = [batch EXCEPT ![w] = NoBatch]
       /\ loop' = [loop EXCEPT ![w] = "poll"]

-----------------------------------------------------------------------------
(***************************************************************************)
(* The loop.                                                               *)
(***************************************************************************)

\* Poll returns some of the records after the client's position.
Poll(w, p) ==
  /\ loop[w] = "poll"
  /\ assigned[p] = w
  /\ \E last \in (position[p] + 1)..Len(log[p]) :
       /\ batch' = [batch EXCEPT ![w] = [part |-> p, next |-> position[p] + 1, last |-> last]]
       /\ position' = [position EXCEPT ![p] = last]
  /\ loop' = [loop EXCEPT ![w] = "process"]
  /\ UNCHANGED <<log, committed, assigned, failed, handled, dropped>>

\* One of the fetches (another partition's, or one the client injects) carries
\* an error: Poll returns the error only, although the client has moved past
\* the records it fetched with it.
PollFails(w, p) ==
  /\ loop[w] = "poll"
  /\ assigned[p] = w
  /\ \E last \in (position[p] + 1)..Len(log[p]) :
       /\ dropped' = [dropped EXCEPT ![p] = @ \cup (position[p] + 1)..last]
       /\ position' = [position EXCEPT ![p] = last]
  /\ UNCHANGED <<log, committed, assigned, loop, batch, failed, handled>>

\* processor.Process returned an error: remember the offset, skip the record.
ProcessErr(w) ==
  /\ loop[w] = "process"
  /\ CurrentRecord(w) \notin Invalid
  /\ markFailed(w)
  /\ NextRecord(w)
  /\ UNCHANGED <<log, committed, assigned, position, handled, dropped>>

\* processor.Process returned nil: the offset no longer blocks a commit.
ProcessOk(w) ==
  /\ loop[w] = "process"
  /\ CurrentRecord(w) \notin Invalid
  /\ markRecovered(w)
  /\ handled' = [handled EXCEPT ![Part(w)] = @ \cup {Offset(w)}]
  /\ loop' = [loop EXCEPT ![w] = "decide"]
  /\ UNCHANGED <<log, committed, assigned, position, batch, dropped>>

\* A record that does not decode is dropped on purpose.
DiscardInvalid(w) ==
  /\ loop[w] = "process"
  /\ CurrentRecord(w) \in Invalid
  /\ handled' = [handled EXCEPT ![Part(w)] = @ \cup {Offset(w)}]
  /\ loop' = [loop EXCEPT ![w] = "decide"]
  /\ UNCHANGED <<log, committed, assigned, position, batch, failed, dropped>>

\* An earlier failure would be skipped: go on without a commit.
Withhold(w) ==
  /\ loop[w] = "decide"
  /\ blocks(w)
  /\ NextRecord(w)
  /\ UNCHANGED <<log, committed, assigned, position, failed, handled, dropped>>

Commit(w) ==
  /\ loop[w] = "decide"
  /\ ~blocks(w)
  /\ StoreOffset(Part(w), Offset(w))
  /\ NextRecord(w)
  /\ UNCHANGED <<assigned, position, failed, handled, dropped>>

\* The process ends: its memory is lost and the group takes its partitions.
Exit(w) ==
  /\ loop' = [loop EXCEPT ![w] = "down"]
  /\ batch' = [batch EXCEPT ![w] = NoBatch]
  /\ failed' = [failed EXCEPT ![w] = [p \in Partitions |-> {}]]
  /\ assigned' = [p \in Partitions |-> IF assigned[p] = w THEN None ELSE assigned[p]]
  /\ UNCHANGED <<log, position, handled, dropped>>

\* A failed commit ends the process; the broker may have stored the offset.
CommitFails(w) ==
  /\ loop[w] = "decide"
  /\ ~blocks(w)
  /\ committed' \in {committed, [committed EXCEPT ![Part(w)] = Offset(w)]}
  /\ Exit(w)

\* SIGTERM, SIGKILL, a lost machine: at any point of the loop.
Crash(w) ==
  /\ loop[w] # "down"
  /\ UNCHANGED committed
  /\ Exit(w)

\* The supervisor (restart: unless-stopped) starts the process again.
Start(w) ==
  /\ loop[w] = "down"
  /\ loop' = [loop EXCEPT ![w] = "poll"]
  /\ UNCHANGED <<log, committed, assigned, position, batch, failed, handled, dropped>>

\* The group gives a partition to a live worker, which starts at the
\* committed offset (ConsumeResetOffset: at the start, when there is none).
Assign(p, w) ==
  /\ loop[w] # "down"
  /\ assigned[p] # w
  /\ assigned' = [assigned EXCEPT ![p] = w]
  /\ position' = [position EXCEPT ![p] = committed[p]]
  /\ UNCHANGED <<log, committed, loop, batch, failed, handled, dropped>>

-----------------------------------------------------------------------------
\* A free partition is assigned as part of normal operation; taking one from
\* a live worker is a rebalance.
AssignFree(p, w) == assigned[p] = None /\ Assign(p, w)
Rebalance(p, w) == assigned[p] # None /\ Assign(p, w)

LoopStep(w) ==
  \/ \E p \in Partitions : Poll(w, p)
  \/ ProcessErr(w)
  \/ ProcessOk(w)
  \/ DiscardInvalid(w)
  \/ Withhold(w)
  \/ Commit(w)
  \/ Start(w)

\* A dispatcher publishes a record.
Arrival ==
  /\ \E p \in Partitions, r \in Records : Produce(p, r)
  /\ UNCHANGED consumerVars

LoopNormal ==
  \/ \E w \in Workers : LoopStep(w)
  \/ \E p \in Partitions, w \in Workers : AssignFree(p, w)
  \/ Arrival

LoopNext ==
  \/ LoopNormal
  \/ \E p \in Partitions, w \in Workers : PollFails(w, p) \/ Rebalance(p, w)
  \/ \E w \in Workers : CommitFails(w) \/ Crash(w)

\* Any number of faults.
LoopSpec == LoopInit /\ [][LoopNext]_loopVars

\* What TLC explores: a budget of faults of the chosen kinds.
BoundedLoopNext ==
  \/ NoFault /\ LoopNormal
  \/ Fault("poll") /\ \E w \in Workers, p \in Partitions : PollFails(w, p)
  \/ Fault("rebalance") /\ \E p \in Partitions, w \in Workers : Rebalance(p, w)
  \/ Fault("commit") /\ \E w \in Workers : CommitFails(w)
  \/ Fault("crash") /\ \E w \in Workers : Crash(w)

BoundedLoopInit == LoopInit /\ FaultsInit

BoundedLoopSpec == BoundedLoopInit /\ [][BoundedLoopNext]_<<loopVars, faults>>

-----------------------------------------------------------------------------
(***************************************************************************)
(* Properties.                                                             *)
(***************************************************************************)

\* consume.go's promise "不提交偏移": whatever the interleaving of failures,
\* rebalances, stale batches and restarts of several workers, the offset the
\* group resumes from never passes a record no worker has dealt with; one that
\* a failed Poll dropped is the exception, and the reason why delivery is not
\* "至少一次" (backend/README.md).
NothingSkipped ==
  \A p \in Partitions : 1..committed[p] \subseteq handled[p] \cup dropped[p]

\* Why NothingSkipped holds, as an inductive invariant.  What a worker has dealt
\* with is what anybody handled, what a failed Poll dropped and what it
\* remembers as failed.  Inside a batch, a worker has dealt with everything
\* before its record; the owner of a partition has dealt with everything it
\* fetched, the rest of its batch excepted.
InBatch(w) == loop[w] \in {"process", "decide"}

Dealt(w, p) == handled[p] \cup dropped[p] \cup failed[w][p]

BatchPrefixDealt ==
  \A w \in Workers :
    /\ InBatch(w) => \A i \in 1..(Offset(w) - 1) : i \in Dealt(w, Part(w))
    /\ loop[w] = "decide" => Offset(w) \in handled[Part(w)]

OwnerPrefixDealt ==
  \A w \in Workers, p \in Partitions :
    assigned[p] = w =>
      /\ loop[w] # "down"
      /\ \A i \in 1..position[p] :
           \/ i \in Dealt(w, p)
           \/ InBatch(w) /\ Part(w) = p /\ Offset(w) <= i /\ i <= batch[w].last

LoopInv ==
  /\ LoopTypeOK
  /\ NothingSkipped
  /\ BatchPrefixDealt
  /\ OwnerPrefixDealt

\* An offset that the owner of a partition holds against it lies after the
\* committed one, where a redelivery can still clear it ("同一条消息重投并处理
\* 成功后，它不再构成阻塞", consume.go): otherwise the owner withholds every
\* further commit of the partition with nothing left to retry.
TrackerCurrent ==
  \A w \in Workers, p \in Partitions :
    assigned[p] = w => \A f \in failed[w][p] : f > committed[p]
=============================================================================
