---------------------------- MODULE PipelineProofs ----------------------------
(***************************************************************************)
(* Theorems about the two halves of a worker process, about the outbox,    *)
(* and about the pipeline they make together, for any number of videos,    *)
(* workers, dispatchers, partitions, records, attempts and faults.         *)
(*                                                                         *)
(* Each part is proved about under its own specification: ConsumeLoop      *)
(* skips nothing, TranscodeJobs keeps its tables straight and implements   *)
(* VideoLifecycle, Outbox loses nothing it called published.  Every step   *)
(* of the pipeline is, for each of its three parts, a step of that part or *)
(* none of its business; so what is proved of the parts alone holds of the *)
(* pipeline.  On top of that come the invariants that need more than one   *)
(* part: no job is lost, and duplicates are paid for.                      *)
(***************************************************************************)
EXTENDS TranscodePipeline, FiniteSetTheorems, TLAPS

-----------------------------------------------------------------------------
(***************************************************************************)
(* The loop.                                                               *)
(***************************************************************************)

\* An empty log and idle consumers.
LEMMA LoopInitInv == LoopInit => LoopInv
<1> SUFFICES ASSUME LoopInit PROVE LoopInv
  OBVIOUS
<1> USE DEF LoopInit, KafkaInit
<1>1. LoopTypeOK
  BY DEF LoopTypeOK, KafkaTypeOK, LoopState, Batch, NoBatch, Offsets
<1>2. NothingSkipped
  BY DEF NothingSkipped
<1>3. BatchPrefixDealt
  BY DEF BatchPrefixDealt, InBatch
<1>4. OwnerPrefixDealt
  BY NoneAssumption DEF OwnerPrefixDealt
<1> QED
  BY <1>1, <1>2, <1>3, <1>4 DEF LoopInv

\* A fetch starts the batch at the position, up to which the owner has dealt
\* with every record.
LEMMA PollInv ==
  ASSUME LoopInv, NEW w \in Workers, NEW p \in Partitions, Poll(w, p)
  PROVE  LoopInv'
<1> USE DEF LoopInv, Poll
<1>1. LoopTypeOK'
  BY DEF LoopTypeOK, KafkaTypeOK, LoopState, Batch, NoBatch, Offsets
<1>2. NothingSkipped'
  BY DEF NothingSkipped
<1>3. BatchPrefixDealt'
  BY DEF BatchPrefixDealt, OwnerPrefixDealt, InBatch, Part, Offset, Dealt, LoopTypeOK, KafkaTypeOK,
     Batch, Offsets
<1>4. OwnerPrefixDealt'
  BY DEF BatchPrefixDealt, OwnerPrefixDealt, InBatch, Part, Offset, Dealt, LoopTypeOK, KafkaTypeOK,
     Batch, Offsets
<1> QED
  BY <1>1, <1>2, <1>3, <1>4

\* What NextRecord does, without its nested EXCEPTs.
LEMMA NextRecordFacts ==
  ASSUME LoopTypeOK, NEW w \in Workers, InBatch(w), NextRecord(w)
  PROVE  /\ loop' \in [Workers -> LoopState]
         /\ batch' \in [Workers -> Batch]
         /\ \A x \in Workers : x # w => batch'[x] = batch[x] /\ loop'[x] = loop[x]
         /\ \/ /\ loop'[w] = "process"
               /\ batch'[w].part = Part(w)
               /\ batch'[w].next = Offset(w) + 1
               /\ batch'[w].last = batch[w].last
               /\ Offset(w) < batch[w].last
            \/ /\ loop'[w] = "poll"
               /\ batch'[w] = NoBatch
               /\ Offset(w) = batch[w].last
<1>1. /\ batch \in [Workers -> Batch]
      /\ loop \in [Workers -> LoopState]
      /\ batch[w] \in Batch
      /\ Offset(w) <= batch[w].last
  BY DEF LoopTypeOK, InBatch, Offset
<1>2. CASE batch[w].next < batch[w].last
  <2>1. /\ batch' = [batch EXCEPT ![w].next = @ + 1]
        /\ loop' = [loop EXCEPT ![w] = "process"]
    BY <1>2 DEF NextRecord
  <2>2. batch' = [batch EXCEPT ![w] =
                    [part |-> Part(w), next |-> Offset(w) + 1, last |-> batch[w].last]]
    <3>1. batch'= [batch EXCEPT ![w] = [batch[w] EXCEPT !.next = batch[w].next + 1]]
      BY <2>1
    <3>2. [batch[w] EXCEPT !.next = batch[w].next + 1] =
            [part |-> Part(w), next |-> Offset(w) + 1, last |-> batch[w].last]
      BY <1>1 DEF Batch, Part, Offset
    <3>3. QED
      BY <3>1, <3>2
  <2>3. QED
    BY <1>1, <1>2, <2>1, <2>2 DEF Batch, LoopState, Part, Offset
<1>3. CASE ~(batch[w].next < batch[w].last)
  <2>1. /\ batch' = [batch EXCEPT ![w] = NoBatch]
        /\ loop' = [loop EXCEPT ![w] = "poll"]
    BY <1>3 DEF NextRecord
  <2>2. NoBatch \in Batch
    BY DEF NoBatch, Batch
  <2>3. Offset(w) = batch[w].last
    BY <1>1, <1>3 DEF Batch, Offset
  <2>4. QED
    BY <1>1, <2>1, <2>2, <2>3 DEF LoopState
<1> QED
  BY <1>2, <1>3

\* The loop goes on after a record that is dealt with: the worker's memory of
\* failures may have grown, the group's offset may have moved.
LEMMA NextRecordInv ==
  ASSUME LoopInv, NEW w \in Workers, InBatch(w), NextRecord(w),
         UNCHANGED <<log, assigned, position, handled, dropped>>,
         committed' \in [Partitions -> Nat],
         \A p \in Partitions : committed'[p] <= Len(log[p]),
         failed' \in [Workers -> [Partitions -> SUBSET Nat]],
         \A x \in Workers : x # w => failed'[x] = failed[x],
         \A p \in Partitions : failed[w][p] \subseteq failed'[w][p],
         Offset(w) \in handled[Part(w)] \cup failed'[w][Part(w)]
  PROVE  LoopTypeOK' /\ BatchPrefixDealt' /\ OwnerPrefixDealt'
<1>0. LoopTypeOK /\ BatchPrefixDealt /\ OwnerPrefixDealt
  BY DEF LoopInv
<1>n. /\ loop' \in [Workers -> LoopState]
      /\ batch' \in [Workers -> Batch]
      /\ \A x \in Workers : x # w => batch'[x] = batch[x] /\ loop'[x] = loop[x]
      /\ \/ /\ loop'[w] = "process"
            /\ batch'[w].part = Part(w)
            /\ batch'[w].next = Offset(w) + 1
            /\ batch'[w].last = batch[w].last
            /\ Offset(w) < batch[w].last
         \/ /\ loop'[w] = "poll"
            /\ batch'[w] = NoBatch
            /\ Offset(w) = batch[w].last
  BY <1>0, NextRecordFacts
<1>w. /\ Part(w) \in Partitions
      /\ Offset(w) \in Nat
      /\ 1 <= Offset(w)
      /\ batch[w].last \in Nat
      /\ batch[w].last <= Len(log[Part(w)])
  BY <1>0 DEF LoopTypeOK, InBatch, Batch, Part, Offset
<1>1. LoopTypeOK'
  <2>1. ASSUME NEW x \in Workers
        PROVE  IF loop'[x] \in {"process", "decide"}
               THEN /\ batch'[x].part \in Partitions
                    /\ 1 <= batch'[x].next
                    /\ batch'[x].next <= batch'[x].last
                    /\ batch'[x].last <= Len(log'[batch'[x].part])
               ELSE batch'[x] = NoBatch
    <3>1. CASE x = w
      BY <1>n, <1>w, <3>1
    <3>2. CASE x # w
      BY <1>0, <1>n, <3>2 DEF LoopTypeOK
    <3> QED
      BY <3>1, <3>2
  <2>2. KafkaTypeOK'
    BY <1>0 DEF LoopTypeOK, KafkaTypeOK
  <2> QED
    BY <1>0, <1>n, <2>1, <2>2 DEF LoopTypeOK, Offsets
<1>2. BatchPrefixDealt'
  <2> SUFFICES ASSUME NEW x \in Workers
               PROVE  /\ InBatch(x)' => \A i \in 1..(Offset(x)' - 1) : (i \in Dealt(x, Part(x)))'
                      /\ loop'[x] = "decide" => (Offset(x) \in handled[Part(x)])'
    BY DEF BatchPrefixDealt
  <2>1. CASE x # w
    BY <1>0, <1>n, <2>1 DEF BatchPrefixDealt, InBatch, Part, Offset, Dealt
  <2>2. CASE x = w
    <3>1. \A i \in 1..(Offset(w) - 1) : i \in Dealt(w, Part(w))
      BY <1>0 DEF BatchPrefixDealt
    <3>2. \A i \in 1..Offset(w) : i \in handled[Part(w)] \cup dropped[Part(w)] \cup failed'[w][Part(w)]
      BY <1>w, <3>1 DEF Dealt
    <3> QED
      BY <1>n, <1>w, <2>2, <3>2 DEF InBatch, Part, Offset, Dealt, NoBatch
  <2> QED
    BY <2>1, <2>2
<1>3. OwnerPrefixDealt'
  <2> SUFFICES ASSUME NEW x \in Workers, NEW p \in Partitions, assigned[p] = x
               PROVE  /\ loop'[x] # "down"
                      /\ \A i \in 1..position[p] :
                           \/ (i \in Dealt(x, p))'
                           \/ (InBatch(x) /\ Part(x) = p /\ Offset(x) <= i /\ i <= batch[x].last)'
    BY DEF OwnerPrefixDealt
  <2>1. CASE x # w
    BY <1>0, <1>n, <2>1 DEF OwnerPrefixDealt, InBatch, Part, Offset, Dealt
  <2>2. CASE x = w
    <3>1. position[p] \in Nat
      BY <1>0 DEF LoopTypeOK
    <3>2. ASSUME NEW i \in 1..position[p]
          PROVE  \/ (i \in Dealt(w, p))'
                 \/ (InBatch(w) /\ Part(w) = p /\ Offset(w) <= i /\ i <= batch[w].last)'
      <4>1. \/ i \in Dealt(w, p)
            \/ Part(w) = p /\ Offset(w) <= i /\ i <= batch[w].last
        BY <1>0, <2>2 DEF OwnerPrefixDealt
      <4>2. CASE i \in Dealt(w, p) \/ (i = Offset(w) /\ Part(w) = p)
        BY <4>2 DEF Dealt
      <4>3. CASE Part(w) = p /\ Offset(w) < i /\ i <= batch[w].last
        BY <1>n, <1>w, <3>1, <4>3 DEF InBatch, Part, Offset
      <4> QED
        BY <1>w, <3>1, <4>1, <4>2, <4>3
    <3> QED
      BY <1>n, <2>2, <3>2
  <2> QED
    BY <2>1, <2>2
<1> QED
  BY <1>1, <1>2, <1>3

\* A commit happens only when no earlier record of the partition failed: all
\* up to it is dealt with.
LEMMA CommitInv ==
  ASSUME LoopInv, NEW w \in Workers, Commit(w)
  PROVE  LoopInv'
<1>0. /\ LoopTypeOK
      /\ InBatch(w)
      /\ committed' = [committed EXCEPT ![Part(w)] = Offset(w)]
      /\ NextRecord(w)
      /\ UNCHANGED <<log, assigned, position, failed, handled, dropped>>
  BY DEF LoopInv, Commit, StoreOffset, InBatch
<1>1. LoopTypeOK' /\ BatchPrefixDealt' /\ OwnerPrefixDealt'
  <2>1. /\ committed' \in [Partitions -> Nat]
        /\ \A p \in Partitions : committed'[p] <= Len(log[p])
    BY <1>0 DEF LoopTypeOK, KafkaTypeOK, InBatch, Batch, Part, Offset
  <2>2. Offset(w) \in handled[Part(w)]
    BY DEF LoopInv, BatchPrefixDealt, Commit
  <2> QED
    BY <1>0, <2>1, <2>2, NextRecordInv DEF LoopTypeOK
<1>2. NothingSkipped'
  <2>1. \A i \in 1..Offset(w) : i \in handled[Part(w)] \cup dropped[Part(w)]
    BY DEF LoopInv, LoopTypeOK, BatchPrefixDealt, Commit, blocks, Part, Offset, Dealt, Batch, InBatch
  <2> QED
    BY <1>0, <2>1 DEF LoopInv, NothingSkipped, LoopTypeOK, KafkaTypeOK
<1> QED
  BY <1>1, <1>2 DEF LoopInv

\* A commit withheld leaves the committed offset alone.
LEMMA WithholdInv ==
  ASSUME LoopInv, NEW w \in Workers, Withhold(w)
  PROVE  LoopInv'
<1>0. /\ LoopTypeOK
      /\ InBatch(w)
      /\ NextRecord(w)
      /\ UNCHANGED <<log, committed, assigned, position, failed, handled, dropped>>
      /\ Offset(w) \in handled[Part(w)]
  BY DEF LoopInv, Withhold, InBatch, BatchPrefixDealt
<1>1. LoopTypeOK' /\ BatchPrefixDealt' /\ OwnerPrefixDealt'
  BY <1>0, NextRecordInv DEF LoopTypeOK, KafkaTypeOK
<1> QED
  BY <1>0, <1>1 DEF LoopInv, NothingSkipped

\* A failed record is remembered by the tracker before the loop goes on.
LEMMA ProcessErrInv ==
  ASSUME LoopInv, NEW w \in Workers, ProcessErr(w)
  PROVE  LoopInv'
<1>0. /\ LoopTypeOK
      /\ InBatch(w)
      /\ NextRecord(w)
      /\ failed' = [failed EXCEPT ![w][Part(w)] = @ \cup {Offset(w)}]
      /\ UNCHANGED <<log, committed, assigned, position, handled, dropped>>
  BY DEF LoopInv, ProcessErr, markFailed, InBatch
<1>1. Part(w) \in Partitions /\ Offset(w) \in Nat
  BY <1>0 DEF LoopTypeOK, InBatch, Batch, Part, Offset
<1>2. /\ failed' \in [Workers -> [Partitions -> SUBSET Nat]]
      /\ \A x \in Workers : x # w => failed'[x] = failed[x]
      /\ \A p \in Partitions : failed[w][p] \subseteq failed'[w][p]
      /\ Offset(w) \in failed'[w][Part(w)]
  BY <1>0, <1>1 DEF LoopTypeOK
<1>3. LoopTypeOK' /\ BatchPrefixDealt' /\ OwnerPrefixDealt'
  BY <1>0, <1>2, NextRecordInv DEF LoopTypeOK, KafkaTypeOK
<1> QED
  BY <1>0, <1>3 DEF LoopInv, NothingSkipped

\* A processed record is handled and no longer blocks the partition.
LEMMA ProcessOkInv ==
  ASSUME LoopInv, NEW w \in Workers, ProcessOk(w) \/ DiscardInvalid(w)
  PROVE  LoopInv'
<1>0. /\ LoopTypeOK /\ BatchPrefixDealt /\ OwnerPrefixDealt /\ NothingSkipped
      /\ loop[w] = "process"
      /\ loop' = [loop EXCEPT ![w] = "decide"]
      /\ handled' = [handled EXCEPT ![Part(w)] = @ \cup {Offset(w)}]
      /\ UNCHANGED <<log, committed, assigned, position, batch, dropped>>
  BY DEF LoopInv, ProcessOk, DiscardInvalid
<1>w. /\ Part(w) \in Partitions
      /\ Offset(w) \in Nat
      /\ Offset(w) \in Offsets(Part(w))
  BY <1>0 DEF LoopTypeOK, KafkaTypeOK, Batch, Part, Offset, Offsets
<1>f. /\ failed' \in [Workers -> [Partitions -> SUBSET Nat]]
      /\ \A x \in Workers, p \in Partitions :
           failed[x][p] \subseteq failed'[x][p] \cup handled'[p]
  <2>1. CASE ProcessOk(w)
    <3>1. failed' = [failed EXCEPT ![w][Part(w)] = @ \ {Offset(w)}]
      BY <2>1 DEF ProcessOk, markRecovered
    <3>2. failed' \in [Workers -> [Partitions -> SUBSET Nat]]
      BY <1>0, <1>w, <3>1 DEF LoopTypeOK
    <3>3. \A x \in Workers, p \in Partitions :
            failed'[x][p] = IF x = w /\ p = Part(w) THEN failed[x][p] \ {Offset(w)} ELSE failed[x][p]
      BY <1>0, <1>w, <3>1 DEF LoopTypeOK
    <3>4. \A p \in Partitions :
            handled'[p] = IF p = Part(w) THEN handled[p] \cup {Offset(w)} ELSE handled[p]
      BY <1>0, <1>w DEF LoopTypeOK
    <3> QED
      BY <3>2, <3>3, <3>4
  <2>2. CASE DiscardInvalid(w)
    BY <1>0, <2>2 DEF DiscardInvalid, LoopTypeOK
  <2> QED
    BY <2>1, <2>2, <1>0
<1>d. \A x \in Workers, p \in Partitions : Dealt(x, p) \subseteq Dealt(x, p)'
  BY <1>0, <1>w, <1>f DEF Dealt, LoopTypeOK
<1>h. /\ handled' \in [Partitions -> SUBSET Nat]
      /\ \A p \in Partitions : handled'[p] \cup dropped[p] \subseteq Offsets(p)
      /\ \A p \in Partitions : handled[p] \subseteq handled'[p]
  BY <1>0, <1>w DEF LoopTypeOK
<1>1. LoopTypeOK'
  <2>1. KafkaTypeOK' /\ loop' \in [Workers -> LoopState]
    BY <1>0 DEF LoopTypeOK, KafkaTypeOK, LoopState
  <2>2. \A x \in Workers : loop'[x] \in {"process", "decide"} <=> loop[x] \in {"process", "decide"}
    BY <1>0 DEF LoopTypeOK
  <2> QED
    BY <1>0, <1>f, <1>h, <2>1, <2>2 DEF LoopTypeOK, Offsets
<1>2. NothingSkipped'
  BY <1>0, <1>h DEF NothingSkipped
<1>3. BatchPrefixDealt'
  BY <1>0, <1>w, <1>d DEF BatchPrefixDealt, InBatch, Part, Offset, LoopTypeOK
<1>4. OwnerPrefixDealt'
  BY <1>0, <1>w, <1>d, SMTT(30) DEF OwnerPrefixDealt, InBatch, Part, Offset, LoopTypeOK
<1> QED
  BY <1>1, <1>2, <1>3, <1>4 DEF LoopInv

\* A failed poll counts what it discards as dropped.
LEMMA PollFailsInv ==
  ASSUME LoopInv, NEW w \in Workers, NEW p \in Partitions, PollFails(w, p)
  PROVE  LoopInv'
<1> USE DEF LoopInv, PollFails
<1>1. LoopTypeOK'
  BY DEF LoopTypeOK, KafkaTypeOK, LoopState, Batch, NoBatch, Offsets
<1>2. NothingSkipped'
  BY DEF NothingSkipped, LoopTypeOK
<1>3. BatchPrefixDealt'
  BY DEF BatchPrefixDealt, InBatch, Part, Offset, Dealt, LoopTypeOK
<1>4. OwnerPrefixDealt'
  BY DEF OwnerPrefixDealt, InBatch, Part, Offset, Dealt, LoopTypeOK, KafkaTypeOK
<1> QED
  BY <1>1, <1>2, <1>3, <1>4

\* A process that ends loses its batch, tracker and partitions, nothing else.
LEMMA ExitInv ==
  ASSUME LoopInv, NEW w \in Workers, Exit(w), NothingSkipped',
         committed' \in [Partitions -> Nat],
         \A p \in Partitions : committed'[p] <= Len(log[p])
  PROVE  LoopInv'
<1> USE DEF LoopInv, Exit
<1>1. LoopTypeOK'
  BY DEF LoopTypeOK, KafkaTypeOK, LoopState, Batch, NoBatch, Offsets
<1>2. BatchPrefixDealt'
  BY DEF BatchPrefixDealt, InBatch, Part, Offset, Dealt, LoopTypeOK
<1>3. OwnerPrefixDealt'
  BY NoneAssumption DEF OwnerPrefixDealt, InBatch, Part, Offset, Dealt, LoopTypeOK
<1> QED
  BY <1>1, <1>2, <1>3

\* A restarted process owns no partition and has an empty tracker.
LEMMA StartInv ==
  ASSUME LoopInv, NEW w \in Workers, Start(w)
  PROVE  LoopInv'
<1> USE DEF LoopInv, Start
<1>1. LoopTypeOK'
  BY DEF LoopTypeOK, KafkaTypeOK, LoopState, Offsets
<1>2. NothingSkipped'
  BY DEF NothingSkipped
<1>3. BatchPrefixDealt'
  BY DEF BatchPrefixDealt, InBatch, Part, Offset, Dealt, LoopTypeOK
<1>4. OwnerPrefixDealt'
  BY DEF OwnerPrefixDealt, InBatch, Part, Offset, Dealt, LoopTypeOK
<1> QED
  BY <1>1, <1>2, <1>3, <1>4

\* A new owner starts at the committed offset, below which everything is
\* dealt with.
LEMMA AssignInv ==
  ASSUME LoopInv, NEW w \in Workers, NEW p \in Partitions, Assign(p, w)
  PROVE  LoopInv'
<1> USE DEF LoopInv, Assign
<1>1. LoopTypeOK'
  BY DEF LoopTypeOK, KafkaTypeOK, LoopState, Offsets
<1>2. NothingSkipped'
  BY DEF NothingSkipped
<1>3. BatchPrefixDealt'
  BY DEF BatchPrefixDealt, InBatch, Part, Offset, Dealt, LoopTypeOK
<1>4. OwnerPrefixDealt'
  <2> SUFFICES ASSUME NEW x \in Workers, NEW q \in Partitions, assigned'[q] = x
               PROVE  /\ loop[x] # "down"
                      /\ \A i \in 1..position'[q] :
                           \/ i \in Dealt(x, q)
                           \/ InBatch(x) /\ Part(x) = q /\ Offset(x) <= i /\ i <= batch[x].last
    BY DEF OwnerPrefixDealt, InBatch, Part, Offset, Dealt
  <2>1. CASE q = p
    BY <2>1 DEF NothingSkipped, Dealt, LoopTypeOK
  <2>2. CASE q # p
    BY <2>2 DEF OwnerPrefixDealt, LoopTypeOK
  <2> QED
    BY <2>1, <2>2
<1> QED
  BY <1>1, <1>2, <1>3, <1>4

\* An arriving record is beyond every offset the invariant speaks of.
LEMMA ArrivalInv ==
  ASSUME LoopInv, Arrival
  PROVE  LoopInv'
<1>0. PICK p \in Partitions, r \in Records : Produce(p, r)
  BY DEF Arrival
<1>1. /\ log' \in [Partitions -> Seq(Records)]
      /\ \A q \in Partitions : Len(log[q]) <= Len(log'[q])
      /\ \A q \in Partitions : Len(log[q]) \in Nat /\ Len(log'[q]) \in Nat
  BY <1>0 DEF Produce, LoopInv, LoopTypeOK, KafkaTypeOK
<1>2. UNCHANGED <<committed, assigned, position, loop, batch, failed, handled, dropped>>
  BY <1>0 DEF Arrival, consumerVars, Produce
<1>3. LoopTypeOK'
  <2>1. KafkaTypeOK'
    BY <1>1, <1>2 DEF LoopInv, LoopTypeOK, KafkaTypeOK
  <2>2. \A q \in Partitions :
          /\ committed[q] <= Len(log'[q])
          /\ position[q] <= Len(log'[q])
          /\ handled[q] \cup dropped[q] \subseteq 1..Len(log'[q])
    BY <1>1 DEF LoopInv, LoopTypeOK, KafkaTypeOK, Offsets
  <2>3. \A x \in Workers :
          IF loop[x] \in {"process", "decide"}
          THEN /\ batch[x].part \in Partitions
               /\ 1 <= batch[x].next
               /\ batch[x].next <= batch[x].last
               /\ batch[x].last <= Len(log'[batch[x].part])
          ELSE batch[x] = NoBatch
    <3> SUFFICES ASSUME NEW x \in Workers, loop[x] \in {"process", "decide"}
                 PROVE  batch[x].last <= Len(log'[batch[x].part])
      BY DEF LoopInv, LoopTypeOK
    <3>1. /\ batch[x].last \in Nat
          /\ batch[x].part \in Partitions
          /\ batch[x].last <= Len(log[batch[x].part])
      BY DEF LoopInv, LoopTypeOK, Batch
    <3> QED
      BY <1>1, <3>1
  <2> QED
    BY <1>2, <2>1, <2>2, <2>3 DEF LoopInv, LoopTypeOK, Offsets
<1>4. BatchPrefixDealt'
  BY <1>2 DEF LoopInv, BatchPrefixDealt, InBatch, Part, Offset, Dealt
<1>5. OwnerPrefixDealt'
  BY <1>2 DEF LoopInv, OwnerPrefixDealt, InBatch, Part, Offset, Dealt
<1> QED
  BY <1>2, <1>3, <1>4, <1>5 DEF LoopInv, NothingSkipped

\* Every step of the loop, of the broker and of the producers preserves the
\* invariant.
LEMMA LoopNextInv == LoopInv /\ [LoopNext]_loopVars => LoopInv'
<1> SUFFICES ASSUME LoopInv, [LoopNext]_loopVars PROVE LoopInv'
  OBVIOUS
<1>1. ASSUME NEW w \in Workers, LoopStep(w) PROVE LoopInv'
  BY <1>1, PollInv, ProcessErrInv, ProcessOkInv, WithholdInv, CommitInv, StartInv DEF LoopStep
<1>2. ASSUME NEW p \in Partitions, NEW w \in Workers, AssignFree(p, w) \/ Rebalance(p, w)
      PROVE  LoopInv'
  BY <1>2, AssignInv DEF AssignFree, Rebalance
<1>3. ASSUME NEW w \in Workers, CommitFails(w) PROVE LoopInv'
  <2>0. PICK c \in {committed, [committed EXCEPT ![Part(w)] = Offset(w)]} : committed' = c
    BY <1>3 DEF CommitFails
  <2>1. /\ loop[w] = "decide"
        /\ ~blocks(w)
        /\ Exit(w)
        /\ LoopTypeOK /\ NothingSkipped /\ BatchPrefixDealt
        /\ UNCHANGED <<log, handled, dropped>>
    BY <1>3 DEF CommitFails, Exit, LoopInv
  <2>2. Part(w) \in Partitions /\ Offset(w) \in Nat /\ Offset(w) <= Len(log[Part(w)])
    BY <2>1 DEF LoopTypeOK, KafkaTypeOK, Batch, Part, Offset
  <2>3. /\ committed' \in [Partitions -> Nat]
        /\ \A p \in Partitions : committed'[p] <= Len(log[p])
    BY <2>0, <2>1, <2>2 DEF LoopTypeOK, KafkaTypeOK
  <2>4. \A i \in 1..Offset(w) : i \in handled[Part(w)] \cup dropped[Part(w)]
    BY <2>1 DEF LoopTypeOK, BatchPrefixDealt, blocks, Part, Offset, Dealt, Batch, InBatch
  <2>5. NothingSkipped'
    BY <2>0, <2>1, <2>4 DEF NothingSkipped, LoopTypeOK, KafkaTypeOK
  <2> QED
    BY <2>1, <2>3, <2>5, ExitInv
<1>4. ASSUME NEW w \in Workers, Crash(w) PROVE LoopInv'
  <2>1. /\ Exit(w)
        /\ UNCHANGED <<log, committed, handled, dropped>>
    BY <1>4 DEF Crash, Exit
  <2>2. /\ NothingSkipped'
        /\ committed' \in [Partitions -> Nat]
        /\ \A p \in Partitions : committed'[p] <= Len(log[p])
    BY <2>1 DEF LoopInv, NothingSkipped, LoopTypeOK, KafkaTypeOK
  <2> QED
    BY <2>1, <2>2, ExitInv
<1>5. CASE UNCHANGED loopVars
  BY <1>5 DEF loopVars, LoopInv, LoopTypeOK, KafkaTypeOK, NothingSkipped, BatchPrefixDealt,
              OwnerPrefixDealt, InBatch, Part, Offset, Dealt, Offsets
<1> QED
  BY <1>1, <1>2, <1>3, <1>4, <1>5, PollFailsInv, ArrivalInv DEF LoopNext, LoopNormal

-----------------------------------------------------------------------------
\* For any number of partitions, workers, records and faults, in any order: the
\* state of the loop is well formed (a worker in a batch is at a record of the
\* log), and what a worker fetched, failed and finished fits together.
THEOREM LoopInvariant == LoopSpec => []LoopInv
<1>1. LoopInit => LoopInv
  BY LoopInitInv
<1>2. LoopInv /\ [LoopNext]_loopVars => LoopInv'
  BY LoopNextInv
<1> QED
  BY <1>1, <1>2, PTL DEF LoopSpec

\* Offsets stay within the log.
THEOREM LoopTypeCorrect == LoopSpec => []LoopTypeOK
<1>1. LoopInv => LoopTypeOK
  BY DEF LoopInv
<1> QED
  BY <1>1, LoopInvariant, PTL

\* The committed offset of a partition never passes a record that no worker has
\* dealt with, failed Polls excepted: consume()'s "不提交偏移" is kept.
THEOREM NothingIsSkipped == LoopSpec => []NothingSkipped
<1>1. LoopInv => NothingSkipped
  BY DEF LoopInv
<1> QED
  BY <1>1, LoopInvariant, PTL

\* The instances that TLC explores are behaviours of LoopSpec.
THEOREM BoundedLoop == BoundedLoopSpec => LoopSpec
<1>1. [BoundedLoopNext]_<<loopVars, faults>> => [LoopNext]_loopVars
  BY DEF BoundedLoopNext, LoopNext, loopVars
<1> QED
  BY <1>1, PTL DEF BoundedLoopSpec, BoundedLoopInit, LoopSpec

-----------------------------------------------------------------------------
(***************************************************************************)
(* The jobs.                                                               *)
(***************************************************************************)

\* Setting fields of a job gives a job.
LEMMA JobFields ==
  ASSUME NEW j \in Job
  PROVE  /\ \A s \in JobStatus : [j EXCEPT !.status = s] \in Job
         /\ [j EXCEPT !.due = TRUE] \in Job
         /\ [j EXCEPT !.stale = TRUE] \in Job
         /\ [j EXCEPT !.status = "pending", !.due = FALSE, !.worker = None] \in Job
         /\ \A n \in 0..MaxAttempts, id \in IDs :
              [j EXCEPT !.status = "running", !.attempts = n, !.worker = id, !.stale = FALSE] \in Job
BY DEF Job, JobStatus

\* Empty tables agree.
LEMMA JobsInitInv == JobsInit => TablesInv
<1> SUFFICES ASSUME JobsInit PROVE TablesInv
  OBVIOUS
<1> USE DEF JobsInit, NoJob, NewJob, Idle, At
<1>1. JobsTypeOK
  BY JobsAssumption DEF JobsTypeOK, VideoStatus, Job, JobStatus, Attempt
<1>2. JobVideoAgree /\ PublishedAgree /\ ProgressAgree
  BY DEF JobVideoAgree, PublishedAgree, ProgressAgree
<1> QED
  BY <1>1, <1>2 DEF TablesInv

\* The author registers an upload.
LEMMA CreateInv ==
  ASSUME TablesInv, NEW v \in Videos, Create(v)
  PROVE  TablesInv'
<1> USE DEF TablesInv, Create
<1>1. JobsTypeOK'
  BY DEF JobsTypeOK, VideoStatus
<1>2. JobVideoAgree'
  BY DEF JobVideoAgree, JobsTypeOK
<1>3. PublishedAgree' /\ ProgressAgree'
  BY DEF PublishedAgree, ProgressAgree, JobsTypeOK
<1> QED
  BY <1>1, <1>2, <1>3

\* A submission creates the job together with the new status.
LEMMA BeginProcessingInv ==
  ASSUME TablesInv, NEW v \in Videos, BeginProcessing(v)
  PROVE  TablesInv'
<1> USE DEF TablesInv, BeginProcessing
<1>1. JobsTypeOK'
  <2>1. NewJob \in Job
    BY JobsAssumption DEF NewJob, Job, JobStatus
  <2>2. job' \in [Videos -> Job]
    BY <2>1 DEF JobsTypeOK
  <2> QED
    BY <2>2 DEF JobsTypeOK, VideoStatus
<1>2. JobVideoAgree'
  BY DEF JobVideoAgree, JobsTypeOK, NoJob, NewJob
<1>3. PublishedAgree' /\ ProgressAgree'
  BY DEF PublishedAgree, ProgressAgree, JobsTypeOK
<1> QED
  BY <1>1, <1>2, <1>3

\* Showing or hiding a video dates it only when it is ready.
LEMMA UpdateOwnedInv ==
  ASSUME TablesInv, NEW v \in Videos, NEW visible \in BOOLEAN, UpdateOwned(v, visible)
  PROVE  TablesInv'
<1> USE DEF TablesInv, UpdateOwned, Dated
<1>1. JobsTypeOK'
  BY DEF JobsTypeOK
<1>2. JobVideoAgree'
  BY DEF JobVideoAgree, JobsTypeOK
<1>3. PublishedAgree' /\ ProgressAgree'
  BY DEF PublishedAgree, ProgressAgree, JobsTypeOK
<1> QED
  BY <1>1, <1>2, <1>3

\* A deletion leaves the job alone.
LEMMA DeleteOwnedInv ==
  ASSUME TablesInv, NEW v \in Videos, DeleteOwned(v)
  PROVE  TablesInv'
<1> USE DEF TablesInv, DeleteOwned
<1>1. JobsTypeOK'
  BY DEF JobsTypeOK, VideoStatus
<1>2. JobVideoAgree'
  BY DEF JobVideoAgree, JobsTypeOK
<1>3. PublishedAgree' /\ ProgressAgree'
  BY DEF PublishedAgree, ProgressAgree, JobsTypeOK
<1> QED
  BY <1>1, <1>2, <1>3

\* A claim changes a live job into a running one.
LEMMA ClaimInv ==
  ASSUME TablesInv, NEW w \in Workers, NEW v \in Videos, Claim(w, v)
  PROVE  TablesInv'
<1> USE DEF TablesInv, Claim, Claimed, Claimable, WithinBudget
<1>1. JobsTypeOK'
  <2>1. job[v] \in Job /\ job[v].attempts \in 0..MaxAttempts /\ MaxAttempts \in Nat
    BY JobsAssumption DEF JobsTypeOK, Job
  <2>2. job[v].attempts + 1 \in 0..MaxAttempts /\ WorkerID[w] \in IDs
    BY <2>1 DEF IDs
  <2>3. Claimed(w, v) \in Job
    BY <2>1, <2>2, JobFields
  <2>4. At("claimed", v) \in Attempt
    BY JobsAssumption DEF Idle, At, Attempt
  <2>5. job' \in [Videos -> Job] /\ attempt' \in [Workers -> Attempt]
    BY <2>3, <2>4 DEF JobsTypeOK
  <2> QED
    BY <2>5 DEF JobsTypeOK, videoVars, At
<1>2. JobVideoAgree'
  BY DEF JobVideoAgree, JobsTypeOK, Job, videoVars, NoJob
<1>3. PublishedAgree' /\ ProgressAgree'
  BY DEF PublishedAgree, ProgressAgree, videoVars
<1> QED
  BY <1>1, <1>2, <1>3

\* Succeed changes the job and the video together.
LEMMA SucceedInv ==
  ASSUME TablesInv, NEW w \in Workers, Succeed(w)
  PROVE  TablesInv'
<1> USE DEF TablesInv, Succeed, CanEnd, Working, InProcessing, EndAttempt
<1>1. JobsTypeOK'
  <2>1. attempt[w].video \in Videos /\ job[attempt[w].video] \in Job
    BY DEF JobsTypeOK
  <2>2. job' \in [Videos -> Job]
    BY <2>1, JobFields DEF JobsTypeOK, JobStatus
  <2>3. Idle \in Attempt
    BY JobsAssumption DEF Idle, At, Attempt
  <2> QED
    BY <2>1, <2>2, <2>3 DEF JobsTypeOK, VideoStatus, Idle, At
<1>2. JobVideoAgree'
  BY DEF JobVideoAgree, JobsTypeOK, Job, NoJob
<1>3. PublishedAgree' /\ ProgressAgree'
  BY DEF PublishedAgree, ProgressAgree, JobsTypeOK
<1> QED
  BY <1>1, <1>2, <1>3

\* What the tables' invariants see of a job: a step on one job that leaves its
\* status, or moves it within the unfinished ones, and no video, keeps them.
LEMMA JobStepInv ==
  ASSUME TablesInv, NEW v \in Videos, NEW j \in Job,
         job' = [job EXCEPT ![v] = j],
         job[v].status # "none",
         j.status = job[v].status
           \/ {j.status, job[v].status} \subseteq {"pending", "queued", "running"},
         attempt' \in [Workers -> Attempt],
         \A x \in Workers : attempt'[x].pc # "idle" => attempt'[x].video \in Videos,
         UNCHANGED videoVars
  PROVE  TablesInv'
<1> USE DEF TablesInv, videoVars
<1>1. JobsTypeOK'
  BY DEF JobsTypeOK
<1>2. JobVideoAgree'
  BY DEF JobVideoAgree, JobsTypeOK, NoJob
<1>3. PublishedAgree' /\ ProgressAgree'
  BY DEF PublishedAgree, ProgressAgree
<1> QED
  BY <1>1, <1>2, <1>3

\* A step that only moves an attempt keeps them.
LEMMA AttemptStepInv ==
  ASSUME TablesInv, NEW w \in Workers, NEW a \in Attempt,
         a.pc # "idle" => a.video \in Videos,
         attempt' = [attempt EXCEPT ![w] = a],
         UNCHANGED <<videoVars, job>>
  PROVE  TablesInv'
BY DEF TablesInv, videoVars, JobsTypeOK, JobVideoAgree, PublishedAgree, ProgressAgree

\* The idle attempt is well formed.
LEMMA IdleIsAttempt == Idle \in Attempt /\ Idle.pc = "idle"
BY JobsAssumption DEF Idle, At, Attempt

\* Time passing, and the note that the event was published.
LEMMA TimeInv ==
  ASSUME TablesInv, NEW v \in Videos, RetryDue(v) \/ JobStale(v) \/ MarkQueued(v)
  PROVE  TablesInv'
<1>0. JobsTypeOK /\ job[v] \in Job
  BY DEF TablesInv, JobsTypeOK
<1>1. CASE RetryDue(v)
  <2>1. [job[v] EXCEPT !.due = TRUE] \in Job
    BY <1>0, JobFields
  <2>2. [job[v] EXCEPT !.due = TRUE].status = job[v].status
    BY <1>0 DEF Job
  <2> QED
    BY <1>0, <1>1, <2>1, <2>2, JobStepInv DEF RetryDue, JobsTypeOK
<1>2. CASE JobStale(v)
  <2>1. [job[v] EXCEPT !.stale = TRUE] \in Job
    BY <1>0, JobFields
  <2>2. [job[v] EXCEPT !.stale = TRUE].status = job[v].status
    BY <1>0 DEF Job
  <2> QED
    BY <1>0, <1>2, <2>1, <2>2, JobStepInv DEF JobStale, JobsTypeOK
<1>3. CASE MarkQueued(v)
  <2>1. CASE job[v].status = "pending"
    <3>1. [job[v] EXCEPT !.status = "queued"] \in Job
      BY <1>0, JobFields DEF JobStatus
    <3>2. [job[v] EXCEPT !.status = "queued"].status = "queued"
      BY <1>0 DEF Job
    <3>3. job' = [job EXCEPT ![v] = [job[v] EXCEPT !.status = "queued"]]
      BY <1>3, <2>1 DEF MarkQueued
    <3> QED
      BY <1>0, <1>3, <2>1, <3>1, <3>2, <3>3, JobStepInv DEF MarkQueued, JobsTypeOK
  <2>2. CASE job[v].status # "pending"
    <3>1. job' = job
      BY <1>0, <1>3, <2>2 DEF MarkQueued, JobsTypeOK, Job
    <3> QED
      BY <1>3, <3>1 DEF MarkQueued, TablesInv, videoVars, JobsTypeOK, JobVideoAgree,
                        PublishedAgree, ProgressAgree
  <2> QED
    BY <2>1, <2>2
<1> QED
  BY <1>1, <1>2, <1>3

\* An attempt that ends and writes nothing.
LEMMA EndAttemptInv ==
  ASSUME TablesInv, NEW w \in Workers, EndAttempt(w), UNCHANGED <<videoVars, job>>
  PROVE  TablesInv'
BY AttemptStepInv, IdleIsAttempt DEF EndAttempt

\* The read after the claim.
LEMMA LoadClaimedInv ==
  ASSUME TablesInv, NEW w \in Workers, LoadClaimed(w)
  PROVE  TablesInv'
<1>1. attempt[w] \in Attempt /\ attempt[w].video \in Videos
  BY DEF TablesInv, JobsTypeOK, LoadClaimed
<1>2. job[attempt[w].video].attempts \in 0..MaxAttempts
  BY <1>1 DEF TablesInv, JobsTypeOK, Job
<1> DEFINE a == [attempt[w] EXCEPT !.pc = "work", !.n = job[attempt[w].video].attempts]
<1>3. a \in Attempt /\ a.video \in Videos
  BY <1>1, <1>2 DEF Attempt
<1>4. attempt' = [attempt EXCEPT ![w] = a]
  BY DEF LoadClaimed, TablesInv, JobsTypeOK
<1> QED
  BY <1>3, <1>4, AttemptStepInv DEF LoadClaimed

\* A claim that updates no row.
LEMMA ClaimMissesInv ==
  ASSUME TablesInv, NEW w \in Workers, NEW v \in Videos, ClaimMisses(w, v)
  PROVE  TablesInv'
<1>1. At("missed", v) \in Attempt /\ At("missed", v).video = v
  BY JobsAssumption DEF At, Attempt
<1> QED
  BY <1>1, AttemptStepInv DEF ClaimMisses

\* A member of a sequence is one of its set.
LEMMA MemberOfSeq ==
  ASSUME NEW S, NEW s \in Seq(S), NEW i \in 1..Len(s)
  PROVE  s[i] \in S
OBVIOUS

\* Progress is stored only while the video is in processing, and is below
\* 100.
LEMMA UpdateProgressInv ==
  ASSUME TablesInv, NEW w \in Workers, UpdateProgress(w)
  PROVE  TablesInv'
<1> DEFINE v == attempt[w].video
<1>0. /\ attempt[w] \in Attempt /\ v \in Videos
      /\ attempt[w].stage < Len(Milestones)
      /\ video[v] = "processing"
      /\ progress' = [progress EXCEPT ![v] = Milestones[attempt[w].stage + 1]]
      /\ UNCHANGED <<video, public, published, job>>
  BY DEF TablesInv, JobsTypeOK, UpdateProgress, Working, InProcessing
<1>1. Milestones[attempt[w].stage + 1] \in 1..99
  <2>1. attempt[w].stage \in Nat /\ Milestones \in Seq(1..99)
    BY <1>0, JobsAssumption DEF Attempt
  <2>2. attempt[w].stage + 1 \in 1..Len(Milestones)
    BY <1>0, <2>1
  <2> QED
    BY <2>1, <2>2, MemberOfSeq
<1>2. attempt' \in [Workers -> Attempt]
      /\ \A x \in Workers : attempt'[x].pc = attempt[x].pc /\ attempt'[x].video = attempt[x].video
  <2> DEFINE a == [attempt[w] EXCEPT !.stage = attempt[w].stage + 1]
  <2>1. a \in Attempt /\ a.pc = attempt[w].pc /\ a.video = attempt[w].video
    BY <1>0, JobsAssumption DEF Attempt
  <2>2. attempt' = [attempt EXCEPT ![w] = a]
    BY DEF UpdateProgress
  <2> QED
    BY <2>1, <2>2 DEF TablesInv, JobsTypeOK
<1>3. progress' \in [Videos -> 0..100]
  BY <1>0, <1>1 DEF TablesInv, JobsTypeOK
<1>4. JobsTypeOK'
  BY <1>0, <1>2, <1>3 DEF TablesInv, JobsTypeOK
<1>5. JobVideoAgree' /\ PublishedAgree'
  BY <1>0 DEF TablesInv, JobVideoAgree, PublishedAgree
<1>6. ProgressAgree'
  <2>1. /\ progress'[v] \in 1..99
        /\ \A u \in Videos : u # v => progress'[u] = progress[u]
    BY <1>0, <1>1 DEF TablesInv, JobsTypeOK
  <2>2. ASSUME NEW u \in Videos
        PROVE  /\ video'[u] = "ready" => progress'[u] = 100
               /\ video'[u] = "processing" => progress'[u] < 100
               /\ video'[u] = "failed" => progress'[u] = 0
    <3>1. CASE u = v
      <4>1. video'[u] = "processing"
        BY <1>0, <3>1
      <4>2. progress'[u] \in 1..99
        BY <2>1, <3>1
      <4>3. progress'[u] < 100
        BY <4>2
      <4> QED
        BY <4>1, <4>3
    <3>2. CASE u # v
      BY <1>0, <2>1, <3>2 DEF TablesInv, ProgressAgree
    <3> QED
      BY <3>1, <3>2
  <2> QED
    BY <2>2 DEF ProgressAgree
<1> QED
  BY <1>4, <1>5, <1>6 DEF TablesInv

\* The last failure fails the job, and the video if it is still in
\* processing.
LEMMA FailForGoodInv ==
  ASSUME TablesInv, NEW w \in Workers, FailForGood(w)
  PROVE  TablesInv'
<1> DEFINE v == attempt[w].video
<1>0. /\ JobsTypeOK /\ JobVideoAgree /\ PublishedAgree /\ ProgressAgree
      /\ v \in Videos /\ job[v] \in Job
      /\ job[v].status = "running"
      /\ job' = [job EXCEPT ![v] = [job[v] EXCEPT !.status = "failed"]]
      /\ attempt' = [attempt EXCEPT ![w] = Idle]
      /\ UNCHANGED <<public, published>>
  BY DEF TablesInv, JobsTypeOK, FailForGood, Failing, Working, EndAttempt
<1>1. /\ job' \in [Videos -> Job]
      /\ job'[v].status = "failed"
      /\ \A u \in Videos : u # v => job'[u] = job[u]
  <2>1. [job[v] EXCEPT !.status = "failed"] \in Job
    BY <1>0, JobFields DEF JobStatus
  <2>2. [job[v] EXCEPT !.status = "failed"].status = "failed"
    BY <1>0 DEF Job
  <2> QED
    BY <1>0, <2>1, <2>2 DEF JobsTypeOK
<1>2. CASE video[v] = "processing"
  <2>1. /\ video' = [video EXCEPT ![v] = "failed"]
        /\ progress' = [progress EXCEPT ![v] = 0]
    BY <1>2 DEF FailForGood, FailVideo, InProcessing
  <2>2. JobsTypeOK'
    BY <1>0, <1>1, <2>1, IdleIsAttempt DEF JobsTypeOK, VideoStatus
  <2>3. JobVideoAgree'
    BY <1>0, <1>1, <2>1 DEF JobVideoAgree, JobsTypeOK
  <2>4. PublishedAgree' /\ ProgressAgree'
    BY <1>0, <1>2, <2>1 DEF PublishedAgree, ProgressAgree, JobsTypeOK
  <2> QED
    BY <2>2, <2>3, <2>4 DEF TablesInv
<1>3. CASE video[v] # "processing"
  <2>1. UNCHANGED <<video, progress>>
    BY <1>3 DEF FailForGood, InProcessing
  <2>2. JobsTypeOK'
    BY <1>0, <1>1, <2>1, IdleIsAttempt DEF JobsTypeOK
  <2>3. JobVideoAgree'
    BY <1>0, <1>1, <1>3, <2>1 DEF JobVideoAgree, JobsTypeOK
  <2>4. PublishedAgree' /\ ProgressAgree'
    BY <1>0, <2>1 DEF PublishedAgree, ProgressAgree
  <2> QED
    BY <2>2, <2>3, <2>4 DEF TablesInv
<1> QED
  BY <1>2, <1>3

\* A failure with attempts left puts the job back.
LEMMA FailForRetryInv ==
  ASSUME TablesInv, NEW w \in Workers, FailForRetry(w)
  PROVE  TablesInv'
<1> DEFINE v == attempt[w].video
           j == [job[v] EXCEPT !.status = "pending", !.due = FALSE, !.worker = None]
<1>0. /\ JobsTypeOK /\ v \in Videos /\ job[v] \in Job
      /\ job[v].status = "running"
      /\ job' = [job EXCEPT ![v] = j]
      /\ attempt' = [attempt EXCEPT ![w] = Idle]
      /\ UNCHANGED videoVars
  BY DEF TablesInv, JobsTypeOK, FailForRetry, Failing, Working, EndAttempt
<1>1. j \in Job /\ j.status = "pending"
  BY <1>0, JobFields DEF Job
<1>2. /\ attempt' \in [Workers -> Attempt]
      /\ \A x \in Workers : attempt'[x].pc # "idle" => attempt'[x].video \in Videos
  BY <1>0, IdleIsAttempt DEF JobsTypeOK
<1> QED
  BY <1>0, <1>1, <1>2, JobStepInv

\* Every step preserves the four invariants.
LEMMA JobsNextInv == TablesInv /\ [JobsNext]_jobsVars => TablesInv'
<1> SUFFICES ASSUME TablesInv, [JobsNext]_jobsVars PROVE TablesInv'
  OBVIOUS
<1>1. CASE UNCHANGED jobsVars
  BY <1>1 DEF jobsVars, TablesInv, JobsTypeOK, JobVideoAgree, PublishedAgree, ProgressAgree
<1>2. ASSUME NEW w \in Workers,
             \/ AlreadyProcessed(w) \/ ClaimRefused(w) \/ EndConflict(w)
             \/ Abort(w)
      PROVE  TablesInv'
  BY <1>2, EndAttemptInv DEF AlreadyProcessed, ClaimRefused, EndConflict, Abort
<1> QED
  BY <1>1, <1>2, CreateInv, BeginProcessingInv, UpdateOwnedInv, DeleteOwnedInv, TimeInv, ClaimInv,
     ClaimMissesInv, LoadClaimedInv, UpdateProgressInv, SucceedInv, FailForGoodInv, FailForRetryInv
     DEF JobsNext

-----------------------------------------------------------------------------
\* However the workers are named and however many of them work on one job:
\* the tables are well formed and agree.
THEOREM TablesInvariant == JobsSpec => []TablesInv
<1> QED
  BY JobsInitInv, JobsNextInv, PTL DEF JobsSpec

\* In particular, whatever Claim, Fail and the author's requests do to a row, its
\* attempts stay within max_attempts and its progress within 0..100.
THEOREM JobsTypeCorrect == JobsSpec => []JobsTypeOK
<1>1. TablesInv => JobsTypeOK
  BY DEF TablesInv
<1> QED
  BY <1>1, TablesInvariant, PTL

\* A video's outcome is its job's, whatever late or concurrent attempt or
\* deletion comes in between.
THEOREM JobAndVideoAgree == JobsSpec => []JobVideoAgree
<1>1. TablesInv => JobVideoAgree
  BY DEF TablesInv
<1> QED
  BY <1>1, TablesInvariant, PTL

\* A listed video has its date of publication; only a video that was ready has.
THEOREM PublicationAgrees == JobsSpec => []PublishedAgree
<1>1. TablesInv => PublishedAgree
  BY DEF TablesInv
<1> QED
  BY <1>1, TablesInvariant, PTL

\* Progress fits the status.
THEOREM ProgressAgrees == JobsSpec => []ProgressAgree
<1>1. TablesInv => ProgressAgree
  BY DEF TablesInv
<1> QED
  BY <1>1, TablesInvariant, PTL

-----------------------------------------------------------------------------
(***************************************************************************)
(* Jobs only advance.                                                      *)
(***************************************************************************)

\* A step that changes one unfinished job and gives no attempt back.
LEMMA OneJobAdvances ==
  ASSUME JobsTypeOK, NEW v \in Videos, ~Finished(v),
         \A u \in Videos \ {v} : job'[u] = job[u],
         job'[v].attempts \in {job[v].attempts, job[v].attempts + 1}
  PROVE  \A u \in Videos : JobAdvances(u)
<1>1. \A u \in Videos : job[u].attempts \in Nat
  BY DEF JobsTypeOK, Job
<1>2. JobAdvances(v)
  BY <1>1 DEF JobAdvances
<1>3. \A u \in Videos \ {v} : JobAdvances(u)
  BY <1>1 DEF JobAdvances
<1> QED
  BY <1>2, <1>3

\* A step that changes no job.
LEMMA SameJobsAdvance ==
  ASSUME JobsTypeOK, job' = job
  PROVE  \A u \in Videos : JobAdvances(u)
<1>1. \A u \in Videos : job[u].attempts \in Nat
  BY DEF JobsTypeOK, Job
<1> QED
  BY <1>1 DEF JobAdvances

\* No action changes a finished job or gives an attempt back.
LEMMA JobsAdvance ==
  ASSUME TablesInv, JobsNext
  PROVE  \A u \in Videos : JobAdvances(u)
<1>0. /\ JobsTypeOK
      /\ \A v \in Videos : job[v] \in Job
      /\ \A v \in Videos : job[v].attempts \in Nat
      /\ \A w \in Workers : attempt[w].pc # "idle" => attempt[w].video \in Videos
      /\ DOMAIN job = Videos
  BY DEF TablesInv, JobsTypeOK, Job
<1>1. ASSUME NEW v \in Videos, BeginProcessing(v)
      PROVE  \A u \in Videos : JobAdvances(u)
  <2>1. job[v] = NoJob /\ job' = [job EXCEPT ![v] = NewJob]
    BY <1>1 DEF BeginProcessing, TablesInv, JobVideoAgree
  <2>2. ~Finished(v) /\ job'[v].attempts = job[v].attempts
    BY <1>0, <2>1 DEF Finished, NoJob, NewJob
  <2> QED
    BY <1>0, <2>1, <2>2, OneJobAdvances
<1>2. ASSUME NEW v \in Videos, RetryDue(v) \/ JobStale(v) \/ MarkQueued(v)
      PROVE  \A u \in Videos : JobAdvances(u)
  <2>1. CASE RetryDue(v)
    <3>1. /\ ~Finished(v)
          /\ job'[v].attempts = job[v].attempts
          /\ \A u \in Videos \ {v} : job'[u] = job[u]
      BY <1>0, <2>1 DEF RetryDue, Finished, Job
    <3> QED
      BY <1>0, <3>1, OneJobAdvances
  <2>2. CASE JobStale(v)
    <3>1. /\ ~Finished(v)
          /\ job'[v].attempts = job[v].attempts
          /\ \A u \in Videos \ {v} : job'[u] = job[u]
      BY <1>0, <2>2 DEF JobStale, Finished, Job
    <3> QED
      BY <1>0, <3>1, OneJobAdvances
  <2>3. CASE MarkQueued(v) /\ job[v].status = "pending"
    <3>1. /\ ~Finished(v)
          /\ job'[v].attempts = job[v].attempts
          /\ \A u \in Videos \ {v} : job'[u] = job[u]
      BY <1>0, <2>3 DEF MarkQueued, Finished, Job
    <3> QED
      BY <1>0, <3>1, OneJobAdvances
  <2>4. CASE MarkQueued(v) /\ job[v].status # "pending"
    <3>1. job' = job
      BY <1>0, <2>4 DEF MarkQueued, JobsTypeOK, Job
    <3> QED
      BY <1>0, <3>1, SameJobsAdvance
  <2> QED
    BY <1>2, <2>1, <2>2, <2>3, <2>4
<1>3. ASSUME NEW w \in Workers, NEW v \in Videos, Claim(w, v)
      PROVE  \A u \in Videos : JobAdvances(u)
  <2>1. /\ ~Finished(v)
        /\ job' = [job EXCEPT ![v] = Claimed(w, v)]
    BY <1>3 DEF Claim, Claimable, Finished
  <2>2. Claimed(w, v).attempts = job[v].attempts + 1
    BY <1>0 DEF Claimed, Job
  <2> QED
    BY <1>0, <2>1, <2>2, OneJobAdvances
<1>4. ASSUME NEW w \in Workers, Succeed(w) \/ FailForGood(w) \/ FailForRetry(w)
      PROVE  \A u \in Videos : JobAdvances(u)
  <2> DEFINE v == attempt[w].video
  <2>1. v \in Videos /\ ~Finished(v)
    BY <1>0, <1>4 DEF Succeed, CanEnd, FailForGood, FailForRetry, Failing, Working, Finished
  <2>2. \A u \in Videos \ {v} : job'[u] = job[u]
    BY <1>0, <1>4 DEF Succeed, CanEnd, FailForGood, FailForRetry
  <2>3. job'[v].attempts = job[v].attempts
    <3>1. CASE Succeed(w)
      BY <1>0, <2>1, <3>1 DEF Succeed, CanEnd, Job
    <3>2. CASE FailForGood(w)
      BY <1>0, <2>1, <3>2 DEF FailForGood, Job
    <3>3. CASE FailForRetry(w)
      BY <1>0, <2>1, <3>3 DEF FailForRetry, Job
    <3> QED
      BY <1>4, <3>1, <3>2, <3>3
  <2> HIDE DEF v
  <2> QED
    BY <1>0, <2>1, <2>2, <2>3, OneJobAdvances
<1>5. CASE job' = job
  BY <1>0, <1>5, SameJobsAdvance
<1> QED
  BY <1>1, <1>2, <1>3, <1>4, <1>5 DEF JobsNext, Create, UpdateOwned, DeleteOwned, ClaimMisses,
     LoadClaimed, AlreadyProcessed, ClaimRefused, UpdateProgress, EndConflict, Abort

\* A finished job is never touched again and no attempt is given back: what
\* makes a redelivered event harmless.
THEOREM JobsOnlyAdvance == JobsSpec => JobMonotone
<1>1. TablesInv /\ [JobsNext]_jobsVars => [\A v \in Videos : JobAdvances(v)]_jobsVars
  BY JobsAdvance
<1> QED
  BY <1>1, TablesInvariant, PTL DEF JobsSpec, JobMonotone
-----------------------------------------------------------------------------
(***************************************************************************)
(* One live attempt for each job, when every process has its own id.       *)
(***************************************************************************)

\* A step that starts no attempt and leaves the job of every attempt that goes
\* on as it is.
LEMMA OthersUndisturbed ==
  ASSUME JobsTypeOK, AttemptsInv, RetryHasBudget',
         \A x \in Workers : attempt'[x] = attempt[x] \/ attempt'[x].pc \in {"idle", "missed"},
         \A x \in Workers : attempt'[x] = attempt[x] /\ Live(x, attempt[x].video) =>
                              job'[attempt[x].video] = job[attempt[x].video]
  PROVE  AttemptsInv'
<1>1. \A x \in Workers, v \in Videos : Live(x, v)' => Live(x, v) /\ attempt'[x] = attempt[x]
  BY DEF Live
<1>2. ExclusiveAttempt'
  BY <1>1 DEF AttemptsInv, ExclusiveAttempt
<1>3. ASSUME NEW x \in Workers, Live(x, attempt[x].video)'
      PROVE  /\ attempt'[x] = attempt[x] /\ Live(x, attempt[x].video)
             /\ job'[attempt[x].video] = job[attempt[x].video]
  BY <1>3 DEF Live
<1>4. \A x \in Workers : Working(x)' => Live(x, attempt[x].video)'
  BY DEF Working, Live
<1>5. AttemptIsCurrent'
  BY <1>3, <1>4 DEF AttemptsInv, AttemptIsCurrent, Working
<1> QED
  BY <1>2, <1>5 DEF AttemptsInv

\* The end of an attempt that wrote nothing.
LEMMA EndKeepsAttempts ==
  ASSUME JobsTypeOK, AttemptsInv, NEW w \in Workers, EndAttempt(w), job' = job
  PROVE  AttemptsInv'
<1>1. RetryHasBudget'
  BY DEF AttemptsInv, RetryHasBudget
<1>2. \A x \in Workers : attempt'[x] = attempt[x] \/ attempt'[x].pc = "idle"
  BY DEF EndAttempt, Idle, At, JobsTypeOK
<1> QED
  BY <1>1, <1>2, OthersUndisturbed

\* The end of an attempt whose last statement wrote its job.
LEMMA EndWithJobKeepsAttempts ==
  ASSUME JobsTypeOK, AttemptsInv, NEW w \in Workers, Working(w), EndAttempt(w),
         \A u \in Videos \ {attempt[w].video} : job'[u] = job[u],
         job'[attempt[w].video].status \in {"pending", "queued"} =>
           job'[attempt[w].video].attempts < MaxAttempts
  PROVE  AttemptsInv'
<1> DEFINE v == attempt[w].video
<1>1. v \in Videos /\ Live(w, v)
  BY DEF JobsTypeOK, Working, Live
<1>2. RetryHasBudget'
  BY <1>1 DEF AttemptsInv, RetryHasBudget
<1>3. \A x \in Workers : attempt'[x] = attempt[x] \/ attempt'[x].pc = "idle"
  BY DEF EndAttempt, Idle, At, JobsTypeOK
<1>4. ASSUME NEW x \in Workers, attempt'[x] = attempt[x], Live(x, attempt[x].video)
      PROVE  attempt[x].video \in Videos \ {v}
  <2>1. x # w
    BY <1>4 DEF EndAttempt, Idle, At, JobsTypeOK, Live
  <2>2. attempt[x].video \in Videos
    BY <1>4 DEF JobsTypeOK, Live
  <2> QED
    BY <1>1, <1>4, <2>1, <2>2 DEF AttemptsInv, ExclusiveAttempt
<1> QED
  BY <1>2, <1>3, <1>4, OthersUndisturbed

\* Every step preserves the invariant of the attempts.
LEMMA AttemptsNext ==
  ASSUME DistinctIDs, TablesInv, AttemptsInv, [JobsNext]_jobsVars
  PROVE  AttemptsInv'
<1>0. /\ JobsTypeOK
      /\ \A v \in Videos : job[v] \in Job
      /\ \A v \in Videos : job[v].attempts \in Nat
      /\ \A w \in Workers : attempt[w] \in Attempt
      /\ \A w \in Workers : attempt[w].pc # "idle" => attempt[w].video \in Videos
      /\ DOMAIN job = Videos /\ DOMAIN attempt = Workers
      /\ MaxAttempts \in Nat \ {0}
  BY JobsAssumption DEF TablesInv, JobsTypeOK, Job
<1>1. CASE UNCHANGED <<job, attempt>>
  BY <1>1 DEF AttemptsInv, ExclusiveAttempt, AttemptIsCurrent, RetryHasBudget, Live, Working
<1>2. ASSUME NEW v \in Videos, BeginProcessing(v)
      PROVE  AttemptsInv'
  <2>1. job[v].status = "none" /\ job' = [job EXCEPT ![v] = NewJob] /\ attempt' = attempt
    BY <1>2 DEF BeginProcessing, TablesInv, JobVideoAgree
  <2>2. RetryHasBudget'
    BY <1>0, <2>1 DEF AttemptsInv, RetryHasBudget, NewJob
  <2>3. \A x \in Workers : Live(x, attempt[x].video) => attempt[x].video # v
    BY <2>1 DEF AttemptsInv, AttemptIsCurrent
  <2> QED
    BY <1>0, <2>1, <2>2, <2>3, OthersUndisturbed DEF Live
<1>3. ASSUME NEW v \in Videos, RetryDue(v) \/ JobStale(v) \/ MarkQueued(v)
      PROVE  AttemptsInv'
  <2>1. /\ attempt' = attempt
        /\ \A u \in Videos \ {v} : job'[u] = job[u]
        /\ job'[v].status \in {"pending", "queued"} => job[v].status \in {"pending", "queued"}
        /\ job'[v].attempts = job[v].attempts
    <3>1. CASE RetryDue(v)
      BY <1>0, <3>1 DEF RetryDue, Job
    <3>2. CASE JobStale(v)
      BY <1>0, <3>2 DEF JobStale, Job
    <3>3. CASE MarkQueued(v)
      BY <1>0, <3>3 DEF MarkQueued, Job
    <3> QED
      BY <1>3, <3>1, <3>2, <3>3
  <2>2. RetryHasBudget'
    BY <1>0, <2>1 DEF AttemptsInv, RetryHasBudget
  <2>3. CASE RetryDue(v) \/ JobStale(v) \/ job[v].status = "pending"
    <3>1. \A x \in Workers : Live(x, attempt[x].video) => attempt[x].video # v
      BY <2>3 DEF RetryDue, JobStale, AttemptsInv, AttemptIsCurrent
    <3> QED
      BY <1>0, <2>1, <2>2, <3>1, OthersUndisturbed DEF Live
  <2>4. CASE MarkQueued(v) /\ job[v].status # "pending"
    <3>1. job' = job
      BY <1>0, <2>4 DEF MarkQueued, JobsTypeOK, Job
    <3> QED
      BY <1>0, <2>1, <2>2, <3>1, OthersUndisturbed
  <2> QED
    BY <1>3, <2>3, <2>4
<1>4. ASSUME NEW w \in Workers, NEW v \in Videos, Claim(w, v)
      PROVE  AttemptsInv'
  <2>1. /\ attempt[w].pc = "idle" /\ Claimable(w, v)
        /\ job' = [job EXCEPT ![v] = Claimed(w, v)]
        /\ attempt' = [attempt EXCEPT ![w] = At("claimed", v)]
    BY <1>4 DEF Claim
  <2>2. /\ Claimed(w, v).status = "running" /\ Claimed(w, v).worker = WorkerID[w]
        /\ Claimed(w, v).stale = FALSE
    BY <1>0 DEF Claimed, Job
  <2>3. At("claimed", v).pc = "claimed" /\ At("claimed", v).video = v
    BY DEF At
  <2>4. RetryHasBudget'
    BY <1>0, <2>1, <2>2 DEF AttemptsInv, RetryHasBudget
  <2>5. \A x \in Workers : ~Live(x, v)
    <3> SUFFICES ASSUME NEW x \in Workers, Live(x, v) PROVE FALSE
      OBVIOUS
    <3>1. /\ job[v].status = "running" /\ job[v].worker = WorkerID[x] /\ ~job[v].stale
      BY DEF AttemptsInv, AttemptIsCurrent, Live
    <3>2. WorkerID[x] = WorkerID[w]
      BY <2>1, <3>1 DEF Claimable, Reclaimable
    <3>3. x = w
      BY <3>2 DEF DistinctIDs
    <3> QED
      BY <2>1, <3>3 DEF Live
  <2>6. \A x \in Workers \ {w} : attempt'[x] = attempt[x]
    BY <1>0, <2>1
  <2>7. attempt'[w] = At("claimed", v) /\ job'[v] = Claimed(w, v)
    BY <1>0, <2>1
  <2>8. \A u \in Videos \ {v} : job'[u] = job[u]
    BY <1>0, <2>1
  <2>9. ExclusiveAttempt'
    <3>1. \A u \in Videos : Live(w, u)' => u = v
      BY <2>3, <2>7 DEF Live
    <3>2. \A x \in Workers \ {w}, u \in Videos : Live(x, u)' => Live(x, u) /\ u # v
      BY <2>5, <2>6 DEF Live
    <3> QED
      BY <3>1, <3>2 DEF AttemptsInv, ExclusiveAttempt
  <2>10. AttemptIsCurrent'
    <3> SUFFICES ASSUME NEW x \in Workers
                 PROVE  /\ Live(x, attempt[x].video)' =>
                             /\ job'[attempt'[x].video].status = "running"
                             /\ job'[attempt'[x].video].worker = WorkerID[x]
                             /\ ~job'[attempt'[x].video].stale
                        /\ Working(x)' => attempt'[x].n = job'[attempt'[x].video].attempts
      BY DEF AttemptIsCurrent
    <3>1. CASE x = w
      BY <2>2, <2>3, <2>7, <3>1 DEF Working
    <3>2. CASE x # w /\ ~Live(x, attempt[x].video)
      BY <2>6, <3>2 DEF Live, Working
    <3>3. CASE x # w /\ Live(x, attempt[x].video)
      <4>1. attempt[x].video \in Videos \ {v}
        BY <1>0, <2>5, <3>3 DEF Live
      <4>2. attempt'[x] = attempt[x] /\ job'[attempt[x].video] = job[attempt[x].video]
        BY <2>6, <2>8, <3>3, <4>1
      <4> QED
        BY <3>3, <4>2 DEF AttemptsInv, AttemptIsCurrent, Working
    <3> QED
      BY <3>1, <3>2, <3>3
  <2> QED
    BY <2>4, <2>9, <2>10 DEF AttemptsInv
<1>5. ASSUME NEW w \in Workers, NEW v \in Videos, ClaimMisses(w, v)
      PROVE  AttemptsInv'
  <2>1. /\ job' = job
        /\ \A x \in Workers : attempt'[x] = attempt[x] \/ attempt'[x].pc = "missed"
    BY <1>0, <1>5 DEF ClaimMisses, At
  <2>2. RetryHasBudget'
    BY <2>1 DEF AttemptsInv, RetryHasBudget
  <2> QED
    BY <1>0, <2>1, <2>2, OthersUndisturbed
<1>6. ASSUME NEW w \in Workers, LoadClaimed(w) \/ UpdateProgress(w)
      PROVE  AttemptsInv'
  <2>1. /\ job' = job
        /\ \A x \in Workers \ {w} : attempt'[x] = attempt[x]
        /\ attempt'[w].video = attempt[w].video
        /\ attempt'[w].n = job[attempt[w].video].attempts
    BY <1>0, <1>6 DEF LoadClaimed, UpdateProgress, Attempt, AttemptsInv, AttemptIsCurrent, Working
  <2>2. Live(w, attempt[w].video) /\ attempt'[w].pc = "work"
    BY <1>0, <1>6 DEF LoadClaimed, UpdateProgress, Working, Attempt, Live
  <2>3. \A x \in Workers, u \in Videos : Live(x, u)' => Live(x, u)
    BY <2>1, <2>2 DEF Live
  <2>4. ExclusiveAttempt'
    BY <2>3 DEF AttemptsInv, ExclusiveAttempt
  <2>5. AttemptIsCurrent'
    BY <2>1, <2>2 DEF AttemptsInv, AttemptIsCurrent, Live, Working
  <2>6. RetryHasBudget'
    BY <2>1 DEF AttemptsInv, RetryHasBudget
  <2> QED
    BY <2>4, <2>5, <2>6 DEF AttemptsInv
<1>7. ASSUME NEW w \in Workers,
             \/ AlreadyProcessed(w) \/ ClaimRefused(w) \/ EndConflict(w)
             \/ Abort(w)
      PROVE  AttemptsInv'
  BY <1>0, <1>7, EndKeepsAttempts
     DEF AlreadyProcessed, ClaimRefused, EndConflict, Abort
<1>8. ASSUME NEW w \in Workers, Succeed(w) \/ FailForGood(w) \/ FailForRetry(w)
      PROVE  AttemptsInv'
  <2> DEFINE v == attempt[w].video
  <2>1. /\ Working(w) /\ EndAttempt(w) /\ v \in Videos
        /\ \A u \in Videos \ {v} : job'[u] = job[u]
    BY <1>0, <1>8 DEF Succeed, CanEnd, FailForGood, FailForRetry, Failing, Working
  <2>2. CASE Succeed(w) \/ FailForGood(w)
    <3>1. job'[v].status \notin {"pending", "queued"}
      BY <1>0, <2>1, <2>2 DEF Succeed, CanEnd, FailForGood, Job
    <3> QED
      BY <1>0, <2>1, <3>1, EndWithJobKeepsAttempts
  <2>3. CASE FailForRetry(w)
    <3>1. job'[v].attempts = job[v].attempts /\ ~Terminal(w)
      BY <1>0, <2>1, <2>3 DEF FailForRetry, Job
    <3>2. attempt[w].n = job[v].attempts
      BY <2>1 DEF AttemptsInv, AttemptIsCurrent
    <3>3. job'[v].attempts < MaxAttempts
      BY <1>0, <2>1, <3>1, <3>2 DEF Terminal
    <3> QED
      BY <1>0, <2>1, <3>3, EndWithJobKeepsAttempts
  <2> QED
    BY <1>8, <2>2, <2>3
<1> QED
  BY <1>1, <1>2, <1>3, <1>4, <1>5, <1>6, <1>7, <1>8
     DEF JobsNext, jobsVars, Create, UpdateOwned, DeleteOwned

\* With a WORKER_ID of its own for each process: the worker that works on a job
\* is the only one, works on the attempt the row counts, and can neither be
\* overtaken nor put back a job that has no attempt left.
THEOREM AttemptsInvariant ==
  ASSUME DistinctIDs
  PROVE  JobsSpec => []AttemptsInv
<1>1. JobsInit => AttemptsInv
  <2> SUFFICES ASSUME JobsInit PROVE AttemptsInv
    OBVIOUS
  <2>1. \A w \in Workers : attempt[w].pc = "idle"
    BY DEF JobsInit, Idle, At
  <2>2. \A v \in Videos : job[v].status = "none"
    BY DEF JobsInit, NoJob
  <2> QED
    BY <2>1, <2>2 DEF AttemptsInv, ExclusiveAttempt, AttemptIsCurrent, RetryHasBudget, Live, Working
<1>2. TablesInv /\ AttemptsInv /\ [JobsNext]_jobsVars => AttemptsInv'
  BY AttemptsNext
<1> QED
  BY <1>1, <1>2, TablesInvariant, PTL DEF JobsSpec

\* No two live attempts on one job.
THEOREM AttemptsExclude ==
  ASSUME DistinctIDs
  PROVE  JobsSpec => []ExclusiveAttempt
<1>1. AttemptsInv => ExclusiveAttempt
  BY DEF AttemptsInv
<1> QED
  BY <1>1, AttemptsInvariant, PTL

\* The live attempt is the one the job's row counts.
THEOREM AttemptsAreCurrent ==
  ASSUME DistinctIDs
  PROVE  JobsSpec => []AttemptIsCurrent
<1>1. AttemptsInv => AttemptIsCurrent
  BY DEF AttemptsInv
<1> QED
  BY <1>1, AttemptsInvariant, PTL

\* A job that waits for an attempt has one left.
THEOREM RetriesHaveBudget ==
  ASSUME DistinctIDs
  PROVE  JobsSpec => []RetryHasBudget
<1>1. AttemptsInv => RetryHasBudget
  BY DEF AttemptsInv
<1> QED
  BY <1>1, AttemptsInvariant, PTL
-----------------------------------------------------------------------------
(***************************************************************************)
(* The tables implement VideoLifecycle.                                    *)
(***************************************************************************)

Listed == {v \in Videos : video[v] = "ready" /\ public[v]}
DatedVideos == {v \in Videos : published[v]}

\* A step that leaves what the API shows alone.
LifecycleStutters == UNCHANGED <<video, Listed, DatedVideos>>

\* A step that changes the status only, of a video not listed before or after.
LEMMA StatusStep ==
  ASSUME JobsTypeOK, NEW v \in Videos, NEW s \in VideoStatus \ {"ready"}, video[v] # "ready",
         video' = [video EXCEPT ![v] = s], published' = published,
         \A u \in Videos \ {v} : public'[u] = public[u]
  PROVE  Listed' = Listed /\ DatedVideos' = DatedVideos
BY DEF JobsTypeOK, Listed, DatedVideos

\* Every step is one of the lifecycle, or shows nothing.
LEMMA LifecycleStep ==
  ASSUME TablesInv, JobsNext
  PROVE  Lifecycle!Next \/ LifecycleStutters
<1> USE DEF Lifecycle!Step
<1>0. /\ JobsTypeOK
      /\ DOMAIN video = Videos /\ DOMAIN public = Videos /\ DOMAIN published = Videos
      /\ public \in [Videos -> BOOLEAN] /\ published \in [Videos -> BOOLEAN]
      /\ \A w \in Workers : attempt[w].pc # "idle" => attempt[w].video \in Videos
  BY DEF TablesInv, JobsTypeOK
<1>1. ASSUME UNCHANGED videoVars PROVE LifecycleStutters
  BY <1>1 DEF videoVars, LifecycleStutters, Listed, DatedVideos
<1>2. ASSUME NEW v \in Videos, Create(v) PROVE Lifecycle!Register(v)
  <2>1. /\ video[v] = "none"
        /\ video' = [video EXCEPT ![v] = "uploading"] /\ published' = published
        /\ \A u \in Videos \ {v} : public'[u] = public[u]
    BY <1>0, <1>2 DEF Create
  <2>2. Listed' = Listed /\ DatedVideos' = DatedVideos
    BY <1>0, <2>1, StatusStep DEF VideoStatus
  <2> QED
    BY <2>1, <2>2 DEF Lifecycle!Register, Listed, DatedVideos
<1>3. ASSUME NEW v \in Videos, BeginProcessing(v) PROVE Lifecycle!Submit(v)
  <2>1. /\ video[v] = "uploading"
        /\ video' = [video EXCEPT ![v] = "processing"] /\ UNCHANGED <<public, published>>
    BY <1>3 DEF BeginProcessing
  <2>2. Listed' = Listed /\ DatedVideos' = DatedVideos
    BY <1>0, <2>1, StatusStep DEF VideoStatus
  <2> QED
    BY <2>1, <2>2 DEF Lifecycle!Submit, Listed, DatedVideos
<1>4. ASSUME NEW v \in Videos, NEW visible \in BOOLEAN, UpdateOwned(v, visible)
      PROVE  Lifecycle!Show(v) \/ Lifecycle!Hide(v) \/ LifecycleStutters
  <2>1. /\ video' = video
        /\ public' = [public EXCEPT ![v] = visible]
        /\ published' = [published EXCEPT ![v] = Dated(v, visible)]
    BY <1>4 DEF UpdateOwned
  <2>2. CASE video[v] # "ready"
    <3>1. Listed' = Listed
      BY <1>0, <2>1, <2>2 DEF Listed
    <3>2. DatedVideos' = DatedVideos
      BY <1>0, <2>1, <2>2 DEF DatedVideos, Dated
    <3> QED
      BY <2>1, <3>1, <3>2 DEF LifecycleStutters
  <2>3. CASE video[v] = "ready" /\ visible
    <3>1. Listed' = Listed \cup {v}
      BY <1>0, <2>1, <2>3 DEF Listed
    <3>2. DatedVideos' = DatedVideos \cup {v}
      BY <1>0, <2>1, <2>3 DEF DatedVideos, Dated
    <3> QED
      BY <2>1, <2>3, <3>1, <3>2 DEF Lifecycle!Show, Listed, DatedVideos
  <2>4. CASE video[v] = "ready" /\ ~visible
    <3>1. Listed' = Listed \ {v}
      BY <1>0, <2>1, <2>4 DEF Listed
    <3>2. DatedVideos' = DatedVideos
      BY <1>0, <2>1, <2>4 DEF DatedVideos, Dated
    <3> QED
      BY <2>1, <2>4, <3>1, <3>2 DEF Lifecycle!Hide, Listed, DatedVideos
  <2> QED
    BY <2>2, <2>3, <2>4
<1>5. ASSUME NEW v \in Videos, DeleteOwned(v) PROVE Lifecycle!Remove(v)
  <2>1. /\ video[v] \in Lifecycle!Status \ {"none", "deleted"}
        /\ video' = [video EXCEPT ![v] = "deleted"]
        /\ public' = [public EXCEPT ![v] = FALSE] /\ published' = published
    BY <1>0, <1>5 DEF DeleteOwned, JobsTypeOK, VideoStatus, Lifecycle!Status
  <2>2. Listed' = Listed \ {v} /\ DatedVideos' = DatedVideos
    BY <1>0, <2>1 DEF Listed, DatedVideos
  <2> QED
    BY <2>1, <2>2 DEF Lifecycle!Remove, Listed, DatedVideos
<1>6. ASSUME NEW w \in Workers, UpdateProgress(w) PROVE LifecycleStutters
  BY <1>6 DEF UpdateProgress, LifecycleStutters, Listed, DatedVideos
<1>7. ASSUME NEW w \in Workers, NEW v \in Videos, v = attempt[w].video, Succeed(w)
      PROVE  Lifecycle!Publish(v)
  <2>1. /\ video[v] = "processing"
        /\ video' = [video EXCEPT ![v] = "ready"]
        /\ published' = [published EXCEPT ![v] = published[v] \/ public[v]]
        /\ public' = public
    BY <1>0, <1>7 DEF Succeed, CanEnd, Working, InProcessing
  <2>2. CASE public[v]
    <3>1. Listed' = Listed \cup {v}
      BY <1>0, <2>1, <2>2 DEF Listed
    <3>2. DatedVideos' = DatedVideos \cup {v}
      BY <1>0, <2>1, <2>2 DEF DatedVideos
    <3> QED
      BY <2>1, <3>1, <3>2 DEF Lifecycle!Publish, Listed, DatedVideos
  <2>3. CASE ~public[v]
    <3>1. Listed' = Listed
      BY <1>0, <2>1, <2>3 DEF Listed
    <3>2. DatedVideos' = DatedVideos
      BY <1>0, <2>1, <2>3 DEF DatedVideos
    <3> QED
      BY <2>1, <3>1, <3>2 DEF Lifecycle!Publish, Listed, DatedVideos
  <2> QED
    BY <2>2, <2>3
<1>8. ASSUME NEW w \in Workers, NEW v \in Videos, v = attempt[w].video, FailForGood(w)
      PROVE  Lifecycle!GiveUp(v) \/ LifecycleStutters
  <2>1. UNCHANGED <<public, published>>
    BY <1>0, <1>8 DEF FailForGood, Failing, Working
  <2>2. CASE ~InProcessing(v)
    BY <1>1, <1>8, <2>1, <2>2 DEF FailForGood, videoVars
  <2>3. CASE InProcessing(v)
    <3>1. video[v] = "processing" /\ video' = [video EXCEPT ![v] = "failed"]
      BY <1>8, <2>3 DEF FailForGood, FailVideo, InProcessing
    <3>2. Listed' = Listed /\ DatedVideos' = DatedVideos
      BY <1>0, <2>1, <3>1, StatusStep DEF VideoStatus
    <3> QED
      BY <2>1, <3>1, <3>2 DEF Lifecycle!GiveUp, Listed, DatedVideos
  <2> QED
    BY <2>2, <2>3
<1>9. \A w \in Workers : Succeed(w) \/ FailForGood(w) => attempt[w].video \in Videos
  BY <1>0 DEF Succeed, FailForGood, Failing, Working
<1>10. CASE UNCHANGED videoVars
  BY <1>1, <1>10
<1>11. CASE \E v \in Videos : \/ Create(v) \/ BeginProcessing(v) \/ DeleteOwned(v)
                              \/ \E visible \in BOOLEAN : UpdateOwned(v, visible)
  BY <1>2, <1>3, <1>4, <1>5, <1>11 DEF Lifecycle!Next
<1>12. ASSUME NEW w \in Workers, UpdateProgress(w) \/ Succeed(w) \/ FailForGood(w)
       PROVE  Lifecycle!Next \/ LifecycleStutters
  <2>1. CASE UpdateProgress(w)
    BY <1>6, <2>1
  <2>2. CASE Succeed(w) \/ FailForGood(w)
    <3>1. PICK v \in Videos : v = attempt[w].video
      BY <1>9, <2>2
    <3>2. Lifecycle!Publish(v) \/ Lifecycle!GiveUp(v) \/ LifecycleStutters
      BY <1>7, <1>8, <2>2, <3>1
    <3> QED
      BY <3>2 DEF Lifecycle!Next
  <2> QED
    BY <1>12, <2>1, <2>2
<1> QED
  BY <1>10, <1>11, <1>12 DEF JobsNext, RetryDue, JobStale, MarkQueued, Claim, ClaimMisses, LoadClaimed,
     AlreadyProcessed, ClaimRefused, FailForRetry, EndConflict, Abort

\* However attempts, retries and deletions interleave, the author and the
\* visitors see the lifecycle of VideoLifecycle.
THEOREM JobsImplementLifecycle == JobsSpec => LifecycleSpec
<1>1. JobsInit => Lifecycle!Init
  BY DEF JobsInit, Lifecycle!Init
<1>2. TablesInv /\ [JobsNext]_jobsVars => [Lifecycle!Next]_(Lifecycle!vars)
  <2> SUFFICES ASSUME TablesInv, [JobsNext]_jobsVars
               PROVE  [Lifecycle!Next]_(Lifecycle!vars)
    OBVIOUS
  <2>1. CASE UNCHANGED jobsVars
    BY <2>1 DEF jobsVars, Lifecycle!vars
  <2>2. CASE JobsNext
    BY <2>2, LifecycleStep DEF LifecycleStutters, Listed, DatedVideos, Lifecycle!vars
  <2> QED
    BY <2>1, <2>2
<1> QED
  BY <1>1, <1>2, TablesInvariant, PTL DEF JobsSpec, LifecycleSpec, Lifecycle!Spec


-----------------------------------------------------------------------------
(***************************************************************************)
(* The outbox.                                                             *)
(***************************************************************************)

\* Every record was published from a row.
LogIsRows ==
  \A p \in Partitions : \A o \in Offsets(p) : log[p][o] \in DOMAIN outbox

\* A dispatcher that was told of success has its record in Kafka.
AckedInLog ==
  \A d \in Dispatchers, e \in DOMAIN outbox :
    disp[d].pc = "acked" /\ AtEvent(d, e) => InLog(e)

OutboxInv == OutboxTypeOK /\ LogIsRows /\ PublishedInLog /\ AckedInLog

\* An empty table, nothing in hand.
LEMMA OutboxInitInv == OutboxInit => OutboxInv
<1> SUFFICES ASSUME OutboxInit PROVE OutboxInv
  OBVIOUS
<1> USE DEF OutboxInit, KafkaInit
<1>1. OutboxTypeOK
  BY OutboxAssumption DEF OutboxTypeOK, Dispatch, Resting
<1>2. LogIsRows /\ PublishedInLog /\ AckedInLog
  BY DEF LogIsRows, Offsets, PublishedInLog, AckedInLog
<1> QED
  BY <1>1, <1>2 DEF OutboxInv

\* What Produce does: one more record, at the end of its partition.
LEMMA ProduceFacts ==
  ASSUME log \in [Partitions -> Seq(Records)], NEW p \in Partitions, NEW r \in Records, Produce(p, r)
  PROVE  /\ log' \in [Partitions -> Seq(Records)] /\ committed' = committed
         /\ \A q \in Partitions : \A o \in Offsets(q) :
              o \in Offsets(q)' /\ log'[q][o] = log[q][o]
         /\ \A q \in Partitions : \A o \in Offsets(q)' :
              o \in Offsets(q) \/ (q = p /\ o = Len(log[p]) + 1 /\ log'[q][o] = r)
         /\ Len(log[p]) + 1 \in Offsets(p)' /\ log'[p][Len(log[p]) + 1] = r
         /\ Len(log[p]) + 1 \in 1..MaxLog
<1>1. /\ log \in [Partitions -> Seq(Records)] /\ committed' = committed
      /\ log' = [log EXCEPT ![p] = Append(log[p], r)]
      /\ Len(log[p]) < MaxLog /\ Len(log[p]) \in Nat
  BY DEF Produce
<1>2. /\ log'[p] = Append(log[p], r) /\ log[p] \in Seq(Records)
      /\ \A q \in Partitions : q # p => log'[q] = log[q]
  BY <1>1
<1>3. /\ Len(log'[p]) = Len(log[p]) + 1 /\ log'[p] \in Seq(Records)
      /\ \A o \in 1..Len(log[p]) : log'[p][o] = log[p][o]
      /\ log'[p][Len(log[p]) + 1] = r
  BY <1>2
<1>4. log' \in [Partitions -> Seq(Records)]
  BY <1>1, <1>2, <1>3
<1>5. ASSUME NEW q \in Partitions, NEW o \in Offsets(q)
      PROVE  o \in Offsets(q)' /\ log'[q][o] = log[q][o]
  BY <1>1, <1>2, <1>3, <1>5 DEF Offsets
<1>6. ASSUME NEW q \in Partitions, NEW o \in Offsets(q)'
      PROVE  o \in Offsets(q) \/ (q = p /\ o = Len(log[p]) + 1 /\ log'[q][o] = r)
  <2>1. CASE q = p
    BY <1>1, <1>3, <1>6, <2>1 DEF Offsets
  <2>2. CASE q # p
    BY <1>2, <1>6, <2>2 DEF Offsets
  <2> QED
    BY <2>1, <2>2
<1>7. Len(log[p]) + 1 \in Offsets(p)' /\ Len(log[p]) + 1 \in 1..MaxLog
  BY <1>1, <1>3, MaxLogAssumption DEF Offsets
<1> QED
  BY <1>1, <1>3, <1>4, <1>5, <1>6, <1>7

\* The events of the batches are rows, and records are.
LEMMA RowsAreRecords ==
  ASSUME OutboxTypeOK
  PROVE  /\ DOMAIN outbox = 1..Len(outbox) /\ Len(outbox) \in Nat
         /\ DOMAIN outbox \subseteq Records /\ DOMAIN outbox \subseteq 1..MaxEvents
         /\ \A e \in DOMAIN outbox : outbox[e] \in Row
         /\ \A e \in DOMAIN outbox : PartitionOf[outbox[e].video] \in Partitions
         /\ \A d \in Dispatchers : disp[d].todo \subseteq DOMAIN outbox
<1>1. /\ outbox \in Seq(Row) /\ Len(outbox) \in Nat /\ Len(outbox) <= MaxEvents
      /\ DOMAIN outbox = 1..Len(outbox) /\ MaxEvents \in Nat
  BY OutboxAssumption DEF OutboxTypeOK
<1>2. DOMAIN outbox \subseteq 1..MaxEvents
  BY <1>1
<1>3. \A e \in DOMAIN outbox : outbox[e] \in Row
  BY <1>1
<1>4. \A e \in DOMAIN outbox : PartitionOf[outbox[e].video] \in Partitions
  BY <1>3, OutboxAssumption DEF Row
<1> QED
  BY <1>1, <1>2, <1>3, <1>4, RecordsAssumption DEF OutboxTypeOK

\* A dispatcher is at one event at most.
LEMMA OneAtATime ==
  ASSUME OutboxTypeOK, NEW d \in Dispatchers, NEW e, NEW f, AtEvent(d, e), AtEvent(d, f)
  PROVE  e = f
<1>1. e \in Nat /\ f \in Nat
  BY RowsAreRecords DEF AtEvent
<1>2. e <= f /\ f <= e
  BY DEF AtEvent
<1> QED
  BY <1>1, <1>2

\* A new row, whose event nobody has seen yet.
LEMMA InsertEventInv ==
  ASSUME OutboxInv, NEW v \in Videos, NEW hold \in {"due", "retry"}, InsertEvent(v, hold)
  PROVE  /\ OutboxInv'
         /\ DOMAIN outbox' = DOMAIN outbox \cup {Len(outbox) + 1}
         /\ \A e \in DOMAIN outbox : outbox'[e] = outbox[e] /\ e < Len(outbox) + 1
         /\ outbox'[Len(outbox) + 1] = [video |-> v, status |-> "pending", hold |-> hold]
<1> DEFINE row == [video |-> v, status |-> "pending", hold |-> hold]
           n == Len(outbox) + 1
<1>0. /\ OutboxTypeOK /\ LogIsRows /\ PublishedInLog /\ AckedInLog
      /\ outbox' = Append(outbox, row) /\ Len(outbox) < MaxEvents
      /\ UNCHANGED <<log, committed, disp>>
  BY DEF OutboxInv, InsertEvent
<1>1. row \in Row /\ outbox \in Seq(Row) /\ Len(outbox) \in Nat /\ DOMAIN outbox = 1..Len(outbox)
  BY <1>0 DEF Row, OutboxTypeOK
<1> HIDE DEF row
<1>2. /\ outbox' \in Seq(Row) /\ Len(outbox') = n /\ DOMAIN outbox' = 1..n
      /\ \A e \in 1..Len(outbox) : outbox'[e] = outbox[e]
      /\ outbox'[n] = row
  BY <1>0, <1>1
<1>3. /\ DOMAIN outbox' = DOMAIN outbox \cup {n}
      /\ \A e \in DOMAIN outbox : outbox'[e] = outbox[e] /\ e < n
      /\ n <= MaxEvents
  BY <1>0, <1>1, <1>2, OutboxAssumption
<1>4. OutboxTypeOK'
  BY <1>0, <1>2, <1>3 DEF OutboxTypeOK
<1>5. LogIsRows'
  BY <1>0, <1>3 DEF LogIsRows, Offsets
<1>6. \A e \in DOMAIN outbox : InLog(e) => InLog(e)'
  BY <1>0 DEF InLog, Offsets
<1>7. PublishedInLog'
  BY <1>0, <1>2, <1>3, <1>6 DEF PublishedInLog, row
<1>8. AckedInLog'
  <2> SUFFICES ASSUME NEW d \in Dispatchers, NEW e \in DOMAIN outbox',
                      disp'[d].pc = "acked", AtEvent(d, e)'
               PROVE  InLog(e)'
    BY DEF AckedInLog
  <2>1. disp[d].pc = "acked" /\ AtEvent(d, e)
    BY <1>0 DEF AtEvent
  <2>2. e \in DOMAIN outbox
    BY <1>0, <2>1 DEF OutboxTypeOK, AtEvent
  <2> QED
    BY <1>0, <1>6, <2>1, <2>2 DEF AckedInLog
<1> QED
  BY <1>2, <1>3, <1>4, <1>5, <1>7, <1>8 DEF OutboxInv, row

\* What a dispatcher's answer from Kafka, its claim and its going on with the
\* next event do to what the dispatchers hold.
LEMMA AnswerFacts ==
  ASSUME OutboxTypeOK, NEW d \in Dispatchers, NEW pc \in {"acked", "errored"}, Answer(d, pc)
  PROVE  /\ disp' \in [Dispatchers -> Dispatch]
         /\ disp'[d].pc = pc /\ disp'[d].todo = disp[d].todo
         /\ \A x \in Dispatchers : x # d => disp'[x] = disp[x]
<1>1. disp \in [Dispatchers -> Dispatch] /\ disp' = [disp EXCEPT ![d].pc = pc]
  BY DEF OutboxTypeOK, Answer
<1>2. [disp[d] EXCEPT !.pc = pc] \in Dispatch
  BY <1>1 DEF Dispatch
<1>3. /\ [disp[d] EXCEPT !.pc = pc].pc = pc
      /\ [disp[d] EXCEPT !.pc = pc].todo = disp[d].todo
  BY <1>1 DEF Dispatch
<1> QED
  BY <1>1, <1>2, <1>3

\* The event is out of the dispatcher's hands.
LEMMA NextEventFacts ==
  ASSUME OutboxTypeOK, NEW d \in Dispatchers, NEW e, NextEvent(d, e)
  PROVE  /\ disp' \in [Dispatchers -> Dispatch]
         /\ disp'[d].pc = "publish" /\ disp'[d].todo = disp[d].todo \ {e}
         /\ \A x \in Dispatchers : x # d => disp'[x] = disp[x]
<1>1. /\ disp \in [Dispatchers -> Dispatch] /\ disp[d].todo \subseteq 1..MaxEvents
      /\ disp' = [disp EXCEPT ![d] = [pc |-> "publish", todo |-> disp[d].todo \ {e}]]
  BY DEF OutboxTypeOK, NextEvent, Dispatch
<1>2. [pc |-> "publish", todo |-> disp[d].todo \ {e}] \in Dispatch
  BY <1>1 DEF Dispatch
<1> QED
  BY <1>1, <1>2

\* A dispatcher that claims has nothing in hand, and gets due rows.
LEMMA ClaimFacts ==
  ASSUME OutboxTypeOK, NEW d \in Dispatchers, ClaimDue(d)
  PROVE  /\ disp' \in [Dispatchers -> Dispatch]
         /\ disp'[d].pc = "publish" /\ disp'[d].todo = Batched
         /\ disp[d].pc = "publish" /\ disp[d].todo = {}
         /\ \A x \in Dispatchers : x # d => disp'[x] = disp[x]
         /\ Batched \subseteq Due
<1>1. /\ disp \in [Dispatchers -> Dispatch] /\ disp[d].pc = "publish" /\ disp[d].todo = {}
      /\ disp' = [disp EXCEPT ![d].todo = Batched]
  BY DEF OutboxTypeOK, ClaimDue
<1>2. Batched \subseteq Due /\ Batched \subseteq 1..MaxEvents
  BY RowsAreRecords DEF Batched, Due
<1>3. [disp[d] EXCEPT !.todo = Batched] \in Dispatch
  BY <1>1, <1>2 DEF Dispatch
<1>4. /\ [disp[d] EXCEPT !.todo = Batched].pc = "publish"
      /\ [disp[d] EXCEPT !.todo = Batched].todo = Batched
  BY <1>1 DEF Dispatch
<1> QED
  BY <1>1, <1>2, <1>3, <1>4

\* Setting the status or the hold of a row.
LEMMA RowFacts ==
  ASSUME OutboxTypeOK, NEW e \in DOMAIN outbox,
         NEW s \in {"pending", "published"}, NEW h \in {"due", "retry", "lease"}
  PROVE  /\ [outbox EXCEPT ![e].status = s] =
              [outbox EXCEPT ![e] = [video |-> outbox[e].video, status |-> s, hold |-> outbox[e].hold]]
         /\ [outbox EXCEPT ![e].hold = h] =
              [outbox EXCEPT ![e] =
                 [video |-> outbox[e].video, status |-> outbox[e].status, hold |-> h]]
         /\ [video |-> outbox[e].video, status |-> s, hold |-> outbox[e].hold] \in Row
         /\ [video |-> outbox[e].video, status |-> outbox[e].status, hold |-> h] \in Row
<1>1. outbox[e] \in Row
  BY RowsAreRecords
<1>2. /\ [outbox[e] EXCEPT !.status = s]
           = [video |-> outbox[e].video, status |-> s, hold |-> outbox[e].hold]
      /\ [outbox[e] EXCEPT !.hold = h]
           = [video |-> outbox[e].video, status |-> outbox[e].status, hold |-> h]
  BY <1>1 DEF Row
<1>3. /\ [outbox EXCEPT ![e].status = s] = [outbox EXCEPT ![e] = [outbox[e] EXCEPT !.status = s]]
      /\ [outbox EXCEPT ![e].hold = h] = [outbox EXCEPT ![e] = [outbox[e] EXCEPT !.hold = h]]
  OBVIOUS
<1> QED
  BY <1>1, <1>2, <1>3 DEF Row

\* The table keeps its rows, and each row its video.
SameRows ==
  /\ outbox' \in Seq(Row) /\ DOMAIN outbox' = DOMAIN outbox /\ Len(outbox') = Len(outbox)
  /\ \A e \in DOMAIN outbox : outbox'[e].video = outbox[e].video

\* One row is replaced by another of the same video.
LEMMA RowReplaced ==
  ASSUME OutboxTypeOK, NEW e \in DOMAIN outbox, NEW r \in Row, r.video = outbox[e].video,
         outbox' = [outbox EXCEPT ![e] = r]
  PROVE  /\ SameRows
         /\ outbox'[e] = r
         /\ \A f \in DOMAIN outbox : f # e => outbox'[f] = outbox[f]
<1>1. outbox \in Seq(Row) /\ DOMAIN outbox = 1..Len(outbox) /\ Len(outbox) \in Nat
  BY DEF OutboxTypeOK
<1>2. outbox' \in Seq(Row) /\ Len(outbox') = Len(outbox) /\ DOMAIN outbox' = DOMAIN outbox
  BY <1>1
<1> QED
  BY <1>1, <1>2 DEF SameRows

\* A step that publishes nothing and only takes events out of hands, or marks
\* rows as published that are.
LEMMA QuietStep ==
  ASSUME OutboxInv, SameRows, log' = log,
         disp' \in [Dispatchers -> Dispatch],
         \A d \in Dispatchers : disp'[d].todo \subseteq DOMAIN outbox,
         \A d \in Dispatchers : disp'[d].pc # "publish" => disp'[d].todo # {},
         \A d \in Dispatchers :
           disp'[d].pc = "acked" => disp[d].pc = "acked" /\ disp'[d].todo = disp[d].todo,
         \A e \in DOMAIN outbox : outbox'[e].status = "published" =>
                                    outbox[e].status = "published" \/ InLog(e)
  PROVE  OutboxInv'
<1>0. /\ OutboxTypeOK /\ LogIsRows /\ PublishedInLog /\ AckedInLog
      /\ DOMAIN outbox' = DOMAIN outbox /\ outbox' \in Seq(Row) /\ Len(outbox') = Len(outbox)
  BY DEF OutboxInv, SameRows
<1>1. OutboxTypeOK'
  BY <1>0 DEF OutboxTypeOK
<1>2. LogIsRows'
  BY <1>0 DEF LogIsRows, Offsets
<1>3. \A e : InLog(e) <=> InLog(e)'
  BY DEF InLog, Offsets
<1>4. PublishedInLog'
  BY <1>0, <1>3 DEF PublishedInLog
<1>5. AckedInLog'
  BY <1>0, <1>3 DEF AckedInLog, AtEvent
<1> QED
  BY <1>1, <1>2, <1>4, <1>5 DEF OutboxInv

\* The rows of a batch keep all but their hold.
LEMMA LeasedFacts ==
  ASSUME OutboxTypeOK, NEW events \in SUBSET DOMAIN outbox, outbox' = Leased(events)
  PROVE  /\ SameRows
         /\ \A e \in DOMAIN outbox : outbox'[e].status = outbox[e].status
         /\ \A e \in DOMAIN outbox :
              outbox'[e].hold = IF e \in events THEN "lease" ELSE outbox[e].hold
<1>1. /\ outbox \in Seq(Row) /\ DOMAIN outbox = 1..Len(outbox) /\ Len(outbox) \in Nat
      /\ \A e \in DOMAIN outbox : outbox[e] \in Row
  BY RowsAreRecords DEF OutboxTypeOK
<1>2. \A e \in DOMAIN outbox :
        /\ [outbox[e] EXCEPT !.hold = "lease"] \in Row
        /\ [outbox[e] EXCEPT !.hold = "lease"].video = outbox[e].video
        /\ [outbox[e] EXCEPT !.hold = "lease"].status = outbox[e].status
        /\ [outbox[e] EXCEPT !.hold = "lease"].hold = "lease"
  BY <1>1 DEF Row
<1>3. outbox' = [e \in 1..Len(outbox) |->
                   IF e \in events THEN [outbox[e] EXCEPT !.hold = "lease"] ELSE outbox[e]]
  BY <1>1 DEF Leased
<1>4. \A e \in 1..Len(outbox) :
        (IF e \in events THEN [outbox[e] EXCEPT !.hold = "lease"] ELSE outbox[e]) \in Row
  BY <1>1, <1>2
<1>5. outbox' \in Seq(Row) /\ Len(outbox') = Len(outbox) /\ DOMAIN outbox' = DOMAIN outbox
  BY <1>1, <1>3, <1>4
<1> QED
  BY <1>1, <1>2, <1>3, <1>5 DEF SameRows

\* A claim leases due rows and puts them into idle hands.
LEMMA ClaimDueInv ==
  ASSUME OutboxInv, NEW d \in Dispatchers, ClaimDue(d)
  PROVE  OutboxInv' /\ SameRows
<1>0. /\ OutboxTypeOK
      /\ disp' \in [Dispatchers -> Dispatch]
      /\ disp'[d].pc = "publish" /\ disp'[d].todo = Batched
      /\ \A x \in Dispatchers : x # d => disp'[x] = disp[x]
      /\ Batched \subseteq DOMAIN outbox
      /\ outbox' = Leased(Batched) /\ UNCHANGED <<log, committed>>
  BY ClaimFacts DEF OutboxInv, ClaimDue, Due
<1>1. /\ SameRows
      /\ \A e \in DOMAIN outbox : outbox'[e].status = outbox[e].status
  BY <1>0, LeasedFacts
<1>2. \A x \in Dispatchers : disp'[x].todo \subseteq DOMAIN outbox
  BY <1>0 DEF OutboxTypeOK
<1>3. \A x \in Dispatchers : disp'[x].pc # "publish" => disp'[x] = disp[x]
  BY <1>0
<1>4. \A x \in Dispatchers : disp[x].pc # "publish" => disp[x].todo # {}
  BY <1>0 DEF OutboxTypeOK
<1> QED
  BY <1>0, <1>1, <1>2, <1>3, <1>4, QuietStep

\* A dispatcher publishes, or fails to: acked is what Kafka has.
LEMMA PublishInv ==
  ASSUME OutboxInv, NEW d \in Dispatchers, NEW e \in disp[d].todo,
         PublishOk(d, e) \/ PublishUnacked(d, e) \/ PublishErr(d, e)
  PROVE  OutboxInv'
<1> DEFINE p == PartitionOf[outbox[e].video]
<1>0. /\ OutboxTypeOK /\ LogIsRows /\ PublishedInLog /\ AckedInLog
      /\ e \in DOMAIN outbox /\ p \in Partitions /\ e \in Records
      /\ outbox' = outbox /\ AtEvent(d, e)
  BY RowsAreRecords DEF OutboxInv, PublishOk, PublishUnacked, PublishErr, Publishing, Answer
<1>1. PICK pc \in {"acked", "errored"} : Answer(d, pc) /\ (pc = "acked" => PublishOk(d, e))
  BY DEF PublishOk, PublishUnacked, PublishErr
<1>2. /\ disp' \in [Dispatchers -> Dispatch]
      /\ disp'[d].pc = pc /\ disp'[d].todo = disp[d].todo
      /\ \A x \in Dispatchers : x # d => disp'[x] = disp[x]
  BY <1>0, <1>1, AnswerFacts
<1>3. /\ log' \in [Partitions -> Seq(Records)]
      /\ \A q \in Partitions : \A o \in Offsets(q) : o \in Offsets(q)' /\ log'[q][o] = log[q][o]
      /\ \A q \in Partitions : \A o \in Offsets(q)' :
           (o \in Offsets(q) /\ log'[q][o] = log[q][o]) \/ log'[q][o] = e
      /\ pc = "acked" => InLog(e)'
  <2>1. CASE UNCHANGED <<log, committed>> /\ pc # "acked"
    BY <1>0, <2>1 DEF OutboxTypeOK, Offsets
  <2>2. CASE Produce(p, e)
    BY <1>0, <2>2, ProduceFacts DEF OutboxTypeOK, InLog
  <2> QED
    BY <1>1, <2>1, <2>2 DEF PublishOk, PublishUnacked, PublishErr
<1>4. OutboxTypeOK'
  <2>1. ASSUME NEW x \in Dispatchers
        PROVE  disp'[x].todo \subseteq DOMAIN outbox /\ (disp'[x].pc # "publish" => disp'[x].todo # {})
    <3>1. CASE x = d
      BY <1>0, <1>2, <3>1 DEF OutboxTypeOK
    <3>2. CASE x # d
      BY <1>0, <1>2, <3>2 DEF OutboxTypeOK
    <3> QED
      BY <3>1, <3>2
  <2> QED
    BY <1>0, <1>2, <1>3, <2>1 DEF OutboxTypeOK
<1>5. LogIsRows'
  BY <1>0, <1>3 DEF LogIsRows
<1>6. \A f \in DOMAIN outbox : InLog(f) => InLog(f)'
  BY <1>3 DEF InLog
<1>7. PublishedInLog'
  BY <1>0, <1>6 DEF PublishedInLog
<1>8. AckedInLog'
  <2> SUFFICES ASSUME NEW x \in Dispatchers, NEW f \in DOMAIN outbox,
                      disp'[x].pc = "acked", AtEvent(x, f)'
               PROVE  InLog(f)'
    BY <1>0 DEF AckedInLog
  <2>1. AtEvent(x, f)
    BY <1>2 DEF AtEvent
  <2>2. CASE x = d
    BY <1>0, <1>2, <1>3, <2>1, <2>2, OneAtATime
  <2>3. CASE x # d
    BY <1>0, <1>2, <1>6, <2>1, <2>3 DEF AckedInLog
  <2> QED
    BY <2>2, <2>3
<1> QED
  BY <1>4, <1>5, <1>7, <1>8 DEF OutboxInv

\* Marking a row, or failing to: only an acknowledged record makes it published.
LEMMA MarkInv ==
  ASSUME OutboxInv, NEW d \in Dispatchers, NEW e \in disp[d].todo,
         MarkPublished(d, e) \/ MarkFailed(d, e) \/ MarkErr(d, e)
  PROVE  OutboxInv' /\ SameRows
<1>0. /\ OutboxTypeOK /\ AckedInLog
      /\ e \in DOMAIN outbox /\ AtEvent(d, e) /\ outbox[e] \in Row
      /\ NextEvent(d, e) /\ UNCHANGED <<log, committed>>
  BY RowsAreRecords DEF OutboxInv, MarkPublished, MarkFailed, MarkErr
<1>1. /\ disp' \in [Dispatchers -> Dispatch]
      /\ disp'[d].pc = "publish" /\ disp'[d].todo = disp[d].todo \ {e}
      /\ \A x \in Dispatchers : x # d => disp'[x] = disp[x]
  BY <1>0, NextEventFacts
<1>2. \A x \in Dispatchers : disp'[x].todo \subseteq DOMAIN outbox
  BY <1>0, <1>1 DEF OutboxTypeOK
<1>3. \A x \in Dispatchers : disp'[x].pc # "publish" => disp'[x] = disp[x] /\ disp'[x].todo # {}
  BY <1>0, <1>1 DEF OutboxTypeOK
<1>4. SameRows /\ \A f \in DOMAIN outbox :
                    outbox'[f].status = "published" => outbox[f].status = "published" \/ InLog(f)
  <2>1. CASE MarkPublished(d, e)
    <3>1. InLog(e) /\ outbox' = [outbox EXCEPT ![e].status = "published"]
      BY <1>0, <2>1 DEF MarkPublished, AckedInLog
    <3> DEFINE r == [video |-> outbox[e].video, status |-> "published", hold |-> outbox[e].hold]
    <3>2. r \in Row /\ outbox' = [outbox EXCEPT ![e] = r]
      BY <1>0, <3>1, RowFacts
    <3> QED
      BY <1>0, <3>1, <3>2, RowReplaced
  <2>2. CASE MarkFailed(d, e)
    <3> DEFINE h == IF outbox[e].status = "pending" THEN "lease" ELSE outbox[e].hold
               r == [video |-> outbox[e].video, status |-> outbox[e].status, hold |-> h]
    <3>1. outbox' = [outbox EXCEPT ![e].hold = h]
      BY <2>2 DEF MarkFailed
    <3>2. h \in {"due", "retry", "lease"}
      BY <1>0 DEF Row
    <3>3. r \in Row /\ outbox' = [outbox EXCEPT ![e] = r]
      BY <1>0, <3>1, <3>2, RowFacts
    <3> QED
      BY <1>0, <3>3, RowReplaced
  <2>3. CASE MarkErr(d, e)
    BY <1>0, <2>3 DEF MarkErr, OutboxTypeOK, SameRows
  <2> QED
    BY <2>1, <2>2, <2>3
<1> QED
  BY <1>1, <1>2, <1>3, <1>4, <1>0, QuietStep

\* A dispatcher that stops forgets its batch.
LEMMA DispatcherCrashInv ==
  ASSUME OutboxInv, NEW d \in Dispatchers, DispatcherCrash(d)
  PROVE  OutboxInv' /\ SameRows
<1>0. /\ OutboxTypeOK /\ disp \in [Dispatchers -> Dispatch]
      /\ disp' = [disp EXCEPT ![d] = Resting] /\ UNCHANGED <<log, committed, outbox>>
  BY DEF OutboxInv, OutboxTypeOK, DispatcherCrash
<1>1. Resting \in Dispatch /\ Resting.pc = "publish" /\ Resting.todo = {}
  BY DEF Resting, Dispatch
<1>2. SameRows
  BY <1>0 DEF OutboxTypeOK, SameRows
<1> QED
  BY <1>0, <1>1, <1>2, QuietStep DEF OutboxTypeOK

\* Time makes a row due.
LEMMA WakeInv ==
  ASSUME OutboxInv, NEW e \in DOMAIN outbox, NEW hold, Wake(e, hold)
  PROVE  /\ OutboxInv' /\ SameRows
         /\ outbox'[e] = [video |-> outbox[e].video, status |-> "pending", hold |-> "due"]
         /\ \A f \in DOMAIN outbox : f # e => outbox'[f] = outbox[f]
<1> DEFINE r == [video |-> outbox[e].video, status |-> outbox[e].status, hold |-> "due"]
<1>0. /\ OutboxTypeOK /\ outbox[e].status = "pending"
      /\ outbox' = [outbox EXCEPT ![e].hold = "due"] /\ UNCHANGED <<log, committed, disp>>
  BY DEF OutboxInv, Wake
<1>1. r \in Row /\ outbox' = [outbox EXCEPT ![e] = r]
  BY <1>0, RowFacts
<1>2. SameRows /\ outbox'[e] = r /\ \A f \in DOMAIN outbox : f # e => outbox'[f] = outbox[f]
  BY <1>0, <1>1, RowReplaced
<1> QED
  BY <1>0, <1>2, QuietStep DEF OutboxTypeOK

\* Every step of the outbox, faults included, preserves the invariant.
LEMMA OutboxNextInv == OutboxInv /\ [OutboxNext]_outboxVars => OutboxInv'
<1> SUFFICES ASSUME OutboxInv, [OutboxNext]_outboxVars PROVE OutboxInv'
  OBVIOUS
<1>1. CASE UNCHANGED outboxVars
  BY <1>1 DEF outboxVars, OutboxInv, OutboxTypeOK, LogIsRows, PublishedInLog,
              AckedInLog, InLog, AtEvent, Offsets
<1>2. CASE OutboxNext
  BY <1>2, InsertEventInv, ClaimDueInv, PublishInv, MarkInv, DispatcherCrashInv, WakeInv
     DEF OutboxNext, OutboxNormal, DispatcherStep, LeaseExpires, LeaseOverrun, RetryEventDue
<1> QED
  BY <1>1, <1>2

-----------------------------------------------------------------------------
\* Whatever the dispatchers, their API processes, the database and the broker
\* do: records come from rows, and what is published or acknowledged is in Kafka.
THEOREM OutboxInvariant == OutboxSpec => []OutboxInv
<1> QED
  BY OutboxInitInv, OutboxNextInv, PTL DEF OutboxSpec

\* A row leaves the pending ones only when Kafka has its record.
THEOREM PublishedIsInLog == OutboxSpec => []PublishedInLog
<1>1. OutboxInv => PublishedInLog
  BY DEF OutboxInv
<1> QED
  BY <1>1, OutboxInvariant, PTL

-----------------------------------------------------------------------------
(***************************************************************************)
(* The pipeline implements its three parts.                                *)
(***************************************************************************)

PartsInv == LoopInv /\ OutboxInv /\ TablesInv

StepOfParts == [LoopNext]_loopVars /\ [OutboxNext]_outboxVars /\ [JobsNext]_jobsVars

\* A step that is no fault of the outbox.
NormalParts == [LoopNext]_loopVars /\ [OutboxNormal]_outboxVars /\ [JobsNext]_jobsVars

LEMMA NormalIsStep == NormalParts => StepOfParts
BY DEF NormalParts, StepOfParts, OutboxNext

\* A worker in a batch is at a row of the table.
LEMMA CurrentRow ==
  ASSUME PartsInv, NEW w \in Workers, InBatch(w)
  PROVE  /\ Part(w) \in Partitions
         /\ Offset(w) \in Offsets(Part(w))
         /\ CurrentRecord(w) \in DOMAIN outbox
         /\ CurrentVideo(w) \in Videos
<1>0. LoopTypeOK /\ OutboxTypeOK /\ LogIsRows
  BY DEF PartsInv, LoopInv, OutboxInv
<1>1. Part(w) \in Partitions /\ Offset(w) \in Offsets(Part(w))
  BY <1>0 DEF LoopTypeOK, KafkaTypeOK, InBatch, Batch, Part, Offset, Offsets
<1>2. CurrentRecord(w) \in DOMAIN outbox
  BY <1>0, <1>1 DEF LogIsRows, CurrentRecord
<1>3. outbox[CurrentRecord(w)] \in Row
  BY <1>0, <1>2, RowsAreRecords
<1> QED
  BY <1>1, <1>2, <1>3 DEF CurrentVideo, VideoOf, Row

\* The author's requests: jobs, and a row for a submission.
LEMMA AuthorParts ==
  ASSUME NEW v \in Videos, Author(v) \/ StaleTime(v)
  PROVE  /\ UNCHANGED loopVars
         /\ UNCHANGED outboxVars \/ (BeginProcessing(v) /\ InsertEvent(v, "due"))
         /\ JobsNext
BY DEF Author, Complete, StaleTime, InsertEvent, OutboxRest, KafkaRest, ConsumerRest, kafkaVars,
       consumerVars, loopVars, outboxVars, JobsNext

\* Dispatchers and time: rows, records, and jobs noted as queued or due.
LEMMA DispatchParts ==
  ASSUME PartsInv, NEW d \in Dispatchers, DispatchStep(d)
  PROVE  NormalParts
<1>1. CASE ClaimDue(d) /\ ConsumerRest /\ JobsRest
  BY <1>1 DEF ClaimDue, ConsumerRest, JobsRest, consumerVars, loopVars, NormalParts, OutboxNormal,
     DispatcherStep
<1>2. ASSUME NEW e \in disp[d].todo, PublishOk(d, e), ConsumerRest, JobsRest PROVE NormalParts
  <2>1. e \in Records /\ PartitionOf[outbox[e].video] \in Partitions
    BY <1>2, RowsAreRecords DEF PartsInv, OutboxInv
  <2>2. Arrival
    BY <1>2, <2>1 DEF PublishOk, Arrival, ConsumerRest
  <2> QED
    BY <1>2, <2>2 DEF JobsRest, NormalParts, LoopNext, LoopNormal, OutboxNormal, DispatcherStep
<1>3. ASSUME NEW e \in disp[d].todo, DispatchPublished(d, e) PROVE NormalParts
  <2>1. VideoOf(e) \in Videos
    <3>1. outbox[e] \in Row
      BY <1>3, RowsAreRecords DEF PartsInv, OutboxInv
    <3> QED
      BY <3>1 DEF Row, VideoOf
  <2> QED
    BY <1>3, <2>1 DEF DispatchPublished, MarkPublished, ConsumerRest, consumerVars, loopVars,
       NormalParts, OutboxNormal, DispatcherStep, JobsNext
<1>4. ASSUME NEW e \in disp[d].todo, MarkFailed(d, e), ConsumerRest, JobsRest PROVE NormalParts
  BY <1>4 DEF MarkFailed, ConsumerRest, JobsRest, consumerVars, loopVars, NormalParts, OutboxNormal,
     DispatcherStep
<1> QED
  BY <1>1, <1>2, <1>3, <1>4 DEF DispatchStep

\* Time passes a row's next_retry_at, and its job's with it.
LEMMA TimeParts ==
  ASSUME PartsInv, NEW e \in DOMAIN outbox, RetryTime(e) \/ LeaseTime(e)
  PROVE  NormalParts
<1>1. VideoOf(e) \in Videos
  <2>1. outbox[e] \in Row
    BY RowsAreRecords DEF PartsInv, OutboxInv
  <2> QED
    BY <2>1 DEF Row, VideoOf
<1> QED
  BY <1>1 DEF RetryTime, LeaseTime, RetryEventDue, LeaseExpires, Wake, ConsumerRest, JobsRest,
     consumerVars, loopVars, NormalParts, OutboxNormal, JobsNext

\* The faults of dispatchers and of the database they wait for.
LEMMA DispatcherFaultParts ==
  ASSUME PartsInv, ConsumerRest, JobsRest,
         \/ \E d \in Dispatchers : DispatcherFault(d)
         \/ \E e \in DOMAIN outbox : LeaseOverrun(e)
  PROVE  StepOfParts
<1>1. ASSUME NEW e \in DOMAIN outbox, LeaseOverrun(e) PROVE StepOfParts
  BY <1>1 DEF LeaseOverrun, Wake, ConsumerRest, JobsRest, consumerVars, loopVars, StepOfParts,
              OutboxNext
<1>2. ASSUME NEW d \in Dispatchers, NEW e \in disp[d].todo, PublishUnacked(d, e) PROVE StepOfParts
  <2>1. e \in Records /\ PartitionOf[outbox[e].video] \in Partitions
    BY <1>2, RowsAreRecords DEF PartsInv, OutboxInv
  <2>2. Arrival
    BY <1>2, <2>1 DEF PublishUnacked, Arrival, ConsumerRest
  <2> QED
    BY <1>2, <2>2 DEF JobsRest, StepOfParts, LoopNext, LoopNormal, OutboxNext
<1>3. ASSUME NEW d \in Dispatchers,
             DispatcherCrash(d) \/ \E e \in disp[d].todo : PublishErr(d, e) \/ MarkErr(d, e)
      PROVE  StepOfParts
  BY <1>3 DEF DispatcherCrash, PublishErr, MarkErr, ConsumerRest, JobsRest, consumerVars, loopVars,
     StepOfParts, OutboxNext
<1> QED
  BY <1>1, <1>2, <1>3 DEF DispatcherFault

\* The loop of a worker alone leaves the rows and the log as they are.
LEMMA LoopOnlyParts ==
  ASSUME OutboxRest, JobsRest \/ \E w \in Workers : Abort(w),
         \/ \E w \in Workers, p \in Partitions :
              Poll(w, p) \/ PollFails(w, p) \/ AssignFree(p, w) \/ Rebalance(p, w)
         \/ \E w \in Workers : \/ Withhold(w) \/ Commit(w) \/ Start(w) \/ Crash(w) \/ CommitFails(w)
                               \/ ProcessErr(w)
  PROVE  NormalParts
<1>1. LoopNext
  BY DEF LoopNext, LoopNormal, LoopStep
<1>2. log' = log
  BY DEF Poll, PollFails, AssignFree, Rebalance, Assign, Withhold, Commit, StoreOffset, Start, Crash,
         CommitFails, Exit, ProcessErr
<1>3. UNCHANGED outboxVars
  BY <1>2 DEF OutboxRest, outboxVars
<1>4. [JobsNext]_jobsVars
  BY DEF JobsRest, JobsNext
<1> QED
  BY <1>1, <1>3, <1>4 DEF NormalParts

\* Process returns: the job's step and the loop's are one.
LEMMA ReturnParts ==
  ASSUME PartsInv, NEW w \in Workers, ProcessOk(w) \/ ProcessErr(w),
         OutboxRest \/ Retry(w),
         \/ AlreadyProcessed(w) \/ ClaimRefused(w) \/ EndConflict(w) \/ Succeed(w)
         \/ FailForGood(w) \/ FailForRetry(w)
  PROVE  NormalParts
<1>1. LoopNext
  BY DEF LoopNext, LoopNormal, LoopStep
<1>2. log' = log
  BY DEF ProcessOk, ProcessErr
<1>3. [OutboxNormal]_outboxVars
  <2>1. CASE OutboxRest
    BY <1>2, <2>1 DEF OutboxRest, outboxVars
  <2>2. CASE Retry(w)
    <3>1. attempt[w].video \in Videos
      BY <2>2 DEF Retry, FailForRetry, Failing, Working, PartsInv, TablesInv, JobsTypeOK
    <3> QED
      BY <2>2, <3>1 DEF Retry, OutboxNormal
  <2> QED
    BY <2>1, <2>2
<1>4. JobsNext
  BY DEF JobsNext
<1> QED
  BY <1>1, <1>3, <1>4 DEF NormalParts

\* A step of Process inside one record.
LEMMA WithinParts ==
  ASSUME OutboxRest, KafkaRest, ConsumerRest, JobsNext
  PROVE  NormalParts
BY DEF OutboxRest, KafkaRest, kafkaVars, ConsumerRest, consumerVars, loopVars, outboxVars, NormalParts

\* Every step of a worker.
LEMMA WorkerParts ==
  ASSUME PartsInv, NEW w \in Workers, WorkerStep(w)
  PROVE  NormalParts
<1>1. CASE ProcessBegins(w) \/ Within(LoadClaimed(w)) \/ Within(UpdateProgress(w))
  <2>1. ProcessBegins(w) => CurrentVideo(w) \in Videos
    BY CurrentRow DEF ProcessBegins, InBatch
  <2> QED
    BY <1>1, <2>1, WithinParts DEF ProcessBegins, Within, JobsNext
<1>2. CASE ProcessReturns(w)
  BY <1>2, ReturnParts DEF ProcessReturns, ReturnsNil, ReturnsErr, Retry, Busy
<1>3. CASE \/ LoopOnly(\E p \in Partitions : Poll(w, p)) \/ LoopOnly(Withhold(w))
           \/ LoopOnly(Commit(w)) \/ LoopOnly(Start(w))
  BY <1>3, LoopOnlyParts DEF LoopOnly
<1> QED
  BY <1>1, <1>2, <1>3 DEF WorkerStep

\* Every fault of a worker, and the group's assignments.
LEMMA WorkerFaultParts ==
  ASSUME PartsInv, NEW w \in Workers, NEW kind, WorkerFault(w, kind)
  PROVE  NormalParts
<1>1. CASE AttemptDies(w) \/ ClaimErr(w)
  BY <1>1, LoopOnlyParts DEF AttemptDies, ClaimErr, ReturnsErr
<1>2. CASE ReplyLost(w)
  BY <1>2, ReturnParts DEF ReplyLost, ReturnsErr, Retry
<1>3. CASE WorkerCrash(w) \/ CommitCrash(w)
  BY <1>3, LoopOnlyParts DEF WorkerCrash, CommitCrash, AttemptLost
<1>4. CASE BatchLost(w)
  BY <1>4, LoopOnlyParts DEF BatchLost, LoopOnly
<1> QED
  BY <1>1, <1>2, <1>3, <1>4 DEF WorkerFault

LEMMA GroupParts ==
  ASSUME GroupAssigns \/ GroupRebalances
  PROVE  NormalParts
BY LoopOnlyParts DEF GroupAssigns, GroupRebalances, LoopOnly

\* Where neither a dispatcher nor a lease fails, the outbox sees no fault,
\* whatever happens to the workers.
LEMMA PipelineNormalParts ==
  ASSUME PartsInv,
         \/ PipelineNormal \/ GroupRebalances
         \/ \E w \in Workers, kind \in FaultKinds : WorkerFault(w, kind)
  PROVE  NormalParts
<1>1. ASSUME NEW v \in Videos, Author(v) \/ StaleTime(v) PROVE NormalParts
  BY <1>1, AuthorParts DEF NormalParts, OutboxNormal
<1>2. CASE PipelineNormal
  BY <1>1, <1>2, DispatchParts, TimeParts, WorkerParts, GroupParts DEF PipelineNormal
<1> QED
  BY <1>2, WorkerFaultParts, GroupParts

\* Every step of the pipeline is one of each part, or leaves the part alone.
LEMMA PipelineParts ==
  ASSUME PartsInv, [PipelineNext]_<<pipelineVars, faults>>
  PROVE  StepOfParts
<1>1. CASE UNCHANGED <<pipelineVars, faults>>
  BY <1>1 DEF pipelineVars, consumerVars, jobsVars, loopVars, outboxVars, StepOfParts
<1>2. CASE \/ PipelineNormal \/ GroupRebalances
           \/ \E w \in Workers, kind \in FaultKinds : WorkerFault(w, kind)
  BY <1>2, PipelineNormalParts, NormalIsStep
<1>3. CASE \/ \E d \in Dispatchers : DispatcherFault(d) /\ ConsumerRest /\ JobsRest
           \/ (\E e \in DOMAIN outbox : LeaseOverrun(e)) /\ ConsumerRest /\ JobsRest
  BY <1>3, DispatcherFaultParts
<1> QED
  BY <1>1, <1>2, <1>3 DEF PipelineNext

\* So the invariants of the parts are invariants of the whole.
LEMMA PartsNextInv == PartsInv /\ [PipelineNext]_<<pipelineVars, faults>> => PartsInv'
<1> SUFFICES ASSUME PartsInv, [PipelineNext]_<<pipelineVars, faults>> PROVE PartsInv'
  OBVIOUS
<1>1. StepOfParts
  BY PipelineParts
<1> QED
  BY <1>1, LoopNextInv, OutboxNextInv, JobsNextInv DEF StepOfParts, PartsInv

LEMMA PartsInitInv == PipelineInit => PartsInv
BY LoopInitInv, OutboxInitInv, JobsInitInv DEF PipelineInit, PartsInv

-----------------------------------------------------------------------------
\* What holds of the parts holds when they work on one another's events.
THEOREM PartsInvariant == PipelineSpec => []PartsInv
<1> QED
  BY PartsInitInv, PartsNextInv, PTL DEF PipelineSpec

\* The workers of the pipeline are workers of ConsumeLoop: Process returns
\* nothing that the loop's environment could not have returned.
THEOREM PipelineImplementsLoop == PipelineSpec => LoopSpec
<1>1. PipelineInit => LoopInit
  BY DEF PipelineInit
<1>2. PartsInv /\ [PipelineNext]_<<pipelineVars, faults>> => [LoopNext]_loopVars
  BY PipelineParts DEF StepOfParts
<1> QED
  BY <1>1, <1>2, PartsInvariant, PTL DEF PipelineSpec, LoopSpec

\* Its outbox is an outbox,
THEOREM PipelineImplementsOutbox == PipelineSpec => OutboxSpec
<1>1. PipelineInit => OutboxInit
  BY DEF PipelineInit
<1>2. PartsInv /\ [PipelineNext]_<<pipelineVars, faults>> => [OutboxNext]_outboxVars
  BY PipelineParts DEF StepOfParts
<1> QED
  BY <1>1, <1>2, PartsInvariant, PTL DEF PipelineSpec, OutboxSpec

\* and its jobs are jobs: an event never asks for a video that has no row.
THEOREM PipelineImplementsJobs == PipelineSpec => JobsSpec
<1>1. PipelineInit => JobsInit
  BY DEF PipelineInit
<1>2. PartsInv /\ [PipelineNext]_<<pipelineVars, faults>> => [JobsNext]_jobsVars
  BY PipelineParts DEF StepOfParts
<1> QED
  BY <1>1, <1>2, PartsInvariant, PTL DEF PipelineSpec, JobsSpec

-----------------------------------------------------------------------------
(***************************************************************************)
(* No job is lost.                                                         *)
(*                                                                         *)
(* A row that is no longer pending has its record in the log; a record     *)
(* that the group will not fetch again was handled, or dropped by a failed *)
(* Poll, which is the one way to lose it; and a record that was handled is *)
(* a thing of the past: its job is finished, or has a later row for its    *)
(* next attempt.  So the latest row of an unfinished job leads to an       *)
(* attempt still, or was dropped.                                          *)
(***************************************************************************)

\* An attempt is on the job of the record its worker is at.
AttemptAtRecord ==
  \A w \in Workers :
    attempt[w].pc # "idle" => loop[w] = "process" /\ attempt[w].video = CurrentVideo(w)

LatestRow(v, e) ==
  /\ e \in DOMAIN outbox
  /\ VideoOf(e) = v
  /\ \A f \in DOMAIN outbox : VideoOf(f) = v => f <= e

JobHasRow ==
  \A v \in Videos : job[v].status # "none" => \E e \in DOMAIN outbox : LatestRow(v, e)

Superseded(e) == \E f \in DOMAIN outbox : e < f /\ VideoOf(f) = VideoOf(e)

HandledIsPast ==
  \A p \in Partitions : \A o \in handled[p] :
    Finished(VideoOf(log[p][o])) \/ Superseded(log[p][o])

PipelineInv == PartsInv /\ AttemptAtRecord /\ JobHasRow /\ HandledIsPast

\* What a step of the pipeline may do to the attempts: each is over, or still
\* at the record its worker is at.
AttemptsFollow ==
  \A w \in Workers :
    \/ attempt'[w].pc = "idle"
    \/ /\ loop[w] = "process" /\ loop'[w] = "process" /\ batch'[w] = batch[w]
       /\ attempt'[w].video = CurrentVideo(w)

\* Process returns nil, in one of four ways.
Handling(w) ==
  ProcessOk(w) /\ (AlreadyProcessed(w) \/ Succeed(w) \/ FailForGood(w) \/ Retry(w))

\* No job is created.
NoBirth == \A v \in Videos : job[v].status = "none" => job'[v].status = "none"

StepKind ==
  /\ handled' = handled \/ \E w \in Workers : Handling(w)
  /\ AttemptsFollow
  /\ NoBirth \/ \E v \in Videos : BeginProcessing(v) /\ InsertEvent(v, "due")

\* Where only one worker moves, the other attempts stay where they are.
LEMMA OthersFollow ==
  ASSUME AttemptAtRecord, NEW w \in Workers,
         \/ attempt'[w].pc = "idle"
         \/ /\ loop[w] = "process" /\ loop'[w] = "process" /\ batch'[w] = batch[w]
            /\ attempt'[w].video = CurrentVideo(w),
         \A x \in Workers \ {w} :
           attempt'[x] = attempt[x] /\ loop'[x] = loop[x] /\ batch'[x] = batch[x]
  PROVE  AttemptsFollow
BY DEF AttemptAtRecord, AttemptsFollow

LEMMA AllFollow ==
  ASSUME AttemptAtRecord, UNCHANGED <<attempt, loop, batch>>
  PROVE  AttemptsFollow
BY DEF AttemptAtRecord, AttemptsFollow

\* A job comes into being by BeginProcessing only.
LEMMA JobsAreBorn ==
  ASSUME TablesInv,
         \/ job' = job
         \/ \E v \in Videos : RetryDue(v) \/ JobStale(v) \/ MarkQueued(v)
         \/ \E w \in Workers, v \in Videos : Claim(w, v)
         \/ \E w \in Workers : Succeed(w) \/ FailForGood(w) \/ FailForRetry(w)
  PROVE  NoBirth
<1>0. JobsTypeOK
  BY DEF TablesInv
<1>1. CASE job' = job
  BY <1>1 DEF NoBirth
<1>2. ASSUME NEW v \in Videos, RetryDue(v) \/ JobStale(v) \/ MarkQueued(v) PROVE NoBirth
  <2>1. \A u \in Videos \ {v} : job'[u] = job[u]
    BY <1>0, <1>2 DEF RetryDue, JobStale, MarkQueued, JobsTypeOK
  <2>2. job[v].status = "none" => job'[v].status = "none"
    BY <1>0, <1>2 DEF RetryDue, JobStale, MarkQueued, JobsTypeOK, Job
  <2> QED
    BY <2>1, <2>2 DEF NoBirth
<1>3. ASSUME NEW w \in Workers, NEW v \in Videos, Claim(w, v) PROVE NoBirth
  BY <1>0, <1>3 DEF Claim, Claimable, NoBirth, JobsTypeOK
<1>4. ASSUME NEW w \in Workers, Succeed(w) \/ FailForGood(w) \/ FailForRetry(w) PROVE NoBirth
  BY <1>0, <1>4 DEF Succeed, CanEnd, FailForGood, FailForRetry, NoBirth, JobsTypeOK
<1> QED
  BY <1>1, <1>2, <1>3, <1>4

\* The author's requests and time move no attempt, and only Complete creates a
\* job.
LEMMA ApiKinds ==
  ASSUME PartsInv, AttemptAtRecord, NEW v \in Videos, Author(v) \/ StaleTime(v)
  PROVE  StepKind
<1>1. UNCHANGED loopVars
  BY AuthorParts
<1>2. attempt' = attempt
  BY DEF Author, Complete, StaleTime, BeginProcessing, Create, DeleteOwned, UpdateOwned, JobStale
<1>3. NoBirth \/ \E u \in Videos : BeginProcessing(u) /\ InsertEvent(u, "due")
  <2>1. CASE Complete(v)
    BY <2>1 DEF Complete
  <2>2. CASE job' = job
    BY <2>2 DEF NoBirth
  <2>3. CASE JobStale(v)
    BY <2>3 DEF JobStale, NoBirth, PartsInv, TablesInv, JobsTypeOK
  <2> QED
    BY <2>1, <2>2, <2>3 DEF Author, StaleTime, Create, DeleteOwned, UpdateOwned
<1> QED
  BY <1>1, <1>2, <1>3, AllFollow DEF loopVars, StepKind

\* Nor do the dispatchers, their faults and the leases.
LEMMA DispatcherKinds ==
  ASSUME PartsInv, AttemptAtRecord, ConsumerRest,
         \/ JobsRest \/ \E v \in Videos : RetryDue(v) \/ MarkQueued(v)
  PROVE  StepKind
<1>1. UNCHANGED <<handled, loop, batch>>
  BY DEF ConsumerRest, consumerVars
<1>2. attempt' = attempt
  BY DEF JobsRest, jobsVars, RetryDue, MarkQueued
<1>3. NoBirth
  BY JobsAreBorn DEF PartsInv, JobsRest, jobsVars
<1> QED
  BY <1>1, <1>2, <1>3, AllFollow DEF StepKind

\* A worker goes on in its loop while it has no attempt.
LEMMA LoopOnlyKinds ==
  ASSUME PartsInv, AttemptAtRecord, NEW w \in Workers, attempt'[w].pc = "idle",
         \/ JobsRest \/ Abort(w),
         \/ \E p \in Partitions : Poll(w, p) \/ PollFails(w, p)
         \/ Withhold(w) \/ Commit(w) \/ Start(w) \/ Crash(w) \/ CommitFails(w) \/ ProcessErr(w)
  PROVE  StepKind
<1>0. /\ attempt \in [Workers -> Attempt]
      /\ loop \in [Workers -> LoopState] /\ batch \in [Workers -> Batch]
  BY DEF PartsInv, TablesInv, JobsTypeOK, LoopInv, LoopTypeOK
<1>1. handled' = handled
  BY DEF Poll, PollFails, Withhold, Commit, Start, Crash, CommitFails, Exit, ProcessErr
<1>2. \A x \in Workers \ {w} : loop'[x] = loop[x] /\ batch'[x] = batch[x]
  BY <1>0 DEF Poll, PollFails, Withhold, Commit, Start, Crash, CommitFails, Exit, ProcessErr, NextRecord
<1>3. \A x \in Workers \ {w} : attempt'[x] = attempt[x]
  BY <1>0 DEF JobsRest, jobsVars, Abort, EndAttempt
<1>4. NoBirth
  BY JobsAreBorn DEF PartsInv, JobsRest, jobsVars, Abort
<1> QED
  BY <1>1, <1>2, <1>3, <1>4, OthersFollow DEF StepKind

\* Process returns, and ends its attempt.
LEMMA ReturnKinds ==
  ASSUME PartsInv, AttemptAtRecord, NEW w \in Workers,
         Handling(w) \/ ProcessErr(w),
         \/ AlreadyProcessed(w) \/ ClaimRefused(w) \/ EndConflict(w) \/ Succeed(w)
         \/ FailForGood(w) \/ FailForRetry(w)
  PROVE  StepKind
<1>0. /\ attempt \in [Workers -> Attempt]
      /\ loop \in [Workers -> LoopState] /\ batch \in [Workers -> Batch]
  BY DEF PartsInv, TablesInv, JobsTypeOK, LoopInv, LoopTypeOK
<1>1. handled' = handled \/ Handling(w)
  BY DEF Handling, ProcessOk, ProcessErr
<1>2. \A x \in Workers \ {w} : loop'[x] = loop[x] /\ batch'[x] = batch[x]
  BY <1>0 DEF Handling, ProcessOk, ProcessErr, NextRecord
<1>3. EndAttempt(w)
  BY DEF AlreadyProcessed, ClaimRefused, EndConflict, Succeed, FailForGood, FailForRetry
<1>4. attempt'[w].pc = "idle" /\ \A x \in Workers \ {w} : attempt'[x] = attempt[x]
  BY <1>0, <1>3, IdleIsAttempt DEF EndAttempt
<1>5. NoBirth
  BY JobsAreBorn DEF PartsInv, AlreadyProcessed, ClaimRefused, EndConflict
<1> QED
  BY <1>1, <1>2, <1>4, <1>5, OthersFollow DEF StepKind

\* A step inside Process keeps the attempt at the record.
LEMMA WithinKinds ==
  ASSUME PartsInv, AttemptAtRecord, NEW w \in Workers, ConsumerRest,
         \/ /\ loop[w] = "process"
            /\ Claim(w, CurrentVideo(w)) \/ ClaimMisses(w, CurrentVideo(w))
         \/ LoadClaimed(w) \/ UpdateProgress(w)
  PROVE  StepKind
<1>0. attempt \in [Workers -> Attempt]
  BY DEF PartsInv, TablesInv, JobsTypeOK
<1>1. UNCHANGED <<handled, loop, batch>>
  BY DEF ConsumerRest, consumerVars
<1>2. \A x \in Workers \ {w} : attempt'[x] = attempt[x]
  BY <1>0 DEF Claim, ClaimMisses, LoadClaimed, UpdateProgress
<1>3. loop[w] = "process" /\ attempt'[w].video = CurrentVideo(w)
  <2>1. CASE /\ loop[w] = "process"
             /\ Claim(w, CurrentVideo(w)) \/ ClaimMisses(w, CurrentVideo(w))
    BY <1>0, <2>1 DEF Claim, ClaimMisses, At
  <2>2. CASE LoadClaimed(w) \/ UpdateProgress(w)
    BY <1>0, <2>2 DEF LoadClaimed, UpdateProgress, Working, AttemptAtRecord, Attempt
  <2> QED
    BY <2>1, <2>2
<1>4. NoBirth
  <2>1. loop[w] = "process" => CurrentVideo(w) \in Videos
    BY CurrentRow DEF InBatch
  <2> QED
    BY <2>1, JobsAreBorn DEF PartsInv, ClaimMisses, LoadClaimed, UpdateProgress
<1> QED
  BY <1>1, <1>2, <1>3, <1>4, OthersFollow DEF StepKind

\* An ended attempt is idle.
LEMMA EndedIsIdle ==
  ASSUME PartsInv, NEW w \in Workers, EndAttempt(w)
  PROVE  attempt'[w].pc = "idle"
BY IdleIsAttempt DEF EndAttempt, PartsInv, TablesInv, JobsTypeOK

LEMMA WorkerKinds ==
  ASSUME PartsInv, AttemptAtRecord, NEW w \in Workers, WorkerStep(w)
  PROVE  StepKind
<1>1. CASE ProcessBegins(w) \/ Within(LoadClaimed(w)) \/ Within(UpdateProgress(w))
  BY <1>1, WithinKinds DEF ProcessBegins, Within
<1>2. CASE ProcessReturns(w)
  BY <1>2, ReturnKinds DEF ProcessReturns, ReturnsNil, ReturnsErr, Retry, Busy, Handling
<1>3. CASE \/ LoopOnly(\E p \in Partitions : Poll(w, p)) \/ LoopOnly(Withhold(w))
           \/ LoopOnly(Commit(w)) \/ LoopOnly(Start(w))
  <2>1. loop[w] # "process" /\ JobsRest
    BY <1>3 DEF LoopOnly, Poll, Withhold, Commit, Start
  <2>2. attempt'[w].pc = "idle"
    BY <2>1 DEF AttemptAtRecord, JobsRest, jobsVars
  <2> QED
    BY <1>3, <2>1, <2>2, LoopOnlyKinds DEF LoopOnly
<1> QED
  BY <1>1, <1>2, <1>3 DEF WorkerStep

LEMMA WorkerFaultKinds ==
  ASSUME PartsInv, AttemptAtRecord, NEW w \in Workers, NEW kind, WorkerFault(w, kind)
  PROVE  StepKind
<1>1. CASE AttemptDies(w)
  <2>1. Abort(w) /\ ProcessErr(w) /\ EndAttempt(w)
    BY <1>1 DEF AttemptDies, ReturnsErr, Abort
  <2> QED
    BY <2>1, EndedIsIdle, LoopOnlyKinds
<1>2. CASE ClaimErr(w)
  <2>1. JobsRest /\ ProcessErr(w) /\ attempt'[w].pc = "idle"
    BY <1>2 DEF ClaimErr, ReturnsErr, JobsRest, jobsVars
  <2> QED
    BY <2>1, LoopOnlyKinds
<1>3. CASE ReplyLost(w)
  BY <1>3, ReturnKinds DEF ReplyLost, ReturnsErr, Retry
<1>4. CASE WorkerCrash(w) \/ CommitCrash(w)
  <2>1. AttemptLost(w) /\ (Crash(w) \/ CommitFails(w))
    BY <1>4 DEF WorkerCrash, CommitCrash
  <2>2. /\ JobsRest \/ Abort(w)
        /\ attempt'[w].pc = "idle"
    BY <2>1, EndedIsIdle DEF AttemptLost, Abort, JobsRest, jobsVars
  <2> QED
    BY <2>1, <2>2, LoopOnlyKinds
<1>5. CASE BatchLost(w)
  <2>1. /\ loop[w] # "process" /\ JobsRest
        /\ \E p \in Partitions : PollFails(w, p)
    BY <1>5 DEF BatchLost, LoopOnly, PollFails
  <2>2. attempt'[w].pc = "idle"
    BY <2>1 DEF AttemptAtRecord, JobsRest, jobsVars
  <2> QED
    BY <2>1, <2>2, LoopOnlyKinds
<1> QED
  BY <1>1, <1>2, <1>3, <1>4, <1>5 DEF WorkerFault

LEMMA GroupKinds ==
  ASSUME PartsInv, AttemptAtRecord, GroupAssigns \/ GroupRebalances
  PROVE  StepKind
<1>1. UNCHANGED <<handled, loop, batch>> /\ JobsRest
  BY DEF GroupAssigns, GroupRebalances, LoopOnly, AssignFree, Rebalance, Assign
<1>2. attempt' = attempt /\ NoBirth
  BY <1>1, JobsAreBorn DEF PartsInv, JobsRest, jobsVars
<1> QED
  BY <1>1, <1>2, AllFollow DEF StepKind

\* Each step of the pipeline is of one of the kinds.
LEMMA StepKinds ==
  ASSUME PartsInv, AttemptAtRecord, [PipelineNext]_<<pipelineVars, faults>>
  PROVE  StepKind
<1>1. CASE UNCHANGED <<pipelineVars, faults>>
  BY <1>1, AllFollow DEF pipelineVars, consumerVars, jobsVars, StepKind, NoBirth
<1>2. ASSUME NEW e \in DOMAIN outbox, RetryTime(e) \/ LeaseTime(e) PROVE StepKind
  <2>1. outbox[e] \in Row
    BY <1>2, RowsAreRecords DEF PartsInv, OutboxInv
  <2>2. VideoOf(e) \in Videos
    BY <2>1 DEF Row, VideoOf
  <2> QED
    BY <1>2, <2>2, DispatcherKinds DEF RetryTime, LeaseTime
<1>3. ASSUME NEW d \in Dispatchers, DispatchStep(d) PROVE StepKind
  <2>1. ASSUME NEW e \in disp[d].todo, DispatchPublished(d, e) PROVE StepKind
    <3>1. outbox[e] \in Row
      BY <2>1, RowsAreRecords DEF PartsInv, OutboxInv
    <3>2. VideoOf(e) \in Videos
      BY <3>1 DEF Row, VideoOf
    <3> QED
      BY <2>1, <3>2, DispatcherKinds DEF DispatchPublished
  <2> QED
    BY <1>3, <2>1, DispatcherKinds DEF DispatchStep
<1>4. CASE PipelineNormal
  BY <1>2, <1>3, <1>4, ApiKinds, WorkerKinds, GroupKinds DEF PipelineNormal
<1>5. CASE \/ \E d \in Dispatchers : DispatcherFault(d) /\ ConsumerRest /\ JobsRest
           \/ \E w \in Workers, kind \in FaultKinds : Fault(kind) /\ WorkerFault(w, kind)
           \/ Fault("rebalance") /\ GroupRebalances
           \/ /\ Fault("lease")
              /\ \E e \in DOMAIN outbox : LeaseOverrun(e)
              /\ ConsumerRest /\ JobsRest
  BY <1>5, DispatcherKinds, WorkerFaultKinds, GroupKinds
<1> QED
  BY <1>1, <1>4, <1>5 DEF PipelineNext

-----------------------------------------------------------------------------
\* Rows stay and keep their videos; one more may come, after all others.
LEMMA RowsStay ==
  ASSUME OutboxInv, [OutboxNext]_outboxVars
  PROVE  /\ \A e \in DOMAIN outbox : e \in DOMAIN outbox' /\ VideoOf(e)' = VideoOf(e)
         /\ \/ DOMAIN outbox' = DOMAIN outbox
            \/ /\ DOMAIN outbox' = DOMAIN outbox \cup {Len(outbox) + 1}
               /\ \A e \in DOMAIN outbox : e < Len(outbox) + 1
<1> USE DEF VideoOf
<1>1. CASE \E v \in Videos, hold \in {"due", "retry"} : InsertEvent(v, hold)
  BY <1>1, InsertEventInv
<1>2. CASE SameRows
  BY <1>2 DEF SameRows
<1>3. CASE outbox' = outbox
  BY <1>3
<1>4. ASSUME NEW d \in Dispatchers,
             \/ DispatcherStep(d) \/ DispatcherCrash(d)
             \/ \E e \in disp[d].todo : PublishUnacked(d, e) \/ PublishErr(d, e) \/ MarkErr(d, e)
      PROVE  SameRows \/ outbox' = outbox
  BY <1>4, ClaimDueInv, MarkInv, DispatcherCrashInv DEF DispatcherStep, PublishOk, PublishUnacked,
     PublishErr, Answer
<1>5. ASSUME NEW e \in DOMAIN outbox, LeaseExpires(e) \/ RetryEventDue(e) \/ LeaseOverrun(e)
      PROVE  SameRows
  BY <1>5, WakeInv DEF LeaseExpires, RetryEventDue, LeaseOverrun
<1> QED
  BY <1>1, <1>2, <1>3, <1>4, <1>5 DEF OutboxNext, OutboxNormal, outboxVars

\* Records stay where they are.
LEMMA RecordsStay ==
  ASSUME LoopInv, [LoopNext]_loopVars
  PROVE  \A p \in Partitions : \A o \in Offsets(p) : o \in Offsets(p)' /\ log'[p][o] = log[p][o]
<1>1. CASE log' = log
  BY <1>1 DEF Offsets
<1>2. ASSUME NEW p \in Partitions, NEW r \in Records, Produce(p, r)
      PROVE  \A q \in Partitions : \A o \in Offsets(q) : o \in Offsets(q)' /\ log'[q][o] = log[q][o]
  BY <1>2, ProduceFacts DEF LoopInv, LoopTypeOK, KafkaTypeOK
<1> QED
  BY <1>1, <1>2 DEF LoopNext, LoopNormal, LoopStep, Arrival, Poll, ProcessErr, ProcessOk,
     DiscardInvalid, Withhold, Commit, StoreOffset, Start, AssignFree, Rebalance, Assign, PollFails,
     CommitFails, Crash, Exit, loopVars

\* What the parts give, for a step that keeps their invariants: rows, records
\* and outcomes stay.
LEMMA PastStays ==
  ASSUME PartsInv, [PipelineNext]_<<pipelineVars, faults>>
  PROVE  /\ PartsInv'
         /\ \A e \in DOMAIN outbox : e \in DOMAIN outbox' /\ VideoOf(e)' = VideoOf(e)
         /\ \A p \in Partitions : \A o \in Offsets(p) : o \in Offsets(p)' /\ log'[p][o] = log[p][o]
         /\ \A v \in Videos : Finished(v) => Finished(v)'
<1>1. StepOfParts /\ PartsInv'
  BY PipelineParts, PartsNextInv
<1>2. \A v \in Videos : Finished(v) => Finished(v)'
  BY <1>1, JobsAdvance DEF StepOfParts, PartsInv, JobAdvances, Finished, jobsVars
<1> QED
  BY <1>1, <1>2, RowsStay, RecordsStay DEF StepOfParts, PartsInv

\* The record and the row a worker is at stay its record and its row.
LEMMA AttemptAtRecordInv ==
  ASSUME PartsInv, AttemptAtRecord, [PipelineNext]_<<pipelineVars, faults>>
  PROVE  AttemptAtRecord'
<1>1. AttemptsFollow
  BY StepKinds DEF StepKind
<1> SUFFICES ASSUME NEW w \in Workers, attempt'[w].pc # "idle"
             PROVE  loop'[w] = "process" /\ attempt'[w].video = CurrentVideo(w)'
  BY DEF AttemptAtRecord
<1>2. /\ loop[w] = "process" /\ loop'[w] = "process" /\ batch'[w] = batch[w]
      /\ attempt'[w].video = CurrentVideo(w)
  BY <1>1 DEF AttemptsFollow
<1>3. /\ Part(w) \in Partitions /\ Offset(w) \in Offsets(Part(w))
      /\ CurrentRecord(w) \in DOMAIN outbox
  BY <1>2, CurrentRow DEF InBatch
<1>4. CurrentRecord(w)' = CurrentRecord(w)
  BY <1>2, <1>3, PastStays DEF CurrentRecord, Part, Offset
<1>5. CurrentVideo(w)' = CurrentVideo(w)
  BY <1>3, <1>4, PastStays DEF CurrentVideo
<1> QED
  BY <1>2, <1>5

\* Of a video with a job, one row is always the latest.
LEMMA JobHasRowInv ==
  ASSUME PartsInv, AttemptAtRecord, JobHasRow, [PipelineNext]_<<pipelineVars, faults>>
  PROVE  JobHasRow'
<1> SUFFICES ASSUME NEW v \in Videos, job'[v].status # "none"
             PROVE  \E e \in DOMAIN outbox' : LatestRow(v, e)'
  BY DEF JobHasRow
<1>0. /\ OutboxInv /\ OutboxTypeOK /\ [OutboxNext]_outboxVars
      /\ DOMAIN outbox = 1..Len(outbox) /\ Len(outbox) \in Nat
  BY PipelineParts, RowsAreRecords DEF StepOfParts, PartsInv, OutboxInv
<1>n. PICK n \in Nat : n = Len(outbox) + 1
  BY <1>0
<1>1. /\ \A e \in DOMAIN outbox : e \in DOMAIN outbox' /\ VideoOf(e)' = VideoOf(e)
      /\ \/ DOMAIN outbox' = DOMAIN outbox
         \/ /\ DOMAIN outbox' = DOMAIN outbox \cup {n}
            /\ \A e \in DOMAIN outbox : e < n
  BY <1>0, <1>n, RowsStay
<1>2. CASE DOMAIN outbox' = DOMAIN outbox \cup {n} /\ VideoOf(n)' = v
  <2>1. \A f \in DOMAIN outbox' : f <= n
    BY <1>0, <1>n, <1>2
  <2> QED
    BY <1>2, <2>1 DEF LatestRow
<1>3. CASE job[v].status # "none" /\ ~(DOMAIN outbox' = DOMAIN outbox \cup {n} /\ VideoOf(n)' = v)
  <2>1. PICK e \in DOMAIN outbox : LatestRow(v, e)
    BY <1>3 DEF JobHasRow
  <2>2. \A f \in DOMAIN outbox' : VideoOf(f)' = v => f \in DOMAIN outbox /\ VideoOf(f) = v
    BY <1>1, <1>3
  <2>3. \A f \in DOMAIN outbox' : VideoOf(f)' = v => f <= e
    BY <2>1, <2>2 DEF LatestRow
  <2> QED
    BY <1>1, <2>1, <2>3 DEF LatestRow
<1>4. CASE job[v].status = "none"
  <2>1. ~NoBirth
    BY <1>4 DEF NoBirth
  <2>2. PICK u \in Videos : BeginProcessing(u) /\ InsertEvent(u, "due")
    BY <2>1, StepKinds DEF StepKind
  <2>3. u = v
    BY <1>4, <2>2 DEF BeginProcessing, PartsInv, TablesInv, JobsTypeOK
  <2>4. /\ DOMAIN outbox' = DOMAIN outbox \cup {n}
        /\ outbox'[n] = [video |-> v, status |-> "pending", hold |-> "due"]
    BY <1>0, <1>n, <2>2, <2>3, InsertEventInv
  <2> QED
    BY <1>2, <2>4 DEF VideoOf
<1> QED
  BY <1>2, <1>3, <1>4

\* A record is handled only when its job is finished or has its next row.
LEMMA HandledIsPastInv ==
  ASSUME PartsInv, AttemptAtRecord, HandledIsPast, [PipelineNext]_<<pipelineVars, faults>>
  PROVE  HandledIsPast'
<1>0. /\ OutboxInv /\ LoopTypeOK /\ JobsTypeOK /\ OutboxTypeOK /\ LogIsRows
      /\ \A p \in Partitions : handled[p] \subseteq Offsets(p)
      /\ DOMAIN outbox = 1..Len(outbox) /\ Len(outbox) \in Nat
  BY RowsAreRecords DEF PartsInv, OutboxInv, LoopInv, TablesInv, LoopTypeOK
<1>1. /\ \A e \in DOMAIN outbox : e \in DOMAIN outbox' /\ VideoOf(e)' = VideoOf(e)
      /\ \A p \in Partitions : \A o \in Offsets(p) : o \in Offsets(p)' /\ log'[p][o] = log[p][o]
      /\ \A v \in Videos : Finished(v) => Finished(v)'
  BY PastStays
<1>2. \A e \in DOMAIN outbox : VideoOf(e) \in Videos
  <2>1. \A e \in DOMAIN outbox : outbox[e] \in Row
    BY <1>0, RowsAreRecords
  <2> QED
    BY <2>1 DEF VideoOf, Row
<1>3. \A e \in DOMAIN outbox : Superseded(e) => Superseded(e)'
  BY <1>1 DEF Superseded
<1>4. ASSUME NEW p \in Partitions, NEW o \in handled[p]
      PROVE  (Finished(VideoOf(log[p][o])) \/ Superseded(log[p][o]))'
  <2>1. /\ log[p][o] \in DOMAIN outbox /\ log'[p][o] = log[p][o]
        /\ Finished(VideoOf(log[p][o])) \/ Superseded(log[p][o])
    BY <1>0, <1>1, <1>4 DEF HandledIsPast, LogIsRows
  <2> QED
    BY <1>1, <1>2, <1>3, <2>1 DEF Finished
<1>5. CASE handled' = handled
  BY <1>4, <1>5 DEF HandledIsPast
<1>6. ASSUME NEW w \in Workers, NEW e \in DOMAIN outbox, NEW v \in Videos,
             Handling(w), e = CurrentRecord(w), v = VideoOf(e)
      PROVE  HandledIsPast'
  <2>1. /\ handled' = [handled EXCEPT ![Part(w)] = @ \cup {Offset(w)}] /\ log' = log
        /\ loop[w] = "process"
    BY <1>6 DEF Handling, ProcessOk
  <2>2. Part(w) \in Partitions /\ Offset(w) \in Offsets(Part(w))
    BY <2>1, CurrentRow DEF InBatch
  <2>3. attempt[w].video = v
    BY <1>6 DEF Handling, AlreadyProcessed, Succeed, FailForGood, Retry, FailForRetry, Failing, Working,
       AttemptAtRecord, CurrentVideo
  <2>4. VideoOf(e)' = v
    BY <1>1, <1>6
  <2>5. Finished(v)' \/ Superseded(e)'
    <3>1. CASE AlreadyProcessed(w)
      BY <1>1, <2>3, <3>1 DEF AlreadyProcessed
    <3>2. CASE Succeed(w) \/ FailForGood(w)
      <4>1. job'[v].status \in {"succeeded", "failed"}
        BY <1>0, <2>3, <3>2 DEF Succeed, FailForGood, JobsTypeOK, Job
      <4> QED
        BY <4>1 DEF Finished
    <3>3. CASE Retry(w)
      <4>1. InsertEvent(v, "retry")
        BY <2>3, <3>3 DEF Retry
      <4>2. PICK n \in Nat : n = Len(outbox) + 1
        BY <1>0
      <4>3. /\ n \in DOMAIN outbox' /\ e < n
            /\ outbox'[n] = [video |-> v, status |-> "pending", hold |-> "retry"]
        BY <1>0, <4>1, <4>2, InsertEventInv
      <4>4. VideoOf(n)' = v
        BY <4>3 DEF VideoOf
      <4> QED
        BY <2>4, <4>3, <4>4 DEF Superseded
    <3> QED
      BY <1>6, <3>1, <3>2, <3>3 DEF Handling
  <2> SUFFICES ASSUME NEW p \in Partitions, NEW o \in handled'[p]
               PROVE  (Finished(VideoOf(log[p][o])) \/ Superseded(log[p][o]))'
    BY DEF HandledIsPast
  <2>6. CASE o \in handled[p]
    BY <1>4, <2>6
  <2>7. CASE o \notin handled[p]
    <3>1. p = Part(w) /\ o = Offset(w)
      BY <1>0, <2>1, <2>2, <2>7 DEF LoopTypeOK
    <3>2. log'[p][o] = e
      BY <1>6, <2>1, <3>1 DEF CurrentRecord
    <3>3. (Finished(v) \/ Superseded(e))' => (Finished(VideoOf(log[p][o])) \/ Superseded(log[p][o]))'
      BY <2>4, <3>2 DEF Finished
    <3> QED
      BY <2>5, <3>3
  <2> QED
    BY <2>6, <2>7
<1>7. ASSUME NEW w \in Workers, Handling(w)
      PROVE  CurrentRecord(w) \in DOMAIN outbox /\ VideoOf(CurrentRecord(w)) \in Videos
  BY <1>7, CurrentRow DEF Handling, ProcessOk, InBatch, CurrentVideo
<1> QED
  BY <1>5, <1>6, <1>7, StepKinds DEF StepKind

LEMMA PipelineNextInv == PipelineInv /\ [PipelineNext]_<<pipelineVars, faults>> => PipelineInv'
<1> SUFFICES ASSUME PipelineInv, [PipelineNext]_<<pipelineVars, faults>> PROVE PipelineInv'
  OBVIOUS
<1>0. PartsInv /\ AttemptAtRecord /\ JobHasRow /\ HandledIsPast
  BY DEF PipelineInv
<1> QED
  BY <1>0, PartsNextInv, AttemptAtRecordInv, JobHasRowInv, HandledIsPastInv DEF PipelineInv

LEMMA PipelineInitInv == PipelineInit => PipelineInv
<1> SUFFICES ASSUME PipelineInit PROVE PipelineInv
  OBVIOUS
<1> USE DEF PipelineInit, JobsInit, LoopInit
<1>1. AttemptAtRecord
  BY DEF AttemptAtRecord, Idle, At
<1>2. JobHasRow
  BY DEF JobHasRow, NoJob
<1>3. HandledIsPast
  BY DEF HandledIsPast
<1> QED
  BY <1>1, <1>2, <1>3, PartsInitInv DEF PipelineInv

\* The invariant says that no job is lost: the latest row of an unfinished job
\* is pending, or its record is still to be fetched unless a Poll dropped it.
LEMMA InvKeepsJobs == PipelineInv => NoLostJob
<1> SUFFICES ASSUME PipelineInv, NEW v \in Videos, Unfinished(v)
             PROVE  \E e \in DOMAIN outbox :
                      VideoOf(e) = v /\ (Pending(e) \/ ToConsume(e) \/ Discarded(e))
  BY DEF NoLostJob
<1>0. /\ LoopTypeOK /\ NothingSkipped /\ OutboxTypeOK /\ PublishedInLog
      /\ JobHasRow /\ HandledIsPast
  BY DEF PipelineInv, PartsInv, LoopInv, OutboxInv
<1>1. PICK e \in DOMAIN outbox : LatestRow(v, e)
  BY <1>0 DEF JobHasRow, Unfinished
<1>2. VideoOf(e) = v /\ ~Finished(v) /\ ~Superseded(e)
  <2>1. DOMAIN outbox \subseteq Nat
    BY <1>0, RowsAreRecords
  <2> QED
    BY <1>1, <2>1 DEF LatestRow, Superseded, Unfinished, Finished
<1>3. CASE outbox[e].status = "published"
  <2>1. PICK p \in Partitions : \E o \in Offsets(p) : log[p][o] = e
    BY <1>0, <1>3 DEF PublishedInLog, InLog
  <2>o. PICK o \in Offsets(p) : log[p][o] = e
    BY <2>1
  <2>2. o \notin handled[p]
    BY <1>0, <1>2, <2>o DEF HandledIsPast
  <2>3. CASE o \in dropped[p]
    BY <1>2, <2>o, <2>2, <2>3 DEF Discarded
  <2>4. CASE o \notin dropped[p]
    <3>1. o \notin 1..committed[p]
      BY <1>0, <2>2, <2>4 DEF NothingSkipped
    <3>2. o > committed[p]
      BY <1>0, <3>1 DEF LoopTypeOK, KafkaTypeOK, Offsets
    <3> QED
      BY <1>2, <2>o, <3>2 DEF ToConsume
  <2> QED
    BY <2>3, <2>4
<1>4. CASE outbox[e].status # "published"
  <2>1. outbox[e] \in Row
    BY <1>0, RowsAreRecords
  <2> QED
    BY <1>2, <1>4, <2>1 DEF Pending, Row
<1> QED
  BY <1>3, <1>4

-----------------------------------------------------------------------------
\* For any number of videos, workers, API processes, partitions and faults: the
\* parts keep what they promise each other.
THEOREM PipelineInvariant == PipelineSpec => []PipelineInv
<1> QED
  BY PipelineInitInv, PipelineNextInv, PTL DEF PipelineSpec

\* No submission is lost, wherever the API, Kafka or a worker fails, but for a
\* record that a failed Poll dropped.
THEOREM NoJobIsLost == PipelineSpec => []NoLostJob
<1> QED
  BY PipelineInvariant, InvKeepsJobs, PTL

\* The tables of the pipeline agree, and a finished job stays finished.
THEOREM PipelineTables == PipelineSpec => []TablesInv /\ JobMonotone
<1> QED
  BY PipelineImplementsJobs, TablesInvariant, JobsOnlyAdvance, PTL

\* Where each process has its WORKER_ID, no two attempts meet in the pipeline.
THEOREM PipelineAttempts ==
  ASSUME DistinctIDs
  PROVE  PipelineSpec => []AttemptsInv
<1> QED
  BY PipelineImplementsJobs, AttemptsInvariant, PTL

\* The author and the visitors see the lifecycle of VideoLifecycle.
THEOREM PipelineImplementsLifecycle == PipelineSpec => LifecycleSpec
<1> QED
  BY PipelineImplementsJobs, JobsImplementLifecycle, PTL

\* The group's offsets pass no record that the workers have not handled, except
\* one that a failed Poll dropped.
THEOREM PipelineSkipsNothing == PipelineSpec => []NothingSkipped
<1> QED
  BY PipelineImplementsLoop, NothingIsSkipped, PTL

\* A row of the pipeline is published only when Kafka has its record.
THEOREM PipelinePublishes == PipelineSpec => []PublishedInLog
<1> QED
  BY PipelineImplementsOutbox, PublishedIsInLog, PTL

-----------------------------------------------------------------------------
(***************************************************************************)
(* Duplicates are faults.                                                  *)
(*                                                                         *)
(* What may still publish event e is counted with what has: each           *)
(* dispatcher that holds e and has no acknowledgement of it may, and so    *)
(* may whoever claims the row next, while nobody holds it or its lease is  *)
(* over.  Without a fault the sum never grows, and a fault adds one.       *)
(***************************************************************************)

Acked(d, e) == disp[d].pc = "acked" /\ AtEvent(d, e)

Holders(e) == {d \in Dispatchers : e \in disp[d].todo /\ ~Acked(d, e)}

Loose(e) == outbox[e].status = "pending" /\ (outbox[e].hold # "lease" \/ ~InHand(e))

Ticket(e) == IF Loose(e) THEN 1 ELSE 0

Finite(e) == IsFiniteSet(Places(e)) /\ IsFiniteSet(Holders(e))

Balance(e) == Copies(e) + Cardinality(Holders(e)) + Ticket(e)

Budget ==
  /\ faults \in Nat
  /\ \A e \in DOMAIN outbox : Finite(e) /\ Balance(e) <= 1 + faults

\* The numbers are numbers.
LEMMA Sizes ==
  ASSUME NEW e, Finite(e)
  PROVE  Copies(e) \in Nat /\ Cardinality(Holders(e)) \in Nat /\ Ticket(e) \in {0, 1}
BY FS_CardinalityType DEF Finite, Copies, Ticket

\* Sets that differ in one element at most.
LEMMA OneChanges ==
  ASSUME NEW S, NEW T, NEW d, IsFiniteSet(S), S \ {d} = T \ {d}
  PROVE  /\ IsFiniteSet(T)
         /\ Cardinality(S) \in Nat /\ Cardinality(T) \in Nat
         /\ d \in S /\ d \notin T => Cardinality(S) = Cardinality(T) + 1
         /\ d \notin S /\ d \in T => Cardinality(T) = Cardinality(S) + 1
         /\ (d \in S <=> d \in T) => Cardinality(T) = Cardinality(S)
<1>1. CASE d \in S /\ d \notin T
  <2>1. T = S \ {d} /\ S = T \cup {d}
    BY <1>1
  <2>2. IsFiniteSet(T)
    BY <2>1, FS_RemoveElement
  <2> QED
    BY <1>1, <2>1, <2>2, FS_AddElement, FS_CardinalityType
<1>2. CASE d \notin S /\ d \in T
  <2>1. T = S \cup {d}
    BY <1>2
  <2> QED
    BY <1>2, <2>1, FS_AddElement, FS_CardinalityType
<1>3. CASE d \in S <=> d \in T
  <2>1. T = S
    BY <1>3
  <2> QED
    BY <2>1, FS_CardinalityType
<1> QED
  BY <1>1, <1>2, <1>3

\* Only dispatcher d moves.
LEMMA HoldersChange ==
  ASSUME NEW e, NEW d \in Dispatchers, Finite(e),
         \A x \in Dispatchers : x # d => disp'[x] = disp[x]
  PROVE  /\ IsFiniteSet(Holders(e))'
         /\ Cardinality(Holders(e)) \in Nat /\ Cardinality(Holders(e))' \in Nat
         /\ d \in Holders(e) /\ d \notin Holders(e)' =>
              Cardinality(Holders(e)) = Cardinality(Holders(e))' + 1
         /\ d \notin Holders(e) /\ d \in Holders(e)' =>
              Cardinality(Holders(e))' = Cardinality(Holders(e)) + 1
         /\ (d \in Holders(e) <=> d \in Holders(e)') =>
              Cardinality(Holders(e))' = Cardinality(Holders(e))
<1>1. Holders(e) \ {d} = Holders(e)' \ {d}
  BY DEF Holders, Acked, AtEvent
<1> QED
  BY <1>1, OneChanges DEF Finite

\* A record more.
LEMMA PlacesGrow ==
  ASSUME log \in [Partitions -> Seq(Records)], NEW p \in Partitions, NEW r \in Records,
         Produce(p, r), NEW e, Finite(e)
  PROVE  /\ IsFiniteSet(Places(e))'
         /\ Copies(e)' = Copies(e) + (IF e = r THEN 1 ELSE 0)
<1>1. PICK n \in 1..MaxLog : n = Len(log[p]) + 1
  BY ProduceFacts
<1>2. /\ n \in Offsets(p)' /\ log'[p][n] = r /\ n \notin Offsets(p)
      /\ \A q \in Partitions : \A o \in Offsets(q) : o \in Offsets(q)' /\ log'[q][o] = log[q][o]
      /\ \A q \in Partitions : \A o \in Offsets(q)' :
           o \in Offsets(q) \/ (q = p /\ o = n /\ log'[q][o] = r)
  BY <1>1, ProduceFacts DEF Offsets
<1>3. CASE e = r
  <2> DEFINE Cells == Partitions \X (1..MaxLog)
  <2>a. <<p, n>> \in Cells /\ <<p, n>>[1] = p /\ <<p, n>>[2] = n
    OBVIOUS
  <2>b. ASSUME NEW at \in Cells
        PROVE  at \in Places(e)' <=> at \in Places(e) \/ at = <<p, n>>
    <3>1. at[1] \in Partitions /\ at = <<at[1], at[2]>>
      OBVIOUS
    <3>2. at[2] \in Offsets(at[1])' /\ log'[at[1]][at[2]] = r
            <=> (at[2] \in Offsets(at[1]) /\ log[at[1]][at[2]] = r) \/ (at[1] = p /\ at[2] = n)
      BY <1>2, <3>1
    <3>3. at = <<p, n>> <=> at[1] = p /\ at[2] = n
      BY <3>1
    <3> QED
      BY <1>3, <3>2, <3>3 DEF Places
  <2>c. Places(e) \subseteq Cells /\ Places(e)' \subseteq Cells
    BY DEF Places
  <2>1. Places(e)' = Places(e) \cup {<<p, n>>}
    <3> HIDE DEF Cells
    <3> QED
      BY <2>a, <2>b, <2>c
  <2>2. <<p, n>> \notin Places(e)
    BY <1>2 DEF Places
  <2>3. IsFiniteSet(Places(e))
    BY DEF Finite
  <2>4. /\ IsFiniteSet(Places(e) \cup {<<p, n>>})
        /\ Cardinality(Places(e) \cup {<<p, n>>}) = Cardinality(Places(e)) + 1
    BY <2>2, <2>3, FS_AddElement
  <2> QED
    BY <1>3, <2>1, <2>4 DEF Copies
<1>4. CASE e # r
  <2>1. Places(e)' = Places(e)
    BY <1>2, <1>4 DEF Places
  <2> QED
    BY <1>4, <2>1, FS_CardinalityType DEF Copies, Finite
<1> QED
  BY <1>3, <1>4

AllFinite == \A e \in DOMAIN outbox : Finite(e)

\* A step that needs no fault, and one that is a fault.
Kept == \A e \in DOMAIN outbox : Finite(e)' /\ Balance(e)' <= Balance(e)
Grown == \A e \in DOMAIN outbox : Finite(e)' /\ Balance(e)' <= Balance(e) + 1

\* A step that costs nothing costs one at most.
LEMMA KeptIsGrown == AllFinite /\ Kept => Grown
<1> SUFFICES ASSUME AllFinite, Kept, NEW e \in DOMAIN outbox
             PROVE  Finite(e)' /\ Balance(e)' <= Balance(e) + 1
  BY DEF Grown
<1>1. Finite(e) /\ Finite(e)' /\ Balance(e)' <= Balance(e)
  BY DEF AllFinite, Kept
<1>2. Balance(e) \in Nat
  BY <1>1, Sizes DEF Balance
<1>3. Balance(e)' \in Nat
  <2>1. /\ Copies(e)' \in Nat /\ Cardinality(Holders(e))' \in Nat
    BY <1>1, FS_CardinalityType DEF Finite, Copies
  <2>2. Ticket(e)' \in {0, 1}
    BY DEF Ticket
  <2> QED
    BY <2>1, <2>2 DEF Balance
<1> QED
  BY <1>1, <1>2, <1>3

\* Nothing is published, and at most one dispatcher moves.
LEMMA NoCopy ==
  ASSUME NEW e, NEW d \in Dispatchers, Finite(e), log' = log,
         \A x \in Dispatchers : x # d => disp'[x] = disp[x]
  PROVE  /\ Finite(e)' /\ Copies(e)' = Copies(e) /\ Copies(e) \in Nat
         /\ Ticket(e) \in {0, 1} /\ Ticket(e)' \in {0, 1}
<1>1. Places(e)' = Places(e)
  BY DEF Places, Offsets
<1>2. IsFiniteSet(Holders(e))'
  BY HoldersChange
<1>3. IsFiniteSet(Places(e))'
  BY <1>1 DEF Finite
<1> QED
  BY <1>1, <1>2, <1>3, Sizes DEF Finite, Copies, Ticket

\* Nobody moves.
LEMMA NobodyMoves ==
  ASSUME NEW e, Finite(e), log' = log, disp' = disp
  PROVE  /\ Finite(e)' /\ Copies(e)' = Copies(e)
         /\ Cardinality(Holders(e))' = Cardinality(Holders(e))
         /\ InHand(e)' <=> InHand(e)
         /\ Copies(e) \in Nat /\ Cardinality(Holders(e)) \in Nat
<1>1. Places(e)' = Places(e) /\ Holders(e)' = Holders(e)
  BY DEF Places, Offsets, Holders, Acked, AtEvent
<1> QED
  BY <1>1, Sizes DEF Finite, Copies, InHand

\* A new row is one ticket.
LEMMA InsertBalance ==
  ASSUME OutboxInv, AllFinite, NEW v \in Videos, NEW hold \in {"due", "retry"}, InsertEvent(v, hold),
         NEW n \in Nat, n = Len(outbox) + 1
  PROVE  Kept /\ Finite(n)' /\ Balance(n)' = 1
<1>0. /\ OutboxTypeOK /\ LogIsRows /\ log' = log /\ disp' = disp
      /\ DOMAIN outbox = 1..Len(outbox) /\ Len(outbox) \in Nat
      /\ \A e \in DOMAIN outbox : outbox'[e] = outbox[e]
      /\ outbox'[n] = [video |-> v, status |-> "pending", hold |-> hold]
  BY InsertEventInv, RowsAreRecords DEF OutboxInv, InsertEvent
<1>1. ASSUME NEW e \in DOMAIN outbox
      PROVE  Finite(e)' /\ Balance(e)' <= Balance(e)
  <2>1. /\ Finite(e)' /\ Copies(e)' = Copies(e)
        /\ Cardinality(Holders(e))' = Cardinality(Holders(e))
        /\ InHand(e)' <=> InHand(e)
        /\ Copies(e) \in Nat /\ Cardinality(Holders(e)) \in Nat
    BY <1>0, <1>1, NobodyMoves DEF AllFinite
  <2>2. Ticket(e)' = Ticket(e)
    BY <1>0, <1>1, <2>1 DEF Ticket, Loose
  <2>3. Ticket(e) \in {0, 1}
    BY DEF Ticket
  <2> QED
    BY <2>1, <2>2, <2>3 DEF Balance
<1>2. n \notin DOMAIN outbox
  BY <1>0
<1>3. Places(n)' = {}
  BY <1>0, <1>2 DEF Places, Offsets, LogIsRows
<1>4. Holders(n)' = {}
  BY <1>0, <1>2 DEF Holders, OutboxTypeOK
<1>5. Ticket(n)' = 1
  BY <1>0 DEF Ticket, Loose
<1>6. IsFiniteSet({}) /\ Cardinality({}) = 0
  BY FS_EmptySet
<1>7. Finite(n)'
  BY <1>3, <1>4, <1>6 DEF Finite
<1>8. Copies(n)' = 0 /\ Cardinality(Holders(n))' = 0
  BY <1>3, <1>4, <1>6 DEF Copies
<1> QED
  BY <1>1, <1>5, <1>7, <1>8 DEF Kept, Balance

\* A claim trades the ticket of each row for its holder's.
LEMMA ClaimBalance ==
  ASSUME OutboxInv, AllFinite, NEW d \in Dispatchers, ClaimDue(d)
  PROVE  Kept
<1> SUFFICES ASSUME NEW e \in DOMAIN outbox
             PROVE  Finite(e)' /\ Balance(e)' <= Balance(e)
  BY DEF Kept
<1>0. /\ OutboxTypeOK
      /\ disp'[d].pc = "publish" /\ disp'[d].todo = Batched /\ disp[d].todo = {}
      /\ \A x \in Dispatchers : x # d => disp'[x] = disp[x]
      /\ Batched \subseteq Due /\ Batched \in SUBSET DOMAIN outbox
      /\ outbox' = Leased(Batched) /\ log' = log
  BY ClaimFacts DEF OutboxInv, ClaimDue, Due
<1>1. /\ outbox'[e].status = outbox[e].status
      /\ outbox'[e].hold = IF e \in Batched THEN "lease" ELSE outbox[e].hold
  BY <1>0, LeasedFacts
<1>2. /\ Finite(e)' /\ Copies(e)' = Copies(e) /\ Copies(e) \in Nat
      /\ Ticket(e) \in {0, 1} /\ Ticket(e)' \in {0, 1}
  BY <1>0, NoCopy DEF AllFinite
<1>3. d \notin Holders(e) /\ (d \in Holders(e)' <=> e \in Batched)
  BY <1>0 DEF Holders, Acked
<1>4. /\ Cardinality(Holders(e)) \in Nat /\ Cardinality(Holders(e))' \in Nat
      /\ Cardinality(Holders(e))' = Cardinality(Holders(e)) + (IF e \in Batched THEN 1 ELSE 0)
  BY <1>0, <1>3, HoldersChange DEF AllFinite
<1>5. CASE e \in Batched
  <2>1. Ticket(e) = 1
    BY <1>0, <1>5 DEF Ticket, Loose, Due
  <2>2. Ticket(e)' = 0
    BY <1>0, <1>1, <1>5 DEF Ticket, Loose, InHand
  <2> QED
    BY <1>2, <1>4, <1>5, <2>1, <2>2 DEF Balance
<1>6. CASE e \notin Batched
  <2>1. InHand(e)' <=> InHand(e)
    BY <1>0, <1>6 DEF InHand
  <2>2. Ticket(e)' = Ticket(e)
    BY <1>1, <1>6, <2>1 DEF Ticket, Loose
  <2> QED
    BY <1>2, <1>4, <1>6, <2>2 DEF Balance
<1> QED
  BY <1>5, <1>6

\* A dispatcher that is not acknowledged holds all that it has to do; one that
\* is, all but the event it is at.
LEMMA HoldsAllBut ==
  ASSUME OutboxTypeOK, NEW d \in Dispatchers, NEW e, AtEvent(d, e), NEW f, f # e
  PROVE  /\ d \in Holders(f) <=> f \in disp[d].todo
         /\ d \in Holders(e) <=> disp[d].pc # "acked"
<1>1. ~AtEvent(d, f)
  BY OneAtATime
<1>2. e \in disp[d].todo
  BY DEF AtEvent
<1> QED
  BY <1>1, <1>2 DEF Holders, Acked

\* A publication that is acknowledged is its holder's; one that is not is a
\* fault, and so is one that never was.
LEMMA PublishBalance ==
  ASSUME OutboxInv, AllFinite, NEW d \in Dispatchers, NEW e \in disp[d].todo
  PROVE  /\ PublishOk(d, e) => Kept
         /\ PublishUnacked(d, e) \/ PublishErr(d, e) => Grown
<1> SUFFICES ASSUME PublishOk(d, e) \/ PublishUnacked(d, e) \/ PublishErr(d, e),
                    NEW f \in DOMAIN outbox
             PROVE  /\ Finite(f)' /\ Balance(f) \in Nat /\ Balance(f)' \in Nat
                    /\ Balance(f)' <= Balance(f) + (IF PublishOk(d, e) THEN 0 ELSE 1)
  BY DEF Kept, Grown
<1>p. PICK p \in Partitions : p = PartitionOf[outbox[e].video]
  BY RowsAreRecords DEF OutboxInv
<1>0. /\ OutboxTypeOK /\ log \in [Partitions -> Seq(Records)] /\ Finite(f)
      /\ e \in Records
      /\ outbox' = outbox /\ AtEvent(d, e) /\ disp[d].pc = "publish"
  BY RowsAreRecords DEF OutboxInv, OutboxTypeOK, AllFinite, PublishOk, PublishUnacked, PublishErr,
     Publishing, Answer
<1>1. PICK pc \in {"acked", "errored"} : Answer(d, pc) /\ (pc = "acked" <=> PublishOk(d, e))
  <2>1. CASE PublishOk(d, e)
    BY <2>1 DEF PublishOk
  <2>2. CASE ~PublishOk(d, e)
    BY <2>2 DEF PublishUnacked, PublishErr
  <2> QED
    BY <2>1, <2>2
<1>2. /\ disp'[d].pc = pc /\ disp'[d].todo = disp[d].todo
      /\ \A x \in Dispatchers : x # d => disp'[x] = disp[x]
  BY <1>0, <1>1, AnswerFacts
<1>3. Ticket(f)' = Ticket(f) /\ Ticket(f) \in {0, 1}
  <2>1. InHand(f)' <=> InHand(f)
    BY <1>2 DEF InHand
  <2> QED
    BY <1>0, <2>1 DEF Ticket, Loose
<1>4. /\ IsFiniteSet(Places(f))' /\ Copies(f) \in Nat
      /\ Copies(f)' = Copies(f) + (IF f = e /\ ~(log' = log) THEN 1 ELSE 0)
  <2>1. CASE Produce(p, e)
    <3>1. log' # log
      <4>1. \E n : n \in Offsets(p)' /\ n \notin Offsets(p)
        BY <1>0, <2>1, ProduceFacts DEF Offsets
      <4> QED
        BY <4>1 DEF Offsets
    <3> QED
      BY <1>0, <2>1, <3>1, PlacesGrow, Sizes
  <2>2. CASE log' = log
    <3>1. Places(f)' = Places(f)
      BY <2>2 DEF Places, Offsets
    <3> QED
      BY <1>0, <2>2, <3>1, Sizes DEF Copies, Finite
  <2> QED
    BY <1>p, <2>1, <2>2 DEF PublishOk, PublishUnacked, PublishErr
<1>5. /\ IsFiniteSet(Holders(f))' /\ Cardinality(Holders(f)) \in Nat
      /\ Cardinality(Holders(f))' \in Nat
      /\ Cardinality(Holders(f)) = Cardinality(Holders(f))' + (IF f = e /\ pc = "acked" THEN 1 ELSE 0)
  <2>1. AtEvent(d, e)' /\ \A g : AtEvent(d, g)' <=> AtEvent(d, g)
    BY <1>0, <1>2 DEF AtEvent
  <2>2. (d \in Holders(f) <=> f \in disp[d].todo)
    BY <1>0 DEF Holders, Acked
  <2>3. CASE f = e
    <3>1. d \in Holders(f) /\ (d \in Holders(f)' <=> pc # "acked")
      BY <1>0, <1>2, <2>1, <2>2, <2>3 DEF Holders, Acked
    <3> QED
      BY <1>0, <1>2, <2>3, <3>1, HoldersChange
  <2>4. CASE f # e
    <3>1. ~AtEvent(d, f)'
      BY <1>0, <2>1, <2>4, OneAtATime
    <3>2. d \in Holders(f) <=> d \in Holders(f)'
      BY <1>2, <2>2, <3>1 DEF Holders, Acked
    <3> QED
      BY <1>0, <1>2, <2>4, <3>2, HoldersChange
  <2> QED
    BY <2>3, <2>4
<1>6. Finite(f)'
  BY <1>4, <1>5 DEF Finite
<1>7. Balance(f) = Copies(f) + Cardinality(Holders(f)) + Ticket(f)
  BY DEF Balance
<1>8. Balance(f)' = Copies(f)' + Cardinality(Holders(f))' + Ticket(f)'
  BY DEF Balance
<1> QED
  BY <1>1, <1>3, <1>4, <1>5, <1>6, <1>7, <1>8

\* An event that leaves a dispatcher's hands: published for good, or to be
\* claimed again by whoever comes.
LEMMA MarkBalance ==
  ASSUME OutboxInv, AllFinite, NEW d \in Dispatchers, NEW e \in disp[d].todo
  PROVE  /\ MarkPublished(d, e) \/ MarkFailed(d, e) => Kept
         /\ MarkErr(d, e) => Grown
<1> SUFFICES ASSUME MarkPublished(d, e) \/ MarkFailed(d, e) \/ MarkErr(d, e),
                    NEW f \in DOMAIN outbox
             PROVE  /\ Finite(f)' /\ Balance(f) \in Nat /\ Balance(f)' \in Nat
                    /\ Balance(f)' <= Balance(f) + 1
                    /\ MarkPublished(d, e) \/ MarkFailed(d, e) => Balance(f)' <= Balance(f)
  BY DEF Kept, Grown
<1>0. /\ OutboxTypeOK /\ log' = log /\ Finite(f) /\ AtEvent(d, e)
      /\ NextEvent(d, e) /\ disp[d].pc # "publish" /\ e \in DOMAIN outbox
  BY RowsAreRecords DEF OutboxInv, AllFinite, MarkPublished, MarkFailed, MarkErr
<1>1. /\ disp'[d].pc = "publish" /\ disp'[d].todo = disp[d].todo \ {e}
      /\ \A x \in Dispatchers : x # d => disp'[x] = disp[x]
  BY <1>0, NextEventFacts
<1>2. /\ Finite(f)' /\ Copies(f)' = Copies(f) /\ Copies(f) \in Nat
      /\ Ticket(f) \in {0, 1} /\ Ticket(f)' \in {0, 1}
  BY <1>0, <1>1, NoCopy
<1>3. d \in Holders(f)' <=> f \in disp[d].todo /\ f # e
  BY <1>1 DEF Holders, Acked
<1>4. CASE f # e
  <2>1. Cardinality(Holders(f))' = Cardinality(Holders(f)) /\ Cardinality(Holders(f)) \in Nat
    BY <1>0, <1>1, <1>3, <1>4, HoldsAllBut, HoldersChange
  <2>2. InHand(f)' <=> InHand(f)
    BY <1>1, <1>4 DEF InHand
  <2>3. outbox'[f] = outbox[f]
    BY <1>0, <1>4 DEF MarkPublished, MarkFailed, MarkErr
  <2>4. Ticket(f)' = Ticket(f)
    BY <2>2, <2>3 DEF Ticket, Loose
  <2> QED
    BY <1>2, <2>1, <2>4 DEF Balance
<1>5. CASE f = e
  <2>1. d \notin Holders(f)' /\ (d \in Holders(f) <=> disp[d].pc # "acked")
    BY <1>0, <1>3, <1>5 DEF Holders, Acked, AtEvent
  <2>2. /\ Cardinality(Holders(f)) \in Nat /\ Cardinality(Holders(f))' \in Nat
        /\ Cardinality(Holders(f)) = Cardinality(Holders(f))' + (IF disp[d].pc # "acked" THEN 1 ELSE 0)
    BY <1>0, <1>1, <2>1, HoldersChange
  <2>3. CASE MarkPublished(d, e)
    <3>1. outbox'[f].status = "published" /\ disp[d].pc = "acked"
      <4>1. outbox' = [outbox EXCEPT ![e].status = "published"] /\ disp[d].pc = "acked"
        BY <2>3 DEF MarkPublished
      <4>2. outbox[e] \in Row
        BY <1>0, RowsAreRecords
      <4> QED
        BY <1>0, <1>5, <4>1, <4>2 DEF Row
    <3>2. Ticket(f)' = 0
      BY <3>1 DEF Ticket, Loose
    <3> QED
      BY <1>2, <2>2, <3>1, <3>2 DEF Balance
  <2>4. CASE MarkFailed(d, e)
    <3>1. disp[d].pc # "acked"
      BY <2>4 DEF MarkFailed
    <3> QED
      BY <1>2, <2>2, <3>1 DEF Balance
  <2>5. CASE MarkErr(d, e) /\ ~MarkPublished(d, e) /\ ~MarkFailed(d, e)
    BY <1>2, <2>2, <2>5 DEF Balance
  <2> QED
    BY <2>3, <2>4, <2>5
<1> QED
  BY <1>4, <1>5

\* A dispatcher that stops gives back what it held.
LEMMA CrashBalance ==
  ASSUME OutboxInv, AllFinite, NEW d \in Dispatchers, DispatcherCrash(d)
  PROVE  Grown
<1> SUFFICES ASSUME NEW e \in DOMAIN outbox
             PROVE  Finite(e)' /\ Balance(e)' <= Balance(e) + 1
  BY DEF Grown
<1>0. /\ OutboxTypeOK /\ log' = log /\ Finite(e)
      /\ disp \in [Dispatchers -> Dispatch] /\ disp' = [disp EXCEPT ![d] = Resting]
  BY DEF OutboxInv, OutboxTypeOK, AllFinite, DispatcherCrash
<1>1. disp'[d].todo = {} /\ \A x \in Dispatchers : x # d => disp'[x] = disp[x]
  BY <1>0 DEF Resting
<1>2. /\ Finite(e)' /\ Copies(e)' = Copies(e) /\ Copies(e) \in Nat
      /\ Ticket(e) \in {0, 1} /\ Ticket(e)' \in {0, 1}
  BY <1>0, <1>1, NoCopy
<1>3. d \notin Holders(e)'
  BY <1>1 DEF Holders
<1>4. /\ Cardinality(Holders(e)) \in Nat /\ Cardinality(Holders(e))' \in Nat
      /\ Cardinality(Holders(e))' <= Cardinality(Holders(e))
  BY <1>0, <1>1, <1>3, HoldersChange
<1> QED
  BY <1>2, <1>4 DEF Balance

\* Time makes a row due: nothing new, unless its lease ends before its time.
LEMMA WakeBalance ==
  ASSUME OutboxInv, AllFinite, NEW e \in DOMAIN outbox
  PROVE  /\ LeaseExpires(e) \/ RetryEventDue(e) => Kept
         /\ LeaseOverrun(e) => Grown
<1> SUFFICES ASSUME LeaseExpires(e) \/ RetryEventDue(e) \/ LeaseOverrun(e), NEW f \in DOMAIN outbox
             PROVE  /\ Finite(f)' /\ Balance(f) \in Nat /\ Balance(f)' \in Nat
                    /\ Balance(f)' <= Balance(f) + 1
                    /\ LeaseExpires(e) \/ RetryEventDue(e) => Balance(f)' <= Balance(f)
  BY DEF Kept, Grown
<1>0. /\ log' = log /\ disp' = disp /\ outbox[e].status = "pending" /\ Finite(f)
      /\ \A g \in DOMAIN outbox : g # e => outbox'[g] = outbox[g]
  BY WakeInv DEF LeaseExpires, RetryEventDue, LeaseOverrun, Wake, AllFinite
<1>1. /\ Finite(f)' /\ Copies(f)' = Copies(f)
      /\ Cardinality(Holders(f))' = Cardinality(Holders(f))
      /\ InHand(f)' <=> InHand(f)
      /\ Copies(f) \in Nat /\ Cardinality(Holders(f)) \in Nat
  BY <1>0, NobodyMoves
<1>2. Ticket(f) \in {0, 1} /\ Ticket(f)' \in {0, 1}
  BY DEF Ticket
<1>3. LeaseExpires(e) \/ RetryEventDue(e) => Ticket(f)' <= Ticket(f)
  <2>1. CASE f # e
    BY <1>0, <1>1, <1>2, <2>1 DEF Ticket, Loose
  <2>2. CASE f = e /\ (LeaseExpires(e) \/ RetryEventDue(e))
    <3>1. Ticket(f) = 1
      BY <2>2 DEF LeaseExpires, RetryEventDue, Wake, Ticket, Loose
    <3> QED
      BY <1>2, <3>1
  <2> QED
    BY <2>1, <2>2
<1> QED
  BY <1>1, <1>2, <1>3 DEF Balance

\* The rows a step inserts.
Fresh == \A e \in DOMAIN outbox' : e \in DOMAIN outbox \/ (Finite(e)' /\ Balance(e)' = 1)

\* The outbox without a fault of its own.
LEMMA NormalBalance ==
  ASSUME OutboxInv, AllFinite, [OutboxNormal]_outboxVars
  PROVE  Kept /\ Fresh
<1>1. CASE UNCHANGED outboxVars
  <2>1. ASSUME NEW e \in DOMAIN outbox
        PROVE  Finite(e)' /\ Balance(e)' <= Balance(e)
    <3>1. /\ Finite(e)' /\ Copies(e)' = Copies(e)
          /\ Cardinality(Holders(e))' = Cardinality(Holders(e))
          /\ InHand(e)' <=> InHand(e)
          /\ Copies(e) \in Nat /\ Cardinality(Holders(e)) \in Nat
      BY <1>1, <2>1, NobodyMoves DEF AllFinite, outboxVars
    <3>2. Ticket(e)' = Ticket(e) /\ Ticket(e) \in {0, 1}
      BY <1>1, <3>1 DEF Ticket, Loose, outboxVars
    <3> QED
      BY <3>1, <3>2 DEF Balance
  <2> QED
    BY <1>1, <2>1 DEF Kept, Fresh, outboxVars
<1>2. ASSUME NEW v \in Videos, NEW hold \in {"due", "retry"}, InsertEvent(v, hold)
      PROVE  Kept /\ Fresh
  <2>1. PICK n \in Nat : n = Len(outbox) + 1
    BY DEF OutboxInv, OutboxTypeOK
  <2>2. Kept /\ Finite(n)' /\ Balance(n)' = 1
    BY <1>2, <2>1, InsertBalance
  <2>3. \A e \in DOMAIN outbox' : e \in DOMAIN outbox \/ e = n
    BY <1>2, <2>1 DEF InsertEvent, OutboxInv, OutboxTypeOK
  <2> QED
    BY <2>2, <2>3 DEF Fresh
<1>3. ASSUME NEW d \in Dispatchers, DispatcherStep(d)
      PROVE  Kept /\ Fresh
  <2>1. CASE ClaimDue(d)
    BY <2>1, ClaimBalance, ClaimDueInv DEF SameRows, Fresh
  <2>2. ASSUME NEW e \in disp[d].todo, PublishOk(d, e) PROVE Kept /\ Fresh
    BY <2>2, PublishBalance DEF PublishOk, Answer, Fresh
  <2>3. ASSUME NEW e \in disp[d].todo, MarkPublished(d, e) \/ MarkFailed(d, e) PROVE Kept /\ Fresh
    BY <2>3, MarkBalance, MarkInv DEF SameRows, Fresh
  <2> QED
    BY <1>3, <2>1, <2>2, <2>3 DEF DispatcherStep
<1>4. ASSUME NEW e \in DOMAIN outbox, LeaseExpires(e) \/ RetryEventDue(e)
      PROVE  Kept /\ Fresh
  BY <1>4, WakeBalance, WakeInv DEF LeaseExpires, RetryEventDue, SameRows, Fresh
<1> QED
  BY <1>1, <1>2, <1>3, <1>4 DEF OutboxNormal

\* A fault of the outbox.
LEMMA FaultBalance ==
  ASSUME OutboxInv, AllFinite,
         \/ \E d \in Dispatchers : DispatcherFault(d)
         \/ \E e \in DOMAIN outbox : LeaseOverrun(e)
  PROVE  Grown /\ Fresh
<1>1. ASSUME NEW d \in Dispatchers, DispatcherCrash(d)
      PROVE  Grown /\ Fresh
  BY <1>1, CrashBalance DEF DispatcherCrash, Fresh
<1>2. ASSUME NEW d \in Dispatchers, NEW e \in disp[d].todo, PublishUnacked(d, e) \/ PublishErr(d, e)
      PROVE  Grown /\ Fresh
  BY <1>2, PublishBalance DEF PublishUnacked, PublishErr, Answer, Fresh
<1>3. ASSUME NEW d \in Dispatchers, NEW e \in disp[d].todo, MarkErr(d, e)
      PROVE  Grown /\ Fresh
  BY <1>3, MarkBalance DEF MarkErr, Fresh
<1>4. ASSUME NEW e \in DOMAIN outbox, LeaseOverrun(e)
      PROVE  Grown /\ Fresh
  BY <1>4, WakeBalance, WakeInv DEF LeaseOverrun, SameRows, Fresh
<1> QED
  BY <1>1, <1>2, <1>3, <1>4 DEF DispatcherFault

\* The sums stay within the budget that the faults so far allow.
LEMMA BudgetStep ==
  ASSUME Budget, Fresh,
         \/ Kept /\ faults' \in {faults, faults + 1}
         \/ Grown /\ faults' = faults + 1
  PROVE  Budget'
<1>1. faults \in Nat /\ faults' \in Nat /\ faults <= faults'
  BY DEF Budget
<1>2. ASSUME NEW e \in DOMAIN outbox'
      PROVE  Finite(e)' /\ Balance(e)' <= 1 + faults'
  <2>1. CASE e \in DOMAIN outbox
    <3>1. Finite(e) /\ Finite(e)' /\ Balance(e) <= 1 + faults
      BY <2>1 DEF Budget, Kept, Grown
    <3>2. Balance(e) \in Nat
      BY <3>1, Sizes DEF Balance
    <3>3. Copies(e)' \in Nat /\ Cardinality(Holders(e))' \in Nat /\ Ticket(e)' \in {0, 1}
      BY <3>1, FS_CardinalityType DEF Finite, Copies, Ticket
    <3>4. Balance(e)' \in Nat
      BY <3>3 DEF Balance
    <3> QED
      BY <1>1, <2>1, <3>1, <3>2, <3>4 DEF Kept, Grown
  <2>2. CASE e \notin DOMAIN outbox
    BY <1>1, <1>2, <2>2 DEF Fresh
  <2> QED
    BY <2>1, <2>2
<1> QED
  BY <1>1, <1>2 DEF Budget

LEMMA BudgetNext ==
  ASSUME PartsInv, Budget, [PipelineNext]_<<pipelineVars, faults>>
  PROVE  Budget'
<1>0. OutboxInv /\ AllFinite /\ faults \in Nat
  BY DEF PartsInv, Budget, AllFinite
<1>1. CASE UNCHANGED <<pipelineVars, faults>>
  BY <1>0, <1>1, NormalBalance, BudgetStep DEF pipelineVars, outboxVars
<1>2. CASE \/ NoFault /\ PipelineNormal
           \/ Fault("rebalance") /\ GroupRebalances
           \/ \E w \in Workers, kind \in FaultKinds : Fault(kind) /\ WorkerFault(w, kind)
  <2>1. NormalParts
    BY <1>2, PipelineNormalParts
  <2>2. faults' \in {faults, faults + 1}
    BY <1>2 DEF NoFault, Fault
  <2> QED
    BY <1>0, <2>1, <2>2, NormalBalance, BudgetStep DEF NormalParts
<1>3. CASE \E d \in Dispatchers : DispatcherFault(d)
  <2>1. faults' = faults + 1
    BY <1>3 DEF DispatcherFault, Fault
  <2> QED
    BY <1>0, <1>3, <2>1, FaultBalance, BudgetStep
<1>4. CASE Fault("lease") /\ \E e \in DOMAIN outbox : LeaseOverrun(e)
  BY <1>0, <1>4, FaultBalance, BudgetStep DEF Fault
<1> QED
  BY <1>1, <1>2, <1>3, <1>4 DEF PipelineNext

\* There is a record too many of an event only where a fault paid for it.
LEMMA BudgetCounts == Budget => DuplicatesAreFaults
<1> SUFFICES ASSUME Budget, NEW e \in DOMAIN outbox
             PROVE  Copies(e) <= 1 + faults
  BY DEF DuplicatesAreFaults
<1>1. Finite(e) /\ Balance(e) <= 1 + faults /\ faults \in Nat
  BY DEF Budget
<1> QED
  BY <1>1, Sizes DEF Balance

LEMMA BudgetInit == PipelineInit => Budget
BY DEF PipelineInit, OutboxInit, FaultsInit, Budget

\* Budget is an invariant: what is published of an event and what may still be
\* published of it never exceed one more than the faults so far.
THEOREM PipelineBudget == PipelineSpec => []Budget
<1> QED
  BY PartsInvariant, BudgetInit, BudgetNext, PTL DEF PipelineSpec

\* DuplicatesAreFaults: with any number of dispatchers, each record beyond an
\* event's first is the price of a fault of its own (a stopped API process, a
\* lost or late answer of Kafka, a failed mark, a lease that ends too early).
THEOREM DuplicatesArePaidFor == PipelineSpec => []DuplicatesAreFaults
BY PipelineBudget, BudgetCounts, PTL
===============================================================================
