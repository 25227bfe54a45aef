-------------------------------- MODULE Outbox --------------------------------
(***************************************************************************)
(* The transactional outbox (backend/internal/outbox): rows of             *)
(* outbox_events, inserted by the transaction that changes a job, and the  *)
(* dispatchers, one in each API process, that lease due rows, publish them *)
(* to Kafka one by one and mark each published or failed.                  *)
(*                                                                         *)
(* The id of a row is its index in outbox; it stands for the event in the  *)
(* Kafka record too.  next_retry_at is abstracted to hold: a row is due,   *)
(* waits for the delay it was inserted with (retry) or waits for a lease   *)
(* or backoff to end (lease).  A lease covers a batch's publishing; it     *)
(* ends while its holder is still at work only when the database is slow,  *)
(* for no timeout bounds MarkPublished and MarkFailed (LeaseOverrun).      *)
(*                                                                         *)
(* A dispatcher whose API process stops forgets its batch and starts       *)
(* again: the rows are due when their lease ends.                          *)
(***************************************************************************)
EXTENDS Deployment, Kafka, Faults, FiniteSets

CONSTANTS Dispatchers,  \* one for each API process
          PartitionOf,  \* [Videos -> Partitions], the hash of the record key
          BatchSize,    \* rows claimed at once: 10 in the code
          MaxEvents     \* bound: rows in the table

ASSUME OutboxAssumption ==
  /\ PartitionOf \in [Videos -> Partitions]
  /\ BatchSize \in Nat \ {0}
  /\ MaxEvents \in Nat

VARIABLES outbox,       \* the table: a sequence of rows
          disp          \* what each dispatcher is doing in DispatchOnce

outboxVars == <<log, outbox, disp>>

Row == [video : Videos, status : {"pending", "published"}, hold : {"due", "retry", "lease"}]

\* todo holds the claimed events not yet dealt with; pc tells what became of
\* the first of them.
Dispatch == [pc : {"publish", "acked", "errored"}, todo : SUBSET (1..MaxEvents)]

Resting == [pc |-> "publish", todo |-> {}]

OutboxTypeOK ==
  /\ log \in [Partitions -> Seq(Records)]
  /\ outbox \in Seq(Row)
  /\ Len(outbox) <= MaxEvents
  /\ disp \in [Dispatchers -> Dispatch]
  /\ \A d \in Dispatchers :
       /\ disp[d].todo \subseteq DOMAIN outbox
       /\ disp[d].pc # "publish" => disp[d].todo # {}

OutboxInit ==
  /\ KafkaInit
  /\ outbox = << >>
  /\ disp = [d \in Dispatchers |-> Resting]

-----------------------------------------------------------------------------
\* tx.Create of an outbox row for video v, due at once or after a delay.
InsertEvent(v, hold) ==
  /\ Len(outbox) < MaxEvents
  /\ outbox' = Append(outbox, [video |-> v, status |-> "pending", hold |-> hold])
  /\ UNCHANGED <<log, committed, disp>>

\* Mutated: leases are not looked at.
AllPending == {e \in DOMAIN outbox : outbox[e].status = "pending"}

Due == {e \in DOMAIN outbox : outbox[e].status = "pending" /\ outbox[e].hold = "due"}

\* The due rows ORDER BY id LIMIT BatchSize, leased in the same transaction.
Batched == {e \in Due : Cardinality({f \in Due : f <= e}) <= BatchSize}

Leased(events) ==
  [e \in DOMAIN outbox |->
     IF e \in events THEN [outbox[e] EXCEPT !.hold = "lease"] ELSE outbox[e]]

ClaimDue(d) ==
  /\ disp[d].todo = {}
  /\ Batched # {}
  /\ outbox' = Leased(Batched)
  /\ disp' = [disp EXCEPT ![d].todo = Batched]
  /\ UNCHANGED <<log, committed>>

\* DispatchOnce goes through its batch in the order of the ids.
AtEvent(d, e) == e \in disp[d].todo /\ \A f \in disp[d].todo : e <= f

Publishing(d, e) == disp[d].pc = "publish" /\ AtEvent(d, e)

Answer(d, pc) == disp' = [disp EXCEPT ![d].pc = pc] /\ UNCHANGED outbox

\* Kafka has the record, and says so.
PublishOk(d, e) ==
  /\ Publishing(d, e)
  /\ Produce(PartitionOf[outbox[e].video], e)
  /\ Answer(d, "acked")

\* Kafka has the record, but the answer comes after KAFKA_PUBLISH_TIMEOUT_MS.
PublishUnacked(d, e) ==
  /\ Publishing(d, e)
  /\ Produce(PartitionOf[outbox[e].video], e)
  /\ Answer(d, "errored")

\* Mutated: the error is ignored.
PublishErrIgnored(d, e) ==
  /\ Publishing(d, e)
  /\ Answer(d, "acked")
  /\ UNCHANGED <<log, committed>>

PublishErr(d, e) ==
  /\ Publishing(d, e)
  /\ Answer(d, "errored")
  /\ UNCHANGED <<log, committed>>

NextEvent(d, e) ==
  disp' = [disp EXCEPT ![d] = [pc |-> "publish", todo |-> @.todo \ {e}]]

\* The row is published for good, unless another dispatcher has been faster.
\* The job that the same transaction marks queued is TranscodeJobs' MarkQueued.
MarkPublished(d, e) ==
  /\ disp[d].pc = "acked"
  /\ AtEvent(d, e)
  /\ outbox' = [outbox EXCEPT ![e].status = "published"]
  /\ NextEvent(d, e)
  /\ UNCHANGED <<log, committed>>

\* Mutated: a failed publication is final.
MarkFailedForGood(d, e) ==
  /\ disp[d].pc = "errored"
  /\ AtEvent(d, e)
  /\ outbox' = [outbox EXCEPT ![e].status = "failed"]
  /\ NextEvent(d, e)
  /\ UNCHANGED <<log, committed>>

\* The row of a failed publication is due again after a backoff.
MarkFailed(d, e) ==
  /\ disp[d].pc = "errored"
  /\ AtEvent(d, e)
  /\ outbox' = [outbox EXCEPT ![e].hold = IF outbox[e].status = "pending" THEN "lease" ELSE @]
  /\ NextEvent(d, e)
  /\ UNCHANGED <<log, committed>>

\* The statement fails; the dispatcher goes on with its batch.
MarkErr(d, e) ==
  /\ disp[d].pc \in {"acked", "errored"}
  /\ AtEvent(d, e)
  /\ NextEvent(d, e)
  /\ UNCHANGED <<log, committed, outbox>>

DispatcherCrash(d) ==
  /\ disp[d].todo # {}
  /\ disp' = [disp EXCEPT ![d] = Resting]
  /\ UNCHANGED <<log, committed, outbox>>

-----------------------------------------------------------------------------
\* Time passes a row's next_retry_at.
Wake(e, hold) ==
  /\ outbox[e].status = "pending"
  /\ outbox[e].hold = hold
  /\ outbox' = [outbox EXCEPT ![e].hold = "due"]
  /\ UNCHANGED <<log, committed, disp>>

InHand(e) == \E d \in Dispatchers : e \in disp[d].todo

LeaseExpires(e) == ~InHand(e) /\ Wake(e, "lease")
LeaseOverrun(e) == InHand(e) /\ Wake(e, "lease")
RetryEventDue(e) == Wake(e, "retry")

-----------------------------------------------------------------------------
DispatcherStep(d) ==
  \/ ClaimDue(d)
  \/ \E e \in disp[d].todo : PublishOk(d, e) \/ MarkPublished(d, e) \/ MarkFailed(d, e)

OutboxNormal ==
  \/ \E v \in Videos, hold \in {"due", "retry"} : InsertEvent(v, hold)
  \/ \E d \in Dispatchers : DispatcherStep(d)
  \/ \E e \in DOMAIN outbox : LeaseExpires(e) \/ RetryEventDue(e)

OutboxNext ==
  \/ OutboxNormal
  \/ \E d \in Dispatchers :
       \/ DispatcherCrash(d)
       \/ \E e \in disp[d].todo : PublishUnacked(d, e) \/ PublishErr(d, e) \/ MarkErr(d, e)
  \/ \E e \in DOMAIN outbox : LeaseOverrun(e)

\* Any number of faults.
OutboxSpec == OutboxInit /\ [][OutboxNext]_outboxVars

\* What TLC explores: a budget of faults of the chosen kinds.
DispatcherFault(d) ==
  \/ Fault("dispatcher") /\ DispatcherCrash(d)
  \/ \E e \in disp[d].todo :
       \/ Fault("unacked") /\ PublishUnacked(d, e)
       \/ Fault("publish") /\ PublishErr(d, e)
       \/ Fault("mark") /\ MarkErr(d, e)

-----------------------------------------------------------------------------
(***************************************************************************)
(* Properties.                                                             *)
(***************************************************************************)

InLog(e) == \E p \in Partitions : \E o \in Offsets(p) : log[p][o] = e

\* The outbox's reason to be: a row leaves the pending ones only when Kafka has
\* its record, whichever of the two systems, or the API between them, fails.
PublishedInLog ==
  \A e \in DOMAIN outbox : outbox[e].status = "published" => InLog(e)

\* Where in the log (partition and offset) the records of an event are.
Places(e) ==
  {at \in Partitions \X (1..MaxLog) : at[2] \in Offsets(at[1]) /\ log[at[1]][at[2]] = e}

Copies(e) == Cardinality(Places(e))

\* At-least-once, and no more than that: each record beyond an event's first
\* is the price of a fault of its own.
DuplicatesAreFaults ==
  \A e \in DOMAIN outbox : Copies(e) <= 1 + faults

\* Every row reaches Kafka once the faults are over, through any leases,
\* backoffs and API restarts.
EveryRowPublished ==
  \A e \in 1..MaxEvents :
    (e \in DOMAIN outbox) ~> (e \in DOMAIN outbox /\ outbox[e].status = "published")
=============================================================================
