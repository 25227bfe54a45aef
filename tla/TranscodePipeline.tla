--------------------------- MODULE TranscodePipeline ---------------------------
(***************************************************************************)
(* From the author's "complete" request to a ready or failed video: the    *)
(* outbox, Kafka, the workers' consume loop, and transcode.Service.Process *)
(* called by it.  The components' actions are joined where one function of *)
(* the code does both:                                                     *)
(*   - BeginProcessing and Fail insert an outbox row in the transaction    *)
(*     that changes the job; MarkPublished updates the job in its own;     *)
(*   - consume() claims the job of the record it is at, and what Process   *)
(*     returns decides what it does with the record;                       *)
(*   - a process that exits takes its attempt with it.                     *)
(*                                                                         *)
(* next_retry_at of a job and of the outbox row of its retry are the same  *)
(* value: time passes both together, which takes the clocks of the API and *)
(* of the workers for equal.                                               *)
(***************************************************************************)
EXTENDS ConsumeLoop, Outbox, TranscodeJobs

\* A record is the row it was published from, and every row decodes.
ASSUME RecordsAssumption == Records = 1..MaxEvents /\ Invalid = {}

pipelineVars == <<log, committed, consumerVars, outbox, disp, jobsVars>>

VideoOf(e) == outbox[e].video

CurrentVideo(w) == VideoOf(CurrentRecord(w))

PipelineInit == LoopInit /\ OutboxInit /\ JobsInit /\ FaultsInit

OutboxRest == UNCHANGED <<outbox, disp>>
KafkaRest == UNCHANGED kafkaVars
ConsumerRest == UNCHANGED consumerVars
JobsRest == UNCHANGED jobsVars

-----------------------------------------------------------------------------
(***************************************************************************)
(* The API: author's requests and dispatchers.                             *)
(***************************************************************************)

\* Service.Complete, once the source object has been checked.
Complete(v) == BeginProcessing(v) /\ InsertEvent(v, "due") /\ ConsumerRest

Author(v) ==
  \/ Complete(v)
  \/ Create(v) /\ OutboxRest /\ KafkaRest /\ ConsumerRest
  \/ DeleteOwned(v) /\ OutboxRest /\ KafkaRest /\ ConsumerRest
  \/ /\ \E visible \in BOOLEAN : UpdateOwned(v, visible)
     /\ OutboxRest /\ KafkaRest /\ ConsumerRest

DispatchPublished(d, e) == MarkPublished(d, e) /\ MarkQueued(VideoOf(e)) /\ ConsumerRest

DispatchStep(d) ==
  \/ ClaimDue(d) /\ ConsumerRest /\ JobsRest
  \/ \E e \in disp[d].todo :
       \/ PublishOk(d, e) /\ ConsumerRest /\ JobsRest
       \/ DispatchPublished(d, e)
       \/ MarkFailed(d, e) /\ ConsumerRest /\ JobsRest

-----------------------------------------------------------------------------
(***************************************************************************)
(* Time.                                                                   *)
(***************************************************************************)

\* The delay of a retry is over, for the job and for the row inserted with it.
RetryTime(e) ==
  /\ RetryEventDue(e)
  /\ RetryDue(VideoOf(e))
  /\ ConsumerRest

LeaseTime(e) == LeaseExpires(e) /\ ConsumerRest /\ JobsRest

StaleTime(v) == JobStale(v) /\ OutboxRest /\ KafkaRest /\ ConsumerRest

-----------------------------------------------------------------------------
(***************************************************************************)
(* The worker.                                                             *)
(***************************************************************************)

\* A step of Process that leaves consume() where it is.
Within(step) == step /\ OutboxRest /\ KafkaRest /\ ConsumerRest

\* Process returns nil, or an error.
ReturnsNil(w, step) == step /\ ProcessOk(w) /\ OutboxRest
ReturnsErr(w, step) == step /\ ProcessErr(w) /\ OutboxRest

ProcessBegins(w) ==
  /\ loop[w] = "process"
  /\ \/ Within(Claim(w, CurrentVideo(w)))
     \/ Within(ClaimMisses(w, CurrentVideo(w)))

Retry(w) == FailForRetry(w) /\ InsertEvent(attempt[w].video, "retry")

Busy(w) == ReturnsErr(w, ClaimRefused(w))

ProcessReturns(w) ==
  \/ ReturnsNil(w, AlreadyProcessed(w))
  \/ ReturnsNil(w, Succeed(w))
  \/ ReturnsNil(w, FailForGood(w))
  \/ Retry(w) /\ ProcessOk(w)
  \/ Busy(w)
  \/ ReturnsErr(w, EndConflict(w))

LoopOnly(step) == step /\ OutboxRest /\ JobsRest

WorkerStep(w) ==
  \/ ProcessBegins(w)
  \/ Within(LoadClaimed(w))
  \/ Within(UpdateProgress(w))
  \/ ProcessReturns(w)
  \/ LoopOnly(\E p \in Partitions : Poll(w, p))
  \/ LoopOnly(Withhold(w))
  \/ LoopOnly(Commit(w))
  \/ LoopOnly(Start(w))

\* The attempt runs into TRANSCODE_TIMEOUT, or a statement of it fails.
AttemptDies(w) == ReturnsErr(w, Abort(w))

\* The statement that claims fails, so that there is no attempt.
ClaimErr(w) == ReturnsErr(w, attempt[w].pc = "idle" /\ JobsRest)

\* The transaction that ends the attempt commits, but the connection breaks
\* before the worker hears of it.
ReplyLost(w) ==
  \/ ReturnsErr(w, Succeed(w))
  \/ ReturnsErr(w, FailForGood(w))
  \/ Retry(w) /\ ProcessErr(w)

\* The process exits, inside or outside Process.
AttemptLost(w) == IF attempt[w].pc = "idle" THEN JobsRest ELSE Abort(w)

WorkerCrash(w) == Crash(w) /\ AttemptLost(w) /\ OutboxRest
CommitCrash(w) == CommitFails(w) /\ AttemptLost(w) /\ OutboxRest

\* A failed Poll loses what it fetched.
BatchLost(w) == LoopOnly(\E p \in Partitions : PollFails(w, p))

GroupAssigns == LoopOnly(\E p \in Partitions, w \in Workers : AssignFree(p, w))
GroupRebalances == LoopOnly(\E p \in Partitions, w \in Workers : Rebalance(p, w))

-----------------------------------------------------------------------------
PipelineNormal ==
  \/ \E v \in Videos : Author(v) \/ StaleTime(v)
  \/ \E e \in DOMAIN outbox : RetryTime(e) \/ LeaseTime(e)
  \/ \E d \in Dispatchers : DispatchStep(d)
  \/ \E w \in Workers : WorkerStep(w)
  \/ GroupAssigns

\* The worker faults, by kind.
WorkerFault(w, kind) ==
  \/ kind = "timeout" /\ AttemptDies(w)
  \/ kind = "claim" /\ ClaimErr(w)
  \/ kind = "reply" /\ ReplyLost(w)
  \/ kind = "crash" /\ WorkerCrash(w)
  \/ kind = "commit" /\ CommitCrash(w)
  \/ kind = "poll" /\ BatchLost(w)

PipelineNext ==
  \/ NoFault /\ PipelineNormal
  \/ \E d \in Dispatchers : DispatcherFault(d) /\ ConsumerRest /\ JobsRest
  \/ \E w \in Workers, kind \in FaultKinds : Fault(kind) /\ WorkerFault(w, kind)
  \/ Fault("rebalance") /\ GroupRebalances
  \/ /\ Fault("lease")
     /\ \E e \in DOMAIN outbox : LeaseOverrun(e)
     /\ ConsumerRest /\ JobsRest

PipelineSpec == PipelineInit /\ [][PipelineNext]_<<pipelineVars, faults>>

\* Every process runs and is restarted (compose: restart: unless-stopped), time
\* passes, and faults are finitely many.  The author owes nothing.
PipelineFairness ==
  /\ \A w \in Workers : WF_pipelineVars(NoFault /\ WorkerStep(w))
  /\ WF_pipelineVars(NoFault /\ GroupAssigns)
  /\ \A d \in Dispatchers : WF_pipelineVars(NoFault /\ DispatchStep(d))
  /\ \A e \in 1..MaxEvents :
       WF_pipelineVars(/\ NoFault
                       /\ e \in DOMAIN outbox
                       /\ RetryTime(e) \/ LeaseTime(e))

FairPipelineSpec == PipelineSpec /\ PipelineFairness

-----------------------------------------------------------------------------
(***************************************************************************)
(* Properties.                                                             *)
(***************************************************************************)

Unfinished(v) == job[v].status \in {"pending", "queued", "running"}

Pending(e) == outbox[e].status = "pending"

\* A record of row e that a restarted group would fetch.
ToConsume(e) ==
  \E p \in Partitions : \E o \in Offsets(p) : log[p][o] = e /\ o > committed[p]

\* A record of row e that a failed Poll dropped, and that nobody handled since.
Discarded(e) ==
  \E p \in Partitions : \E o \in dropped[p] \ handled[p] : log[p][o] = e

\* No submission is lost, wherever the API, Kafka or a worker fails: as long as
\* a job is not finished, a row or a record that leads to it is still there.
\* The one exception is a record that consume() never saw, because Poll returned
\* an error in its place.
NoLostJob ==
  \A v \in Videos :
    Unfinished(v) =>
      \E e \in DOMAIN outbox :
        VideoOf(e) = v /\ (Pending(e) \/ ToConsume(e) \/ Discarded(e))

\* An attempt that was the last one allowed, and of which nothing remains.
Exhausted(v) ==
  /\ job[v].status = "running"
  /\ job[v].attempts = MaxAttempts
  /\ \A w \in Workers : ~Live(w, v)

\* Whatever happens to the API and however often the worker is killed, an
\* upload in processing gets its outcome, or uses up its attempts.
SettlesOrExhausted ==
  \A v \in Videos :
    (video[v] = "processing") ~> (video[v] # "processing" \/ Exhausted(v))

\* "失败重试、最大尝试次数和最终失败状态", "ready 或重试后 failed"
\* (backend/README.md): no upload stays in processing for ever.
Settles ==
  \A v \in Videos : (video[v] = "processing") ~> (video[v] # "processing")
=============================================================================
