---------------------------- MODULE TranscodeJobs ----------------------------
(***************************************************************************)
(* The videos and video_transcode_jobs tables and everything that writes   *)
(* a video's processing state: the author's requests (backend/internal/    *)
(* video: Create, BeginProcessing, UpdateOwned, DeleteOwned), the job      *)
(* repository (backend/internal/transcode/repository.go: Claim,            *)
(* UpdateProgress, Succeed, Fail) and the attempt a worker makes between   *)
(* them (transcode.Service.Process).                                       *)
(*                                                                         *)
(* A statement or transaction is one action; two statements are two        *)
(* actions, so that anything can happen in between.  A job is named by its *)
(* video: idempotency_key is unique and holds the video id only.           *)
(*                                                                         *)
(* Time.  next_retry_at <= now is the flag due, started_at < now - (timeout *)
(* + 1 min) the flag stale.  JobStale waits until no attempt on the job is *)
(* alive: an attempt's context ends timeout after its Claim returned, so   *)
(* it assumes that the clocks of the workers and the Claim itself are      *)
(* within that minute.  An attempt past its deadline cannot change the     *)
(* database any more (every statement carries its context) and is over in  *)
(* the model (Abort).                                                      *)
(*                                                                         *)
(* In the module's own specification any worker may be asked for any       *)
(* video at any time, which is more than the queue does.                   *)
(***************************************************************************)
EXTENDS Deployment, Naturals, Sequences

CONSTANTS WorkerID,     \* [Workers -> ids]: the WORKER_ID each was started with
          MaxAttempts,  \* TRANSCODE_MAX_ATTEMPTS
          Milestones    \* the progress values Process reports: <<10, 20, 75, 95>>

ASSUME JobsAssumption ==
  /\ MaxAttempts \in Nat \ {0}
  /\ Milestones \in Seq(1..99)
  /\ \A w \in Workers : WorkerID[w] # None

VARIABLES video,        \* videos.status
          public,       \* videos.visibility = public
          published,    \* videos.published_at is set
          progress,     \* videos.processing_progress
          job,          \* the row of video_transcode_jobs
          attempt       \* what each worker process is doing in Process

videoVars == <<video, public, published, progress>>
jobsVars == <<video, public, published, progress, job, attempt>>

VideoStatus == {"none", "uploading", "processing", "ready", "failed", "deleted"}

JobStatus == {"none", "pending", "queued", "running", "succeeded", "failed"}

IDs == {WorkerID[w] : w \in Workers}

Job == [status : JobStatus, attempts : 0..MaxAttempts, due : BOOLEAN,
        stale : BOOLEAN, worker : IDs \cup {None}]

NoJob == [status |-> "none", attempts |-> 0, due |-> FALSE, stale |-> FALSE, worker |-> None]
NewJob == [status |-> "pending", attempts |-> 0, due |-> TRUE, stale |-> FALSE, worker |-> None]

\* An attempt has claimed its job and not read it back (claimed), found it not
\* claimable (missed), or works with the job it read (work): n is that job's
\* Attempts, stage the number of milestones reported.
Attempt == [pc : {"idle", "claimed", "missed", "work"}, video : Videos \cup {None},
            n : 0..MaxAttempts, stage : 0..Len(Milestones)]

At(pc, v) == [pc |-> pc, video |-> v, n |-> 0, stage |-> 0]

Idle == At("idle", None)

JobsTypeOK ==
  /\ video \in [Videos -> VideoStatus]
  /\ public \in [Videos -> BOOLEAN]
  /\ published \in [Videos -> BOOLEAN]
  /\ progress \in [Videos -> 0..100]
  /\ job \in [Videos -> Job]
  /\ attempt \in [Workers -> Attempt]
  /\ \A w \in Workers : attempt[w].pc # "idle" => attempt[w].video \in Videos

JobsInit ==
  /\ video = [v \in Videos |-> "none"]
  /\ public = [v \in Videos |-> FALSE]
  /\ published = [v \in Videos |-> FALSE]
  /\ progress = [v \in Videos |-> 0]
  /\ job = [v \in Videos |-> NoJob]
  /\ attempt = [w \in Workers |-> Idle]

-----------------------------------------------------------------------------
(***************************************************************************)
(* The author's requests.                                                  *)
(***************************************************************************)

\* The row is created public (the column's default) and in upload.
Create(v) ==
  /\ video[v] = "none"
  /\ video' = [video EXCEPT ![v] = "uploading"]
  /\ public' = [public EXCEPT ![v] = TRUE]
  /\ UNCHANGED <<published, progress, job, attempt>>

\* The transaction behind Complete, without the outbox row it also inserts.
BeginProcessing(v) ==
  /\ video[v] = "uploading"
  /\ video' = [video EXCEPT ![v] = "processing"]
  /\ progress' = [progress EXCEPT ![v] = 0]
  /\ job' = [job EXCEPT ![v] = NewJob]
  /\ UNCHANGED <<public, published, attempt>>

\* published_at = COALESCE(published_at, now if ready), when made public.
Dated(v, visible) == published[v] \/ (visible /\ video[v] = "ready")

UpdateOwned(v, visible) ==
  /\ video[v] \notin {"none", "deleted"}
  /\ public' = [public EXCEPT ![v] = visible]
  /\ published' = [published EXCEPT ![v] = Dated(v, visible)]
  /\ UNCHANGED <<video, progress, job, attempt>>

DeleteOwned(v) ==
  /\ video[v] \notin {"none", "deleted"}
  /\ video' = [video EXCEPT ![v] = "deleted"]
  /\ public' = [public EXCEPT ![v] = FALSE]
  /\ UNCHANGED <<published, progress, job, attempt>>

-----------------------------------------------------------------------------
(***************************************************************************)
(* Time, and the dispatcher's note that the request was published.         *)
(***************************************************************************)

RetryDue(v) ==
  /\ job[v].status \in {"pending", "queued"}
  /\ ~job[v].due
  /\ job' = [job EXCEPT ![v].due = TRUE]
  /\ UNCHANGED <<videoVars, attempt>>

Live(w, v) == attempt[w].pc \in {"claimed", "work"} /\ attempt[w].video = v

JobStale(v) ==
  /\ job[v].status = "running"
  /\ ~job[v].stale
  /\ \A w \in Workers : ~Live(w, v)
  /\ job' = [job EXCEPT ![v].stale = TRUE]
  /\ UNCHANGED <<videoVars, attempt>>

\* Mutated: the job's status is not looked at.
MarkQueuedAlways(v) ==
  /\ job[v].status # "none"
  /\ job' = [job EXCEPT ![v].status = "queued"]
  /\ UNCHANGED <<videoVars, attempt>>

\* The second half of outbox.MarkPublished: an UPDATE of pending jobs.
MarkQueued(v) ==
  /\ job' = [job EXCEPT ![v].status = IF @ = "pending" THEN "queued" ELSE @]
  /\ UNCHANGED <<videoVars, attempt>>

-----------------------------------------------------------------------------
(***************************************************************************)
(* Claim: a conditional UPDATE, then a SELECT.                             *)
(***************************************************************************)

\* Mutated: a running job can always be taken over; only a stale one can.
ReclaimableAlways(w, v) == TRUE
ReclaimableWhenStale(w, v) == job[v].stale

Reclaimable(w, v) == job[v].stale \/ job[v].worker = WorkerID[w]

WithinBudget(v) == job[v].attempts < MaxAttempts

Claimable(w, v) ==
  /\ WithinBudget(v)
  /\ \/ job[v].status \in {"pending", "queued"} /\ job[v].due
     \/ job[v].status = "running" /\ Reclaimable(w, v)

Claimed(w, v) ==
  [job[v] EXCEPT !.status = "running", !.attempts = @ + 1, !.worker = WorkerID[w],
                 !.stale = FALSE]

Claim(w, v) ==
  /\ attempt[w].pc = "idle"
  /\ Claimable(w, v)
  /\ job' = [job EXCEPT ![v] = Claimed(w, v)]
  /\ attempt' = [attempt EXCEPT ![w] = At("claimed", v)]
  /\ UNCHANGED videoVars

ClaimMisses(w, v) ==
  /\ attempt[w].pc = "idle"
  /\ ~Claimable(w, v)
  /\ attempt' = [attempt EXCEPT ![w] = At("missed", v)]
  /\ UNCHANGED <<videoVars, job>>

LoadClaimed(w) ==
  /\ attempt[w].pc = "claimed"
  /\ attempt' = [attempt EXCEPT ![w].pc = "work", ![w].n = job[attempt[w].video].attempts]
  /\ UNCHANGED <<videoVars, job>>

Finished(v) == job[v].status \in {"succeeded", "failed"}

EndAttempt(w) == attempt' = [attempt EXCEPT ![w] = Idle]

\* ErrJobAlreadyProcessed, which Process turns into success.
AlreadyProcessed(w) ==
  /\ attempt[w].pc = "missed"
  /\ Finished(attempt[w].video)
  /\ EndAttempt(w)
  /\ UNCHANGED <<videoVars, job>>

\* ErrJobBusy or ErrJobNotFound.
ClaimRefused(w) ==
  /\ attempt[w].pc = "missed"
  /\ ~Finished(attempt[w].video)
  /\ EndAttempt(w)
  /\ UNCHANGED <<videoVars, job>>

-----------------------------------------------------------------------------
(***************************************************************************)
(* The attempt.                                                            *)
(***************************************************************************)

Working(w) == attempt[w].pc = "work"

\* Mutated: the video's status is not looked at.
InAnyStatus(v) == TRUE

\* The condition of every statement of an attempt on the video.
InProcessing(v) == video[v] = "processing"

\* Download, probe, ffmpeg or upload went well and its progress is stored.
UpdateProgress(w) ==
  LET v == attempt[w].video IN
  /\ Working(w)
  /\ attempt[w].stage < Len(Milestones)
  /\ InProcessing(v)
  /\ progress' = [progress EXCEPT ![v] = Milestones[attempt[w].stage + 1]]
  /\ attempt' = [attempt EXCEPT ![w].stage = @ + 1]
  /\ UNCHANGED <<video, public, published, job>>

\* The conditions of the first statements of Succeed and Fail; Succeed's second
\* one has a condition of its own.
CanEnd(w) ==
  /\ job[attempt[w].video].status = "running"
  /\ attempt[w].stage = Len(Milestones) => InProcessing(attempt[w].video)

\* All is uploaded: job and video in one transaction, or neither.
Succeed(w) ==
  LET v == attempt[w].video IN
  /\ Working(w)
  /\ attempt[w].stage = Len(Milestones)
  /\ CanEnd(w)
  /\ job' = [job EXCEPT ![v].status = "succeeded"]
  /\ video' = [video EXCEPT ![v] = "ready"]
  /\ progress' = [progress EXCEPT ![v] = 100]
  /\ published' = [published EXCEPT ![v] = @ \/ public[v]]
  /\ EndAttempt(w)
  /\ UNCHANGED public

\* ErrStateConflict: the transaction is rolled back and Process returns the error.
EndConflict(w) ==
  /\ Working(w)
  /\ ~CanEnd(w)
  /\ EndAttempt(w)
  /\ UNCHANGED <<videoVars, job>>

\* A step before Succeed failed, or UpdateProgress found the video not in
\* processing, and recordFailure calls Fail.
Failing(w) == Working(w) /\ attempt[w].stage < Len(Milestones)

Terminal(w) == attempt[w].n >= MaxAttempts

\* Mutated: only the job fails.
LeaveVideo(v) == UNCHANGED <<video, progress>>

FailVideo(v) ==
  /\ video' = [video EXCEPT ![v] = "failed"]
  /\ progress' = [progress EXCEPT ![v] = 0]

\* Fail, last attempt: the job is failed, and its video if still processing.
FailForGood(w) ==
  LET v == attempt[w].video IN
  /\ Failing(w)
  /\ Terminal(w)
  /\ job[v].status = "running"
  /\ job' = [job EXCEPT ![v].status = "failed"]
  /\ IF InProcessing(v) THEN FailVideo(v) ELSE UNCHANGED <<video, progress>>
  /\ EndAttempt(w)
  /\ UNCHANGED <<public, published>>

\* Fail, attempts left: back to pending, due later; the outbox row of the
\* retry belongs to the same transaction.
FailForRetry(w) ==
  LET v == attempt[w].video IN
  /\ Failing(w)
  /\ ~Terminal(w)
  /\ job[v].status = "running"
  /\ job' = [job EXCEPT ![v].status = "pending", ![v].due = FALSE, ![v].worker = None]
  /\ EndAttempt(w)
  /\ UNCHANGED videoVars

\* The attempt ends and leaves no trace: its context expired (recordFailure
\* gives up), a statement failed, or its process died.
Abort(w) ==
  /\ attempt[w].pc # "idle"
  /\ EndAttempt(w)
  /\ UNCHANGED <<videoVars, job>>

-----------------------------------------------------------------------------
JobsNext ==
  \/ \E v \in Videos :
       \/ Create(v) \/ BeginProcessing(v) \/ DeleteOwned(v)
       \/ \E visible \in BOOLEAN : UpdateOwned(v, visible)
       \/ RetryDue(v) \/ JobStale(v) \/ MarkQueued(v)
  \/ \E w \in Workers, v \in Videos : Claim(w, v) \/ ClaimMisses(w, v)
  \/ \E w \in Workers :
       \/ LoadClaimed(w) \/ AlreadyProcessed(w) \/ ClaimRefused(w)
       \/ UpdateProgress(w) \/ Succeed(w) \/ FailForGood(w) \/ FailForRetry(w)
       \/ EndConflict(w) \/ Abort(w)

JobsSpec == JobsInit /\ [][JobsNext]_jobsVars

-----------------------------------------------------------------------------
(***************************************************************************)
(* Properties.                                                             *)
(***************************************************************************)

\* The two tables agree although only Succeed and Fail write both: no job
\* before processing, a live one during it, and a video's outcome is its
\* job's.  A late or concurrent attempt, or a deletion at any moment, must not
\* break it.
JobVideoAgree ==
  \A v \in Videos :
    /\ job[v].status = "none" =>
         job[v] = NoJob /\ video[v] \in {"none", "uploading", "deleted"}
    /\ video[v] \in {"none", "uploading"} => job[v].status = "none"
    /\ video[v] = "processing" => job[v].status \in {"pending", "queued", "running"}
    /\ video[v] = "ready" => job[v].status = "succeeded"
    /\ video[v] = "failed" => job[v].status = "failed"

\* published_at is written by Succeed and by UpdateOwned, each from the other's
\* column: a video that visitors can list always has its date, and only a video
\* that was ready ever gets one.
PublishedAgree ==
  \A v \in Videos :
    /\ video[v] = "ready" /\ public[v] => published[v]
    /\ published[v] => video[v] \in {"ready", "deleted"}

\* The progress an author reads fits the status beside it, although attempts
\* report it outside the transactions that change the status.
ProgressAgree ==
  \A v \in Videos :
    /\ video[v] = "ready" => progress[v] = 100
    /\ video[v] = "processing" => progress[v] < 100
    /\ video[v] = "failed" => progress[v] = 0

\* The four together are inductive.
TablesInv == JobsTypeOK /\ JobVideoAgree /\ PublishedAgree /\ ProgressAgree

DistinctIDs == \A w, x \in Workers : WorkerID[w] = WorkerID[x] => w = x

\* With a WORKER_ID of its own for each process: no two attempts work on one
\* job, and the one that does is the job's current attempt (Succeed and Fail
\* check no worker_id and no attempt number; this is why they may do without).
ExclusiveAttempt ==
  \A w, x \in Workers, v \in Videos : Live(w, v) /\ Live(x, v) => w = x

AttemptIsCurrent ==
  \A w \in Workers :
    /\ Live(w, attempt[w].video) =>
         /\ job[attempt[w].video].status = "running"
         /\ job[attempt[w].video].worker = WorkerID[w]
         /\ ~job[attempt[w].video].stale
    /\ Working(w) => attempt[w].n = job[attempt[w].video].attempts

\* A job that waits for another attempt has one left: a pending job with
\* attempts = max_attempts could never be claimed nor failed.
RetryHasBudget ==
  \A v \in Videos :
    job[v].status \in {"pending", "queued"} => job[v].attempts < MaxAttempts

\* With DistinctIDs the three are inductive, given TablesInv.
AttemptsInv == ExclusiveAttempt /\ AttemptIsCurrent /\ RetryHasBudget

\* What a redelivered event relies on ("已完成任务检查"): a finished job stays
\* as it is, and no step gives an attempt back.
JobAdvances(v) ==
  /\ Finished(v) => job'[v] = job[v]
  /\ job[v].attempts <= job'[v].attempts

JobMonotone == [][\A v \in Videos : JobAdvances(v)]_jobsVars

\* The tables and attempts implement the lifecycle the API shows.
Lifecycle ==
  INSTANCE VideoLifecycle
    WITH status <- video,
         listed <- {v \in Videos : video[v] = "ready" /\ public[v]},
         dated <- {v \in Videos : published[v]}

LifecycleSpec == Lifecycle!Spec
=============================================================================
