# Verification of video_share

TLA+ models of the video sharing service in this repository, the TLC runs that
check them on small instances, and TLAPS proofs of their main safety
properties. Paths below are relative to `src/`.

- [1 The system](#1-the-system) – components, state, interactions, hard spots
- [2 What is modelled, and where](#2-what-is-modelled-and-where)
- [3 The runs](#3-the-runs)
- [4 Bounds, fairness, faults](#4-bounds-fairness-faults)
- [5 What is proved](#5-what-is-proved)
- [6 Where the code disagrees with its documentation](#6-where-the-code-disagrees-with-its-documentation)
- [7 What is not modelled](#7-what-is-not-modelled)
- [8 Plan](#8-plan)

## 1 The system

A Go backend (several API processes and several transcode workers) on MySQL,
Kafka, Redis and MinIO, and a React frontend. No component keeps a lock across
processes except row locks in MySQL and a few Redis keys with a lifetime; the
processes coordinate through conditional `UPDATE`s, leases and the offsets of a
Kafka consumer group.

| Component | State it keeps | Operations that change it | What makes it correct |
|---|---|---|---|
| Videos (`backend/internal/video`) | `videos` rows: status, visibility, published_at, progress | Create, Complete, Update, Delete | an upload is submitted once, its outcome is final, only ready videos are listed |
| Transcode jobs (`internal/transcode`) | `video_transcode_jobs`: status, attempts, worker, started_at, next_retry_at | Claim, UpdateProgress, Succeed, Fail | one attempt at a time, attempts bounded, job and video agree |
| Transactional outbox (`internal/outbox`) | `outbox_events` rows; the batch in each dispatcher's hands | ClaimDue, Publish, MarkPublished, MarkFailed | a published row is in Kafka, every row is published in the end |
| Kafka wrappers (`internal/messaging`) | client position, group offset (external) | Publish, Poll, Commit | nothing fetched is lost |
| Consume loop (`backend/cmd/worker`) | the batch, the `commitTracker` | the loop of `consume` | an offset is committed only when nothing before it is open |
| Sessions, users, auth middleware | `session_families`, `refresh_tokens`, `users`; the cookie in the browser | login, refresh, logout, password change, disable | one token renews a family, a revoked family stays so, tabs do not sign each other out |
| Engagement | likes, favorites, comments, counters in `video_stats` and `video_daily_metrics` | SetLike, SetFavorite, createComment, DeleteComment, RecordWatch | counters equal the rows they count, one effect a request |
| Moderation | reports, moderation status, user status, role, the audit | report, assign, resolve, hide/restore, disable/enable, grant/revoke (command line) | one open report a reporter and target, at least one administrator, an audit that explains the state |
| Notifications | notifications, receipts | Emit, SaveReceipt, MarkRead | one notification an event, one effect an idempotency key |
| Analytics | watch sessions, watch histories, daily metrics | StartSession, Heartbeat | credited time never exceeds elapsed time, the ledgers agree, a session is one view and one completion |
| Ranking (`internal/ranking`, `cmd/ranking-rebuild`) | three Redis keys a window: lock, snapshot, generated_at; shared calls to MySQL | Rebuild, List, the fallbacks | an old build never replaces a newer one, no answer claims to be newer than it is or lists what is hidden, Redis catches up |
| Cache (`internal/cache`) | one Redis value a key, the load under way in each server | GetOrLoad | a caller that leaves does not end the load others wait for, a stale value goes with its TTL |
| Taxonomy | `categories`, `tags`, `video_tags`, `videos.category_id` | ListCategories, ValidateSelection, ApplyVideo | an update keeps what it leaves out |
| Follows, creator pages | `user_follows`, `creator_daily_metrics`, receipts, notifications | SetFollow; lists and profile | the latest choice stands, trend and pages agree, each beginning is told once |
| Rate limits | Redis windows, a local fallback | Allow | the limit holds in a window |
| Frontend | access token, one refresh at a time in a tab | refresh, retry | (its requests are the inputs of the models) |

How an upload travels: `Complete` moves the video to *processing*, creates its
job and inserts an outbox row in one transaction. A dispatcher (one in each API
process) leases due rows, publishes each to Kafka keyed by video, and marks the
row published and its pending job queued. A worker polls the record and calls
`Service.Process`, which claims the job (a conditional `UPDATE` and then a
`SELECT`), works, and ends in `Succeed` or `Fail`, each one transaction over job
and video; `Fail` with attempts left also inserts the outbox row of the retry.
The loop commits the record's offset if Process returned nil and no earlier
failed offset would be passed.

Hard spots, each listed with its line under `hazards` in `PROJECT.json`: Claim's
two statements; attempts whose worker is gone or late; a deletion during an
attempt; a transaction that commits while its reply is lost; a record appended
while its acknowledgement times out; leases that end in their holder's hands;
rebalances that leave the old owner with a batch and the new one with an old
memory of failures; restarts between any two steps; the last attempt; heartbeats
of several tabs whose times run backwards; a request id sent twice at once;
moderators and authors moving one counter; administrators who disable each other
or end one report at once; two tabs that refresh with one token, and a refresh
that looked before its session ended; a builder of the ranking that outlives its
lock; a shared load whose first caller goes away; a creation or an update of a
video that stops half way; a click of follow that is retried after the unfollow.

How watching counts: a tab starts a session and sends heartbeats that claim
watched time. `Heartbeat` reads the time, then locks session, video and history
in one transaction, credits the least of the claim, the session's elapsed time
and the time since the viewer's last credit in any tab, and books it in three
tables. What a visitor does to a video (`engagement`) and what a moderator does
to a comment (`moderation`) move the same counters, each in a transaction that
looks at the video without a lock first.

How moderation works: a user reports a video, a comment or a user, at most once
at a time (a unique `active_key`). `RequireAdmin` lets a request in by the role
it reads; the transaction that follows locks report, receipt, administrators and
target in that order, takes or ends the report or acts on the target, and writes
the audit row, the receipt and the notifications with it.

How sessions work: a login starts a family with one refresh token, which the
browser keeps in a cookie that all its tabs share. `Rotate` reads the clock and
the token, takes the family's lock, and gives the token's replacement, unless the
token was rotated before: within `ConflictWindow` that is the other tab and the
answer is a conflict that leaves the cookie alone; later it is taken for theft
and ends the family. Logout ends a family, a changed password and a disabling
end all families of the user.

How the ranking works: `ranking-rebuild` takes a Redis lock with a lifetime, reads
the metrics, writes a temporary key, and renames it over the snapshot if it still
owns the lock; then it writes `generated_at`. A request reads `generated_at`, then
the snapshot, then from MySQL which of its videos are public; when Redis has
nothing to show it joins a call to MySQL that all requests for the page share,
for which there are `fallbackSlots`.

How a video is filed: `Create` checks the category against those enabled, writes
the row, then category and tags, then the object key, then hands out the URL;
`Update` reads what is stored, chooses, writes the patch and then category and
tags. Each is a step of its own, and a failure leaves what was done. Authors
choose from a list of categories that `GetOrLoad` keeps in Redis.

How following works: the request looks whether both users may, and one
transaction inserts or deletes the row, moves the creator's daily number if a row
was affected, notifies if it was an insertion, and saves the receipt of the
request id (which the web client always sends).

## 2 What is modelled, and where

| Module | Models | State ↔ code |
|---|---|---|
| `Deployment`, `Faults` | shared names; the budget of faults of a behaviour | – |
| `Kafka` | the broker as `messaging/kafka.go` uses it (external) | `log`, `committed` |
| `ConsumeLoop` | `consume`, `commitTracker`, process start and end, group assignment | `loop` = place in the loop, `batch` = polled records, `failed` = `commitTracker.failed`, `position` = the client's fetch position, `handled`/`dropped` = history |
| `Outbox` | `dispatcher.go`, `repository.go` | `outbox` = the table (index = id), `disp` = the batch of `DispatchOnce`; `hold` abstracts next_retry_at |
| `TranscodeJobs` | the two tables, the author's requests, Claim … Fail, the attempt of `Process` | `video`, `public`, `published`, `progress` = columns of `videos`; `job` = the job row; `attempt` = the worker's place in Process |
| `VideoLifecycle` | abstract: what author and visitor are promised | implemented by `TranscodeJobs` through `LifecycleSpec` |
| `TranscodePipeline` | `ConsumeLoop` + `Outbox` + `TranscodeJobs` joined | no state of its own; steps that one function takes in two components are joined |
| `Watch` | `analytics`: StartSession, Heartbeat; `engagement`: RecordWatch | `session`, `history`, `daily` = `watch_sessions`, `watch_histories`, `video_daily_metrics`; `viewCount` = `video_stats.view_count`; `handler` = a heartbeat between reading the time and its transaction |
| `Comments` | `engagement`: createComment, DeleteComment, mutate; `moderation`: applyTargetTx on comments; `notification`: Emit, receipts | `comments` (index = id), `relations`, `receipts`, `notices` = the tables; `commentCount`, `counters` = `video_stats`; `net…` = `video_daily_metrics`; `pending` = a request between looking at the video and writing |
| `Moderation` | `moderation`: CreateReport, AssignReport, ResolveReport, ModerateTarget, applyTargetTx; `middleware`: RequireAdmin; `cmd/api`: runAdminRole; `notification`: Emit, receipts | `reports`, `audit` (index = id), `receipts`, `notices` = the tables; `down` = hidden or disabled, `deleted`, `admins` = columns of the targets; `pending` = a request between what let it in and its transaction |
| `Sessions` | `session`: Issue, Refresh, Rotate, RevokeFamily, the cookie of `handler.go`; `user`: Authenticate, ChangePassword; disabling in `moderation` | `families`, `tokens` (index = id), `normal`, `passwords` = the tables; `cookie` = the browsers'; `requests` = a tab's request between its steps, or its reply on the way; `trouble` = history |
| `SessionLife` | abstract: a session has one credential and only ever ends | implemented by `Sessions` through `LifeSpec` |
| `Ranking` | `ranking/repository.go`: Rebuild, List, sharedFallback, withFallbackSlot; `cmd/ranking-rebuild`; SetNX, RenameIfOwner and the rest of `cache/redis.go` | `lock`, `snapshot`, `metadata` = the keys; `builders`, `requests` = the place in Rebuild and List; `flights` = the calls of `fallbackFlight`; `shown` = history |
| `JSONCache` | `cache/json.go`: GetOrLoad | `source` = the rows in MySQL; `cached` = the key; `loads` = the shared load of a server, with what it read and its context; `waiting` = its callers |
| `Catalogue` | `video/service.go`: Create, Complete, Update, Delete; `taxonomy`; composed with `JSONCache`, whose value are the enabled categories | `videos` = the rows with their tags; `offered`, `uploaded` = URLs given out and objects in the store; `requests` = the place in Create, Complete or Update; `touched` = history |
| `Follows` | `follow`; `creator`: what a profile says; receipts and Emit | `follows`, `netFollowers`, `notices`, `receipts` = the tables; `pending` = a request between its look at the users and its transaction |
| `PipelineProofs` (the loop, the jobs, the outbox, and the pipeline they make), `WatchProofs`, `CommentsProofs`, `ModerationProofs`, `SessionsProofs`, `RankingProofs`, `CatalogueProofs` (with `JSONCache`), `FollowsProofs` | theorems | – |
| `MC*` | values of constants, symmetry sets | – |

One SQL statement outside a transaction, or one transaction, is one action; two
of them are two actions with anything in between. `Claim` is therefore two
actions (`Claim`, `LoadClaimed`), `MarkPublished` (row and job in one
transaction) is one action of the pipeline, `UpdateProgress` stands apart from
`Succeed`. Every error path that changes what happens next is an action
(`EndConflict`, `ClaimRefused`, `MarkErr`, …).

In the pipeline, `ProcessErr`/`ProcessOk` of the loop are joined with the way
the attempt ends: a refused claim, an already finished job, a retry (which
inserts its outbox row in the same step), success, conflict, a lost reply. A
worker's crash ends its attempt, its batch and its tracker together.

Abstractions:

- media files, object keys, titles and the four ffmpeg stages are left out; an
  attempt reports a sequence of `Milestones` and may fail before each.
- `next_retry_at <= now` is a flag (`due`, or `hold` of an outbox row) that time
  sets; `started_at` older than the attempt's timeout plus a minute is the flag
  `stale`, set only when no attempt on the job is alive. That takes the clocks
  of the machines to be within that minute.
- "listed" means ready and public; moderation status and user status restrict
  it further and are not part of the processing state.
- a batch holds records of one partition: the tracker's state is kept for each
  partition apart and the loop treats records one by one.
- a failed poll is a step only when it drops records.
- `Watch` and `Comments` are about one video, and share only whether it is
  listed, which changes at any moment; each look at it is an action where the
  code takes no lock. A position in the video is abstracted to whether it ended.
- a retry of a request whose receipt is there returns the first result, one with
  other contents an error: both change nothing and are `Refused`, with every
  other error that rolls a transaction back. Contents are left out.
- in `Moderation`, videos and comments are both "contents": the code treats them
  alike but for the counter of comments, which is in `Comments`. `ResolveReport`
  is two actions, with and without an action on the target. What an
  administrator was let in for is not kept: any administrative request may follow.
  The session families that disabling a user revokes are in `Sessions`.
- in `Sessions` a token is its row: wrong passwords, tokens nobody issued, and
  access tokens are left out, and a logout may name any family. `Rotate` is two
  actions, because the first plain read fixes what the transaction's later plain
  reads see of the user, while its locking reads see the present.
- in `JSONCache` a load has the context it runs under: the caller it derives
  from, if any, and whether it was canceled. `Leave` cancels what derives from
  the leaving caller's; `Parent` says that a load derives from none.
- in `Ranking` the time is the version of the metrics, one clock for all
  builders (their servers' clocks may differ in the code), a window's rows are the
  set of videos with any, and a page is all of it. A command to Redis or a query
  is a step; a command that fails has no effect or has lost only its reply. One
  window and one day stand for each; the windows share the lock's key, which
  only makes it busy more often. The limit of rows (`ErrTooManyRows`), at which a
  build or a fallback ends with an error, is left out.
- in `Catalogue` a video that was submitted stays "processing": the rest of its
  life is in `TranscodeJobs`. Titles and descriptions are left out of the patch,
  and so is the table of tags, which only grows. A deletion that falls between
  an update's look and its `UpdateOwned` ends the update with an error.
- in `Follows` the days of the trend are summed, a user who unfollows and follows
  again is notified again because the notification's key has a time in it, and
  receipts are kept in the order of their ids.

Lines marked "Mutated:" in a module are forms of the definition below them with
a plausible bug; `PROJECT.json` pairs each property with the one that breaks it.
They take no part in any specification.

## 3 The runs

| Run | Question | Result |
|---|---|---|
| `LoopSafety` | can a commit pass a record that nobody dealt with, with two workers, undecodable records, and rebalances, crashes, failed commits and failed polls? | no |
| `LoopStaleTracker` | is a failed offset in an owner's tracker always one that a redelivery can clear? | violated, §6 |
| `PipelineSafety` | two videos interleaved in one partition, two workers, twelve kinds of fault: is there always a row or record that leads to an unfinished job, unless a failed poll dropped the record? do the tables agree, is there one live attempt which is the current one, does a waiting job have budget, do finished jobs stay finished, and does it all implement `VideoLifecycle`? | yes, with distinct WORKER_IDs |
| `PipelineLiveness` | with two dispatchers and a worker that is killed and restarted: is a published row in Kafka, has every duplicate its fault, is every row published in the end, and does a video in processing get an outcome or use up its attempts? | yes |
| `PipelineLastAttempt` | does it always get an outcome? | violated, §6 |
| `WatchSafety` | two tabs, two heartbeats in hand with times out of order, RecordWatch beside them: is credit within elapsed time, do session, history and day agree, is each view and completion counted once and for its day, does a second tab cost time of its own? | yes |
| `CommentsSafety` | a request id sent repeatedly and at once, replies, likes, deletions and hidings in any order: is it one comment, told once to each it concerns, are the ledgers exact, is the counter never too high? | yes |
| `ModerationSafety` | administrators act at once on reports, contents and each other, on requests let in earlier, with the command line and the author beside them: does an administrator remain, is one report of a target open, do audit, reports, states and notifications agree? | yes |
| `SessionsSafety` | two tabs of one browser log in, refresh, log out and change the password at once, with slow, failed and lost requests, while the user is disabled and enabled: has a family one token that renews it, does the cookie stay with it, do the tabs stay signed in, and do the sessions implement `SessionLife`? | yes |
| `RankingSafety` | two builders, a lock that may expire under them, one crash, failed command or lost reply; a request that reads Redis or shares a call, while the video is hidden and shown: does a snapshot ever go back, is an answer ever said to be newer than it is, or does it list what was hidden all along, and does Redis catch up? | never; it does |
| `CatalogueSafety` | two requests for a video, each cut off anywhere, a category disabled under them, and two callers of the cached list that miss, wait and leave: has a processed video its source, does an update keep what it leaves out, does a caller that leaves end the load the other waits for, does the cache converge? | yes |
| `FollowsSafety` | two users who follow and unfollow each other, with ids that come again late and with another content, two requests at once, accounts disabled and restored: does the latest choice stand, do trend, page and lists agree, is each beginning told once? | yes |

To repeat one: `tlc -workers 2 -config PipelineSafety.cfg MCTranscodePipeline`.
The longest are `SessionsSafety` and `RankingSafety` (5.2 and 1.9 million
states, over two minutes each), `PipelineSafety` and `CatalogueSafety` (2.5 and
1.8 million, under two); the others take half a minute or less.

## 4 Bounds, fairness, faults

`MaxFaults` bounds the faults of one behaviour, `FaultKinds` their kinds;
`MaxLog` the records of a partition, `MaxEvents` the outbox rows. The bounds
guard the producing steps, so a behaviour that reaches them stops producing;
deadlock is not checked where a bounded system may come to rest, and is checked in
`ModerationSafety`, `SessionsSafety`, `RankingSafety` and `CatalogueSafety`.

- Two workers show every interleaving of an owner and a former owner.
  `LoopSafety` has three records, so that a failure, a success after it and a
  redelivery meet in one partition, and three faults, so that a partition can go
  away and come back around a crash.
- `PipelineSafety` has two attempts for each of two videos, a retry and a last
  one, and a row for every attempt; two workers race in Claim, and one is late
  when its attempt timed out. One fault of any kind. `PipelineLiveness` has a retry and a
  last attempt as well, two dispatchers and batches of two (the row of the retry
  may come while the first row is leased and not yet marked), so that a batch has
  a part left when its lease or its process ends, and two faults; a run with three
  attempts and three rows, 0.9 million states in four minutes, shows the same.
- `WatchSafety`: the clock runs to 3, with days of 2 and a lifetime of 3, so that
  a session qualifies on one day and completes on the next, and expires. A view
  costs 1 of a video of 2, and a heartbeat claims 2, the cap, which elapsed time
  cuts to 0, 1 or 2. Two sequence numbers give repetition and reordering, two
  handlers times out of order. `Skew` is how far the database's clock, which
  dates the histories that RecordWatch creates, is ahead. `MaxClock` and
  `MaxSeq` bound time and sequence numbers.
- `CommentsSafety`: two users, one the video's author, and two comments make
  every relation of author, comment and reply; two requests at once and one
  request id make the race for the receipt; a request without an id may be
  repeated. `MaxComments` bounds the table; likes and favorites run the same
  code on tables of their own, and one kind stands for both.
- `ModerationSafety`: two users, each of whom may have the role, and two requests
  at once are what it takes to disable each other; two request ids let one user
  report twice and an administrator act twice; two reports of one content make a
  second one beside and after the first, two rows of the audit a first action
  and one that finds what it left. `Reporters` and `Reported` keep reports to the
  author's content (a wider run, with reports of a user as well, 4.6 million
  states, shows the same); `MaxReports` and `MaxActions` bound the tables.
- `SessionsSafety`: two tabs of one browser, so that both refresh with one token;
  two families and three tokens give a renewed session beside a new one. A family
  lives for 4 ticks, a token for 3, the conflict window is 2 and a request takes
  at most 1 while nothing is wrong, so that within the clock's 4 a token comes
  inside and outside the window, expires alone, and is cut by its family's end.
  `MaxClock`, `MaxFamilies`, `MaxTokens` and `MaxPasswords` are bounds.
- `RankingSafety`: two builders, one of whom is late; two versions of the metrics,
  the first without any, so that an empty snapshot, an old and a new one occur;
  one slot, which another request's call may hold (`OthersFall`); one fault, the
  expiry of a lock in use among them. `MaxVersion` is a bound. With two requests
  the safety properties hold as well; one request that joins a call of others
  has every wait that two have.
- `CatalogueSafety`: two requests for one video are a creation beside a
  completion, or two updates; two categories of which one may be disabled once
  (`MaxChanges`), four patches that name category, tags, both, or no tags; two
  callers of one server share a load, so that the one that began it may leave
  while the other waits.
- `FollowsSafety`: two users, one in the web client; three request ids, so that a
  follow, an unfollow and a follow again can each be retried after the next; two
  requests at once. `MaxNotices` and `MaxReceipts` are bounds.
- Symmetry is used in safety runs only (and for tabs, with `LifeSpec`, a safety
  property), over workers, videos, handlers, tabs and request ids, none of which
  is named by an ordering or a CHOOSE.

Fairness. Weak fairness of the fault-free steps of a dispatcher (`Dispatcher.Run`
ticks for ever), of a worker's loop and restart (`restart: unless-stopped` in
`backend/deploy/docker-compose.yml`), of the group's assignment of a free partition, and of
time. Author's requests, arrivals and faults are never fair. Finitely many
faults stand for "Kafka and the database answer in the end".
A record whose processing failed is not fetched again while its worker goes on:
the client keeps its position (`consume.go:121`). Redelivery is by the restart
or a rebalance, neither of which the code forces, so `PipelineLiveness` admits
no fault that makes `Process` fail in a worker that lives on; crashes are
admitted, and retries through the outbox need no redelivery. Nor does it admit
a failed poll, after which the video may stay in processing (§6).

`FairRankingSpec` is fair to the start of builds (the ticker of `ranking-rebuild`,
which is restarted unless stopped), to a builder's steps, and to the expiry of a
lock, which Redis owes; changes of metrics and of visibility, requests and the
expiry of the other keys are not fair, so `RankingCatchesUp` says that Redis
shows the present again and again, not for ever. `FairCatalogueSpec` is fair to a
load's end, which `loaderTimeout` forces if nothing else does, and to the TTL.

## 5 What is proved

A property is seldom inductive as it stands. Each theorem below rests on a
strengthened invariant, whose added parts are named.

`PipelineProofs`, for any sets of videos, workers, dispatchers and partitions, any
numbers of attempts, rows and faults (`NoneAssumption`, `NoPartitionAssumption`,
`MaxLogAssumption`, `OutboxAssumption`, `JobsAssumption`, `RecordsAssumption`,
`MaxFaultsAssumption`). First the three parts, each under its own specification:

- The loop: `LoopInvariant`, `LoopTypeCorrect`, `NothingIsSkipped`. A commit is safe
  because of what the worker did earlier in the batch, and what it did before the
  batch. `LoopInv` adds the two facts: inside
  a batch a worker has dealt with everything before its record
  (`BatchPrefixDealt`), and the owner of a partition with everything up to its
  position but the rest of its batch (`OwnerPrefixDealt`). "Dealt with" is
  handled by anyone, dropped by a poll, or in the worker's own `failed`; the
  last is what `blocks` refuses to pass. `BoundedLoop`: the specification TLC
  explores implements the unbounded one.
- The jobs: `TablesInvariant`. `JobsTypeOK`, `JobVideoAgree`, `PublishedAgree` and
  `ProgressAgree` are inductive only together (a listed video is dated because
  only Succeed makes it ready; the progress of a ready video stays 100 because
  an attempt reports only while it is in processing, and so on). Each is also a
  theorem of its own. `JobsOnlyAdvance`: a finished job never changes, attempts
  never decrease. `JobsImplementLifecycle`: tables and attempts implement
  `VideoLifecycle`.
- `AttemptsInvariant`, `AttemptsExclude`, `AttemptsAreCurrent`,
  `RetriesHaveBudget` under `DistinctIDs`, that no two processes share a
  WORKER_ID. They need each other: an attempt is current because it is alone,
  and a retry has budget because the attempt that wrote it was current. The
  hypothesis is real: `Claim` lets a worker take over a running job that bears
  its own id, so two processes of one id can work on one job. The repository's
  `backend/deploy/docker-compose.yml` sets one fixed id, for its one worker.
- The outbox: `OutboxInvariant`, `PublishedIsInLog`. `OutboxInv` adds `AckedInLog`,
  that a dispatcher about to mark a row has its record in the log, and
  `LogIsRows`, that the log holds records of rows only.

Then the pipeline:

- `PipelineImplementsLoop`, `PipelineImplementsOutbox`, `PipelineImplementsJobs`:
  every step of the pipeline is, for each part, a step of it or one that leaves
  its variables alone. What makes this more than bookkeeping is that each part's
  environment must be allowed to do what the others do: a record that arrives is
  a row's, and the video that `Process` claims is the one of the row whose record
  the worker is at (`CurrentRow`). So `NothingSkipped`, `TablesInv`,
  `JobMonotone`, `AttemptsInv`, `PublishedInLog` and `LifecycleSpec` are properties
  of the whole (`PipelineSkipsNothing`, `PipelineTables`, `PipelineAttempts`,
  `PipelinePublishes`, `PipelineImplementsLifecycle`).
- `PipelineInvariant`, `NoJobIsLost`. `PipelineInv` adds to the parts' invariants that
  an attempt is on the job of the record its worker is at (`AttemptAtRecord`), that
  a job has a latest row (`JobHasRow`), and that what was handled is past
  (`HandledIsPast`): its job is finished or has a later row. The latest row of an
  unfinished job is pending, or published and so in the log; its record was not
  handled, as no row is later; so, by `NothingSkipped`, the group's offset is
  before it or a failed poll dropped it.
- `PipelineBudget`, `DuplicatesArePaidFor`. Counting records and faults is not
  inductive, because a fault pays before the second record comes. `Budget` counts
  for each row its records, the dispatchers that hold it without an
  acknowledgement, and one if it can be claimed again: a step without fault never
  raises the sum, and a fault raises it by one at most.

`WatchProofs`, for any finite sets of viewers and tabs, any handlers, durations and limits
(`WatchAssumption`) and one clock read by all API processes:

- `CreditInvariant`, `WatchTypeCorrect`, `CreditIsElapsed`. That a viewer's
  effective time is within the time elapsed is inductive with `CreditTimes`: it
  fits between the start of one of the viewer's tabs and the viewer's last
  credit. A heartbeat's credit is no more than what has passed since then, and
  the new last credit is the heartbeat's time, which `RequestTimes` and
  `SessionTimes` keep between the session's start and the present, although
  `received` may go back.
- `HeartbeatsInOrder`: the action property, from the guard and type correctness.
- `LedgerInvariant`, `LedgersAgree`, `ViewsAreWatched`, `CountersAreRows`. `LedgerInv`
  adds what a session that has not started looks like (`Blank`), that a session has
  a cohort day when it is a view and earned it with its own credit (`Qualified`),
  and what `viewCount` and the days count (`Counted`). That completions do not
  exceed views is by day: of a video `LongEnough`, where 80% of it is a view, a
  completed session is a view and was completed on the view's day
  (`CompletedInv`). The sums are the community modules' folds; that a change of
  one summand changes the sum by the difference is proved by well-founded
  induction over a set of subsets, which needs no operator as a parameter.

`CommentsProofs`, for any finite set of users, and any handlers, kinds of
relation, request ids and number of comments (`CommentsAssumption`,
`NoneAssumption`):

- `RequestInvariant`, `CommentsTypeCorrect`, `RequestsAreOnce`: the receipts lead
  to the comments, so a request id without a receipt has no comment, and the
  unique key admits it once. `ParentsExist` says that a reply in hand has its
  parent.
- `CountIsNeverOver`, `LedgersAlwaysAgree`: `Counts` is inductive by one case for
  each way a row enters or leaves the sets counted. The bound is an inequality
  because deleting a hidden comment leaves the set as it is and the counter
  smaller (§6).
- `EverybodyIsToldOnce`: `NoticesInv` says of every comment that its notices are
  exactly those its creation wrote, for the parent it was created with; as
  authors of comments never change, they stay those it should have.

`ModerationProofs`, for any users, contents, first administrators, handlers,
request ids and bounds (`ModerationAssumption`, `ModerationNoneAssumption`):

- `AnAdministratorRemains`: the count that refuses is made of the present with
  the administrators' rows locked, and where it is more than one somebody stays
  when one goes (`OneStays`), so what a request was let in with does not matter.
- `ModerationTypeCorrect`, `ModerationInvariant`, `OneReportIsOpen`. That one
  report is open is not inductive: the unique key is what is unique, so
  `KeysHeld` adds that an unfinished report holds its key.
- `TheAuditExplains`, `ReportsAreAudited`, `TheTruthIsTold`: each about a table that
  only grows at its end (`Grows`), and proved target by target and report by
  report (`AuditInv`, `ReportsInv`, `NewsInv`). A row of the audit left the state
  that the next one of its target found, and the latest left the present; an open
  report is nobody's, so of two who take it one writes a row; a report ends once,
  so its reporter hears of one end.

`SessionsProofs`, for any users, browsers, tabs, lifetimes and bounds
(`SessionsAssumption`, `SessionsNoneAssumption`):

- `SessionsTypeCorrect`, `OneTokenLives`, `TokensEndWithFamilies`. The two facts
  about tokens are inductive together with `References`, that a cookie and a
  request under way name tokens that were issued: Renew marks the token it was
  presented and appends one to the same family, and nothing else touches the
  table. The replacement's end is cut by the family's, so it does not matter
  that the clock was read before the lock.
- `SessionsImplementLife`: the tables implement `SessionLife`. `SeenNormal` is what
  makes it inductive: a rotation that saw the user enabled, in a family that is
  live when the lock is held, has an enabled user, because who disables the user
  ends the family in the same transaction. The old status is safe to use only
  because the family's state is read under the lock.
- `NobodyIsSignedOut`, `CookiesAreCurrent`, for any number of browsers and tabs.
  `UnderWay` says where tokens are: one on its way in a reply is nowhere else
  (`Travelling`), one in a browser is presented by its tabs only (`AtHome`); a
  browser whose token was renewed is about to hear of it in a reply to a request
  sent before the renewal (`Renewing`), so a request with the old token was sent
  before that reply was due and comes within the conflict window (`Prompt`,
  `Recent`). This is where it matters that a request takes at most half the
  window while nothing is slow.

`RankingProofs`, for any videos, rows, builders, requests, slots and bounds
(`RankingAssumption`, `RankingNoneAssumption`):

- `RankingTypeCorrect`, `SnapshotsGoForward`, `TimestampsAreHonest`,
  `NothingHiddenIsListed`. `Published` says of the owner of the lock that is about
  to publish that what it read is not older than the snapshot in Redis, nor than
  any time that a builder is about to write or a request has read (`Stamped`);
  it read after it got the lock, and since then nobody else has published. That
  is why a builder without the lock, still about to write `generated_at`, does no
  harm: its time is older. `Seen` says that whoever looks has noted all that is
  public now.

`CatalogueProofs`, for any servers, callers, handlers, videos, categories, tags and
patches (`CacheAssumption`, `CacheNoneAssumption`, `CatalogueAssumption`,
`CatalogueNoneAssumption`, `PatchesAssumption`):

- `CacheCancelsNobody`, `CatalogueImplementsCache`, `NobodyIsCanceled`. In a cache by
  itself, inductively with the types, whoever waits has a load (`LoadsForAll`) and
  no load has a caller's context for its parent, so that none is ever canceled
  (`LoadsOutlive`); a caller that stops waiting has therefore left by itself, or is
  handed the load's value or an error of its own. The catalogue's list is such a
  cache (`CacheSpec`), whose source changes when a category is disabled, and
  therefore has the property.
- `CatalogueInvariant`, `ProcessedVideosHaveSource`. `SourceInv` says that the key of a
  row is reset by the one request that inserts it (`OneInserts`, `RowsAreThere`),
  so that what anybody was told of the key stays true (`OfferedHaveKeys`,
  `HandlersKnow`).
- `UpdatesKeepTheRest`: the action property. While no other request wrote the row,
  what an update means to write back is what the row holds (`FilingInv`), so the
  write changes only what the patch names.

`FollowsProofs`, for any finite set of users, and any browsers, request ids,
handlers and bounds (`FollowsAssumption`, `PendingAssumption`):

- `FollowsTypeCorrect`, `FollowersAlwaysAgree`, `LatestChoicesStand`,
  `EachFollowTold`. The trend counts rows because a transaction moves it by one
  exactly where a row enters or leaves. Receipts of a browser's user for another
  tell the row: the last of them is what the row says, so a new receipt turns the
  relation on exactly where the row was not there, and that is where the
  notification is written.

Every invariant, action property and refinement that a passing run checks is also
a theorem. Only model-checked are the liveness properties (`EveryRowPublished`,
`SettlesOrExhausted`, `RankingCatchesUp`, `CacheConverges`): leads-to under
fairness, with `ENABLED`, is out of the prover's reach. What the proofs assume
beyond the constants' types is `DistinctIDs` and `LongEnough`, which are named
above and in §6 with what happens without them.

## 6 Where the code disagrees with its documentation

Two runs show a disagreement:

- `LoopStaleTracker`: a worker that lost a partition and got it back still holds
  failed offsets that another worker has meanwhile handled and committed. It
  withholds every later commit with nothing left to retry, until it restarts,
  and then the group consumes those records again (harmless for finished jobs).
- `PipelineLastAttempt`: a worker killed in the last attempt leaves a running job
  with `attempts = max_attempts`, which `Claim` never takes and nothing fails.
  `SettlesOrExhausted` states what does hold.

Others are in the models, whose properties state what does hold:

- `Poll` returns only the error when one of the fetches carries one
  (`messaging/kafka.go:72`). The client has moved past the records that came with
  it, and the next commit covers them, so delivery is not at least once.
  `NothingSkipped` counts them as dropped. In the pipeline the job is lost: the
  exception that `NoLostJob` makes for it (`Discarded`) is necessary, for without
  it TLC finds a video in processing whose one record was dropped and passed.
- `applyTargetTx` subtracts a comment that a moderator hides, and `DeleteComment`
  subtracts it again when its author deletes it. The counter stays one below the
  comments that remain: `CountNeverOver`. The daily `net_comments` ignores hiding
  and stays exact (`LedgersAgree`).
- "Fields that were left out keep their stored value" (`video/service.go:390`,
  `backend/README.md:208`) holds of one update at a time. Two that overlap write
  the category and the tags they found before the other wrote: an update of the
  tags may take the category back, and the reverse. `LeftOutKept` therefore
  speaks of updates that no other request for the video crossed.
- "A missing snapshot or metadata is a cache miss" (`ranking/repository.go:182`):
  a missing snapshot with its metadata still there is an empty ranking, and is
  answered with the latest public videos instead of the metrics
  (`FilterCandidates`).
- `CompletionsWithinViews`, a part of `CountersAgree`, "完成率 … 不超过 100%", needs a
  video of at least 3.75 seconds. One of, say, 2.9 seconds is a view only once
  it was watched to the last millisecond, and complete from 80% on.
  `WatchSafety` has a video long enough, and `CountersAreRows` proves it of every
  such video (`LongEnough`).
- Not every act of an administrator is audited ("所有管理动作写追加式审计",
  `docs/stage5/decisions.md:297`): rejecting a report writes no row, as
  `RejectReport` shows; `ActionRejectReport` and `ActionResolveReport`
  (`moderation/model.go:34`) are never used. Who rejected is kept only in the
  receipt and the notification to the reporter.

## 7 What is not modelled

Listed with their reasons in `PROJECT.json`: pure I/O (object storage, ffmpeg),
read-only pages, configuration, routing, the frontend's views. Of the modelled
components these parts are left out:

- Rate limits. One `Allow` is one Lua script, or one critical section of a
  mutex; no other code reads or writes the window, so that there is no
  interleaving to explore. When Redis fails a rule may be counted in each process
  alone; the rules that say `FallbackToLocal` then limit a process, not the service.
- `MarkRead` of notifications, registration and changes of the profile: one
  statement on one row, which nothing modelled reads.
- Access tokens and their verification, the CSRF comparison, the expiry of the
  cookie in the browser (no later than that of its token).
- `JSONCache.Set` and `Delete`, the revocation of all of a user's sessions in
  `session` and the invalidation of the list of categories: nothing calls them.
- The keys of past days that `pruneOldSnapshots` deletes: no request reads them.
- A source object that is replaced or removed after `Stat` has found it.
- The retries of a deadlock's victim in moderation: a transaction that is rolled
  back and one that comes later, both of which are there.
- A login that found the password right before the password was changed, or the
  user disabled, may commit its family later. It is in `Sessions` (`Start` of
  `SessionLife` admits it), and no document says otherwise.

## 8 Plan

Done: the processing pipeline (it carries the product: no upload lost, none
processed twice), from the loop outwards; watching, comments and moderation,
where several requests move one number or one row; sessions, the ranking, the
catalogue with its cache, and follows.

The proofs that were planned are done, for every safety property of the runs.

Models to come: two windows of the ranking with their common lock, where more
than one rebuild process is deployed.
