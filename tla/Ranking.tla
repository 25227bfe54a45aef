------------------------------- MODULE Ranking -------------------------------
(***************************************************************************)
(* The ranking of one window on one day: builders that publish it to Redis *)
(* under a lock that may expire while they work, and requests that list it *)
(* from Redis or, sharing the work, from MySQL                             *)
(* (backend/internal/ranking/repository.go, backend/cmd/ranking-rebuild,   *)
(* backend/internal/cache/redis.go).                                       *)
(*                                                                         *)
(* A step is one command to Redis or one query of MySQL; the temporary key *)
(* is the builder's own, so that writing it is a step with reading the     *)
(* rows.  Time is the version of the metrics: a clock read at version n    *)
(* shows n.  Scores and pages are left out: the rows of a version are the  *)
(* set of videos with metrics, a page is all of it, read in one batch, and *)
(* the requests ask for the same page, so that their fallbacks are two.    *)
(***************************************************************************)
EXTENDS Integers, FiniteSets

CONSTANTS Videos,
          Rows,        \* of a version of the metrics: the videos with any
          Builders,    \* processes of ranking-rebuild
          Requests,    \* to list the ranking, each made once
          Slots,       \* of fallbackSlots
          None,        \* key missing, no process at work
          MaxVersion,  \* bound
          MaxFaults    \* bound

Versions == 0..MaxVersion

ASSUME RankingAssumption ==
  /\ MaxVersion \in Nat /\ MaxFaults \in Nat /\ Slots \in Nat \ {0}
  /\ Rows \in [Versions -> SUBSET Videos]
  /\ None \notin Builders /\ None \notin Versions
  /\ Requests \cap {"metrics", "latest"} = {}

VARIABLES version,  \* of video_daily_metrics
          public,   \* the videos visitors may see now
          lock,     \* the value of the lock's key
          snapshot, \* the version in the snapshot's key
          metadata, \* generated_at
          builders, \* what each is at
          requests, \* what each is at
          flights,  \* the calls of fallbackFlight, by kind
          shown,    \* the videos public since a request or a call began to look
          faults    \* so far

redisVars == <<lock, snapshot, metadata>>
mysqlVars == <<version, public>>
serverVars == <<requests, flights, shown>>
rankingVars == <<mysqlVars, redisVars, builders, serverVars, faults>>

Kinds == {"metrics", "latest"}

\* at: the clock when Rebuild was called; data: the version its rows show.
Build == [do : {"locks", "reads", "stamps"}, at : Versions]
    \cup [do : {"publishes"}, at : Versions, data : Versions]
    \cup {[do |-> "unlocks"]}

\* generated: the timestamp of the answer; data: the version it shows;
\* hidden: its items that were not public at any time while it was made.
Answer == [do : {"answered"}, items : SUBSET Videos, generated : Versions, data : Versions,
           hidden : SUBSET Videos]

Request ==
  [do : {"asks"}, now : Versions]
  \cup [do : {"reads"}, now : Versions, generated : Versions]
  \cup [do : {"filters"}, now : Versions, generated : Versions, data : Versions \cup {None}]
  \cup [do : {"falls"}, now : Versions, kind : Kinds]
  \cup [do : {"waits"}, kind : Kinds]
  \cup {[do |-> "failed"]}
  \cup Answer

Flight == [do : {"loads", "latest"}, now : Versions]
     \cup [do : {"filters"}, now : Versions, data : Versions]

ASSUME RankingNoneAssumption ==
  None \notin Build /\ None \notin Request /\ None \notin Flight

RankingTypeOK ==
  /\ version \in Versions
  /\ public \subseteq Videos
  /\ lock \in Builders \cup {None}
  /\ snapshot \in Versions \cup {None}
  /\ metadata \in Versions \cup {None}
  /\ builders \in [Builders -> Build \cup {None}]
  /\ requests \in [Requests -> Request \cup {None}]
  /\ flights \in [Kinds -> Flight \cup {None}]
  /\ shown \in [Requests \cup Kinds -> SUBSET Videos]
  /\ faults \in 0..MaxFaults

RankingInit ==
  /\ version = 0
  /\ public = Videos
  /\ lock = None /\ snapshot = None /\ metadata = None
  /\ builders = [b \in Builders |-> None]
  /\ requests = [r \in Requests |-> None]
  /\ flights = [k \in Kinds |-> None]
  /\ shown = [x \in Requests \cup Kinds |-> {}]
  /\ faults = 0

-----------------------------------------------------------------------------
At(b, step) == builders[b] # None /\ builders[b].do = step

Goes(b, build) == builders' = [builders EXCEPT ![b] = build]

Fault == faults < MaxFaults /\ faults' = faults + 1

BuilderRest == UNCHANGED <<mysqlVars, serverVars>>

StartBuild(b) ==
  /\ builders[b] = None
  /\ Goes(b, [do |-> "locks", at |-> version])
  /\ BuilderRest /\ UNCHANGED <<redisVars, faults>>

SetNX(b) ==
  /\ At(b, "locks") /\ lock = None
  /\ lock' = b
  /\ \/ Goes(b, [do |-> "reads", at |-> builders[b].at]) /\ UNCHANGED faults
     \/ Goes(b, None) /\ Fault
  /\ BuilderRest /\ UNCHANGED <<snapshot, metadata>>

LockBusy(b) ==
  /\ At(b, "locks") /\ lock # None
  /\ Goes(b, None)
  /\ BuilderRest /\ UNCHANGED <<redisVars, faults>>

\* The rows, and from them the temporary key.
ReadMetrics(b) ==
  /\ At(b, "reads")
  /\ Goes(b, [do |-> "publishes", at |-> builders[b].at, data |-> version])
  /\ BuilderRest /\ UNCHANGED <<redisVars, faults>>

\* Mutated: RENAME without a look at the lock.
Anyone(b) == TRUE
IsOwner(b) == lock = b

RenameIfOwner(b) ==
  /\ At(b, "publishes") /\ IsOwner(b)
  /\ snapshot' = builders[b].data
  /\ \/ Goes(b, [do |-> "stamps", at |-> builders[b].at]) /\ UNCHANGED faults
     \/ Goes(b, [do |-> "unlocks"]) /\ Fault
  /\ BuilderRest /\ UNCHANGED <<lock, metadata>>

LockLost(b) ==
  /\ At(b, "publishes") /\ ~IsOwner(b)
  /\ Goes(b, [do |-> "unlocks"])
  /\ BuilderRest /\ UNCHANGED <<redisVars, faults>>

\* Mutated: the time when it is written.
StampedNow(b) == version
Stamp(b) == builders[b].at

WriteMetadata(b) ==
  /\ At(b, "stamps")
  /\ metadata' = Stamp(b)
  /\ Goes(b, [do |-> "unlocks"])
  /\ BuilderRest /\ UNCHANGED <<lock, snapshot, faults>>

\* Eval(unlockLua), which only the owner's value passes.
Unlock(b) ==
  /\ At(b, "unlocks")
  /\ lock' = IF lock = b THEN None ELSE lock
  /\ Goes(b, None)
  /\ BuilderRest /\ UNCHANGED <<snapshot, metadata, faults>>

\* A command that fails without effect; SetNX is not followed by an unlock.
BuildFails(b) ==
  /\ builders[b] # None
  /\ Fault
  /\ IF At(b, "locks") \/ At(b, "unlocks") THEN Goes(b, None) ELSE Goes(b, [do |-> "unlocks"])
  /\ BuilderRest /\ UNCHANGED redisVars

BuilderCrashes(b) ==
  /\ builders[b] # None
  /\ Fault
  /\ Goes(b, None)
  /\ BuilderRest /\ UNCHANGED redisVars

\* Mutated: the lock has no TTL.
KeptForEver(b) == FALSE
Abandoned(b) == ~ \E step \in {"reads", "publishes", "stamps", "unlocks"} : At(b, step)

\* A fault, when the owner is still at work.
LockExpires ==
  /\ lock # None
  /\ \/ Abandoned(lock) /\ UNCHANGED faults
     \/ ~Abandoned(lock) /\ Fault
  /\ lock' = None
  /\ UNCHANGED <<mysqlVars, snapshot, metadata, builders, serverVars>>

SnapshotExpires ==
  /\ snapshot # None /\ snapshot' = None
  /\ UNCHANGED <<mysqlVars, lock, metadata, builders, serverVars, faults>>

MetadataExpires ==
  /\ metadata # None /\ metadata' = None
  /\ UNCHANGED <<mysqlVars, lock, snapshot, builders, serverVars, faults>>

-----------------------------------------------------------------------------
Is(r, step) == requests[r] # None /\ requests[r].do = step

Ended(r) == Is(r, "answered") \/ Is(r, "failed")

Open(r) == requests[r] # None /\ ~Ended(r)

Looking(r) == Is(r, "asks") \/ Is(r, "reads") \/ Is(r, "filters")

Busy == {r \in Requests : Looking(r)} \cup {k \in Kinds : flights[k] # None}

\* Somebody watches, likes or comments.
MetricsChange ==
  /\ version < MaxVersion
  /\ version' = version + 1
  /\ UNCHANGED <<public, redisVars, builders, serverVars, faults>>

\* Published, restored, enabled; or deleted, made private, hidden, disabled.
VisibilityChanges(v) ==
  /\ public' = IF v \in public THEN public \ {v} ELSE public \cup {v}
  /\ shown' = [x \in DOMAIN shown |->
                 IF x \in Busy THEN shown[x] \cup public' ELSE shown[x]]
  /\ UNCHANGED <<version, redisVars, builders, requests, flights, faults>>

-----------------------------------------------------------------------------
Takes(r, request) == requests' = [requests EXCEPT ![r] = request]

Forget(xs) == shown' = [x \in DOMAIN shown |-> IF x \in xs THEN {} ELSE shown[x]]

RequestRest == UNCHANGED <<mysqlVars, redisVars, builders, faults>>

List(r) ==
  /\ requests[r] = None
  /\ Takes(r, [do |-> "asks", now |-> version])
  /\ shown' = [shown EXCEPT ![r] = public]
  /\ RequestRest /\ UNCHANGED flights

\* It is shown another call's answer from now on.
Falls(r, kind) ==
  /\ Takes(r, [do |-> "falls", now |-> requests[r].now, kind |-> kind])
  /\ Forget({r})

GetMetadata(r) ==
  /\ Is(r, "asks")
  /\ IF metadata # None
     THEN Takes(r, [do |-> "reads", now |-> requests[r].now, generated |-> metadata])
          /\ UNCHANGED shown
     ELSE Falls(r, "metrics")
  /\ RequestRest /\ UNCHANGED flights

ReadMembers(r) ==
  /\ Is(r, "reads")
  /\ Takes(r, [do |-> "filters", now |-> requests[r].now, generated |-> requests[r].generated,
               data |-> snapshot])
  /\ RequestRest /\ UNCHANGED <<flights, shown>>

\* Redis, or the query after it, fails.
RedisFails(r) ==
  /\ Looking(r)
  /\ Falls(r, "metrics")
  /\ Fault
  /\ UNCHANGED <<mysqlVars, redisVars, builders, flights>>

\* Mutated: Redis is the authority on what may be seen.
Trusted(videos) == videos
FilterPublic(videos) == videos \cap public

Members(data) == IF data = None THEN {} ELSE Rows[data]

Answered(items, generated, data, could) ==
  [do |-> "answered", items |-> items, generated |-> generated, data |-> data, hidden |-> items \ could]

FilterCandidates(r) ==
  /\ Is(r, "filters")
  /\ LET q == requests[r]
         visible == FilterPublic(Members(q.data))
     IN  IF visible # {}
         THEN Takes(r, Answered(visible, q.generated, q.data, shown[r])) /\ Forget({r})
         ELSE Falls(r, "latest")
  /\ RequestRest /\ UNCHANGED flights

Running == {k \in Kinds : flights[k] # None}

\* The call of the first takes one of fallbackSlots.
Begin(k, now) ==
  /\ flights[k] = None /\ Cardinality(Running) < Slots
  /\ flights' = [flights EXCEPT ![k] =
                   [do |-> IF k = "metrics" THEN "loads" ELSE "latest", now |-> now]]
  /\ shown' = [shown EXCEPT ![k] = public]

\* DoChan: the others wait for it too.
SharedFallback(r) ==
  /\ Is(r, "falls")
  /\ LET k == requests[r].kind
     IN  /\ \/ Begin(k, requests[r].now)
            \/ flights[k] # None /\ UNCHANGED <<flights, shown>>
         /\ Takes(r, [do |-> "waits", kind |-> k])
  /\ RequestRest

FallbackBusy(r) ==
  /\ Is(r, "falls")
  /\ flights[requests[r].kind] = None /\ Cardinality(Running) >= Slots
  /\ Takes(r, [do |-> "failed"])
  /\ RequestRest /\ UNCHANGED <<flights, shown>>

\* A request that is not in Requests begins a call.
OthersFall(k) ==
  /\ Begin(k, version)
  /\ RequestRest /\ UNCHANGED requests

\* The client goes; a call it began goes on.
Leave(r) ==
  /\ Open(r)
  /\ Takes(r, [do |-> "failed"])
  /\ Forget({r})
  /\ RequestRest /\ UNCHANGED flights

-----------------------------------------------------------------------------
InFlight(k, step) == flights[k] # None /\ flights[k].do = step

Waiting(k) == {r \in Requests : Is(r, "waits") /\ requests[r].kind = k}

\* The call ends, and all who wait for it have its outcome.
Land(k, outcome) ==
  /\ flights' = [flights EXCEPT ![k] = None]
  /\ requests' = [r \in Requests |-> IF r \in Waiting(k) THEN outcome ELSE requests[r]]
  /\ Forget({k})
  /\ RequestRest

Proceeds(k, flight) ==
  /\ flights' = [flights EXCEPT ![k] = flight]
  /\ RequestRest /\ UNCHANGED <<requests, shown>>

MetricRows(k) ==
  /\ InFlight(k, "loads")
  /\ Proceeds(k, [do |-> "filters", now |-> flights[k].now, data |-> version])

FilterRows(k) ==
  /\ InFlight(k, "filters")
  /\ LET visible == FilterPublic(Rows[flights[k].data])
     IN  IF visible # {}
         THEN Land(k, Answered(visible, flights[k].now, flights[k].data, shown[k]))
         ELSE Proceeds(k, [do |-> "latest", now |-> flights[k].now])

LatestPublic(k) ==
  /\ InFlight(k, "latest")
  /\ Land(k, Answered(public, flights[k].now, version, shown[k]))

\* A query fails, or the call's ten seconds are over.
FlightFails(k) ==
  /\ flights[k] # None
  /\ flights' = [flights EXCEPT ![k] = None]
  /\ requests' = [r \in Requests |->
                    IF r \in Waiting(k) THEN [do |-> "failed"] ELSE requests[r]]
  /\ Forget({k})
  /\ Fault
  /\ UNCHANGED <<mysqlVars, redisVars, builders>>

BuilderStep(b) ==
  SetNX(b) \/ LockBusy(b) \/ ReadMetrics(b) \/ RenameIfOwner(b) \/ LockLost(b)
  \/ WriteMetadata(b) \/ Unlock(b)

RequestStep(r) ==
  GetMetadata(r) \/ ReadMembers(r) \/ FilterCandidates(r) \/ SharedFallback(r)
  \/ FallbackBusy(r)

FlightStep(k) ==
  MetricRows(k) \/ FilterRows(k) \/ LatestPublic(k)

RankingNext ==
  \/ \E b \in Builders : StartBuild(b) \/ BuilderStep(b) \/ BuildFails(b) \/ BuilderCrashes(b)
  \/ LockExpires \/ SnapshotExpires \/ MetadataExpires
  \/ MetricsChange \/ \E v \in Videos : VisibilityChanges(v)
  \/ \E r \in Requests : List(r) \/ RequestStep(r) \/ RedisFails(r) \/ Leave(r)
  \/ \E k \in Kinds : OthersFall(k) \/ FlightStep(k) \/ FlightFails(k)

RankingSpec == RankingInit /\ [][RankingNext]_rankingVars

\* The ticker of ranking-rebuild starts builds (a process that exits is
\* started again), processes run, Redis drops expired locks.
FairRankingSpec ==
  /\ RankingSpec
  /\ \A b \in Builders : WF_rankingVars(StartBuild(b)) /\ WF_rankingVars(BuilderStep(b))
  /\ WF_rankingVars(LockExpires)

-----------------------------------------------------------------------------
(***************************************************************************)
(* PROPERTIES                                                              *)
(***************************************************************************)
\* A builder that lost its lock never puts an old ranking over a newer one
\* ("A stale builder therefore cannot overwrite a newer snapshot",
\* cache/redis.go:219).
SnapshotForward ==
  [][snapshot # None /\ snapshot' # None => snapshot' >= snapshot]_rankingVars

\* generated_at never claims to be newer than what it is shown with: in
\* Redis, whoever wrote the two keys last, and in every answer.
TimestampHonest ==
  /\ snapshot # None /\ metadata # None => metadata <= snapshot
  /\ \A r \in Requests : Is(r, "answered") => requests[r].generated <= requests[r].data

\* Every video of an answer was public at some time while the answer was
\* made ("Redis never becomes the authority for publication or moderation
\* state", ranking/repository.go:426).
NothingHiddenListed ==
  \A r \in Requests : Is(r, "answered") => requests[r].hidden = {}

\* A builder that died with the lock, or lost it, does not keep the ranking
\* old: Redis shows the present metrics again and again.
RankingCatchesUp == []<>(snapshot = version)
=============================================================================
