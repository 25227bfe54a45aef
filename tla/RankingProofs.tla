----------------------------- MODULE RankingProofs -----------------------------
(***************************************************************************)
(* Proofs about Ranking, for any videos, rows, builders, requests, slots   *)
(* and bounds: the keys, processes and requests have their types, a new    *)
(* snapshot never shows older metrics than the one it replaces, no         *)
(* timestamp is newer than what it is shown with, and no answer lists a    *)
(* video that was hidden all the while it was made.                        *)
(***************************************************************************)
EXTENDS Ranking, TLAPS

\* No time somebody holds, to stamp or to show, is after version n.
Stamped(n) ==
  /\ metadata # None => metadata <= n
  /\ \A b \in Builders : At(b, "stamps") => builders[b].at <= n
  /\ \A r \in Requests : Is(r, "reads") => requests[r].generated <= n

\* The snapshot in Redis is covered, and so is what the owner of the lock is
\* about to put there: it read after it got the lock, and nobody else has
\* published since.
Published ==
  /\ Stamped(version)
  /\ snapshot # None => snapshot <= version /\ Stamped(snapshot)
  /\ \A b \in Builders : At(b, "locks") \/ At(b, "reads") => builders[b].at <= version
  /\ \A b \in Builders : At(b, "publishes") =>
       /\ builders[b].at <= builders[b].data /\ builders[b].data <= version
       /\ lock = b => /\ Stamped(builders[b].data)
                      /\ snapshot # None => snapshot <= builders[b].data

GoodRequest(q) ==
  q # None =>
    /\ q.do \in {"asks", "reads", "filters", "falls"} => q.now <= version
    /\ q.do = "filters" /\ q.data # None => q.generated <= q.data
    /\ q.do = "answered" => q.generated <= q.data /\ q.hidden = {}

GoodFlight(f) ==
  f # None =>
    /\ f.now <= version
    /\ f.do = "filters" => f.now <= f.data

Asked ==
  /\ \A r \in Requests : GoodRequest(requests[r])
  /\ \A k \in Kinds : GoodFlight(flights[k])

\* Whoever looks has seen every video that is public now.
Seen == \A x \in Busy : public \subseteq shown[x]

RankingInv == RankingTypeOK /\ Published /\ Asked /\ Seen

-----------------------------------------------------------------------------
(***************************************************************************)
(* The kinds of records.                                                   *)
(***************************************************************************)
LEMMA VersionFacts ==
  Versions \subseteq Nat /\ MaxVersion \in Nat /\ MaxFaults \in Nat
  BY RankingAssumption DEF Versions

LEMMA BuildKinds ==
  ASSUME RankingTypeOK, NEW b \in Builders
  PROVE  /\ At(b, "locks") \/ At(b, "reads") \/ At(b, "stamps") \/ At(b, "publishes") =>
              builders[b].at \in Versions
         /\ At(b, "publishes") => builders[b].data \in Versions
  <1>1. builders[b] \in Build \cup {None}
    BY DEF RankingTypeOK
  <1> QED  BY <1>1 DEF At, Build

LEMMA RequestKinds ==
  ASSUME RankingTypeOK, NEW r \in Requests
  PROVE  /\ Is(r, "asks") \/ Is(r, "reads") \/ Is(r, "filters") \/ Is(r, "falls") =>
              requests[r].now \in Versions
         /\ Is(r, "reads") \/ Is(r, "filters") => requests[r].generated \in Versions
         /\ Is(r, "filters") => requests[r].data \in Versions \cup {None}
         /\ Is(r, "falls") \/ Is(r, "waits") => requests[r].kind \in Kinds
  <1>1. requests[r] \in Request \cup {None}
    BY DEF RankingTypeOK
  <1> QED  BY <1>1 DEF Is, Request, Answer

LEMMA FlightKinds ==
  ASSUME RankingTypeOK, NEW k \in Kinds, flights[k] # None
  PROVE  /\ flights[k] \in Flight
         /\ flights[k].now \in Versions
         /\ flights[k].do \in {"loads", "latest", "filters"}
         /\ flights[k].do = "filters" => flights[k].data \in Versions
  <1>1. flights[k] \in Flight
    BY DEF RankingTypeOK
  <1> QED  BY <1>1 DEF Flight

\* The states a builder can be brought to.
LEMMA NewBuilds ==
  /\ \A at \in Versions : /\ [do |-> "locks", at |-> at] \in Build
                          /\ [do |-> "reads", at |-> at] \in Build
                          /\ [do |-> "stamps", at |-> at] \in Build
  /\ \A at, data \in Versions : [do |-> "publishes", at |-> at, data |-> data] \in Build
  /\ [do |-> "unlocks"] \in Build
  BY DEF Build

LEMMA NewRequests ==
  /\ \A now \in Versions : [do |-> "asks", now |-> now] \in Request
  /\ \A now, generated \in Versions :
       /\ [do |-> "reads", now |-> now, generated |-> generated] \in Request
       /\ \A data \in Versions \cup {None} :
            [do |-> "filters", now |-> now, generated |-> generated, data |-> data] \in Request
  /\ \A now \in Versions, kind \in Kinds : [do |-> "falls", now |-> now, kind |-> kind] \in Request
  /\ \A kind \in Kinds : [do |-> "waits", kind |-> kind] \in Request
  /\ [do |-> "failed"] \in Request
  BY DEF Request

LEMMA NewAnswer ==
  ASSUME NEW items \in SUBSET Videos, NEW generated \in Versions, NEW data \in Versions, NEW could
  PROVE  Answered(items, generated, data, could) \in Request
  <1>1. items \ could \in SUBSET Videos
    OBVIOUS
  <1>2. Answered(items, generated, data, could) \in Answer
    BY <1>1 DEF Answered, Answer
  <1> QED  BY <1>2 DEF Request

LEMMA NewFlights ==
  \A now \in Versions :
    /\ [do |-> "loads", now |-> now] \in Flight
    /\ [do |-> "latest", now |-> now] \in Flight
    /\ \A data \in Versions : [do |-> "filters", now |-> now, data |-> data] \in Flight
  BY DEF Flight

-----------------------------------------------------------------------------
(***************************************************************************)
(* Builders.                                                               *)
(***************************************************************************)
LEMMA Going ==
  ASSUME RankingTypeOK, NEW b \in Builders, NEW x \in Build \cup {None}, Goes(b, x)
  PROVE  /\ builders' \in [Builders -> Build \cup {None}]
         /\ \A c \in Builders : builders'[c] = IF c = b THEN x ELSE builders[c]
  BY DEF Goes, RankingTypeOK

\* A builder that does not come to publish or to stamp disturbs nothing.
LEMMA BuilderMoves ==
  ASSUME RankingInv, NEW b \in Builders, NEW x \in Build \cup {None}, Goes(b, x),
         UNCHANGED <<version, snapshot, metadata, requests>>, lock' \in {lock, None, b},
         x # None => x.do = "unlocks" \/ (x.do \in {"locks", "reads"} /\ x.at <= version)
  PROVE  Published'
  <1>1. RankingTypeOK /\ Published
    BY DEF RankingInv
  <1>2. \A c \in Builders : builders'[c] = IF c = b THEN x ELSE builders[c]
    BY <1>1, Going
  <1>3. ASSUME NEW n, Stamped(n)
        PROVE  Stamped(n)'
    BY <1>2, <1>3 DEF Stamped, At, Is
  <1>4. Stamped(version)' /\ (snapshot' # None => snapshot' <= version' /\ Stamped(snapshot)')
    BY <1>1, <1>3 DEF Published
  <1>5. \A c \in Builders : (At(c, "locks") \/ At(c, "reads"))' => builders'[c].at <= version'
    BY <1>1, <1>2 DEF Published, At
  <1>6. ASSUME NEW c \in Builders, At(c, "publishes")'
        PROVE  /\ builders'[c].at <= builders'[c].data /\ builders'[c].data <= version'
               /\ lock' = c => /\ Stamped(builders[c].data)'
                               /\ snapshot' # None => snapshot' <= builders'[c].data
    <2>1. c # b /\ builders'[c] = builders[c] /\ At(c, "publishes")
      BY <1>2, <1>6 DEF At
    <2>2. lock' = c => lock = c
      BY <2>1, RankingAssumption
    <2> QED  BY <1>1, <1>3, <2>1, <2>2 DEF Published
  <1> QED  BY <1>4, <1>5, <1>6 DEF Published

LEMMA ReadKeeps ==
  ASSUME RankingInv, NEW b \in Builders, ReadMetrics(b)
  PROVE  Published'
  <1> DEFINE x == [do |-> "publishes", at |-> builders[b].at, data |-> version]
  <1>1. RankingTypeOK /\ Published /\ At(b, "reads") /\ Goes(b, x)
        /\ UNCHANGED <<version, snapshot, metadata, lock, requests>>
    BY DEF RankingInv, ReadMetrics, BuilderRest, mysqlVars, redisVars, serverVars
  <1>2. x \in Build /\ builders[b].at <= version /\ version \in Nat
    BY <1>1, BuildKinds, NewBuilds, VersionFacts DEF RankingTypeOK, Published
  <1>3. \A c \in Builders : builders'[c] = IF c = b THEN x ELSE builders[c]
    BY <1>1, <1>2, Going
  <1>4. ASSUME NEW n, Stamped(n)
        PROVE  Stamped(n)'
    BY <1>1, <1>3, <1>4 DEF Stamped, At, Is
  <1>5. Stamped(version)' /\ (snapshot' # None => snapshot' <= version' /\ Stamped(snapshot)')
    BY <1>1, <1>4 DEF Published
  <1>6. \A c \in Builders : (At(c, "locks") \/ At(c, "reads"))' => builders'[c].at <= version'
    BY <1>1, <1>3 DEF Published, At
  <1>7. ASSUME NEW c \in Builders, At(c, "publishes")'
        PROVE  /\ builders'[c].at <= builders'[c].data /\ builders'[c].data <= version'
               /\ lock' = c => /\ Stamped(builders[c].data)'
                               /\ snapshot' # None => snapshot' <= builders'[c].data
    <2>1. CASE c = b
      <3>1. builders'[c].data = version /\ builders'[c].at = builders[b].at
        BY <1>3, <2>1
      <3>2. Stamped(builders[c].data)'
        BY <1>1, <1>5, <3>1
      <3> QED  BY <1>1, <1>2, <1>5, <3>1, <3>2
    <2>2. CASE c # b
      BY <1>1, <1>3, <1>4, <1>7, <2>2 DEF At, Published
    <2> QED  BY <2>1, <2>2
  <1> QED  BY <1>5, <1>6, <1>7 DEF Published

\* Only the owner publishes: nobody else's data is vouched for, and the times
\* that are held are before the owner's data.
LEMMA RenameKeeps ==
  ASSUME RankingInv, NEW b \in Builders, RenameIfOwner(b)
  PROVE  Published' /\ (snapshot # None => snapshot' >= snapshot)
  <1> DEFINE x == [do |-> "stamps", at |-> builders[b].at]
             d == builders[b].data
  <1>1. /\ RankingTypeOK /\ Published /\ At(b, "publishes") /\ lock = b /\ snapshot' = d
        /\ Goes(b, x) \/ Goes(b, [do |-> "unlocks"])
        /\ UNCHANGED <<version, metadata, lock, requests>>
    BY DEF RankingInv, RenameIfOwner, IsOwner, BuilderRest, mysqlVars, serverVars
  <1>2. /\ x \in Build /\ [do |-> "unlocks"] \in Build
        /\ builders[b].at \in Nat /\ d \in Nat /\ version \in Nat
    BY <1>1, BuildKinds, NewBuilds, VersionFacts DEF RankingTypeOK
  <1>3. /\ builders[b].at <= d /\ d <= version /\ Stamped(d) /\ Stamped(version)
        /\ snapshot # None => snapshot <= d
    BY <1>1 DEF Published
  <1>4. \A c \in Builders :
          IF c = b THEN builders'[c] = x \/ builders'[c] = [do |-> "unlocks"]
                   ELSE builders'[c] = builders[c]
    BY <1>1, <1>2, Going
  <1>5. ASSUME NEW n \in Nat, Stamped(n), builders[b].at <= n
        PROVE  Stamped(n)'
    BY <1>1, <1>4, <1>5 DEF Stamped, At, Is
  <1>6. Stamped(version)'
    BY <1>1, <1>2, <1>3, <1>5
  <1>7. snapshot' <= version' /\ Stamped(snapshot)'
    BY <1>1, <1>2, <1>3, <1>5
  <1>8. \A c \in Builders : (At(c, "locks") \/ At(c, "reads"))' => builders'[c].at <= version'
    BY <1>1, <1>4 DEF Published, At
  <1>9. ASSUME NEW c \in Builders, At(c, "publishes")'
        PROVE  /\ builders'[c].at <= builders'[c].data /\ builders'[c].data <= version'
               /\ lock' # c
    <2>1. c # b /\ builders'[c] = builders[c] /\ At(c, "publishes")
      BY <1>4, <1>9 DEF At
    <2> QED  BY <1>1, <2>1 DEF Published
  <1>10. snapshot # None => snapshot' >= snapshot
    <2>1. snapshot # None => snapshot \in Nat
      BY <1>1, VersionFacts DEF RankingTypeOK
    <2> QED  BY <1>1, <1>2, <1>3, <2>1
  <1> QED  BY <1>6, <1>7, <1>8, <1>9, <1>10 DEF Published

LEMMA StampKeeps ==
  ASSUME RankingInv, NEW b \in Builders, WriteMetadata(b)
  PROVE  Published'
  <1>1. /\ RankingTypeOK /\ Published /\ At(b, "stamps") /\ metadata' = builders[b].at
        /\ Goes(b, [do |-> "unlocks"])
        /\ UNCHANGED <<version, snapshot, lock, requests>>
    BY DEF RankingInv, WriteMetadata, Stamp, BuilderRest, mysqlVars, serverVars
  <1>2. \A c \in Builders :
          builders'[c] = IF c = b THEN [do |-> "unlocks"] ELSE builders[c]
    BY <1>1, NewBuilds, Going
  <1>3. ASSUME NEW n, Stamped(n)
        PROVE  Stamped(n)'
    BY <1>1, <1>2, <1>3 DEF Stamped, At, Is
  <1>4. Stamped(version)' /\ (snapshot' # None => snapshot' <= version' /\ Stamped(snapshot)')
    BY <1>1, <1>3 DEF Published
  <1>5. \A c \in Builders : (At(c, "locks") \/ At(c, "reads"))' => builders'[c].at <= version'
    BY <1>1, <1>2 DEF Published, At
  <1>6. ASSUME NEW c \in Builders, At(c, "publishes")'
        PROVE  /\ builders'[c].at <= builders'[c].data /\ builders'[c].data <= version'
               /\ lock' = c => /\ Stamped(builders[c].data)'
                               /\ snapshot' # None => snapshot' <= builders'[c].data
    <2>1. c # b /\ builders'[c] = builders[c] /\ At(c, "publishes")
      BY <1>2, <1>6 DEF At
    <2> QED  BY <1>1, <1>3, <2>1 DEF Published
  <1> QED  BY <1>4, <1>5, <1>6 DEF Published

LEMMA BuilderTypes ==
  ASSUME RankingInv, NEW b \in Builders,
         StartBuild(b) \/ BuilderStep(b) \/ BuildFails(b) \/ BuilderCrashes(b)
  PROVE  RankingTypeOK' /\ UNCHANGED <<mysqlVars, serverVars>>
  <1> DEFINE Typed == /\ builders' \in [Builders -> Build \cup {None}]
                      /\ lock' \in Builders \cup {None}
                      /\ snapshot' \in Versions \cup {None} /\ metadata' \in Versions \cup {None}
                      /\ faults' \in 0..MaxFaults
  <1>1. /\ RankingTypeOK /\ version \in Versions /\ lock \in Builders \cup {None}
        /\ snapshot \in Versions \cup {None} /\ metadata \in Versions \cup {None}
        /\ faults \in 0..MaxFaults
    BY DEF RankingInv, RankingTypeOK
  <1>2. UNCHANGED <<mysqlVars, serverVars>>
    BY DEF StartBuild, BuilderStep, BuildFails, BuilderCrashes, SetNX, LockBusy, ReadMetrics,
           RenameIfOwner, LockLost, WriteMetadata, Unlock, BuilderRest
  <1>3. Fault \/ UNCHANGED faults => faults' \in 0..MaxFaults
    BY <1>1, VersionFacts DEF Fault
  <1>4. \A x \in Build \cup {None} : Goes(b, x) => builders' \in [Builders -> Build \cup {None}]
    BY <1>1, Going
  <1>5. ASSUME StartBuild(b)
        PROVE  Typed
    BY <1>1, <1>3, <1>4, <1>5, NewBuilds DEF StartBuild, redisVars
  <1>6. ASSUME SetNX(b)
        PROVE  Typed
    <2>1. builders[b].at \in Versions
      BY <1>1, <1>6, BuildKinds DEF SetNX
    <2>2. builders' \in [Builders -> Build \cup {None}]
      BY <1>4, <1>6, <2>1, NewBuilds DEF SetNX
    <2> QED  BY <1>1, <1>3, <1>6, <2>2 DEF SetNX
  <1>7. ASSUME LockBusy(b)
        PROVE  Typed
    BY <1>1, <1>3, <1>4, <1>7 DEF LockBusy, redisVars
  <1>8. ASSUME ReadMetrics(b)
        PROVE  Typed
    <2>1. builders[b].at \in Versions
      BY <1>1, <1>8, BuildKinds DEF ReadMetrics
    <2>2. builders' \in [Builders -> Build \cup {None}]
      BY <1>1, <1>4, <1>8, <2>1, NewBuilds DEF ReadMetrics
    <2> QED  BY <1>1, <1>3, <1>8, <2>2 DEF ReadMetrics, redisVars
  <1>9. ASSUME RenameIfOwner(b)
        PROVE  Typed
    <2>1. builders[b].at \in Versions /\ builders[b].data \in Versions
      BY <1>1, <1>9, BuildKinds DEF RenameIfOwner
    <2>2. builders' \in [Builders -> Build \cup {None}]
      BY <1>4, <1>9, <2>1, NewBuilds DEF RenameIfOwner
    <2> QED  BY <1>1, <1>3, <1>9, <2>1, <2>2 DEF RenameIfOwner
  <1>10. ASSUME LockLost(b) \/ Unlock(b)
         PROVE  Typed
    BY <1>1, <1>3, <1>4, <1>10, NewBuilds DEF LockLost, Unlock, redisVars
  <1>11. ASSUME WriteMetadata(b)
         PROVE  Typed
    <2>1. builders[b].at \in Versions
      BY <1>1, <1>11, BuildKinds DEF WriteMetadata
    <2> QED  BY <1>1, <1>3, <1>4, <1>11, <2>1, NewBuilds DEF WriteMetadata, Stamp
  <1>12. ASSUME BuildFails(b) \/ BuilderCrashes(b)
         PROVE  Typed
    BY <1>1, <1>3, <1>4, <1>12, NewBuilds DEF BuildFails, BuilderCrashes, redisVars
  <1>13. Typed
    BY <1>5, <1>6, <1>7, <1>8, <1>9, <1>10, <1>11, <1>12 DEF BuilderStep
  <1> QED  BY <1>1, <1>2, <1>13 DEF RankingTypeOK, mysqlVars, serverVars

LEMMA BuilderKeeps ==
  ASSUME RankingInv, NEW b \in Builders,
         StartBuild(b) \/ BuilderStep(b) \/ BuildFails(b) \/ BuilderCrashes(b)
  PROVE  RankingInv' /\ (snapshot # None /\ snapshot' # None => snapshot' >= snapshot)
  <1> DEFINE Goal == Published' /\ (snapshot # None /\ snapshot' # None => snapshot' >= snapshot)
  <1>1. /\ RankingTypeOK /\ Published /\ Asked /\ Seen
        /\ version \in Nat /\ None \notin Builders
        /\ snapshot # None => snapshot \in Nat
    BY RankingAssumption, VersionFacts DEF RankingInv, RankingTypeOK
  <1>2. RankingTypeOK' /\ UNCHANGED <<mysqlVars, serverVars>>
    BY BuilderTypes
  <1>3. Asked'
    BY <1>1, <1>2 DEF Asked, GoodRequest, GoodFlight, mysqlVars, serverVars
  <1>4. Seen'
    BY <1>1, <1>2 DEF Seen, Busy, Looking, Is, mysqlVars, serverVars
  <1>5. ASSUME NEW x \in Build \cup {None}, Goes(b, x), UNCHANGED <<snapshot, metadata>>,
               lock' \in {lock, None, b},
               x # None => x.do = "unlocks" \/ (x.do \in {"locks", "reads"} /\ x.at <= version)
        PROVE  Goal
    <2>1. Published'
      BY <1>2, <1>5, BuilderMoves DEF mysqlVars, serverVars
    <2> QED  BY <1>1, <1>5, <2>1
  <1>6. ASSUME Goes(b, None) \/ Goes(b, [do |-> "unlocks"]), UNCHANGED <<snapshot, metadata>>,
               lock' \in {lock, None, b}
        PROVE  Goal
    BY <1>5, <1>6, NewBuilds
  <1>7. ASSUME NEW at \in Versions, at <= version, UNCHANGED <<snapshot, metadata>>,
               Goes(b, [do |-> "locks", at |-> at]) \/ Goes(b, [do |-> "reads", at |-> at]),
               lock' \in {lock, None, b}
        PROVE  Goal
    BY <1>5, <1>7, NewBuilds
  <1>8. ASSUME StartBuild(b)
        PROVE  Goal
    <2>1. version \in Versions /\ version <= version
      BY <1>1 DEF RankingTypeOK
    <2> QED  BY <1>7, <1>8, <2>1 DEF StartBuild, redisVars
  <1>9. ASSUME SetNX(b)
        PROVE  Goal
    <2>1. builders[b].at \in Versions /\ builders[b].at <= version
      BY <1>1, <1>9, BuildKinds DEF SetNX, Published
    <2> QED  BY <1>6, <1>7, <1>9, <2>1 DEF SetNX
  <1>10. ASSUME LockBusy(b) \/ LockLost(b) \/ Unlock(b) \/ BuildFails(b) \/ BuilderCrashes(b)
         PROVE  Goal
    BY <1>6, <1>10 DEF LockBusy, LockLost, Unlock, BuildFails, BuilderCrashes, redisVars
  <1>11. ASSUME ReadMetrics(b)
         PROVE  Goal
    BY <1>1, <1>11, ReadKeeps DEF ReadMetrics, redisVars
  <1>12. ASSUME RenameIfOwner(b)
         PROVE  Goal
    BY <1>12, RenameKeeps
  <1>13. ASSUME WriteMetadata(b)
         PROVE  Goal
    BY <1>1, <1>13, StampKeeps DEF WriteMetadata
  <1>14. Goal
    BY <1>8, <1>9, <1>10, <1>11, <1>12, <1>13 DEF BuilderStep
  <1> QED  BY <1>2, <1>3, <1>4, <1>14 DEF RankingInv

\* Keys that expire, time that passes.
LEMMA ExpiryKeeps ==
  ASSUME RankingInv, LockExpires \/ SnapshotExpires \/ MetadataExpires \/ MetricsChange
  PROVE  RankingInv' /\ (snapshot # None /\ snapshot' # None => snapshot' >= snapshot)
  <1>1. /\ RankingTypeOK /\ Published /\ Asked /\ Seen
        /\ version \in Nat /\ version \in Versions /\ version <= MaxVersion /\ MaxVersion \in Nat
        /\ snapshot # None => snapshot \in Nat
        /\ faults \in 0..MaxFaults /\ MaxFaults \in Nat /\ None \notin Builders
    BY RankingAssumption, VersionFacts DEF RankingInv, RankingTypeOK, Versions
  <1>2. /\ UNCHANGED <<public, builders, requests, flights, shown>>
        /\ snapshot' \in {snapshot, None} /\ metadata' \in {metadata, None} /\ lock' \in {lock, None}
    BY DEF LockExpires, SnapshotExpires, MetadataExpires, MetricsChange, mysqlVars, redisVars,
           serverVars
  <1>3. version' \in Versions /\ version <= version' /\ version' \in Nat
    BY <1>1 DEF LockExpires, SnapshotExpires, MetadataExpires, MetricsChange, mysqlVars, Versions
  <1>4. faults' \in 0..MaxFaults
    BY <1>1 DEF LockExpires, SnapshotExpires, MetadataExpires, MetricsChange, Fault
  <1>5. RankingTypeOK'
    BY <1>1, <1>2, <1>3, <1>4 DEF RankingTypeOK
  <1>6. ASSUME NEW n, Stamped(n)
        PROVE  Stamped(n)'
    BY <1>2, <1>6 DEF Stamped, At, Is
  <1>7. Stamped(version)'
    <2>1. Stamped(version)
      BY <1>1 DEF Published
    <2>2. metadata' # None => metadata' \in Nat
      BY <1>5, VersionFacts DEF RankingTypeOK
    <2>3. \A b \in Builders : At(b, "stamps") => builders[b].at \in Nat
      BY <1>1, BuildKinds, VersionFacts
    <2>4. \A r \in Requests : Is(r, "reads") => requests[r].generated \in Nat
      BY <1>1, RequestKinds, VersionFacts
    <2> QED  BY <1>1, <1>2, <1>3, <2>1, <2>2, <2>3, <2>4 DEF Stamped, At, Is
  <1>8. snapshot' # None => snapshot' <= version' /\ Stamped(snapshot)'
    BY <1>1, <1>2, <1>3, <1>6 DEF Published
  <1>9. \A b \in Builders : (At(b, "locks") \/ At(b, "reads"))' => builders'[b].at <= version'
    <2> SUFFICES ASSUME NEW b \in Builders, At(b, "locks") \/ At(b, "reads")
                 PROVE  builders[b].at <= version'
      BY <1>2 DEF At
    <2>1. builders[b].at \in Nat /\ builders[b].at <= version
      BY <1>1, BuildKinds, VersionFacts DEF Published
    <2> QED  BY <1>1, <1>3, <2>1
  <1>10. ASSUME NEW b \in Builders, At(b, "publishes")'
         PROVE  /\ builders'[b].at <= builders'[b].data /\ builders'[b].data <= version'
                /\ lock' = b => /\ Stamped(builders[b].data)'
                                /\ snapshot' # None => snapshot' <= builders'[b].data
    <2>1. At(b, "publishes") /\ builders' = builders
      BY <1>2, <1>10 DEF At
    <2>2. builders[b].data \in Nat /\ builders[b].data <= version
      BY <1>1, <2>1, BuildKinds, VersionFacts DEF Published
    <2>3. lock' = b => lock = b
      BY <1>1, <1>2
    <2> QED  BY <1>1, <1>2, <1>3, <1>6, <2>1, <2>2, <2>3 DEF Published
  <1>11. Published'
    BY <1>7, <1>8, <1>9, <1>10 DEF Published
  <1>12. Asked'
    <2>1. ASSUME NEW r \in Requests
          PROVE  GoodRequest(requests[r])'
      <3>1. requests' = requests /\ GoodRequest(requests[r])
        BY <1>1, <1>2 DEF Asked
      <3>2. requests[r] # None /\ requests[r].do \in {"asks", "reads", "filters", "falls"} =>
              requests[r].now \in Nat
        BY <1>1, RequestKinds, VersionFacts DEF Is
      <3> QED  BY <1>1, <1>3, <3>1, <3>2 DEF GoodRequest
    <2>2. ASSUME NEW k \in Kinds
          PROVE  GoodFlight(flights[k])'
      <3>1. flights' = flights /\ GoodFlight(flights[k])
        BY <1>1, <1>2 DEF Asked
      <3>2. flights[k] # None => flights[k].now \in Nat
        BY <1>1, FlightKinds, VersionFacts
      <3> QED  BY <1>1, <1>3, <3>1, <3>2 DEF GoodFlight
    <2> QED  BY <2>1, <2>2 DEF Asked, Kinds
  <1>13. Seen'
    BY <1>1, <1>2 DEF Seen, Busy, Looking, Is
  <1>14. snapshot # None /\ snapshot' # None => snapshot' >= snapshot
    BY <1>1, <1>2
  <1> QED  BY <1>5, <1>11, <1>12, <1>13, <1>14 DEF RankingInv

-----------------------------------------------------------------------------
(***************************************************************************)
(* Requests and the calls they share.                                      *)
(***************************************************************************)
LooksAt(q) == q # None /\ q.do \in {"asks", "reads", "filters"}

\* What a step of the server keeps, when it leaves good requests and calls, a
\* time to show comes from Redis, and whoever begins to look sees what is
\* public.
LEMMA ServerKeeps ==
  ASSUME RankingInv, UNCHANGED <<mysqlVars, redisVars, builders>>, faults' \in 0..MaxFaults,
         requests' \in [Requests -> Request \cup {None}],
         flights' \in [Kinds -> Flight \cup {None}],
         shown' \in [Requests \cup Kinds -> SUBSET Videos],
         \A r \in Requests : GoodRequest(requests'[r]),
         \A r \in Requests :
           \/ requests'[r] = requests[r]
           \/ requests'[r] = None \/ requests'[r].do # "reads"
           \/ metadata # None /\ requests'[r].generated = metadata,
         \A k \in Kinds : GoodFlight(flights'[k]),
         \A r \in Requests : LooksAt(requests'[r]) =>
           shown'[r] = public \/ (LooksAt(requests[r]) /\ shown'[r] = shown[r]),
         \A k \in Kinds : flights'[k] # None =>
           shown'[k] = public \/ (flights[k] # None /\ shown'[k] = shown[k])
  PROVE  RankingInv' /\ UNCHANGED snapshot
  <1>1. /\ RankingTypeOK /\ Published /\ Asked /\ Seen
        /\ UNCHANGED <<version, public, lock, snapshot, metadata, builders>>
    BY DEF RankingInv, mysqlVars, redisVars
  <1>2. RankingTypeOK'
    BY <1>1 DEF RankingTypeOK
  <1>3. ASSUME NEW n, Stamped(n)
        PROVE  Stamped(n)'
    BY <1>1, <1>3 DEF Stamped, At, Is
  <1>4. Published'
    BY <1>1, <1>3 DEF Published, At
  <1>5. Asked'
    BY <1>1 DEF Asked, GoodRequest, GoodFlight, Kinds
  <1>6. Seen'
    <2> SUFFICES ASSUME NEW x \in Busy'
                 PROVE  public \subseteq shown'[x]
      BY <1>1 DEF Seen
    <2>1. CASE x \in Requests /\ LooksAt(requests'[x])
      <3>1. LooksAt(requests[x]) => x \in Busy
        BY <2>1 DEF LooksAt, Busy, Looking, Is
      <3> QED  BY <1>1, <2>1, <3>1 DEF Seen
    <2>2. CASE x \in Kinds /\ flights'[x] # None
      <3>1. flights[x] # None => x \in Busy
        BY <2>2 DEF Busy
      <3> QED  BY <1>1, <2>2, <3>1 DEF Seen
    <2> QED  BY <2>1, <2>2 DEF LooksAt, Busy, Looking, Is, Kinds
  <1> QED  BY <1>1, <1>2, <1>4, <1>5, <1>6 DEF RankingInv

\* One request goes on; the calls do as before.
LEMMA RequestMoves ==
  ASSUME RankingInv, UNCHANGED <<mysqlVars, redisVars, builders, flights>>, faults' \in 0..MaxFaults,
         NEW r \in Requests, NEW q \in Request, Takes(r, q), GoodRequest(q),
         q.do = "reads" => metadata # None /\ q.generated = metadata,
         \/ UNCHANGED shown /\ (LooksAt(q) => LooksAt(requests[r]))
         \/ shown' = [shown EXCEPT ![r] = public]
         \/ Forget({r}) /\ ~LooksAt(q)
  PROVE  RankingInv' /\ UNCHANGED snapshot
  <1>1. RankingTypeOK /\ Asked /\ public \in SUBSET Videos
    BY DEF RankingInv, RankingTypeOK
  <1>2. /\ requests' \in [Requests -> Request \cup {None}]
        /\ \A s \in Requests : requests'[s] = IF s = r THEN q ELSE requests[s]
    BY <1>1 DEF Takes, RankingTypeOK
  <1>3. /\ flights' \in [Kinds -> Flight \cup {None}]
        /\ \A k \in Kinds : GoodFlight(flights'[k]) /\ flights'[k] = flights[k]
    BY <1>1 DEF RankingTypeOK, Asked
  <1>4. r \notin Kinds
    BY RankingAssumption DEF Kinds
  <1>5. /\ shown' \in [Requests \cup Kinds -> SUBSET Videos]
        /\ \A x \in Requests \cup Kinds : x # r => shown'[x] = shown[x]
        /\ LooksAt(q) => shown'[r] = public \/ (LooksAt(requests[r]) /\ shown'[r] = shown[r])
    <2>1. CASE UNCHANGED shown /\ (LooksAt(q) => LooksAt(requests[r]))
      BY <1>1, <2>1 DEF RankingTypeOK
    <2>2. CASE shown' = [shown EXCEPT ![r] = public]
      BY <1>1, <2>2 DEF RankingTypeOK
    <2>3. CASE Forget({r}) /\ ~LooksAt(q)
      BY <1>1, <2>3 DEF Forget, RankingTypeOK
    <2> QED  BY <2>1, <2>2, <2>3
  <1>6. \A s \in Requests : GoodRequest(requests'[s])
    BY <1>1, <1>2 DEF Asked
  <1> QED  BY <1>2, <1>3, <1>4, <1>5, <1>6, ServerKeeps

\* The part of the invariant that a step of the server can rely on.
LEMMA ServerFacts ==
  ASSUME RankingInv
  PROVE  /\ RankingTypeOK /\ version \in Versions /\ version \in Nat
         /\ faults \in 0..MaxFaults /\ MaxFaults \in Nat
         /\ Fault => faults' \in 0..MaxFaults
         /\ metadata # None => metadata \in Versions /\ metadata <= version
         /\ snapshot \in Versions \cup {None}
         /\ \A r \in Requests : GoodRequest(requests[r])
         /\ \A k \in Kinds : GoodFlight(flights[k])
         /\ public \in SUBSET Videos
         /\ \A x \in Busy : public \subseteq shown[x]
  BY VersionFacts DEF RankingInv, RankingTypeOK, Fault, Asked, Seen, Published, Stamped

LEMMA ListKeeps ==
  ASSUME RankingInv, NEW r \in Requests, List(r)
  PROVE  RankingInv' /\ UNCHANGED snapshot
  <1> DEFINE q == [do |-> "asks", now |-> version]
  <1>1. q \in Request /\ GoodRequest(q) /\ q.do # "reads"
    BY ServerFacts, NewRequests DEF GoodRequest
  <1>2. Takes(r, q) /\ shown' = [shown EXCEPT ![r] = public] /\ UNCHANGED flights
        /\ UNCHANGED <<mysqlVars, redisVars, builders, faults>>
    BY DEF List, RequestRest
  <1> HIDE DEF q
  <1> QED  BY <1>1, <1>2, ServerFacts, RequestMoves

LEMMA FallsKeeps ==
  ASSUME RankingInv, NEW r \in Requests, Looking(r), NEW kind \in Kinds, Falls(r, kind),
         UNCHANGED <<mysqlVars, redisVars, builders, flights>>, faults' \in 0..MaxFaults
  PROVE  RankingInv' /\ UNCHANGED snapshot
  <1> DEFINE q == [do |-> "falls", now |-> requests[r].now, kind |-> kind]
  <1>1. requests[r].now \in Versions /\ requests[r].now <= version
    BY ServerFacts, RequestKinds DEF Looking, Is, GoodRequest
  <1>2. q \in Request /\ GoodRequest(q) /\ q.do = "falls"
    BY <1>1, NewRequests DEF GoodRequest
  <1>3. Takes(r, q) /\ Forget({r})
    BY DEF Falls
  <1> HIDE DEF q
  <1>4. ~LooksAt(q)
    BY <1>2 DEF LooksAt
  <1> QED  BY <1>2, <1>3, <1>4, RequestMoves

LEMMA GetMetadataKeeps ==
  ASSUME RankingInv, NEW r \in Requests, GetMetadata(r)
  PROVE  RankingInv' /\ UNCHANGED snapshot
  <1>1. /\ Is(r, "asks") /\ Looking(r) /\ UNCHANGED <<mysqlVars, redisVars, builders, flights>>
        /\ faults' \in 0..MaxFaults
    BY ServerFacts DEF GetMetadata, RequestRest, Looking
  <1>2. CASE metadata = None
    BY <1>1, <1>2, FallsKeeps DEF GetMetadata, Kinds
  <1>3. CASE metadata # None
    <2> DEFINE q == [do |-> "reads", now |-> requests[r].now, generated |-> metadata]
    <2>1. /\ requests[r].now \in Versions /\ requests[r].now <= version
          /\ metadata \in Versions /\ LooksAt(requests[r])
      BY <1>1, <1>3, ServerFacts, RequestKinds DEF Is, GoodRequest, LooksAt
    <2>2. q \in Request /\ GoodRequest(q) /\ q.generated = metadata
      BY <2>1, NewRequests DEF GoodRequest
    <2>3. Takes(r, q) /\ UNCHANGED shown
      BY <1>3 DEF GetMetadata
    <2> HIDE DEF q
    <2> QED  BY <1>1, <1>3, <2>1, <2>2, <2>3, RequestMoves
  <1> QED  BY <1>2, <1>3

\* What is read from the snapshot is at least as new as the time to show.
LEMMA ReadMembersKeeps ==
  ASSUME RankingInv, NEW r \in Requests, ReadMembers(r)
  PROVE  RankingInv' /\ UNCHANGED snapshot
  <1> DEFINE q == [do |-> "filters", now |-> requests[r].now, generated |-> requests[r].generated,
                   data |-> snapshot]
  <1>1. /\ Is(r, "reads") /\ UNCHANGED <<mysqlVars, redisVars, builders, flights, shown>>
        /\ faults' \in 0..MaxFaults /\ Takes(r, q)
    BY ServerFacts DEF ReadMembers, RequestRest
  <1>2. /\ requests[r].now \in Versions /\ requests[r].now <= version
        /\ requests[r].generated \in Versions /\ LooksAt(requests[r])
        /\ snapshot \in Versions \cup {None}
    BY <1>1, ServerFacts, RequestKinds DEF Is, GoodRequest, LooksAt
  <1>3. snapshot # None => requests[r].generated <= snapshot
    BY <1>1 DEF RankingInv, Published, Stamped
  <1>4. q \in Request /\ GoodRequest(q) /\ q.do = "filters"
    BY <1>2, <1>3, NewRequests DEF GoodRequest
  <1> HIDE DEF q
  <1> QED  BY <1>1, <1>2, <1>4, RequestMoves

\* The query that filters sees what is public now, which whoever looks has
\* seen.
LEMMA FilterCandidatesKeeps ==
  ASSUME RankingInv, NEW r \in Requests, FilterCandidates(r)
  PROVE  RankingInv' /\ UNCHANGED snapshot
  <1> DEFINE p == requests[r]
             visible == FilterPublic(Members(p.data))
             q == Answered(visible, p.generated, p.data, shown[r])
  <1>1. /\ Is(r, "filters") /\ Looking(r) /\ UNCHANGED <<mysqlVars, redisVars, builders, flights>>
        /\ faults' \in 0..MaxFaults
    BY ServerFacts DEF FilterCandidates, RequestRest, Looking
  <1>2. CASE visible = {}
    BY <1>1, <1>2, FallsKeeps DEF FilterCandidates, Kinds
  <1>3. CASE visible # {}
    <2>1. p.data \in Versions /\ p.generated \in Versions /\ p.generated <= p.data
      <3>1. p.data # None
        BY <1>3 DEF FilterPublic, Members
      <3>2. p.data \in Versions \cup {None} /\ p.generated \in Versions
        BY <1>1, ServerFacts, RequestKinds
      <3>3. p # None /\ p.do = "filters" /\ GoodRequest(p)
        BY <1>1, ServerFacts DEF Is
      <3> QED  BY <3>1, <3>2, <3>3 DEF GoodRequest
    <2>2. visible \in SUBSET Videos /\ visible \ shown[r] = {}
      <3>1. r \in Busy
        BY <1>1 DEF Busy
      <3> QED  BY <3>1, ServerFacts DEF FilterPublic
    <2>3. q \in Request
      BY <2>1, <2>2, NewAnswer
    <2>4. q.do = "answered" /\ q.generated = p.generated /\ q.data = p.data
          /\ q.hidden = visible \ shown[r]
      BY DEF Answered
    <2>5. Takes(r, q) /\ Forget({r})
      BY <1>3 DEF FilterCandidates
    <2> HIDE DEF q, visible
    <2>6. GoodRequest(q) /\ ~LooksAt(q)
      BY <2>1, <2>2, <2>4 DEF GoodRequest, LooksAt
    <2> QED  BY <1>1, <2>3, <2>4, <2>5, <2>6, RequestMoves
  <1> QED  BY <1>2, <1>3

LEMMA FailedIsGood ==
  /\ [do |-> "failed"] \in Request /\ [do |-> "failed"].do = "failed"
  /\ GoodRequest([do |-> "failed"]) /\ ~LooksAt([do |-> "failed"])
  BY NewRequests DEF GoodRequest, LooksAt

LEMMA LeaveKeeps ==
  ASSUME RankingInv, NEW r \in Requests, Leave(r)
  PROVE  RankingInv' /\ UNCHANGED snapshot
  <1>1. /\ Takes(r, [do |-> "failed"]) /\ Forget({r})
        /\ UNCHANGED <<mysqlVars, redisVars, builders, flights, faults>>
    BY DEF Leave, RequestRest
  <1> QED  BY <1>1, ServerFacts, FailedIsGood, RequestMoves

LEMMA FallbackBusyKeeps ==
  ASSUME RankingInv, NEW r \in Requests, FallbackBusy(r)
  PROVE  RankingInv' /\ UNCHANGED snapshot
  <1>1. /\ Takes(r, [do |-> "failed"]) /\ UNCHANGED shown
        /\ UNCHANGED <<mysqlVars, redisVars, builders, flights, faults>>
    BY DEF FallbackBusy, RequestRest
  <1> QED  BY <1>1, ServerFacts, FailedIsGood, RequestMoves

LEMMA BeginFacts ==
  ASSUME RankingInv, NEW k \in Kinds, NEW now \in Versions, now <= version, Begin(k, now)
  PROVE  /\ flights' \in [Kinds -> Flight \cup {None}]
         /\ shown' \in [Requests \cup Kinds -> SUBSET Videos]
         /\ \A j \in Kinds : GoodFlight(flights'[j])
         /\ \A j \in Kinds : flights'[j] # None =>
              shown'[j] = public \/ (flights[j] # None /\ shown'[j] = shown[j])
         /\ \A r \in Requests : shown'[r] = shown[r]
  <1> DEFINE f == [do |-> IF k = "metrics" THEN "loads" ELSE "latest", now |-> now]
  <1>1. /\ RankingTypeOK /\ public \in SUBSET Videos
        /\ \A j \in Kinds : GoodFlight(flights[j])
    BY ServerFacts
  <1>2. f \in Flight /\ GoodFlight(f)
    BY NewFlights DEF GoodFlight
  <1>3. flights' = [flights EXCEPT ![k] = f] /\ shown' = [shown EXCEPT ![k] = public]
    BY DEF Begin
  <1> HIDE DEF f
  <1>4. /\ flights' \in [Kinds -> Flight \cup {None}]
        /\ \A j \in Kinds : flights'[j] = IF j = k THEN f ELSE flights[j]
    BY <1>1, <1>2, <1>3 DEF RankingTypeOK
  <1>5. /\ shown' \in [Requests \cup Kinds -> SUBSET Videos]
        /\ \A x \in Requests \cup Kinds : shown'[x] = IF x = k THEN public ELSE shown[x]
    BY <1>1, <1>3 DEF RankingTypeOK
  <1>6. \A r \in Requests : r # k
    BY RankingAssumption DEF Kinds
  <1> QED  BY <1>1, <1>2, <1>4, <1>5, <1>6

LEMMA SharedFallbackKeeps ==
  ASSUME RankingInv, NEW r \in Requests, SharedFallback(r)
  PROVE  RankingInv' /\ UNCHANGED snapshot
  <1> DEFINE k == requests[r].kind
             q == [do |-> "waits", kind |-> k]
  <1>1. /\ Is(r, "falls") /\ Takes(r, q)
        /\ UNCHANGED <<mysqlVars, redisVars, builders, faults>>
        /\ Begin(k, requests[r].now) \/ UNCHANGED <<flights, shown>>
    BY DEF SharedFallback, RequestRest
  <1>2. /\ k \in Kinds /\ requests[r].now \in Versions /\ requests[r].now <= version
        /\ RankingTypeOK
    BY <1>1, ServerFacts, RequestKinds DEF Is, GoodRequest
  <1>3. q \in Request /\ GoodRequest(q) /\ ~LooksAt(q) /\ q.do = "waits"
    BY <1>2, NewRequests DEF GoodRequest, LooksAt
  <1> HIDE DEF q
  <1>4. CASE UNCHANGED <<flights, shown>>
    BY <1>1, <1>3, <1>4, ServerFacts, RequestMoves
  <1>5. CASE Begin(k, requests[r].now)
    <2>1. /\ requests' \in [Requests -> Request \cup {None}]
          /\ \A s \in Requests : requests'[s] = IF s = r THEN q ELSE requests[s]
      BY <1>1, <1>2, <1>3 DEF Takes, RankingTypeOK
    <2>2. \A s \in Requests : GoodRequest(requests'[s])
      BY <1>3, <2>1, ServerFacts
    <2>3. /\ flights' \in [Kinds -> Flight \cup {None}]
          /\ shown' \in [Requests \cup Kinds -> SUBSET Videos]
          /\ \A j \in Kinds : GoodFlight(flights'[j])
          /\ \A j \in Kinds : flights'[j] # None =>
               shown'[j] = public \/ (flights[j] # None /\ shown'[j] = shown[j])
          /\ \A s \in Requests : shown'[s] = shown[s]
      BY <1>2, <1>5, BeginFacts
    <2> QED  BY <1>1, <1>3, <2>1, <2>2, <2>3, ServerFacts, ServerKeeps
  <1> QED  BY <1>1, <1>4, <1>5

LEMMA OthersFallKeeps ==
  ASSUME RankingInv, NEW k \in Kinds, OthersFall(k)
  PROVE  RankingInv' /\ UNCHANGED snapshot
  <1>1. /\ Begin(k, version) /\ requests' = requests
        /\ UNCHANGED <<mysqlVars, redisVars, builders, faults>>
    BY DEF OthersFall, RequestRest
  <1>2. version \in Versions /\ version <= version
    BY ServerFacts
  <1>3. /\ flights' \in [Kinds -> Flight \cup {None}]
        /\ shown' \in [Requests \cup Kinds -> SUBSET Videos]
        /\ \A j \in Kinds : GoodFlight(flights'[j])
        /\ \A j \in Kinds : flights'[j] # None =>
             shown'[j] = public \/ (flights[j] # None /\ shown'[j] = shown[j])
        /\ \A s \in Requests : shown'[s] = shown[s]
    BY <1>1, <1>2, BeginFacts
  <1>4. requests' \in [Requests -> Request \cup {None}]
    BY <1>1, ServerFacts DEF RankingTypeOK
  <1> QED  BY <1>1, <1>3, <1>4, ServerFacts, ServerKeeps

\* A call ends with a good outcome for all who wait.
LEMMA LandKeeps ==
  ASSUME RankingInv, NEW k \in Kinds, NEW outcome \in Request, GoodRequest(outcome),
         ~LooksAt(outcome), faults' \in 0..MaxFaults,
         UNCHANGED <<mysqlVars, redisVars, builders>>,
         flights' = [flights EXCEPT ![k] = None],
         requests' = [r \in Requests |-> IF r \in Waiting(k) THEN outcome ELSE requests[r]],
         Forget({k})
  PROVE  RankingInv' /\ UNCHANGED snapshot
  <1>1. /\ RankingTypeOK
        /\ \A r \in Requests : GoodRequest(requests[r])
        /\ \A j \in Kinds : GoodFlight(flights[j])
    BY ServerFacts
  <1>2. /\ flights' \in [Kinds -> Flight \cup {None}]
        /\ \A j \in Kinds : flights'[j] = IF j = k THEN None ELSE flights[j]
    BY <1>1 DEF RankingTypeOK
  <1>3. /\ requests' \in [Requests -> Request \cup {None}]
        /\ \A r \in Requests : requests'[r] = requests[r] \/ requests'[r] = outcome
    BY <1>1 DEF RankingTypeOK
  <1>4. \A r \in Requests : r # k
    BY RankingAssumption DEF Kinds
  <1>5. /\ shown' \in [Requests \cup Kinds -> SUBSET Videos]
        /\ \A x \in Requests \cup Kinds : x # k => shown'[x] = shown[x]
    BY <1>1 DEF Forget, RankingTypeOK
  <1>6. outcome.do # "reads" \/ outcome = None
    BY DEF LooksAt
  <1>7. GoodFlight(None)
    BY DEF GoodFlight
  <1>8. \A j \in Kinds : GoodFlight(flights'[j])
    BY <1>1, <1>2, <1>7
  <1>9. \A r \in Requests : GoodRequest(requests'[r])
    BY <1>1, <1>3
  <1>10. \A r \in Requests : LooksAt(requests'[r]) => LooksAt(requests[r]) /\ shown'[r] = shown[r]
    BY <1>3, <1>4, <1>5
  <1>11. \A j \in Kinds : flights'[j] # None => flights[j] # None /\ shown'[j] = shown[j]
    BY <1>2, <1>5
  <1>12. \A r \in Requests :
           requests'[r] = requests[r] \/ requests'[r] = None \/ requests'[r].do # "reads"
    BY <1>3, <1>6
  <1> QED  BY <1>2, <1>3, <1>5, <1>8, <1>9, <1>10, <1>11, <1>12, ServerKeeps

LEMMA ProceedsKeeps ==
  ASSUME RankingInv, NEW k \in Kinds, flights[k] # None, NEW f \in Flight, GoodFlight(f),
         Proceeds(k, f)
  PROVE  RankingInv' /\ UNCHANGED snapshot
  <1>1. /\ RankingTypeOK
        /\ \A r \in Requests : GoodRequest(requests[r])
        /\ \A j \in Kinds : GoodFlight(flights[j])
    BY ServerFacts
  <1>2. /\ flights' = [flights EXCEPT ![k] = f]
        /\ UNCHANGED <<mysqlVars, redisVars, builders, faults, requests, shown>>
    BY DEF Proceeds, RequestRest
  <1>3. /\ flights' \in [Kinds -> Flight \cup {None}]
        /\ \A j \in Kinds : flights'[j] = IF j = k THEN f ELSE flights[j]
    BY <1>1, <1>2 DEF RankingTypeOK
  <1>4. /\ requests' \in [Requests -> Request \cup {None}]
        /\ shown' \in [Requests \cup Kinds -> SUBSET Videos]
    BY <1>1, <1>2 DEF RankingTypeOK
  <1> QED  BY <1>1, <1>2, <1>3, <1>4, ServerFacts, ServerKeeps

LEMMA MetricRowsKeeps ==
  ASSUME RankingInv, NEW k \in Kinds, MetricRows(k)
  PROVE  RankingInv' /\ UNCHANGED snapshot
  <1> DEFINE f == [do |-> "filters", now |-> flights[k].now, data |-> version]
  <1>1. flights[k] # None /\ Proceeds(k, f)
    BY DEF MetricRows, InFlight
  <1>2. flights[k].now \in Versions /\ flights[k].now <= version /\ version \in Versions
    BY <1>1, ServerFacts, FlightKinds DEF GoodFlight
  <1>3. f \in Flight /\ GoodFlight(f)
    BY <1>2, NewFlights DEF GoodFlight
  <1> HIDE DEF f
  <1> QED  BY <1>1, <1>3, ProceedsKeeps

\* The outcome of a call that shows public videos, all seen by the call.
LEMMA AnswerKeeps ==
  ASSUME RankingInv, NEW k \in Kinds, flights[k] # None,
         NEW items \in SUBSET public, NEW data \in Versions, flights[k].now <= data,
         Land(k, Answered(items, flights[k].now, data, shown[k]))
  PROVE  RankingInv' /\ UNCHANGED snapshot
  <1> DEFINE q == Answered(items, flights[k].now, data, shown[k])
  <1>1. k \in Busy
    BY DEF Busy
  <1>2. items \in SUBSET Videos /\ items \ shown[k] = {} /\ flights[k].now \in Versions
    BY <1>1, ServerFacts, FlightKinds
  <1>3. q \in Request
    BY <1>2, NewAnswer
  <1>4. q.do = "answered" /\ q.generated = flights[k].now /\ q.data = data
        /\ q.hidden = items \ shown[k]
    BY DEF Answered
  <1>5. /\ flights' = [flights EXCEPT ![k] = None] /\ Forget({k})
        /\ requests' = [r \in Requests |-> IF r \in Waiting(k) THEN q ELSE requests[r]]
        /\ UNCHANGED <<mysqlVars, redisVars, builders, faults>>
    BY DEF Land, RequestRest
  <1> HIDE DEF q
  <1>6. GoodRequest(q) /\ ~LooksAt(q)
    BY <1>2, <1>4 DEF GoodRequest, LooksAt
  <1> QED  BY <1>3, <1>5, <1>6, ServerFacts, LandKeeps

LEMMA FilterRowsKeeps ==
  ASSUME RankingInv, NEW k \in Kinds, FilterRows(k)
  PROVE  RankingInv' /\ UNCHANGED snapshot
  <1> DEFINE visible == FilterPublic(Rows[flights[k].data])
  <1>1. flights[k] # None /\ flights[k].do = "filters"
    BY DEF FilterRows, InFlight
  <1>2. /\ flights[k].now \in Versions /\ flights[k].now <= version
        /\ flights[k].data \in Versions /\ flights[k].now <= flights[k].data
    BY <1>1, ServerFacts, FlightKinds DEF GoodFlight
  <1>3. CASE visible # {}
    <2>1. visible \in SUBSET public
      BY DEF FilterPublic
    <2>2. Land(k, Answered(visible, flights[k].now, flights[k].data, shown[k]))
      BY <1>3 DEF FilterRows
    <2> HIDE DEF visible
    <2> QED  BY <1>1, <1>2, <2>1, <2>2, AnswerKeeps
  <1>4. CASE visible = {}
    <2> DEFINE f == [do |-> "latest", now |-> flights[k].now]
    <2>1. f \in Flight /\ GoodFlight(f)
      BY <1>2, NewFlights DEF GoodFlight
    <2>2. Proceeds(k, f)
      BY <1>4 DEF FilterRows
    <2> HIDE DEF f
    <2> QED  BY <1>1, <2>1, <2>2, ProceedsKeeps
  <1> QED  BY <1>3, <1>4

LEMMA LatestPublicKeeps ==
  ASSUME RankingInv, NEW k \in Kinds, LatestPublic(k)
  PROVE  RankingInv' /\ UNCHANGED snapshot
  <1>1. flights[k] # None /\ Land(k, Answered(public, flights[k].now, version, shown[k]))
    BY DEF LatestPublic, InFlight
  <1>2. flights[k].now <= version /\ version \in Versions /\ public \in SUBSET public
    BY <1>1, ServerFacts DEF GoodFlight
  <1> QED  BY <1>1, <1>2, AnswerKeeps

LEMMA FlightFailsKeeps ==
  ASSUME RankingInv, NEW k \in Kinds, FlightFails(k)
  PROVE  RankingInv' /\ UNCHANGED snapshot
  <1>1. /\ flights' = [flights EXCEPT ![k] = None] /\ Forget({k})
        /\ requests' = [r \in Requests |->
                          IF r \in Waiting(k) THEN [do |-> "failed"] ELSE requests[r]]
        /\ UNCHANGED <<mysqlVars, redisVars, builders>> /\ faults' \in 0..MaxFaults
    BY ServerFacts DEF FlightFails
  <1> QED  BY <1>1, FailedIsGood, LandKeeps

LEMMA VisibilityKeeps ==
  ASSUME RankingInv, NEW v \in Videos, VisibilityChanges(v)
  PROVE  RankingInv' /\ UNCHANGED snapshot
  <1>1. /\ RankingTypeOK /\ Published /\ Asked /\ Seen
        /\ UNCHANGED <<version, redisVars, builders, requests, flights, faults>>
        /\ shown' = [x \in DOMAIN shown |-> IF x \in Busy THEN shown[x] \cup public' ELSE shown[x]]
    BY DEF RankingInv, VisibilityChanges
  <1>2. public' \in SUBSET Videos
    BY <1>1 DEF VisibilityChanges, RankingTypeOK
  <1>3. /\ shown' \in [Requests \cup Kinds -> SUBSET Videos]
        /\ \A x \in Requests \cup Kinds : x \in Busy => public' \subseteq shown'[x]
    BY <1>1, <1>2 DEF RankingTypeOK
  <1>4. RankingTypeOK'
    BY <1>1, <1>2, <1>3 DEF RankingTypeOK, redisVars
  <1>5. Busy' = Busy /\ Busy \subseteq Requests \cup Kinds
    BY <1>1 DEF Busy, Looking, Is
  <1>6. Seen'
    BY <1>3, <1>5 DEF Seen
  <1>7. Published'
    BY <1>1 DEF Published, Stamped, At, Is, redisVars
  <1>8. Asked'
    BY <1>1 DEF Asked, GoodRequest, GoodFlight
  <1> QED  BY <1>1, <1>4, <1>6, <1>7, <1>8 DEF RankingInv, redisVars

LEMMA RedisFailsKeeps ==
  ASSUME RankingInv, NEW r \in Requests, RedisFails(r)
  PROVE  RankingInv' /\ UNCHANGED snapshot
  <1>1. /\ Looking(r) /\ Falls(r, "metrics") /\ "metrics" \in Kinds /\ faults' \in 0..MaxFaults
        /\ UNCHANGED <<mysqlVars, redisVars, builders, flights>>
    BY ServerFacts DEF RedisFails, Kinds
  <1> QED  BY <1>1, FallsKeeps

-----------------------------------------------------------------------------
(***************************************************************************)
(* The invariant.                                                          *)
(***************************************************************************)
LEMMA InvInit ==
  RankingInit => RankingInv
  <1> SUFFICES ASSUME RankingInit
               PROVE  RankingInv
    OBVIOUS
  <1>1. 0 \in Versions /\ 0 \in 0..MaxFaults
    BY RankingAssumption DEF Versions
  <1>2. RankingTypeOK
    BY <1>1 DEF RankingInit, RankingTypeOK
  <1>3. Published
    BY DEF RankingInit, Published, Stamped, At, Is
  <1>4. Asked
    BY DEF RankingInit, Asked, GoodRequest, GoodFlight
  <1>5. Seen
    BY DEF RankingInit, Seen, Busy, Looking, Is
  <1> QED  BY <1>2, <1>3, <1>4, <1>5 DEF RankingInv

LEMMA InvNext ==
  ASSUME RankingInv, [RankingNext]_rankingVars
  PROVE  RankingInv' /\ (snapshot # None /\ snapshot' # None => snapshot' >= snapshot)
  <1>1. snapshot # None => snapshot \in Nat
    BY VersionFacts DEF RankingInv, RankingTypeOK
  <1>2. ASSUME RankingInv' /\ UNCHANGED snapshot
        PROVE  RankingInv' /\ (snapshot # None /\ snapshot' # None => snapshot' >= snapshot)
    BY <1>1, <1>2
  <1>3. CASE UNCHANGED rankingVars
    <2>1. /\ UNCHANGED <<version, public, lock, snapshot, metadata, builders, requests, flights, shown,
                         faults>>
      BY <1>3 DEF rankingVars, mysqlVars, redisVars, serverVars
    <2>2. RankingTypeOK' /\ Asked' /\ Seen'
      BY <2>1 DEF RankingInv, RankingTypeOK, Asked, GoodRequest, GoodFlight, Seen, Busy, Looking, Is
    <2>3. Published'
      BY <2>1 DEF RankingInv, Published, Stamped, At, Is
    <2> QED  BY <1>2, <2>1, <2>2, <2>3 DEF RankingInv
  <1>4. CASE \E b \in Builders :
               StartBuild(b) \/ BuilderStep(b) \/ BuildFails(b) \/ BuilderCrashes(b)
    BY <1>4, BuilderKeeps
  <1>5. CASE LockExpires \/ SnapshotExpires \/ MetadataExpires \/ MetricsChange
    BY <1>5, ExpiryKeeps
  <1>6. CASE \E v \in Videos : VisibilityChanges(v)
    BY <1>2, <1>6, VisibilityKeeps
  <1>7. CASE \E r \in Requests : List(r) \/ RequestStep(r) \/ RedisFails(r) \/ Leave(r)
    BY <1>2, <1>7, ListKeeps, GetMetadataKeeps, ReadMembersKeeps, FilterCandidatesKeeps,
       SharedFallbackKeeps, FallbackBusyKeeps, RedisFailsKeeps, LeaveKeeps DEF RequestStep
  <1>8. CASE \E k \in Kinds : OthersFall(k) \/ FlightStep(k) \/ FlightFails(k)
    BY <1>2, <1>8, OthersFallKeeps, MetricRowsKeeps, FilterRowsKeeps, LatestPublicKeeps,
       FlightFailsKeeps DEF FlightStep
  <1> QED  BY <1>3, <1>4, <1>5, <1>6, <1>7, <1>8 DEF RankingNext

LEMMA InvAlways ==
  RankingSpec => []RankingInv
  <1>1. RankingInv /\ [RankingNext]_rankingVars => RankingInv'
    BY InvNext
  <1> QED  BY <1>1, InvInit, PTL DEF RankingSpec

\* The keys of Redis, the builders, the requests and the calls have their types.
THEOREM RankingTypeCorrect ==
  RankingSpec => []RankingTypeOK
  <1>1. RankingInv => RankingTypeOK
    BY DEF RankingInv
  <1> QED  BY <1>1, InvAlways, PTL

\* A builder whose lock has expired, or that was restarted with the lock of
\* its former self, never replaces a newer snapshot (RenameIfOwner,
\* cache/redis.go).
THEOREM SnapshotsGoForward ==
  RankingSpec => SnapshotForward
  <1>1. RankingInv /\ [RankingNext]_rankingVars =>
          [snapshot # None /\ snapshot' # None => snapshot' >= snapshot]_rankingVars
    BY InvNext
  <1> QED  BY <1>1, InvAlways, PTL DEF RankingSpec, SnapshotForward

\* Neither Redis nor any answer claims a time after the metrics it shows.
THEOREM TimestampsAreHonest ==
  RankingSpec => []TimestampHonest
  <1>1. RankingInv => TimestampHonest
    <2> SUFFICES ASSUME RankingInv
                 PROVE  TimestampHonest
      OBVIOUS
    <2>1. snapshot # None /\ metadata # None => metadata <= snapshot
      BY DEF RankingInv, Published, Stamped
    <2>2. \A r \in Requests : Is(r, "answered") => requests[r].generated <= requests[r].data
      BY DEF RankingInv, Asked, GoodRequest, Is
    <2> QED  BY <2>1, <2>2 DEF TimestampHonest
  <1> QED  BY <1>1, InvAlways, PTL

\* No answer, its own or shared, lists a video that was hidden from the moment
\* the request or the call began (FilterCandidates, ranking/repository.go).
THEOREM NothingHiddenIsListed ==
  RankingSpec => []NothingHiddenListed
  <1>1. RankingInv => NothingHiddenListed
    BY DEF RankingInv, Asked, GoodRequest, NothingHiddenListed, Is
  <1> QED  BY <1>1, InvAlways, PTL
=============================================================================
