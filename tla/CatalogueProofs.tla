--------------------------- MODULE CatalogueProofs ---------------------------
(***************************************************************************)
(* Theorems about the cache of JSONCache and about Catalogue, for any      *)
(* servers and callers, any videos, categories and tags, and any number of *)
(* requests at once: no caller's leaving ends the load others wait for,    *)
(* what is processed has its source, and an update keeps what it leaves    *)
(* out.                                                                    *)
(***************************************************************************)
EXTENDS Catalogue, TLAPS

-----------------------------------------------------------------------------
(***************************************************************************)
(* The cache.                                                              *)
(***************************************************************************)
CacheStep == CacheNext \/ \E value \in Values : ChangeSource(value)

\* Whoever waits has a load to wait for.
LoadsForAll == \A c \in waiting : loads[ServerOf[c]] # None

\* No load hangs on a caller's context.
LoadsOutlive == \A s \in Servers :
  loads[s] # None => loads[s].parent = None /\ ~loads[s].canceled

CacheInv == CacheTypeOK /\ LoadsForAll /\ LoadsOutlive

\* Nothing is cached, nobody waits.
LEMMA CacheInitInv == CacheInit => CacheInv
  BY CacheAssumption DEF CacheInit, CacheInv, CacheTypeOK, LoadsForAll, LoadsOutlive

\* Whoever joins finds a load or begins one under a context of its own; a
\* load takes its clients along when it ends, and no caller that goes is a
\* load's parent.
LEMMA CacheStepInv ==
  ASSUME CacheInv, [CacheStep]_cacheVars
  PROVE  CacheInv'
<1> USE CacheAssumption, CacheNoneAssumption DEF CacheInv, CacheTypeOK, LoadsForAll, LoadsOutlive
<1>1. ASSUME NEW c \in Callers, Miss(c) PROVE CacheInv'
  <2> DEFINE begun == [value |-> None, parent |-> None, canceled |-> FALSE]
  <2>1. ServerOf[c] \in Servers
    OBVIOUS
  <2>2. begun \in Load /\ begun.parent = None /\ ~begun.canceled
    BY DEF Load
  <2>3. loads' = IF loads[ServerOf[c]] = None THEN [loads EXCEPT ![ServerOf[c]] = begun]
                 ELSE loads
    BY <1>1 DEF Miss, Joined, Parent
  <2> HIDE DEF begun
  <2>4. /\ loads'[ServerOf[c]] # None
        /\ \A s \in Servers : loads[s] # None => loads'[s] # None
        /\ loads' \in [Servers -> Load \cup {None}]
    BY <2>1, <2>2, <2>3
  <2>5. LoadsOutlive'
    BY <2>1, <2>2, <2>3
  <2> QED
    BY <1>1, <2>1, <2>4, <2>5 DEF Miss
<1>2. ASSUME NEW c \in Callers, Leave(c) PROVE CacheInv'
  <2>1. \A s \in Servers : CanceledBy(c, loads[s]) = loads[s]
    BY DEF CanceledBy
  <2>2. loads' = loads
    BY <1>2, <2>1 DEF Leave
  <2> QED
    BY <1>2, <2>2 DEF Leave
<1>3. ASSUME NEW s \in Servers, ReadSource(s) PROVE CacheInv'
  <2>1. loads[s] \in Load
    BY <1>3 DEF ReadSource
  <2>2. /\ loads'[s] = [loads[s] EXCEPT !.value = source]
        /\ \A r \in Servers \ {s} : loads'[r] = loads[r]
        /\ loads' = [r \in Servers |-> loads'[r]]
    BY <1>3 DEF ReadSource
  <2>3. /\ loads'[s] \in Load
        /\ loads'[s].parent = loads[s].parent /\ loads'[s].canceled = loads[s].canceled
    BY <2>1, <2>2 DEF Load
  <2>4. loads' \in [Servers -> Load \cup {None}]
    BY <2>2, <2>3
  <2>5. LoadsForAll'
    BY <1>3, <2>2, <2>3 DEF ReadSource
  <2>6. LoadsOutlive'
    BY <1>3, <2>2, <2>3 DEF ReadSource
  <2> QED
    BY <1>3, <2>4, <2>5, <2>6 DEF ReadSource
<1>4. ASSUME NEW s \in Servers, LoadEnds(s), cached' \in Values \cup {None} PROVE CacheInv'
  BY <1>4 DEF LoadEnds, Clients
<1>5. ASSUME NEW s \in Servers, Store(s) PROVE CacheInv'
  <2>1. loads[s] \in Load /\ loads[s].value \in Values
    BY <1>5 DEF Store, Load
  <2> QED
    BY <1>4, <1>5, <2>1 DEF Store
<1>6. ASSUME NEW s \in Servers, LoadFails(s) PROVE CacheInv'
  BY <1>4, <1>6 DEF LoadFails
<1>7. CASE Expire
  BY <1>7 DEF Expire
<1>8. ASSUME NEW value \in Values, ChangeSource(value) PROVE CacheInv'
  BY <1>8 DEF ChangeSource
<1>9. CASE UNCHANGED cacheVars
  BY <1>9 DEF cacheVars
<1> QED
  BY <1>1, <1>2, <1>3, <1>5, <1>6, <1>7, <1>8, <1>9 DEF CacheStep, CacheNext, LoadStep

\* Callers leave one by one, or all of a server's with the end of its load,
\* and no load that ends was canceled.
LEMMA CacheStepCancelsNobody ==
  ASSUME CacheInv, [CacheStep]_cacheVars
  PROVE  [\A c \in waiting \ waiting' : Leave(c) \/ Answered(c)]_cacheVars
<1> SUFFICES ASSUME CacheStep, NEW c \in waiting, c \notin waiting'
             PROVE  Leave(c) \/ Answered(c)
  OBVIOUS
<1>1. c \in Callers /\ ServerOf[c] \in Servers
  BY CacheAssumption DEF CacheInv, CacheTypeOK
<1>2. loads[ServerOf[c]] # None /\ ~loads[ServerOf[c]].canceled
  BY <1>1 DEF CacheInv, LoadsForAll, LoadsOutlive
<1>3. ASSUME NEW d \in Callers, Miss(d) PROVE FALSE
  BY <1>3 DEF Miss
<1>4. ASSUME NEW d \in Callers, Leave(d) PROVE Leave(c)
  BY <1>4 DEF Leave
<1>5. ASSUME NEW s \in Servers, LoadEnds(s) PROVE Answered(c)
  <2>1. s = ServerOf[c]
    BY <1>1, <1>5 DEF LoadEnds, Clients
  <2>2. loads'[s] = None
    BY <1>5 DEF LoadEnds, CacheInv, CacheTypeOK
  <2> QED
    BY <1>2, <2>1, <2>2 DEF Answered
<1>6. ASSUME NEW s \in Servers, LoadStep(s) \/ LoadFails(s) PROVE Answered(c)
  BY <1>5, <1>6 DEF LoadStep, ReadSource, Store, LoadFails
<1>7. ASSUME Expire \/ \E value \in Values : ChangeSource(value) PROVE FALSE
  BY <1>7 DEF Expire, ChangeSource
<1> QED
  BY <1>3, <1>4, <1>6, <1>7 DEF CacheStep, CacheNext

\* Whoever stops waiting has left by itself or is answered, in every step of
\* a cache by itself.
THEOREM CacheCancelsNobody == CacheSpec => LeavingCancelsNobody
<1>1. CacheSpec <=> CacheInit /\ [][CacheStep]_cacheVars
  BY DEF CacheSpec, CacheStep
<1> QED
  BY <1>1, CacheInitInv, CacheStepInv, CacheStepCancelsNobody, PTL DEF LeavingCancelsNobody

-----------------------------------------------------------------------------
(***************************************************************************)
(* The catalogue keeps the cache as it is, or takes a step of it.          *)
(***************************************************************************)

\* Requests for videos never touch the cache.
LEMMA CatalogueStepIsCacheStep ==
  ASSUME [CatalogueNext]_catalogueVars
  PROVE  [CacheStep]_cacheVars
<1>1. CASE UNCHANGED catalogueVars
  BY <1>1 DEF catalogueVars, cacheVars
<1>2. ASSUME NEW h \in Handlers, NEW v \in Videos, NEW c \in Categories, NEW ts \in TagSets,
             SelectForNew(h, v, c, ts)
      PROVE  UNCHANGED cacheVars
  BY <1>2 DEF SelectForNew, Nothing
<1>3. ASSUME NEW h \in Handlers,
             Create(h) \/ ApplyNew(h) \/ UpdateObjectKey(h) \/ PresignPut(h)
               \/ Stat(h) \/ BeginProcessing(h)
               \/ Select(h) \/ UpdateOwned(h) \/ File(h) \/ Fails(h)
      PROVE  UNCHANGED cacheVars
  BY <1>3 DEF Create, ApplyNew, UpdateObjectKey, PresignPut, Stat, BeginProcessing, Select,
              UpdateOwned, File, Fails, Nothing
<1>4. ASSUME NEW h \in Handlers, NEW v \in Videos,
             AskComplete(h, v) \/ \E patch \in Patches : AskUpdate(h, v, patch)
      PROVE  UNCHANGED cacheVars
  BY <1>4 DEF AskComplete, AskUpdate, Nothing
<1>5. ASSUME NEW v \in Videos, Upload(v) \/ Delete(v) PROVE UNCHANGED cacheVars
  BY <1>5 DEF Upload, Delete
<1>6. CASE CacheNext \/ \E value \in Values : ChangeSource(value)
  BY <1>6 DEF CacheStep
<1>7. CASE CatalogueNext
  BY <1>2, <1>3, <1>4, <1>5, <1>6, <1>7 DEF CatalogueNext
<1> QED
  BY <1>1, <1>7

\* The list of categories is a cache as JSONCache specifies it, whatever
\* authors do meanwhile.
THEOREM CatalogueImplementsCache == CatalogueSpec => CacheSpec
<1>1. CatalogueInit => CacheInit
  BY DEF CatalogueInit
<1>2. [CatalogueNext]_catalogueVars => [CacheStep]_cacheVars
  BY CatalogueStepIsCacheStep
<1>3. CacheSpec <=> CacheInit /\ [][CacheStep]_cacheVars
  BY DEF CacheSpec, CacheStep
<1> QED
  BY <1>1, <1>2, <1>3, PTL DEF CatalogueSpec

\* An author's browser that waits for the categories is handed them, or the
\* failure of MySQL or of loaderTimeout: that the browser whose request began
\* the load has gone never ends it ("Otherwise one canceled request can
\* cancel every waiter coalesced on this key", cache/json.go:137-138).
THEOREM NobodyIsCanceled == CatalogueSpec => LeavingCancelsNobody
  BY CatalogueImplementsCache, CacheCancelsNobody, PTL

-----------------------------------------------------------------------------
(***************************************************************************)
(* Requests.                                                               *)
(***************************************************************************)

\* What a handler is at says what it carries.
LEMMA RequestsCarry ==
  ASSUME CatalogueTypeOK, NEW h \in Handlers, requests[h] # None
  PROVE  /\ requests[h].video \in Videos
         /\ requests[h].do \in {"inserts", "applies", "keys", "presigns"} =>
              requests[h] \in Creation
         /\ requests[h].do = "stats" =>
              requests[h] \in [do : {"stats"}, video : Videos, key : {"pending", "source"}]
         /\ requests[h].do = "submits" =>
              requests[h] \in [do : {"submits"}, video : Videos]
         /\ requests[h].do = "selects" =>
              requests[h] \in [do : {"selects"}, video : Videos, patch : Patch,
                               stored : Categories]
         /\ requests[h].do \in {"writes", "files"} =>
              requests[h] \in [do : {"writes", "files"}, video : Videos, patch : Patch,
                               category : Categories, tags : TagSets]
<1>1. requests[h] \in Creation \cup Completion \cup Revision
  BY DEF CatalogueTypeOK
<1> QED
  BY <1>1 DEF Creation, Completion, Revision

\* Only enabled categories can be chosen, and they are categories.
LEMMA EnabledIsCategory == CacheTypeOK => \A c : Enabled(c) => c \in Categories
  BY CatalogueAssumption DEF CacheTypeOK, Enabled

\* What an update selects is a category and a set of tags.
LEMMA SelectionType ==
  ASSUME CatalogueTypeOK, NEW h \in Handlers, Is(h, "selects")
  PROVE  SelectedCategory(h) \in Categories /\ SelectedTags(h) \in TagSets
<1>1. requests[h].video \in Videos /\ requests[h].patch \in Patch
        /\ requests[h].stored \in Categories
  BY RequestsCarry DEF Is
<1> QED
  BY <1>1 DEF CatalogueTypeOK, Patch, SelectedCategory, SelectedTags, Row, Video

\* Nobody has asked for anything.
LEMMA CatalogueInitType == CatalogueInit => CatalogueTypeOK
<1> SUFFICES ASSUME CatalogueInit PROVE CatalogueTypeOK
  OBVIOUS
<1>1. CacheTypeOK
  BY CacheInitInv DEF CatalogueInit, CacheInv
<1> QED
  BY <1>1, CatalogueAssumption DEF CatalogueInit, CatalogueTypeOK, Video

\* Types survive a step that gives handler h a request of its kind, a video
\* it works on a row, or both.
LEMMA TypesKept ==
  ASSUME CatalogueTypeOK, CacheTypeOK',
         NEW h \in Handlers,
         NEW request \in Creation \cup Completion \cup Revision \cup {None}, Goes(h, request),
         \/ UNCHANGED videos
         \/ \E v \in Videos, row \in Video :
              (row.status # "none" => row.category # None) /\ videos' = [videos EXCEPT ![v] = row],
         offered' \subseteq Videos, uploaded' \subseteq Videos, touched' \subseteq Handlers
  PROVE  CatalogueTypeOK'
<1>1. videos' \in [Videos -> Video]
        /\ \A v \in Videos : videos'[v].status # "none" => videos'[v].category # None
  BY DEF CatalogueTypeOK
<1>2. requests' \in [Handlers -> Creation \cup Completion \cup Revision \cup {None}]
  BY DEF CatalogueTypeOK, Goes
<1> QED
  BY <1>1, <1>2 DEF CatalogueTypeOK

\* A row that is filed anew keeps its status and key.
LEMMA FiledRow ==
  ASSUME NEW row \in Video, NEW c \in Categories, NEW ts \in TagSets
  PROVE  /\ Filed(row, c, ts) \in Video
         /\ Filed(row, c, ts).status = row.status /\ Filed(row, c, ts).key = row.key
         /\ Filed(row, c, ts).category = c /\ Filed(row, c, ts).tags = ts
<1> DEFINE moved == [row EXCEPT !.category = c]
<1>1. /\ moved \in Video /\ moved.category = c
      /\ moved.status = row.status /\ moved.key = row.key
  BY DEF Video
<1> HIDE DEF moved
<1>2. /\ [moved EXCEPT !.tags = ts] \in Video /\ [moved EXCEPT !.tags = ts].tags = ts
      /\ [moved EXCEPT !.tags = ts].category = c
      /\ [moved EXCEPT !.tags = ts].status = row.status
      /\ [moved EXCEPT !.tags = ts].key = row.key
  BY <1>1 DEF Video
<1> QED
  BY <1>2 DEF Filed, moved

\* Every step writes rows, requests and sets of their types.
LEMMA CatalogueStepType ==
  ASSUME CatalogueTypeOK, CacheTypeOK', [CatalogueNext]_catalogueVars
  PROVE  CatalogueTypeOK'
<1> DEFINE Request == Creation \cup Completion \cup Revision \cup {None}
<1> USE DEF Nothing
<1>t. /\ offered \subseteq Videos /\ uploaded \subseteq Videos /\ touched \subseteq Handlers
      /\ requests \in [Handlers -> Request] /\ None \in Request
      /\ videos \in [Videos -> Video]
      /\ \A v \in Videos : videos[v].status # "none" => videos[v].category # None
  BY DEF CatalogueTypeOK
<1>1. ASSUME NEW h \in Handlers, NEW v \in Videos, NEW c \in Categories, NEW ts \in TagSets,
             SelectForNew(h, v, c, ts)
      PROVE  CatalogueTypeOK'
  <2>1. [do |-> "inserts", video |-> v, category |-> c, tags |-> ts] \in Request
    BY DEF Creation
  <2> QED
    BY <1>1, <1>t, <2>1, TypesKept DEF SelectForNew
<1>2. ASSUME NEW h \in Handlers, Create(h) PROVE CatalogueTypeOK'
  <2>1. requests[h].video \in Videos /\ requests[h] \in Creation
    BY <1>2, RequestsCarry DEF Create, Is
  <2> DEFINE row == [status |-> "uploading", category |-> requests[h].category,
                     tags |-> NoTags, key |-> "pending"]
  <2>2. [requests[h] EXCEPT !.do = "applies"] \in Request
    BY <2>1 DEF Creation
  <2>3. row \in Video /\ row.category # None
    BY <2>1, CatalogueAssumption DEF Creation, Video
  <2>4. touched' \subseteq Handlers /\ videos' = [videos EXCEPT ![requests[h].video] = row]
    BY <1>2, <1>t DEF Create, Writes, Updating, Working
  <2> QED
    BY <1>2, <1>t, <2>1, <2>2, <2>3, <2>4, TypesKept DEF Create
<1>3. ASSUME NEW h \in Handlers, ApplyNew(h) PROVE CatalogueTypeOK'
  <2>1. requests[h].video \in Videos /\ requests[h] \in Creation
    BY <1>3, RequestsCarry DEF ApplyNew, Is
  <2> DEFINE row == Filed(Row(h), requests[h].category, requests[h].tags)
  <2>2. [requests[h] EXCEPT !.do = "keys"] \in Request
    BY <2>1 DEF Creation
  <2>a. Row(h) \in Video /\ requests[h].category \in Categories /\ requests[h].tags \in TagSets
    BY <1>t, <2>1 DEF Creation, Row
  <2>3. row \in Video /\ row.category # None
    BY <2>a, FiledRow, CatalogueAssumption
  <2>4. touched' \subseteq Handlers /\ videos' = [videos EXCEPT ![requests[h].video] = row]
    BY <1>3, <1>t DEF ApplyNew, Writes, Updating, Working
  <2> QED
    BY <1>3, <1>t, <2>1, <2>2, <2>3, <2>4, TypesKept DEF ApplyNew
<1>4. ASSUME NEW h \in Handlers, UpdateObjectKey(h) PROVE CatalogueTypeOK'
  <2>1. requests[h].video \in Videos /\ requests[h] \in Creation
    BY <1>4, RequestsCarry DEF UpdateObjectKey, Is
  <2> DEFINE row == [Row(h) EXCEPT !.key = "source"]
  <2>2. [requests[h] EXCEPT !.do = "presigns"] \in Request
    BY <2>1 DEF Creation
  <2>3. row \in Video /\ (row.status # "none" => row.category # None)
    BY <1>t, <2>1 DEF Video, Row
  <2>4. touched' \subseteq Handlers /\ videos' = [videos EXCEPT ![requests[h].video] = row]
    BY <1>4, <1>t DEF UpdateObjectKey, Writes, Updating, Working
  <2> QED
    BY <1>4, <1>t, <2>1, <2>2, <2>3, <2>4, TypesKept DEF UpdateObjectKey
<1>5. ASSUME NEW h \in Handlers, PresignPut(h) PROVE CatalogueTypeOK'
  <2>1. requests[h].video \in Videos
    BY <1>5, RequestsCarry DEF PresignPut, Is
  <2> QED
    BY <1>5, <1>t, <2>1, TypesKept DEF PresignPut, Ends, Goes
<1>6. ASSUME NEW v \in Videos, Upload(v) PROVE CatalogueTypeOK'
  BY <1>6, <1>t DEF Upload, CatalogueTypeOK
<1>7. ASSUME NEW h \in Handlers, NEW v \in Videos, AskComplete(h, v) PROVE CatalogueTypeOK'
  <2>1. [do |-> "stats", video |-> v, key |-> videos[v].key] \in Request
    BY <1>t DEF Completion, Video
  <2> QED
    BY <1>7, <1>t, <2>1, TypesKept DEF AskComplete
<1>8. ASSUME NEW h \in Handlers, Stat(h) PROVE CatalogueTypeOK'
  <2>1. [do |-> "submits", video |-> requests[h].video] \in Request
    BY <1>8, RequestsCarry DEF Stat, Is, Completion
  <2> QED
    BY <1>8, <1>t, <2>1, TypesKept DEF Stat
<1>9. ASSUME NEW h \in Handlers, BeginProcessing(h) PROVE CatalogueTypeOK'
  <2>1. requests[h].video \in Videos
    BY <1>9, RequestsCarry DEF BeginProcessing, Is
  <2> DEFINE row == [Row(h) EXCEPT !.status = "processing"]
  <2>2. row \in Video /\ row.category # None
    BY <1>9, <1>t, <2>1 DEF BeginProcessing, Row, Video
  <2>3. videos' = [videos EXCEPT ![requests[h].video] = row]
    BY <1>9, <1>t, <2>1 DEF BeginProcessing, Row
  <2> QED
    BY <1>9, <1>t, <2>1, <2>2, <2>3, TypesKept DEF BeginProcessing, Ends, Goes
<1>10. ASSUME NEW h \in Handlers, NEW v \in Videos, NEW patch \in Patches,
              AskUpdate(h, v, patch)
       PROVE  CatalogueTypeOK'
  <2>1. [do |-> "selects", video |-> v, patch |-> patch, stored |-> videos[v].category]
          \in Request
    BY <1>10, <1>t, PatchesAssumption DEF AskUpdate, Revision, Video
  <2> QED
    BY <1>10, <1>t, <2>1, TypesKept DEF AskUpdate
<1>11. ASSUME NEW h \in Handlers, Select(h) PROVE CatalogueTypeOK'
  <2>1. [do |-> "writes", video |-> requests[h].video, patch |-> requests[h].patch,
         category |-> SelectedCategory(h), tags |-> SelectedTags(h)] \in Request
    BY <1>11, RequestsCarry, SelectionType DEF Select, Is, Revision
  <2> QED
    BY <1>11, <1>t, <2>1, TypesKept DEF Select
<1>12. ASSUME NEW h \in Handlers, UpdateOwned(h) PROVE CatalogueTypeOK'
  <2>1. /\ requests[h].video \in Videos /\ requests[h].patch \in Patch
        /\ requests[h] \in Revision /\ requests[h].do = "writes"
    BY <1>12, RequestsCarry DEF UpdateOwned, Is, Revision
  <2> DEFINE row == [Row(h) EXCEPT !.category = requests[h].patch.category]
  <2>2. [requests[h] EXCEPT !.do = "files"] \in Request
    BY <2>1 DEF Revision
  <2>3. CASE requests[h].patch.category # None
    <3>1. row \in Video /\ row.category # None
      BY <1>t, <2>1, <2>3 DEF Patch, Video, Row
    <3>2. touched' \subseteq Handlers /\ videos' = [videos EXCEPT ![requests[h].video] = row]
      BY <1>12, <1>t, <2>3 DEF UpdateOwned, Writes, Updating, Working
    <3> QED
      BY <1>12, <1>t, <2>1, <2>2, <3>1, <3>2, TypesKept DEF UpdateOwned
  <2>4. CASE requests[h].patch.category = None
    BY <1>12, <1>t, <2>2, <2>4, TypesKept DEF UpdateOwned
  <2> QED
    BY <2>3, <2>4
<1>13. ASSUME NEW h \in Handlers, File(h) PROVE CatalogueTypeOK'
  <2>1. /\ requests[h].video \in Videos
        /\ requests[h].category \in Categories /\ requests[h].tags \in TagSets
    BY <1>13, RequestsCarry DEF File, Is
  <2> DEFINE row == Filed(Row(h), requests[h].category, requests[h].tags)
  <2>a. Row(h) \in Video
    BY <1>t, <2>1 DEF Row
  <2>2. row \in Video /\ row.category # None
    BY <2>a, <2>1, FiledRow, CatalogueAssumption
  <2>3. touched' \subseteq Handlers /\ videos' = [videos EXCEPT ![requests[h].video] = row]
    BY <1>13, <1>t DEF File, Updating, Working
  <2> QED
    BY <1>13, <1>t, <2>1, <2>2, <2>3, TypesKept DEF File, Goes
<1>14. ASSUME NEW h \in Handlers, Fails(h) PROVE CatalogueTypeOK'
  BY <1>14, <1>t, TypesKept DEF Fails, Ends, Goes
<1>15. ASSUME NEW v \in Videos, Delete(v) PROVE CatalogueTypeOK'
  BY <1>15, <1>t DEF Delete, CatalogueTypeOK, Video
<1>16. CASE UNCHANGED videoVars
  BY <1>16 DEF CatalogueTypeOK, videoVars
<1> QED
  BY <1>1, <1>2, <1>3, <1>4, <1>5, <1>6, <1>7, <1>8, <1>9, <1>10, <1>11, <1>12, <1>13, <1>14,
     <1>15, <1>16 DEF CatalogueNext, catalogueVars

-----------------------------------------------------------------------------
(***************************************************************************)
(* What is processed has its source.                                       *)
(*                                                                         *)
(* The key of a row is reset only where the row is made, and a row is made *)
(* once: the request that inserts it has the video for itself.  So a key   *)
(* that named the source goes on naming it, for the request that was told  *)
(* of it, for the browser that was given the URL and for the video.        *)
(***************************************************************************)
Inserting(h) == Is(h, "inserts")

\* A row is there for every request but the one that inserts it.
RowsAreThere ==
  \A h \in Handlers :
    requests[h] # None => (Row(h).status = "none" <=> Inserting(h))

\* A video is inserted by one request.
OneInserts ==
  \A g, h \in Handlers :
    Inserting(g) /\ Inserting(h) /\ requests[g].video = requests[h].video => g = h

\* Whoever was told of the source's key was told the truth.
OfferedHaveKeys ==
  /\ uploaded \subseteq offered
  /\ \A v \in offered : videos[v].key = "source" /\ videos[v].status # "none"

HandlersKnow ==
  \A h \in Handlers :
    /\ Is(h, "presigns") => Row(h).key = "source"
    /\ Is(h, "stats") /\ requests[h].key = "source" => Row(h).key = "source"
    /\ Is(h, "submits") => requests[h].video \in uploaded

SourceInv ==
  /\ RowsAreThere /\ OneInserts
  /\ OfferedHaveKeys /\ HandlersKnow
  /\ ProcessedHasSource

\* It survives a step that keeps the keys, makes no row and processes only
\* what was uploaded, after which its handler knows no more of the source
\* than before.
LEMMA SourceKept ==
  ASSUME CatalogueTypeOK, SourceInv,
         NEW h \in Handlers, NEW request, Goes(h, request),
         \/ request = None
         \/ /\ request.video \in Videos /\ videos[request.video].status # "none"
            /\ request.do \notin {"inserts", "presigns", "stats", "submits"},
         videos' \in [Videos -> Video],
         \A v \in Videos :
           /\ videos'[v].key = videos[v].key
           /\ videos'[v].status = "none" <=> videos[v].status = "none"
           /\ videos'[v].status = "processing" =>
                videos[v].status = "processing" \/ v \in uploaded,
         UNCHANGED <<offered, uploaded>>
  PROVE  SourceInv'
<1> USE DEF SourceInv
<1>1. \A g \in Handlers : g # h => requests'[g] = requests[g]
  BY DEF CatalogueTypeOK, Goes
<1>2. requests'[h] = request
  BY DEF CatalogueTypeOK, Goes
<1>3. \A g \in Handlers : requests[g] # None => requests[g].video \in Videos
  BY RequestsCarry
<1>4. \A g \in Handlers, step \in {"inserts", "presigns", "stats", "submits"} :
        Is(g, step)' => g # h /\ Is(g, step)
  BY <1>1, <1>2 DEF Is
<1>5. RowsAreThere'
  <2> SUFFICES ASSUME NEW g \in Handlers, requests'[g] # None
               PROVE  videos'[requests'[g].video].status = "none" <=> Inserting(g)'
    BY DEF RowsAreThere, Row
  <2>1. CASE g # h
    BY <1>1, <1>3, <2>1 DEF RowsAreThere, Row, Inserting, Is
  <2>2. CASE g = h
    <3>1. ~Inserting(h)'
      BY <1>2, <2>2 DEF Inserting, Is
    <3> QED
      BY <1>2, <1>3, <2>2, <3>1 DEF RowsAreThere, Row
  <2> QED
    BY <2>1, <2>2
<1>6. OneInserts'
  BY <1>1, <1>4 DEF OneInserts, Inserting
<1>7. OfferedHaveKeys'
  BY DEF OfferedHaveKeys, CatalogueTypeOK
<1>8. HandlersKnow'
  <2> SUFFICES ASSUME NEW g \in Handlers
               PROVE  /\ Is(g, "presigns")' => videos'[requests'[g].video].key = "source"
                      /\ Is(g, "stats")' /\ requests'[g].key = "source" =>
                           videos'[requests'[g].video].key = "source"
                      /\ Is(g, "submits")' => requests'[g].video \in uploaded
    BY DEF HandlersKnow, Row
  <2>1. CASE g # h
    BY <1>1, <1>3, <1>4, <2>1 DEF HandlersKnow, Row, Is
  <2>2. CASE g = h
    BY <1>4, <2>2
  <2> QED
    BY <2>1, <2>2
<1>9. ProcessedHasSource'
  BY DEF ProcessedHasSource, OfferedHaveKeys
<1> QED
  BY <1>5, <1>6, <1>7, <1>8, <1>9

\* The first state has neither rows nor requests.
LEMMA SourceInitInv == CatalogueInit => SourceInv
  BY DEF CatalogueInit, SourceInv, RowsAreThere, OneInserts, OfferedHaveKeys, HandlersKnow,
         ProcessedHasSource, Inserting, Is

\* A request for a new video has it for itself.
LEMMA SelectForNewKeepsSource ==
  ASSUME CatalogueTypeOK, SourceInv,
         NEW h \in Handlers, NEW v \in Videos, NEW c \in Categories, NEW ts \in TagSets,
         SelectForNew(h, v, c, ts)
  PROVE  SourceInv'
<1> DEFINE request == [do |-> "inserts", video |-> v, category |-> c, tags |-> ts]
<1>1. /\ requests' = [requests EXCEPT ![h] = request]
      /\ videos[v].status = "none" /\ UNCHANGED <<videos, offered, uploaded>>
      /\ \A g \in Handlers : requests[g] # None => requests[g].video # v
  BY DEF SelectForNew, Goes, Nothing, Working
<1>2. request # None /\ request.do = "inserts" /\ request.video = v
  <2>1. request \in Creation
    BY DEF Creation
  <2> QED
    BY <2>1, CatalogueNoneAssumption
<1> HIDE DEF request
<1>3. /\ requests'[h] = request
      /\ \A g \in Handlers : g # h => requests'[g] = requests[g]
  BY <1>1 DEF CatalogueTypeOK
<1>4. RowsAreThere'
  BY <1>1, <1>2, <1>3 DEF SourceInv, RowsAreThere, Row, Inserting, Is
<1>5. OneInserts'
  BY <1>1, <1>2, <1>3 DEF SourceInv, OneInserts, Inserting, Is
<1>6. OfferedHaveKeys' /\ ProcessedHasSource'
  BY <1>1 DEF SourceInv, OfferedHaveKeys, ProcessedHasSource
<1>7. HandlersKnow'
  BY <1>1, <1>2, <1>3 DEF SourceInv, HandlersKnow, Row, Is
<1> QED
  BY <1>4, <1>5, <1>6, <1>7 DEF SourceInv

\* The row is new: nobody but its creation has heard of it.
LEMMA CreateKeepsSource ==
  ASSUME CatalogueTypeOK, SourceInv, NEW h \in Handlers, Create(h)
  PROVE  SourceInv'
<1> DEFINE v == requests[h].video
           row == [status |-> "uploading", category |-> requests[h].category,
                   tags |-> NoTags, key |-> "pending"]
           request == [requests[h] EXCEPT !.do = "applies"]
<1>1. /\ Inserting(h) /\ requests[h] # None /\ v \in Videos /\ requests[h] \in Creation
      /\ requests' = [requests EXCEPT ![h] = request]
      /\ videos' = [videos EXCEPT ![v] = row]
      /\ UNCHANGED <<offered, uploaded>>
  BY RequestsCarry DEF Create, Is, Inserting, Goes, Writes
<1>2. videos[v].status = "none"
  BY <1>1 DEF SourceInv, RowsAreThere, Row
<1>3. request # None /\ request.do = "applies" /\ request.video = v
  <2>1. request \in Creation
    BY <1>1 DEF Creation
  <2> QED
    BY <1>1, <2>1, CatalogueNoneAssumption DEF Creation
<1>4. /\ requests'[h] = request
      /\ \A g \in Handlers : g # h => requests'[g] = requests[g]
  BY <1>1 DEF CatalogueTypeOK
<1>5. /\ videos'[v].status = "uploading" /\ videos'[v].key = "pending"
      /\ \A w \in Videos : w # v => videos'[w] = videos[w]
  BY <1>1 DEF CatalogueTypeOK
<1>6. \A g \in Handlers : g # h /\ requests[g] # None =>
        requests[g].video \in Videos /\ requests[g].video # v
  <2> SUFFICES ASSUME NEW g \in Handlers, g # h, requests[g] # None, requests[g].video = v
               PROVE  FALSE
    BY RequestsCarry
  <2>1. Inserting(g)
    BY <1>2 DEF SourceInv, RowsAreThere, Row
  <2> QED
    BY <1>1, <2>1 DEF SourceInv, OneInserts
<1> HIDE DEF v, row, request
<1>7. RowsAreThere'
  BY <1>3, <1>4, <1>5, <1>6 DEF SourceInv, RowsAreThere, Row, Inserting, Is
<1>8. OneInserts'
  BY <1>3, <1>4 DEF SourceInv, OneInserts, Inserting, Is
<1>9. OfferedHaveKeys'
  BY <1>1, <1>2, <1>5 DEF SourceInv, OfferedHaveKeys, CatalogueTypeOK
<1>10. ProcessedHasSource'
  BY <1>1, <1>5 DEF SourceInv, ProcessedHasSource
<1>11. HandlersKnow'
  BY <1>1, <1>3, <1>4, <1>5, <1>6 DEF SourceInv, HandlersKnow, Row, Is
<1> QED
  BY <1>7, <1>8, <1>9, <1>10, <1>11 DEF SourceInv

\* From now on the key names the source.
LEMMA UpdateObjectKeyKeepsSource ==
  ASSUME CatalogueTypeOK, SourceInv, NEW h \in Handlers, UpdateObjectKey(h)
  PROVE  SourceInv'
<1> DEFINE v == requests[h].video
           row == [Row(h) EXCEPT !.key = "source"]
           request == [requests[h] EXCEPT !.do = "presigns"]
<1>1. /\ Is(h, "keys") /\ requests[h] # None /\ v \in Videos /\ requests[h] \in Creation
      /\ requests' = [requests EXCEPT ![h] = request]
      /\ videos' = [videos EXCEPT ![v] = row]
      /\ UNCHANGED <<offered, uploaded>>
  BY RequestsCarry DEF UpdateObjectKey, Is, Goes, Writes
<1>2. videos[v].status # "none" /\ ~Inserting(h)
  BY <1>1 DEF SourceInv, RowsAreThere, Row, Inserting, Is
<1>3. request # None /\ request.do = "presigns" /\ request.video = v
  <2>1. request \in Creation
    BY <1>1 DEF Creation
  <2> QED
    BY <1>1, <2>1, CatalogueNoneAssumption DEF Creation
<1>4. /\ requests'[h] = request
      /\ \A g \in Handlers : g # h => requests'[g] = requests[g]
  BY <1>1 DEF CatalogueTypeOK
<1>5. /\ videos'[v].key = "source" /\ videos'[v].status = videos[v].status
      /\ \A w \in Videos : w # v => videos'[w] = videos[w]
  BY <1>1 DEF CatalogueTypeOK, Row, Video
<1>6. \A g \in Handlers : requests[g] # None => requests[g].video \in Videos
  BY RequestsCarry
<1> HIDE DEF v, row, request
<1>7. RowsAreThere'
  BY <1>1, <1>2, <1>3, <1>4, <1>5, <1>6 DEF SourceInv, RowsAreThere, Row, Inserting, Is
<1>8. OneInserts'
  BY <1>3, <1>4 DEF SourceInv, OneInserts, Inserting, Is
<1>9. OfferedHaveKeys'
  BY <1>1, <1>5 DEF SourceInv, OfferedHaveKeys, CatalogueTypeOK
<1>10. ProcessedHasSource'
  BY <1>1, <1>5 DEF SourceInv, ProcessedHasSource
<1>11. HandlersKnow'
  BY <1>1, <1>3, <1>4, <1>5, <1>6 DEF SourceInv, HandlersKnow, Row, Is
<1> QED
  BY <1>7, <1>8, <1>9, <1>10, <1>11 DEF SourceInv

\* A URL is given out for the source's key, and only where it was given out
\* can something be uploaded.
LEMMA OfferKeepsSource ==
  ASSUME CatalogueTypeOK, SourceInv,
         \/ \E h \in Handlers : PresignPut(h)
         \/ \E v \in Videos : Upload(v)
  PROVE  SourceInv'
<1> USE DEF SourceInv
<1>1. ASSUME NEW h \in Handlers, PresignPut(h) PROVE SourceInv'
  <2>1. /\ Is(h, "presigns") /\ requests[h].video \in Videos
        /\ Row(h).key = "source" /\ Row(h).status # "none"
    BY <1>1, RequestsCarry DEF PresignPut, Is, RowsAreThere, HandlersKnow, Inserting
  <2>2. /\ requests'[h] = None /\ UNCHANGED <<videos, uploaded>>
        /\ offered' = offered \cup {requests[h].video}
        /\ \A g \in Handlers : g # h => requests'[g] = requests[g]
    BY <1>1 DEF PresignPut, Ends, CatalogueTypeOK
  <2>3. RowsAreThere' /\ OneInserts' /\ HandlersKnow'
    BY <2>2 DEF RowsAreThere, OneInserts, HandlersKnow, Row, Inserting, Is
  <2> QED
    BY <2>1, <2>2, <2>3 DEF OfferedHaveKeys, ProcessedHasSource, Row
<1>2. ASSUME NEW v \in Videos, Upload(v) PROVE SourceInv'
  BY <1>2 DEF Upload, RowsAreThere, OneInserts, OfferedHaveKeys, HandlersKnow,
              ProcessedHasSource, Row, Inserting, Is
<1> QED
  BY <1>1, <1>2

\* A completion reads the key of a row that is there, and asks for
\* processing only when it found the object.
LEMMA CompletionKeepsSource ==
  ASSUME CatalogueTypeOK, SourceInv, NEW h \in Handlers,
         Stat(h) \/ \E v \in Videos : AskComplete(h, v)
  PROVE  SourceInv'
<1> SUFFICES ASSUME NEW request, Goes(h, request), request # None, Nothing,
                    request.video \in Videos, videos[request.video].status # "none",
                    \/ request.do = "stats" /\ request.key = videos[request.video].key
                    \/ request.do = "submits" /\ request.video \in uploaded
             PROVE  SourceInv'
  <2>1. ASSUME NEW v \in Videos, AskComplete(h, v) PROVE SourceInv'
    <3> DEFINE request == [do |-> "stats", video |-> v, key |-> videos[v].key]
    <3>1. request \in Completion
      BY DEF CatalogueTypeOK, Completion, Video
    <3>2. request # None
      BY <3>1, CatalogueNoneAssumption
    <3> QED
      BY <2>1, <3>2 DEF AskComplete
  <2>2. CASE Stat(h)
    <3> DEFINE request == [do |-> "submits", video |-> requests[h].video]
    <3>1. requests[h].video \in Videos /\ requests[h].video \in uploaded
            /\ Row(h).status # "none"
      BY <2>2, RequestsCarry
      DEF Stat, Found, Is, SourceInv, RowsAreThere, Inserting
    <3>2. request # None
      BY <3>1, CatalogueNoneAssumption DEF Completion
    <3> QED
      BY <2>2, <3>1, <3>2 DEF Stat, Row
  <2> QED
    BY <2>1, <2>2
<1> USE DEF SourceInv
<1>1. /\ requests'[h] = request /\ UNCHANGED <<videos, offered, uploaded>>
      /\ \A g \in Handlers : g # h => requests'[g] = requests[g]
  BY DEF Goes, Nothing, CatalogueTypeOK
<1>2. RowsAreThere' /\ OneInserts'
  BY <1>1 DEF RowsAreThere, OneInserts, Row, Inserting, Is
<1>3. HandlersKnow'
  BY <1>1 DEF HandlersKnow, Row, Is
<1> QED
  BY <1>1, <1>2, <1>3 DEF OfferedHaveKeys, ProcessedHasSource

\* Nobody else makes a row, changes a key or processes what is not there.
LEMMA OthersKeepSource ==
  ASSUME CatalogueTypeOK, SourceInv, NEW h \in Handlers,
         \/ ApplyNew(h) \/ BeginProcessing(h) \/ Select(h) \/ UpdateOwned(h) \/ File(h)
         \/ Fails(h)
         \/ \E v \in Videos, patch \in Patches : AskUpdate(h, v, patch)
  PROVE  SourceInv'
<1> USE DEF Nothing
<1>t. /\ videos \in [Videos -> Video] /\ requests \in [Handlers -> Creation \cup Completion
                                                                   \cup Revision \cup {None}]
      /\ UNCHANGED <<offered, uploaded>>
  BY DEF CatalogueTypeOK, ApplyNew, BeginProcessing, Select, UpdateOwned, File, Fails, AskUpdate
<1>r. ASSUME requests[h] # None, ~Inserting(h)
      PROVE  requests[h].video \in Videos /\ Row(h) \in Video /\ Row(h).status # "none"
  BY <1>t, <1>r, RequestsCarry DEF SourceInv, RowsAreThere, Row
<1>1. CASE ApplyNew(h)
  <2>1. /\ requests[h] # None /\ ~Inserting(h) /\ requests[h] \in Creation
        /\ requests[h].category \in Categories /\ requests[h].tags \in TagSets
    BY <1>1, RequestsCarry DEF ApplyNew, Is, Inserting, Creation
  <2> DEFINE request == [requests[h] EXCEPT !.do = "keys"]
             row == Filed(Row(h), requests[h].category, requests[h].tags)
  <2>2. request.do = "keys" /\ request.video = requests[h].video
    BY <2>1 DEF Creation
  <2>3. row \in Video /\ row.status = Row(h).status /\ row.key = Row(h).key
    BY <1>r, <2>1, FiledRow
  <2>4. videos' = [videos EXCEPT ![requests[h].video] = row] /\ Goes(h, request)
    BY <1>1 DEF ApplyNew, Writes
  <2> HIDE DEF request, row
  <2> QED
    BY <1>t, <1>r, <2>1, <2>2, <2>3, <2>4, SourceKept DEF Row
<1>2. CASE BeginProcessing(h)
  <2>1. /\ requests[h] # None /\ ~Inserting(h) /\ requests[h].video \in uploaded
    BY <1>2 DEF BeginProcessing, Is, Inserting, SourceInv, HandlersKnow
  <2>2. /\ videos' = [videos EXCEPT ![requests[h].video].status = "processing"]
        /\ Goes(h, None)
    BY <1>2 DEF BeginProcessing, Ends, Goes
  <2>3. /\ videos' \in [Videos -> Video]
        /\ \A v \in Videos :
             /\ videos'[v].key = videos[v].key
             /\ videos'[v].status = "none" <=> videos[v].status = "none"
             /\ videos'[v].status = "processing" =>
                  videos[v].status = "processing" \/ v \in uploaded
    BY <1>t, <1>r, <2>1, <2>2 DEF Video, Row
  <2> QED
    BY <1>t, <2>2, <2>3, SourceKept
<1>3. CASE Select(h)
  <2>1. requests[h] # None /\ ~Inserting(h)
    BY <1>3 DEF Select, Is, Inserting
  <2> DEFINE request == [do |-> "writes", video |-> requests[h].video,
                         patch |-> requests[h].patch, category |-> SelectedCategory(h),
                         tags |-> SelectedTags(h)]
  <2>2. Goes(h, request) /\ UNCHANGED videos
    BY <1>3 DEF Select
  <2>3. request.do = "writes" /\ request.video = requests[h].video
    OBVIOUS
  <2> HIDE DEF request
  <2> QED
    BY <1>t, <1>r, <2>1, <2>2, <2>3, SourceKept DEF Row
<1>4. CASE UpdateOwned(h)
  <2>1. /\ requests[h] # None /\ ~Inserting(h) /\ requests[h] \in Revision
        /\ requests[h].patch \in Patch
    BY <1>4, RequestsCarry DEF UpdateOwned, Is, Inserting, Revision
  <2> DEFINE request == [requests[h] EXCEPT !.do = "files"]
             row == [Row(h) EXCEPT !.category = requests[h].patch.category]
  <2>2. Goes(h, request)
    BY <1>4 DEF UpdateOwned
  <2>3. request.do = "files" /\ request.video = requests[h].video
    BY <2>1, <1>4 DEF Revision, UpdateOwned, Is
  <2>4. row \in Video /\ row.status = Row(h).status /\ row.key = Row(h).key
    BY <1>r, <2>1 DEF Video, Patch
  <2>5. UNCHANGED videos \/ videos' = [videos EXCEPT ![requests[h].video] = row]
    BY <1>4 DEF UpdateOwned, Writes
  <2> HIDE DEF request, row
  <2> QED
    BY <1>t, <1>r, <2>1, <2>2, <2>3, <2>4, <2>5, SourceKept DEF Row
<1>5. CASE File(h)
  <2>1. /\ requests[h] # None /\ ~Inserting(h)
        /\ requests[h].category \in Categories /\ requests[h].tags \in TagSets
    BY <1>5, RequestsCarry DEF File, Is, Inserting
  <2> DEFINE row == Filed(Row(h), requests[h].category, requests[h].tags)
  <2>2. row \in Video /\ row.status = Row(h).status /\ row.key = Row(h).key
    BY <1>r, <2>1, FiledRow
  <2>3. videos' = [videos EXCEPT ![requests[h].video] = row] /\ Goes(h, None)
    BY <1>5 DEF File, Goes
  <2> HIDE DEF row
  <2> QED
    BY <1>t, <1>r, <2>1, <2>2, <2>3, SourceKept DEF Row
<1>6. CASE Fails(h)
  BY <1>t, <1>6, SourceKept DEF Fails, Ends, Goes
<1>7. ASSUME NEW v \in Videos, NEW patch \in Patches, AskUpdate(h, v, patch)
      PROVE  SourceInv'
  <2> DEFINE request == [do |-> "selects", video |-> v, patch |-> patch,
                         stored |-> videos[v].category]
  <2>1. Goes(h, request) /\ UNCHANGED videos /\ videos[v].status # "none"
    BY <1>7 DEF AskUpdate
  <2>2. request.do = "selects" /\ request.video = v
    OBVIOUS
  <2> HIDE DEF request
  <2> QED
    BY <1>t, <2>1, <2>2, SourceKept
<1> QED
  BY <1>1, <1>2, <1>3, <1>4, <1>5, <1>6, <1>7

\* Deleting moves a status on, and touches no key.
LEMMA DeleteKeepsSource ==
  ASSUME CatalogueTypeOK, SourceInv, NEW v \in Videos, Delete(v)
  PROVE  SourceInv'
<1>1. /\ \A w \in Videos :
           /\ videos'[w].key = videos[w].key
           /\ videos'[w].status = "none" <=> videos[w].status = "none"
           /\ videos'[w].status = "processing" => videos[w].status = "processing"
      /\ UNCHANGED <<offered, uploaded, requests>>
      /\ offered \subseteq Videos
  BY DEF Delete, CatalogueTypeOK, Video
<1>2. \A g \in Handlers : requests[g] # None => requests[g].video \in Videos
  BY RequestsCarry
<1>3. RowsAreThere' /\ OneInserts' /\ HandlersKnow'
  BY <1>1, <1>2 DEF SourceInv, RowsAreThere, OneInserts, HandlersKnow, Row, Inserting, Is
<1> QED
  BY <1>1, <1>3 DEF SourceInv, OfferedHaveKeys, ProcessedHasSource

-----------------------------------------------------------------------------
(***************************************************************************)
(* An update keeps what it leaves out.                                     *)
(*                                                                         *)
(* While no other request writes the video's row, what an update read of   *)
(* the row and means to write back is what the row holds.                  *)
(***************************************************************************)
Untouched(h) ==
  /\ Is(h, "selects") => requests[h].stored = Row(h).category
  /\ Is(h, "writes") \/ Is(h, "files") =>
       /\ requests[h].patch.category = None => requests[h].category = Row(h).category
       /\ requests[h].patch.tags = None => requests[h].tags = Row(h).tags

FilingInv == \A h \in Handlers \ touched : Untouched(h)

\* A step of h that keeps every row's category and tags, or touches every
\* other update of the video whose row it writes, is none of the others'
\* business.
LEMMA OthersStayUntouched ==
  ASSUME CatalogueTypeOK, FilingInv,
         NEW h \in Handlers, NEW request, Goes(h, request),
         \/ \A v \in Videos : /\ videos'[v].category = videos[v].category
                              /\ videos'[v].tags = videos[v].tags
         \/ /\ \A v \in Videos : v # requests[h].video => videos'[v] = videos[v]
            /\ Updating(requests[h].video) \ {h} \subseteq touched',
         touched \ {h} \subseteq touched',
         NEW g \in Handlers, g \notin touched', g # h
  PROVE  Untouched(g)'
<1>1. requests'[g] = requests[g] /\ Untouched(g)
  BY DEF CatalogueTypeOK, Goes, FilingInv
<1>2. CASE requests[g] = None
  BY <1>1, <1>2 DEF Untouched, Is
<1>3. CASE requests[g] # None /\ requests[g].do \notin {"selects", "writes", "files"}
  BY <1>1, <1>3 DEF Untouched, Is
<1>4. CASE requests[g] # None /\ requests[g].do \in {"selects", "writes", "files"}
  <2>1. requests[g].video \in Videos
    BY <1>4, RequestsCarry
  <2>2. /\ videos'[requests[g].video].category = videos[requests[g].video].category
        /\ videos'[requests[g].video].tags = videos[requests[g].video].tags
    BY <1>4, <2>1 DEF Updating, Working
  <2> QED
    BY <1>1, <2>2 DEF Untouched, Is, Row
<1> QED
  BY <1>2, <1>3, <1>4

\* What h itself is at next holds of the row it then sees.
LEMMA FilingKept ==
  ASSUME CatalogueTypeOK, FilingInv,
         NEW h \in Handlers, NEW request, Goes(h, request),
         \/ \A v \in Videos : /\ videos'[v].category = videos[v].category
                              /\ videos'[v].tags = videos[v].tags
         \/ /\ \A v \in Videos : v # requests[h].video => videos'[v] = videos[v]
            /\ Updating(requests[h].video) \ {h} \subseteq touched',
         touched \ {h} \subseteq touched',
         h \notin touched' /\ request # None =>
           /\ request.do = "selects" => request.stored = videos'[request.video].category
           /\ request.do \in {"writes", "files"} =>
                /\ request.patch.category = None =>
                     request.category = videos'[request.video].category
                /\ request.patch.tags = None =>
                     request.tags = videos'[request.video].tags
  PROVE  FilingInv'
<1> SUFFICES ASSUME NEW g \in Handlers, g \notin touched' PROVE Untouched(g)'
  BY DEF FilingInv
<1>1. CASE g # h
  BY <1>1, OthersStayUntouched
<1>2. CASE g = h
  <2>1. requests'[h] = request
    BY DEF CatalogueTypeOK, Goes
  <2> QED
    BY <1>2, <2>1 DEF Untouched, Is, Row
<1> QED
  BY <1>1, <1>2

\* Nobody updates anything yet.
LEMMA FilingInitInv == CatalogueInit => FilingInv
  BY DEF CatalogueInit, FilingInv, Untouched, Is

\* The requests that are no updates, and the ends of all.
LEMMA NoUpdateKeepsFiling ==
  ASSUME CatalogueTypeOK, FilingInv, NEW h \in Handlers,
         \/ \E v \in Videos, c \in Categories, ts \in TagSets : SelectForNew(h, v, c, ts)
         \/ Create(h) \/ ApplyNew(h) \/ UpdateObjectKey(h) \/ PresignPut(h)
         \/ \E v \in Videos : AskComplete(h, v)
         \/ Stat(h) \/ BeginProcessing(h) \/ File(h) \/ Fails(h)
  PROVE  FilingInv'
<1> USE DEF Nothing
<1>1. ASSUME NEW v \in Videos, NEW c \in Categories, NEW ts \in TagSets,
             SelectForNew(h, v, c, ts)
      PROVE  FilingInv'
  BY <1>1, FilingKept DEF SelectForNew
<1>2. ASSUME NEW v \in Videos, AskComplete(h, v) PROVE FilingInv'
  BY <1>2, FilingKept DEF AskComplete
<1>3. CASE Stat(h)
  BY <1>3, FilingKept DEF Stat
<1>4. CASE PresignPut(h) \/ Fails(h)
  BY <1>4, FilingKept DEF PresignPut, Fails, Ends, Goes
<1>5. ASSUME NEW row, Writes(h, row)
      PROVE  /\ \A v \in Videos : v # requests[h].video => videos'[v] = videos[v]
             /\ Updating(requests[h].video) \ {h} \subseteq touched'
             /\ touched \subseteq touched'
  BY <1>5 DEF Writes, CatalogueTypeOK
<1>6. CASE Create(h) \/ ApplyNew(h) \/ UpdateObjectKey(h)
  <2>1. requests[h] \in Creation
    BY <1>6, RequestsCarry DEF Create, ApplyNew, UpdateObjectKey, Is
  <2>2. PICK do \in {"applies", "keys", "presigns"} : Goes(h, [requests[h] EXCEPT !.do = do])
    BY <1>6 DEF Create, ApplyNew, UpdateObjectKey
  <2>3. [requests[h] EXCEPT !.do = do].do = do
    BY <2>1 DEF Creation
  <2>4. \E row : Writes(h, row)
    BY <1>6 DEF Create, ApplyNew, UpdateObjectKey
  <2> DEFINE request == [requests[h] EXCEPT !.do = do]
  <2>5. Goes(h, request) /\ request.do \notin {"selects", "writes", "files"}
    BY <2>2, <2>3
  <2> HIDE DEF request
  <2> QED
    BY <1>5, <2>4, <2>5, FilingKept
<1>7. CASE BeginProcessing(h)
  <2>1. requests[h].video \in Videos
    BY <1>7, RequestsCarry DEF BeginProcessing, Is
  <2>2. \A v \in Videos : /\ videos'[v].category = videos[v].category
                          /\ videos'[v].tags = videos[v].tags
    BY <1>7, <2>1 DEF BeginProcessing, CatalogueTypeOK, Video
  <2> QED
    BY <1>7, <2>2, FilingKept DEF BeginProcessing, Ends, Goes
<1>8. CASE File(h)
  <2>1. /\ Goes(h, None)
        /\ \A v \in Videos : v # requests[h].video => videos'[v] = videos[v]
        /\ Updating(requests[h].video) \ {h} \subseteq touched'
        /\ touched \ {h} \subseteq touched'
    BY <1>8 DEF File, Goes, CatalogueTypeOK
  <2> QED
    BY <2>1, FilingKept
<1> QED
  BY <1>1, <1>2, <1>3, <1>4, <1>6, <1>7, <1>8

\* An update notes the category it found, selects what it was asked for or
\* found, and writes first what it was asked for.
LEMMA UpdateKeepsFiling ==
  ASSUME CatalogueTypeOK, SourceInv, FilingInv, NEW h \in Handlers,
         \/ \E v \in Videos, patch \in Patches : AskUpdate(h, v, patch)
         \/ Select(h) \/ UpdateOwned(h)
  PROVE  FilingInv'
<1>1. ASSUME NEW v \in Videos, NEW patch \in Patches, AskUpdate(h, v, patch)
      PROVE  FilingInv'
  <2> DEFINE request == [do |-> "selects", video |-> v, patch |-> patch,
                         stored |-> videos[v].category]
  <2>1. Goes(h, request) /\ UNCHANGED <<videos, touched>>
    BY <1>1 DEF AskUpdate
  <2>2. request.do = "selects" /\ request.stored = videos[request.video].category
    OBVIOUS
  <2> HIDE DEF request
  <2> QED
    BY <2>1, <2>2, FilingKept
<1>2. CASE Select(h)
  <2> DEFINE request == [do |-> "writes", video |-> requests[h].video,
                         patch |-> requests[h].patch, category |-> SelectedCategory(h),
                         tags |-> SelectedTags(h)]
  <2>1. Goes(h, request) /\ UNCHANGED <<videos, touched>>
    BY <1>2 DEF Select, Nothing
  <2>2. h \notin touched => requests[h].stored = Row(h).category
    BY <1>2 DEF FilingInv, Untouched, Select
  <2>3. /\ request.do = "writes"
        /\ request.patch.category = None => request.category = requests[h].stored
        /\ request.patch.tags = None => request.tags = videos[request.video].tags
    BY DEF SelectedCategory, SelectedTags, Row
  <2>4. request.video = requests[h].video
    OBVIOUS
  <2> HIDE DEF request
  <2> QED
    BY <2>1, <2>2, <2>3, <2>4, FilingKept DEF Row
<1>3. CASE UpdateOwned(h)
  <2>1. /\ requests[h].video \in Videos /\ requests[h] \in Revision
        /\ requests[h].do = "writes" /\ Is(h, "writes")
    BY <1>3, RequestsCarry DEF UpdateOwned, Is, Revision
  <2> DEFINE request == [requests[h] EXCEPT !.do = "files"]
  <2>2. /\ Goes(h, request) /\ request.do = "files" /\ request.video = requests[h].video
        /\ request.patch = requests[h].patch /\ request.category = requests[h].category
        /\ request.tags = requests[h].tags
    BY <1>3, <2>1 DEF UpdateOwned, Revision
  <2> HIDE DEF request
  <2>3. h \notin touched =>
          /\ requests[h].patch.category = None => requests[h].category = Row(h).category
          /\ requests[h].patch.tags = None => requests[h].tags = Row(h).tags
    BY <2>1 DEF FilingInv, Untouched
  <2>4. CASE requests[h].patch.category = None
    BY <1>3, <2>2, <2>3, <2>4, FilingKept DEF UpdateOwned, Row
  <2>5. CASE requests[h].patch.category # None
    <3>1. /\ \A v \in Videos : v # requests[h].video => videos'[v] = videos[v]
          /\ touched' = touched \cup (Updating(requests[h].video) \ {h})
          /\ videos'[requests[h].video].tags = Row(h).tags
      BY <1>3, <2>1, <2>5 DEF UpdateOwned, Writes, CatalogueTypeOK, Video, Row
    <3> QED
      BY <2>2, <2>3, <2>5, <3>1, FilingKept
  <2> QED
    BY <2>4, <2>5
<1> QED
  BY <1>1, <1>2, <1>3

\* No request's step.
LEMMA RestKeepsFiling ==
  ASSUME CatalogueTypeOK, FilingInv,
         \/ UNCHANGED videoVars
         \/ \E v \in Videos : Upload(v) \/ Delete(v)
  PROVE  FilingInv'
<1>1. /\ UNCHANGED <<requests, touched>>
      /\ \A v \in Videos : /\ videos'[v].category = videos[v].category
                           /\ videos'[v].tags = videos[v].tags
  BY DEF videoVars, Upload, Delete, CatalogueTypeOK, Video
<1>2. \A g \in Handlers : requests[g] # None => requests[g].video \in Videos
  BY RequestsCarry
<1> QED
  BY <1>1, <1>2 DEF FilingInv, Untouched, Is, Row

-----------------------------------------------------------------------------
CatalogueInv ==
  CatalogueTypeOK /\ CacheInv /\ SourceInv /\ FilingInv

LEMMA CatalogueStepInv ==
  ASSUME CatalogueInv, [CatalogueNext]_catalogueVars
  PROVE  CatalogueInv'
<1> USE DEF CatalogueInv
<1>1. CacheInv'
  BY CatalogueStepIsCacheStep, CacheStepInv
<1>2. CatalogueTypeOK'
  BY <1>1, CatalogueStepType DEF CacheInv
<1>3. ASSUME NEW h \in Handlers,
             \/ \E v \in Videos, c \in Categories, ts \in TagSets : SelectForNew(h, v, c, ts)
             \/ Create(h) \/ ApplyNew(h) \/ UpdateObjectKey(h) \/ PresignPut(h)
             \/ \E v \in Videos : AskComplete(h, v)
             \/ \E v \in Videos, patch \in Patches : AskUpdate(h, v, patch)
             \/ Stat(h) \/ BeginProcessing(h)
             \/ Select(h) \/ UpdateOwned(h) \/ File(h) \/ Fails(h)
      PROVE  SourceInv' /\ FilingInv'
  <2>1. SourceInv'
    BY <1>3, SelectForNewKeepsSource, CreateKeepsSource, UpdateObjectKeyKeepsSource,
       OfferKeepsSource, CompletionKeepsSource, OthersKeepSource
  <2>2. FilingInv'
    BY <1>3, NoUpdateKeepsFiling, UpdateKeepsFiling
  <2> QED
    BY <2>1, <2>2
<1>4. ASSUME NEW v \in Videos, Upload(v) \/ Delete(v) PROVE SourceInv' /\ FilingInv'
  BY <1>4, OfferKeepsSource, DeleteKeepsSource, RestKeepsFiling
<1>5. ASSUME UNCHANGED videoVars PROVE SourceInv' /\ FilingInv'
  BY <1>5, RestKeepsFiling
  DEF videoVars, SourceInv, RowsAreThere, OneInserts, OfferedHaveKeys, HandlersKnow,
      ProcessedHasSource, Row, Inserting, Is
<1>6. SourceInv' /\ FilingInv'
  <2>1. UNCHANGED catalogueVars => UNCHANGED videoVars
    BY DEF catalogueVars
  <2> QED
    BY <1>3, <1>4, <1>5, <2>1 DEF CatalogueNext
<1> QED
  BY <1>1, <1>2, <1>6

\* The four parts hold in every reachable state.
THEOREM CatalogueInvariant == CatalogueSpec => []CatalogueInv
<1>1. CatalogueInit => CatalogueInv
  BY CacheInitInv, CatalogueInitType, SourceInitInv, FilingInitInv
  DEF CatalogueInv, CatalogueInit
<1> QED
  BY <1>1, CatalogueStepInv, PTL DEF CatalogueSpec

\* A video that is processed has its source object under the key its row
\* names, wherever its creation was cut off and whatever was asked for
\* meanwhile (video/service.go:119-136, 173-180).
THEOREM ProcessedVideosHaveSource == CatalogueSpec => []ProcessedHasSource
<1>1. CatalogueInv => ProcessedHasSource
  BY DEF CatalogueInv, SourceInv
<1> QED
  BY <1>1, CatalogueInvariant, PTL

\* An update that no other request for the video crossed changes only what
\* it names ("Fields that were left out keep their stored value",
\* video/service.go:390).
THEOREM UpdatesKeepTheRest == CatalogueSpec => LeftOutKept
<1> DEFINE Kept(h) ==
      LET q == requests[h]
      IN  /\ q.patch.category = None => videos'[q.video].category = videos[q.video].category
          /\ q.patch.tags = None => videos'[q.video].tags = videos[q.video].tags
<1>1. ASSUME CatalogueInv, [CatalogueNext]_catalogueVars, NEW h \in Handlers,
             Is(h, "files"), h \notin touched, requests'[h] # requests[h]
      PROVE  Kept(h)
  <2> USE DEF CatalogueInv
  <2>1. ASSUME NEW g \in Handlers, NEW request, Goes(g, request) PROVE g = h
    BY <1>1, <2>1 DEF CatalogueTypeOK, Goes
  <2>2. File(h) \/ Fails(h)
    BY <1>1, <2>1, ZenonT(60)
    DEF CatalogueNext, SelectForNew, Create, ApplyNew, UpdateObjectKey, PresignPut, AskComplete,
        Stat, BeginProcessing, AskUpdate, Select, UpdateOwned, File, Fails, Upload, Delete,
        Ends, Goes, Is, videoVars, catalogueVars
  <2>3. CASE Fails(h)
    BY <2>3 DEF Fails
  <2>4. CASE File(h)
    <3>1. /\ requests[h].video \in Videos
          /\ requests[h].category \in Categories /\ requests[h].tags \in TagSets
      BY <1>1, RequestsCarry DEF Is
    <3>2. /\ requests[h].patch.category = None => requests[h].category = Row(h).category
          /\ requests[h].patch.tags = None => requests[h].tags = Row(h).tags
      BY <1>1 DEF FilingInv, Untouched
    <3>3. Row(h) \in Video
      BY <1>1, <3>1 DEF Row, CatalogueTypeOK
    <3>4. /\ videos'[requests[h].video].category = requests[h].category
          /\ videos'[requests[h].video].tags = requests[h].tags
      BY <1>1, <2>4, <3>1, <3>3, FiledRow DEF File, CatalogueTypeOK
    <3> QED
      BY <3>2, <3>4 DEF Row
  <2> QED
    BY <2>2, <2>3, <2>4
<1>2. ASSUME CatalogueInv, [CatalogueNext]_catalogueVars
      PROVE  [\A h \in Handlers :
                Is(h, "files") /\ h \notin touched /\ requests'[h] # requests[h] => Kept(h)
             ]_catalogueVars
  BY <1>1, <1>2
<1> QED
  BY <1>2, CatalogueInvariant, PTL DEF CatalogueSpec, LeftOutKept
=============================================================================
