------------------------------ MODULE Catalogue ------------------------------
(***************************************************************************)
(* How a video comes to be and what it is filed under: Create, Complete,   *)
(* Update and Delete of backend/internal/video/service.go with             *)
(* backend/internal/taxonomy, and the cached list of categories that       *)
(* authors choose from (JSONCache, whose source are the enabled ones).     *)
(*                                                                         *)
(* Create and Update are several transactions and calls, one after the     *)
(* other, and may end after any of them.  Checks that only read the        *)
(* request, titles, and what transcoding does next are left out: a video   *)
(* that was submitted stays "processing".  Tags are the set a request      *)
(* names, already normalized.                                              *)
(***************************************************************************)
EXTENDS JSONCache

CONSTANTS Videos,
          Categories,
          TagSets,
          NoTags,
          Patches,     \* what authors ask an update to set
          Handlers     \* requests for videos that are handled at once

ASSUME CatalogueAssumption ==
  /\ Values \subseteq SUBSET Categories
  /\ NoTags \in TagSets
  /\ None \notin Categories /\ None \notin TagSets

VARIABLES videos,   \* the table, with the tags of each
          offered,  \* videos whose upload URL was given out
          uploaded, \* videos whose source object is there
          requests, \* what each handler is at
          touched   \* handlers that update a video another request wrote meanwhile

videoVars == <<videos, offered, uploaded, requests, touched>>
catalogueVars == <<cacheVars, videoVars>>

Video == [status : {"none", "uploading", "processing", "deleted"},
          category : Categories \cup {None}, tags : TagSets, key : {"pending", "source"}]

Creation == [do : {"inserts", "applies", "keys", "presigns"}, video : Videos,
             category : Categories, tags : TagSets]

Completion == [do : {"stats"}, video : Videos, key : {"pending", "source"}]
         \cup [do : {"submits"}, video : Videos]

\* What an update sets; None: left out.
Patch == [category : Categories \cup {None}, tags : TagSets \cup {None}]

\* stored: the category ownedVideo found; category, tags: the selection.
Revision == [do : {"selects"}, video : Videos, patch : Patch, stored : Categories]
       \cup [do : {"writes", "files"}, video : Videos, patch : Patch,
             category : Categories, tags : TagSets]

CatalogueTypeOK ==
  /\ CacheTypeOK
  /\ videos \in [Videos -> Video]
  /\ \A v \in Videos : videos[v].status # "none" => videos[v].category # None
  /\ offered \subseteq Videos /\ uploaded \subseteq Videos
  /\ requests \in [Handlers -> Creation \cup Completion \cup Revision \cup {None}]
  /\ touched \subseteq Handlers

ASSUME CatalogueNoneAssumption == None \notin Creation \cup Completion \cup Revision

ASSUME PatchesAssumption == Patches \subseteq Patch

CatalogueInit ==
  /\ CacheInit
  /\ videos = [v \in Videos |-> [status |-> "none", category |-> None, tags |-> NoTags,
                                 key |-> "pending"]]
  /\ offered = {} /\ uploaded = {}
  /\ requests = [h \in Handlers |-> None]
  /\ touched = {}

-----------------------------------------------------------------------------
\* FindEnabledCategory, and the condition of ApplyVideo's locking read.
Enabled(c) == c \in source

\* The updates of ApplyVideo's transaction: the category, then the tags.
Filed(row, c, ts) == [[row EXCEPT !.category = c] EXCEPT !.tags = ts]

Is(h, step) == requests[h] # None /\ requests[h].do = step

Goes(h, request) == requests' = [requests EXCEPT ![h] = request]

Working(v) == {g \in Handlers : requests[g] # None /\ requests[g].video = v}

Updating(v) == {g \in Working(v) : requests[g].do \in {"selects", "writes", "files"}}

\* The handler writes its video's row or tags.
Writes(h, row) ==
  /\ videos' = [videos EXCEPT ![requests[h].video] = row]
  /\ touched' = touched \cup (Updating(requests[h].video) \ {h})

Row(h) == videos[requests[h].video]

Nothing == UNCHANGED <<cacheVars, videos, offered, uploaded, touched>>

Ends(h) ==
  /\ requests' = [requests EXCEPT ![h] = None]
  /\ touched' = touched \ {h}

\* An error ends the request; what it wrote stays.
Fails(h) ==
  /\ requests[h] # None
  /\ Ends(h)
  /\ UNCHANGED <<cacheVars, videos, offered, uploaded>>

-----------------------------------------------------------------------------
SelectForNew(h, v, c, ts) ==
  /\ requests[h] = None
  /\ videos[v].status = "none"
  /\ Working(v) = {}
  /\ Enabled(c)
  /\ Goes(h, [do |-> "inserts", video |-> v, category |-> c, tags |-> ts])
  /\ Nothing

Create(h) ==
  /\ Is(h, "inserts")
  /\ Writes(h, [status |-> "uploading", category |-> requests[h].category, tags |-> NoTags,
                key |-> "pending"])
  /\ Goes(h, [requests[h] EXCEPT !.do = "applies"])
  /\ UNCHANGED <<cacheVars, offered, uploaded>>

ApplyNew(h) ==
  /\ Is(h, "applies") /\ Enabled(requests[h].category)
  /\ Writes(h, Filed(Row(h), requests[h].category, requests[h].tags))
  /\ Goes(h, [requests[h] EXCEPT !.do = "keys"])
  /\ UNCHANGED <<cacheVars, offered, uploaded>>

UpdateObjectKey(h) ==
  /\ Is(h, "keys")
  /\ Writes(h, [Row(h) EXCEPT !.key = "source"])
  /\ Goes(h, [requests[h] EXCEPT !.do = "presigns"])
  /\ UNCHANGED <<cacheVars, offered, uploaded>>

PresignPut(h) ==
  /\ Is(h, "presigns")
  /\ offered' = offered \cup {requests[h].video}
  /\ Ends(h)
  /\ UNCHANGED <<cacheVars, videos, uploaded>>

\* The browser, to the object store.
Upload(v) ==
  /\ v \in offered
  /\ uploaded' = uploaded \cup {v}
  /\ UNCHANGED <<cacheVars, videos, offered, requests, touched>>

-----------------------------------------------------------------------------
AskComplete(h, v) ==
  /\ requests[h] = None
  /\ videos[v].status = "uploading"
  /\ Goes(h, [do |-> "stats", video |-> v, key |-> videos[v].key])
  /\ Nothing

\* Mutated: the object is not looked for.
TakenForGranted(h) == TRUE
Found(h) == requests[h].key = "source" /\ requests[h].video \in uploaded

Stat(h) ==
  /\ Is(h, "stats") /\ Found(h)
  /\ Goes(h, [do |-> "submits", video |-> requests[h].video])
  /\ Nothing

BeginProcessing(h) ==
  /\ Is(h, "submits") /\ Row(h).status = "uploading"
  /\ videos' = [videos EXCEPT ![requests[h].video].status = "processing"]
  /\ Ends(h)
  /\ UNCHANGED <<cacheVars, offered, uploaded>>

-----------------------------------------------------------------------------
\* ownedVideo.
AskUpdate(h, v, patch) ==
  /\ requests[h] = None
  /\ videos[v].status \notin {"none", "deleted"}
  /\ patch.category # None \/ patch.tags # None
  /\ Goes(h, [do |-> "selects", video |-> v, patch |-> patch, stored |-> videos[v].category])
  /\ UNCHANGED <<cacheVars, videos, offered, uploaded, touched>>

\* Mutated: tags that are left out are no tags.
TagsOrNone(h) == IF requests[h].patch.tags # None THEN requests[h].patch.tags ELSE NoTags
SelectedTags(h) == IF requests[h].patch.tags # None THEN requests[h].patch.tags ELSE Row(h).tags

SelectedCategory(h) ==
  IF requests[h].patch.category # None THEN requests[h].patch.category ELSE requests[h].stored

\* ForVideos and ValidateSelection.
Select(h) ==
  /\ Is(h, "selects")
  /\ Enabled(SelectedCategory(h))
  /\ Goes(h, [do |-> "writes", video |-> requests[h].video, patch |-> requests[h].patch,
              category |-> SelectedCategory(h), tags |-> SelectedTags(h)])
  /\ Nothing

UpdateOwned(h) ==
  /\ Is(h, "writes") /\ Row(h).status # "deleted"
  /\ IF requests[h].patch.category # None
     THEN Writes(h, [Row(h) EXCEPT !.category = requests[h].patch.category])
     ELSE UNCHANGED <<videos, touched>>
  /\ Goes(h, [requests[h] EXCEPT !.do = "files"])
  /\ UNCHANGED <<cacheVars, offered, uploaded>>

\* ApplyVideo writes both, whichever was asked for.
File(h) ==
  /\ Is(h, "files") /\ Enabled(requests[h].category)
  /\ LET row == Filed(Row(h), requests[h].category, requests[h].tags)
     IN  videos' = [videos EXCEPT ![requests[h].video] = row]
  /\ requests' = [requests EXCEPT ![h] = None]
  /\ touched' = (touched \cup Updating(requests[h].video)) \ {h}
  /\ UNCHANGED <<cacheVars, offered, uploaded>>

Delete(v) ==
  /\ videos[v].status \notin {"none", "deleted"}
  /\ videos' = [videos EXCEPT ![v].status = "deleted"]
  /\ UNCHANGED <<cacheVars, offered, uploaded, requests, touched>>

CatalogueNext ==
  \/ \E h \in Handlers :
       \/ \E v \in Videos, c \in Categories, ts \in TagSets : SelectForNew(h, v, c, ts)
       \/ Create(h) \/ ApplyNew(h) \/ UpdateObjectKey(h) \/ PresignPut(h)
       \/ \E v \in Videos : AskComplete(h, v) \/ \E patch \in Patches : AskUpdate(h, v, patch)
       \/ Stat(h) \/ BeginProcessing(h)
       \/ Select(h) \/ UpdateOwned(h) \/ File(h) \/ Fails(h)
  \/ \E v \in Videos : Upload(v) \/ Delete(v)
  \/ (CacheNext \/ \E value \in Values : ChangeSource(value)) /\ UNCHANGED videoVars

CatalogueSpec == CatalogueInit /\ [][CatalogueNext]_catalogueVars

\* A load ends, by itself or by loaderTimeout, and Redis drops expired keys.
FairCatalogueSpec ==
  /\ CatalogueSpec
  /\ \A s \in Servers :
       WF_catalogueVars((LoadStep(s) \/ LoadFails(s)) /\ UNCHANGED videoVars)
  /\ WF_catalogueVars(Expire /\ UNCHANGED videoVars)

-----------------------------------------------------------------------------
(***************************************************************************)
(* PROPERTIES                                                              *)
(***************************************************************************)
\* A video that is processed has its source object under the key its row
\* names, wherever its creation was cut off and whatever was asked for
\* meanwhile (video/service.go:119-136, 173-180).
ProcessedHasSource ==
  \A v \in Videos : videos[v].status = "processing" => v \in uploaded /\ videos[v].key = "source"

\* An update that no other request for the video crossed changes only what
\* it names ("Fields that were left out keep their stored value",
\* video/service.go:390).
LeftOutKept ==
  [][\A h \in Handlers :
       Is(h, "files") /\ h \notin touched /\ requests'[h] # requests[h] =>
         LET q == requests[h]
         IN  /\ q.patch.category = None => videos'[q.video].category = videos[q.video].category
             /\ q.patch.tags = None => videos'[q.video].tags = videos[q.video].tags
    ]_catalogueVars
=============================================================================
