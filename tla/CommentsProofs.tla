---------------------------- MODULE CommentsProofs ----------------------------
(***************************************************************************)
(* Proofs about Comments, for any users, handlers, kinds of relation,      *)
(* request ids and number of comments: a request id is worth one comment,  *)
(* counters and daily numbers are what the rows say, and everybody whom a  *)
(* comment concerns is told of it once.                                    *)
(***************************************************************************)
EXTENDS Comments, FiniteSetTheorems, TLAPS

\* A reply in hand replies to a comment that is there.
ParentsExist ==
  \A h \in Handlers : pending[h] \in CommentRequest => pending[h].parent <= Len(comments)

RequestInv == CommentsTypeOK /\ ParentsExist /\ OneCommentPerRequest

\* The new row of CreateComment.
NewComment(r, id) ==
  [user |-> r.user, request |-> r.request, parent |-> r.parent,
   root |-> ThreadOf(r.parent, id), deleted |-> FALSE, hidden |-> FALSE]

\* The steps of CommentsNext, one by one.
LEMMA Steps ==
  ASSUME CommentsNext
  PROVE  \/ SetListed
         \/ \E h \in Handlers, u \in Users, q \in RequestIDs \cup {None}, parent \in 0..Len(comments) :
              EnsureEngageable(h, [user |-> u, request |-> q, parent |-> parent])
         \/ \E h \in Handlers, u \in Users, k \in Kinds, active \in BOOLEAN :
              EnsureEngageable(h, [user |-> u, kind |-> k, active |-> active])
         \/ \E h \in Handlers : CreateComment(h) \/ SetRelation(h) \/ Refused(h)
         \/ \E c \in DOMAIN comments : DeleteComment(c) \/ HideComment(c) \/ RestoreComment(c)
  BY DEF CommentsNext

\* What CreateComment does to the table.
LEMMA Created ==
  ASSUME CommentsTypeOK, ParentsExist, NEW h \in Handlers, CreateComment(h)
  PROVE  /\ pending[h] \in CommentRequest
         /\ Len(comments) + 1 \in IDs
         /\ NewComment(pending[h], Len(comments) + 1) \in Comment
         /\ comments' = Append(comments, NewComment(pending[h], Len(comments) + 1))
         /\ comments' \in Seq(Comment)
         /\ Len(comments') = Len(comments) + 1
         /\ \A c \in DOMAIN comments : comments'[c] = comments[c]
         /\ comments'[Len(comments) + 1] = NewComment(pending[h], Len(comments) + 1)
  <1> DEFINE r == pending[h]
             id == Len(comments) + 1
  <1>1. comments \in Seq(Comment) /\ Len(comments) \in Nat /\ MaxComments \in Nat
    BY CommentsAssumption DEF CommentsTypeOK
  <1>2. r \in CommentRequest /\ id <= MaxComments /\ comments' = Append(comments, NewComment(r, id))
    BY DEF CreateComment, NewComment
  <1>3. id \in IDs
    BY <1>1, <1>2 DEF IDs
  <1>4. r.parent \in 0..MaxComments /\ r.parent <= Len(comments)
    BY <1>2 DEF CommentRequest, ParentsExist
  <1>5. ThreadOf(r.parent, id) \in IDs
    <2>1. CASE r.parent = 0
      BY <1>3, <2>1 DEF ThreadOf
    <2>2. CASE r.parent # 0
      <3>1. r.parent \in 1..Len(comments)
        BY <1>1, <1>4, <2>2
      <3>2. comments[r.parent] \in Comment
        BY <1>1, <3>1
      <3> QED  BY <2>2, <3>2 DEF ThreadOf, Comment
    <2> QED  BY <2>1, <2>2
  <1>6. NewComment(r, id) \in Comment
    BY <1>2, <1>5 DEF NewComment, Comment, CommentRequest
  <1> QED  BY <1>1, <1>2, <1>3, <1>6

\* What the three actions on a comment do to the table.
LEMMA Changed ==
  ASSUME CommentsTypeOK, NEW c \in DOMAIN comments,
         DeleteComment(c) \/ HideComment(c) \/ RestoreComment(c)
  PROVE  /\ comments' \in Seq(Comment)
         /\ Len(comments') = Len(comments)
         /\ DOMAIN comments' = DOMAIN comments
         /\ \A d \in DOMAIN comments :
              /\ d # c => comments'[d] = comments[d]
              /\ comments'[d].user = comments[d].user
              /\ comments'[d].request = comments[d].request
              /\ comments'[d].parent = comments[d].parent
  <1>1. comments \in Seq(Comment) /\ c \in 1..Len(comments) /\ Len(comments) \in Nat
    BY DEF CommentsTypeOK
  <1>2. comments[c] \in Comment
    BY <1>1
  <1>3. PICK row \in Comment :
          /\ comments' = [comments EXCEPT ![c] = row]
          /\ row.user = comments[c].user /\ row.request = comments[c].request
          /\ row.parent = comments[c].parent
    <2>1. CASE DeleteComment(c)
      <3> DEFINE row == [comments[c] EXCEPT !.deleted = TRUE]
      <3>1. /\ row \in Comment /\ row.user = comments[c].user
            /\ row.request = comments[c].request /\ row.parent = comments[c].parent
        BY <1>2 DEF Comment
      <3>2. comments' = [comments EXCEPT ![c] = row]
        BY <2>1 DEF DeleteComment
      <3> QED  BY <3>1, <3>2
    <2>2. CASE HideComment(c)
      <3> DEFINE row == [comments[c] EXCEPT !.hidden = TRUE]
      <3>1. /\ row \in Comment /\ row.user = comments[c].user
            /\ row.request = comments[c].request /\ row.parent = comments[c].parent
        BY <1>2 DEF Comment
      <3>2. comments' = [comments EXCEPT ![c] = row]
        BY <2>2 DEF HideComment
      <3> QED  BY <3>1, <3>2
    <2>3. CASE RestoreComment(c)
      <3> DEFINE row == [comments[c] EXCEPT !.hidden = FALSE]
      <3>1. /\ row \in Comment /\ row.user = comments[c].user
            /\ row.request = comments[c].request /\ row.parent = comments[c].parent
        BY <1>2 DEF Comment
      <3>2. comments' = [comments EXCEPT ![c] = row]
        BY <2>3 DEF RestoreComment
      <3> QED  BY <3>1, <3>2
    <2> QED  BY <2>1, <2>2, <2>3
  <1>4. comments' \in Seq(Comment) /\ Len(comments') = Len(comments)
    BY <1>1, <1>3
  <1>5. \A d \in 1..Len(comments) : d # c => comments'[d] = comments[d]
    BY <1>1, <1>3
  <1>6. comments'[c] = row
    BY <1>1, <1>3
  <1> QED  BY <1>1, <1>3, <1>4, <1>5, <1>6

-----------------------------------------------------------------------------
(***************************************************************************)
(* One comment for each request id.                                        *)
(***************************************************************************)

LEMMA InitRequest == CommentsInit => RequestInv
  <1> SUFFICES ASSUME CommentsInit PROVE RequestInv
    OBVIOUS
  <1>1. comments = << >> /\ Len(comments) = 0 /\ comments \in Seq(Comment) /\ DOMAIN comments = {}
    BY DEF CommentsInit
  <1>2. CommentsTypeOK
    <2>1. receipts \in [Users -> [RequestIDs -> 0..MaxComments]]
      BY CommentsAssumption DEF CommentsInit
    <2> QED  BY <1>1, <2>1, CommentsAssumption DEF CommentsInit, CommentsTypeOK
  <1>3. ParentsExist
    <2> SUFFICES ASSUME NEW h \in Handlers, pending[h] \in CommentRequest
                 PROVE  pending[h].parent <= Len(comments)
      BY DEF ParentsExist
    <2>1. pending[h] = None
      BY DEF CommentsInit
    <2> QED  BY <2>1, NoneAssumption
  <1>4. OneCommentPerRequest
    BY <1>1 DEF OneCommentPerRequest
  <1> QED  BY <1>2, <1>3, <1>4 DEF RequestInv

\* A request for a relation is none for a comment.
LEMMA RequestsDiffer ==
  ASSUME NEW u, NEW k, NEW active
  PROVE  [user |-> u, kind |-> k, active |-> active] \notin CommentRequest
  <1>1. "kind" \in DOMAIN [user |-> u, kind |-> k, active |-> active]
    OBVIOUS
  <1>2. \A r \in CommentRequest : DOMAIN r = {"user", "request", "parent"}
    BY DEF CommentRequest
  <1> QED  BY <1>1, <1>2

\* Requests in hand stay, and what is new of them is a reply to what is there.
LEMMA Beginning ==
  ASSUME RequestInv, NEW h \in Handlers, NEW request \in CommentRequest \cup RelationRequest,
         request \in CommentRequest => request.parent <= Len(comments),
         EnsureEngageable(h, request)
  PROVE  RequestInv'
  <1>1. pending' = [pending EXCEPT ![h] = request] /\ UNCHANGED <<listed, tableVars, relationVars>>
    BY DEF EnsureEngageable
  <1>2. CommentsTypeOK'
    BY <1>1 DEF RequestInv, CommentsTypeOK, tableVars, relationVars
  <1>3. ParentsExist'
    BY <1>1 DEF RequestInv, ParentsExist, CommentsTypeOK, tableVars
  <1>4. OneCommentPerRequest'
    BY <1>1 DEF RequestInv, OneCommentPerRequest, tableVars
  <1> QED  BY <1>2, <1>3, <1>4 DEF RequestInv

\* A request that ends leaves the others as they are.
LEMMA Ending ==
  ASSUME CommentsTypeOK, ParentsExist, NEW h \in Handlers, Ends(h),
         comments' \in Seq(Comment), Len(comments') >= Len(comments)
  PROVE  /\ pending' \in [Handlers -> CommentRequest \cup RelationRequest \cup {None}]
         /\ listed' \in BOOLEAN
         /\ ParentsExist'
  <1>1. pending' = [pending EXCEPT ![h] = None] /\ listed' = listed
    BY DEF Ends
  <1>2. /\ pending' \in [Handlers -> CommentRequest \cup RelationRequest \cup {None}]
        /\ listed' \in BOOLEAN
    BY <1>1 DEF CommentsTypeOK
  <1>3. ASSUME NEW i \in Handlers, pending'[i] \in CommentRequest
        PROVE  pending'[i].parent <= Len(comments')
    <2>1. i # h
      BY <1>1, <1>3, NoneAssumption DEF CommentsTypeOK
    <2>2. pending'[i] = pending[i]
      BY <1>1, <2>1 DEF CommentsTypeOK
    <2>3. pending[i].parent <= Len(comments) /\ pending[i].parent \in Nat
      BY <1>3, <2>2 DEF ParentsExist, CommentRequest
    <2>4. Len(comments) \in Nat /\ Len(comments') \in Nat
      BY DEF CommentsTypeOK
    <2> QED  BY <2>2, <2>3, <2>4
  <1> QED  BY <1>2, <1>3 DEF ParentsExist

\* The step that matters: the unique key of the receipts.
LEMMA CreateOnce ==
  ASSUME RequestInv, NEW h \in Handlers, CreateComment(h)
  PROVE  RequestInv'
  <1> DEFINE r == pending[h]
             id == Len(comments) + 1
  <1>0. CommentsTypeOK /\ ParentsExist /\ OneCommentPerRequest
    BY DEF RequestInv
  <1>1. /\ r \in CommentRequest /\ id \in IDs
        /\ NewComment(r, id) \in Comment
        /\ comments' = Append(comments, NewComment(r, id))
        /\ comments' \in Seq(Comment) /\ Len(comments') = id
        /\ \A c \in DOMAIN comments : comments'[c] = comments[c]
        /\ comments'[id] = NewComment(r, id)
    BY <1>0, Created
  <1>2. r.user \in Users /\ r.request \in RequestIDs \cup {None}
    BY <1>1 DEF CommentRequest
  <1>3. /\ FirstRequest(r.user, r.request)
        /\ receipts' = IF r.request = None THEN receipts
                       ELSE [receipts EXCEPT ![r.user][r.request] = id]
        /\ commentCount' = commentCount + 1 /\ netComments' = netComments + 1
        /\ notices' = notices \cup Notices(r.user, id, Told(r.parent))
        /\ id <= MaxComments /\ Ends(h) /\ UNCHANGED relationVars
    BY DEF CreateComment
  <1>4. /\ pending' \in [Handlers -> CommentRequest \cup RelationRequest \cup {None}]
        /\ listed' \in BOOLEAN /\ ParentsExist'
    <2>1. Len(comments') >= Len(comments)
      BY <1>0, <1>1 DEF CommentsTypeOK
    <2> QED  BY <1>0, <1>1, <1>3, <2>1, Ending
  <1>5. receipts' \in [Users -> [RequestIDs -> 0..MaxComments]]
    <2>1. id \in 0..MaxComments
      BY <1>1, CommentsAssumption DEF IDs
    <2>2. CASE r.request = None
      BY <1>0, <1>3, <2>2 DEF CommentsTypeOK
    <2>3. CASE r.request # None
      BY <1>0, <1>2, <1>3, <2>1, <2>3 DEF CommentsTypeOK
    <2> QED  BY <2>2, <2>3
  <1>6. notices' \subseteq Notice
    <2>1. Told(r.parent) \subseteq Users \X {"author", "reply"}
      <3>1. CASE r.parent = 0
        BY <3>1, CommentsAssumption DEF Told
      <3>2. CASE r.parent # 0
        <4>1. r.parent \in 1..Len(comments) /\ comments \in Seq(Comment)
          BY <1>0, <1>1, <3>2 DEF ParentsExist, CommentRequest, CommentsTypeOK
        <4>2. comments[r.parent] \in Comment
          BY <4>1
        <4>3. comments[r.parent].user \in Users
          BY <4>2 DEF Comment
        <4> QED  BY <3>2, <4>3, CommentsAssumption DEF Told
      <3> QED  BY <3>1, <3>2
    <2>2. Notices(r.user, id, Told(r.parent)) \subseteq Notice
      BY <1>1, <2>1 DEF Notices, Notice
    <2> QED  BY <1>0, <1>3, <2>2 DEF CommentsTypeOK
  <1>7. CommentsTypeOK'
    BY <1>0, <1>1, <1>3, <1>4, <1>5, <1>6 DEF CommentsTypeOK, relationVars
  <1>8. OneCommentPerRequest'
    <2>1. DOMAIN comments' = DOMAIN comments \cup {id} /\ id \notin DOMAIN comments
      BY <1>0, <1>1 DEF CommentsTypeOK
    <2>2. comments'[id].user = r.user /\ comments'[id].request = r.request
      BY <1>1 DEF NewComment
    <2>3. ASSUME NEW c \in DOMAIN comments, comments[c].request # None
          PROVE  /\ comments[c].user \in Users /\ comments[c].request \in RequestIDs
                 /\ receipts[comments[c].user][comments[c].request] = c
                 /\ c # 0
                 /\ ~(comments[c].user = r.user /\ comments[c].request = r.request)
      <3>1. comments[c] \in Comment /\ c # 0
        BY <1>0 DEF CommentsTypeOK
      <3>2. comments[c].user \in Users /\ comments[c].request \in RequestIDs
        BY <2>3, <3>1 DEF Comment
      <3>3. receipts[comments[c].user][comments[c].request] = c
        BY <1>0, <2>3 DEF OneCommentPerRequest
      <3> QED  BY <1>3, <2>3, <3>1, <3>2, <3>3 DEF FirstRequest
    <2>4. ASSUME NEW c \in DOMAIN comments', comments'[c].request # None
          PROVE  receipts'[comments'[c].user][comments'[c].request] = c
      <3>1. CASE c = id
        BY <1>0, <1>2, <1>3, <2>2, <2>4, <3>1 DEF CommentsTypeOK
      <3>2. CASE c # id
        <4>1. c \in DOMAIN comments /\ comments'[c] = comments[c]
          BY <1>1, <2>1, <3>2
        <4>2. /\ comments[c].user \in Users /\ comments[c].request \in RequestIDs
              /\ receipts[comments[c].user][comments[c].request] = c
              /\ ~(comments[c].user = r.user /\ comments[c].request = r.request)
          BY <2>3, <2>4, <4>1
        <4> QED  BY <1>0, <1>2, <1>3, <4>1, <4>2 DEF CommentsTypeOK
      <3> QED  BY <3>1, <3>2
    <2>5. ASSUME NEW c \in DOMAIN comments', comments'[c].request # None, NEW d \in DOMAIN comments',
                 comments'[d].user = comments'[c].user, comments'[d].request = comments'[c].request
          PROVE  d = c
      <3>1. receipts'[comments'[c].user][comments'[c].request] = c
        BY <2>4, <2>5
      <3>2. comments'[d].request # None
        BY <2>5
      <3>3. receipts'[comments'[d].user][comments'[d].request] = d
        BY <2>4, <3>2
      <3> QED  BY <2>5, <3>1, <3>3
    <2> QED  BY <2>4, <2>5 DEF OneCommentPerRequest
  <1> QED  BY <1>4, <1>7, <1>8 DEF RequestInv

\* The actions on a comment change neither its author nor its request.
LEMMA ChangeKeepsRequests ==
  ASSUME RequestInv, NEW c \in DOMAIN comments,
         DeleteComment(c) \/ HideComment(c) \/ RestoreComment(c)
  PROVE  RequestInv'
  <1>0. CommentsTypeOK /\ ParentsExist /\ OneCommentPerRequest
    BY DEF RequestInv
  <1>1. /\ comments' \in Seq(Comment) /\ Len(comments') = Len(comments)
        /\ DOMAIN comments' = DOMAIN comments
        /\ \A d \in DOMAIN comments : comments'[d].user = comments[d].user
                                      /\ comments'[d].request = comments[d].request
    BY <1>0, Changed
  <1>2. UNCHANGED <<listed, receipts, notices, relationVars, pending>>
    BY DEF DeleteComment, HideComment, RestoreComment
  <1>3. commentCount' \in Nat /\ netComments' \in Int
    <2>1. CASE DeleteComment(c)
      BY <1>0, <2>1 DEF DeleteComment, Dropped, CommentsTypeOK
    <2>2. CASE HideComment(c)
      BY <1>0, <2>2 DEF HideComment, CommentsTypeOK
    <2>3. CASE RestoreComment(c)
      BY <1>0, <2>3 DEF RestoreComment, CommentsTypeOK
    <2> QED  BY <2>1, <2>2, <2>3
  <1>4. CommentsTypeOK'
    BY <1>0, <1>1, <1>2, <1>3 DEF CommentsTypeOK, relationVars
  <1>5. ParentsExist'
    BY <1>0, <1>1, <1>2 DEF ParentsExist
  <1>6. OneCommentPerRequest'
    BY <1>0, <1>1, <1>2 DEF OneCommentPerRequest
  <1> QED  BY <1>4, <1>5, <1>6 DEF RequestInv

LEMMA RelationKeepsRequests ==
  ASSUME RequestInv, NEW h \in Handlers, SetRelation(h)
  PROVE  RequestInv'
  <1> DEFINE r == pending[h]
  <1>0. CommentsTypeOK /\ ParentsExist /\ OneCommentPerRequest
    BY DEF RequestInv
  <1>1. r \in RelationRequest /\ Ends(h) /\ UNCHANGED tableVars
    BY DEF SetRelation
  <1>2. /\ pending' \in [Handlers -> CommentRequest \cup RelationRequest \cup {None}]
        /\ listed' \in BOOLEAN /\ ParentsExist'
    <2>1. comments' \in Seq(Comment) /\ Len(comments') >= Len(comments)
      BY <1>0, <1>1 DEF CommentsTypeOK, tableVars
    <2> QED  BY <1>0, <1>1, <2>1, Ending
  <1>3. r.user \in Users /\ r.kind \in Kinds
    BY <1>1 DEF RelationRequest
  <1>4. /\ relations' \subseteq Users \X Kinds
        /\ counters' \in [Kinds -> Nat] /\ netRelations' \in [Kinds -> Int]
    <2>1. CASE ~Applies(r)
      BY <1>0, <2>1 DEF SetRelation, CommentsTypeOK, relationVars
    <2>2. CASE Applies(r) /\ r.active
      BY <1>0, <1>3, <2>2 DEF SetRelation, CommentsTypeOK
    <2>3. CASE Applies(r) /\ ~r.active
      BY <1>0, <1>3, <2>3 DEF SetRelation, CommentsTypeOK, Dropped
    <2> QED  BY <2>1, <2>2, <2>3
  <1>5. CommentsTypeOK'
    BY <1>0, <1>1, <1>2, <1>4 DEF CommentsTypeOK, tableVars
  <1>6. OneCommentPerRequest'
    BY <1>0, <1>1 DEF OneCommentPerRequest, tableVars
  <1> QED  BY <1>2, <1>5, <1>6 DEF RequestInv

LEMMA StepRequest == ASSUME RequestInv, [CommentsNext]_commentsVars PROVE RequestInv'
  <1>1. CASE UNCHANGED commentsVars
    BY <1>1 DEF RequestInv, CommentsTypeOK, ParentsExist, OneCommentPerRequest,
                commentsVars, tableVars, relationVars
  <1>2. CASE SetListed
    BY <1>2 DEF SetListed, RequestInv, CommentsTypeOK, ParentsExist, OneCommentPerRequest,
                tableVars, relationVars
  <1>3. ASSUME NEW h \in Handlers, NEW u \in Users, NEW q \in RequestIDs \cup {None},
               NEW parent \in 0..Len(comments),
               EnsureEngageable(h, [user |-> u, request |-> q, parent |-> parent])
        PROVE  RequestInv'
    <2> DEFINE request == [user |-> u, request |-> q, parent |-> parent]
    <2>1. parent \in 0..MaxComments /\ parent <= Len(comments)
      BY CommentsAssumption DEF RequestInv, CommentsTypeOK
    <2>2. request \in CommentRequest /\ request.parent <= Len(comments)
      BY <2>1 DEF CommentRequest
    <2> HIDE DEF request
    <2> QED  BY <1>3, <2>2, Beginning DEF request
  <1>4. ASSUME NEW h \in Handlers, NEW u \in Users, NEW k \in Kinds, NEW active \in BOOLEAN,
               EnsureEngageable(h, [user |-> u, kind |-> k, active |-> active])
        PROVE  RequestInv'
    <2>1. [user |-> u, kind |-> k, active |-> active] \in RelationRequest
      BY DEF RelationRequest
    <2> QED  BY <1>4, <2>1, RequestsDiffer, Beginning
  <1>5. ASSUME NEW h \in Handlers, CreateComment(h) PROVE RequestInv'
    BY <1>5, CreateOnce
  <1>6. ASSUME NEW h \in Handlers, SetRelation(h) PROVE RequestInv'
    BY <1>6, RelationKeepsRequests
  <1>7. ASSUME NEW h \in Handlers, Refused(h) PROVE RequestInv'
    <2>1. Ends(h) /\ UNCHANGED <<tableVars, relationVars>>
      BY <1>7 DEF Refused
    <2>2. CommentsTypeOK /\ ParentsExist /\ OneCommentPerRequest
      BY DEF RequestInv
    <2>3. comments' \in Seq(Comment) /\ Len(comments') >= Len(comments)
      BY <2>1, <2>2 DEF CommentsTypeOK, tableVars
    <2>4. /\ pending' \in [Handlers -> CommentRequest \cup RelationRequest \cup {None}]
          /\ listed' \in BOOLEAN /\ ParentsExist'
      BY <2>1, <2>2, <2>3, Ending
    <2>5. CommentsTypeOK'
      BY <2>1, <2>2, <2>4 DEF CommentsTypeOK, tableVars, relationVars
    <2>6. OneCommentPerRequest'
      BY <2>1, <2>2 DEF OneCommentPerRequest, tableVars
    <2> QED  BY <2>4, <2>5, <2>6 DEF RequestInv
  <1>8. ASSUME NEW c \in DOMAIN comments, DeleteComment(c) \/ HideComment(c) \/ RestoreComment(c)
        PROVE  RequestInv'
    BY <1>8, ChangeKeepsRequests
  <1> QED  BY <1>1, <1>2, <1>3, <1>4, <1>5, <1>6, <1>7, <1>8, Steps

\* The receipts and the table agree, inductively.
THEOREM RequestInvariant == CommentsSpec => []RequestInv
  <1>1. CommentsInit => RequestInv
    BY InitRequest
  <1>2. RequestInv /\ [CommentsNext]_commentsVars => RequestInv'
    BY StepRequest
  <1> QED  BY <1>1, <1>2, PTL DEF CommentsSpec

\* Counters, relations, receipts, notifications and requests are well formed
\* through everything authors, users and moderators do; in particular no
\* counter falls below 0, where its unsigned column would fail the transaction.
THEOREM CommentsTypeCorrect == CommentsSpec => []CommentsTypeOK
  <1>1. RequestInv => CommentsTypeOK
    BY DEF RequestInv
  <1> QED  BY <1>1, RequestInvariant, PTL

\* A request id is worth one comment, to which its receipt leads, however often
\* and simultaneously clients send it (createComment, SaveReceipt).
THEOREM RequestsAreOnce == CommentsSpec => []OneCommentPerRequest
  <1>1. RequestInv => OneCommentPerRequest
    BY DEF RequestInv
  <1> QED  BY <1>1, RequestInvariant, PTL

-----------------------------------------------------------------------------
(***************************************************************************)
(* The counters.                                                           *)
(***************************************************************************)

Fans(k) == {u \in Users : <<u, k>> \in relations}

LEMMA TableFinite ==
  ASSUME CommentsTypeOK
  PROVE  /\ IsFiniteSet(Remaining) /\ IsFiniteSet(Shown)
         /\ Cardinality(Remaining) \in Nat /\ Cardinality(Shown) \in Nat
  <1>1. IsFiniteSet(1..Len(comments)) /\ DOMAIN comments = 1..Len(comments)
    BY FS_Interval DEF CommentsTypeOK
  <1>2. Remaining \subseteq 1..Len(comments) /\ Shown \subseteq 1..Len(comments)
    BY <1>1 DEF Remaining, Shown
  <1>3. IsFiniteSet(Remaining) /\ IsFiniteSet(Shown)
    BY <1>1, <1>2, FS_Subset
  <1> QED  BY <1>3, FS_CardinalityType

LEMMA FansFinite == \A k : IsFiniteSet(Fans(k)) /\ Cardinality(Fans(k)) \in Nat
  <1> TAKE k
  <1>1. IsFiniteSet(Users) /\ Fans(k) \subseteq Users
    BY CommentsAssumption DEF Fans
  <1>2. IsFiniteSet(Fans(k))
    BY <1>1, FS_Subset
  <1> QED  BY <1>2, FS_CardinalityType

\* LedgersAgree, and CountNeverOver, with the sets named.
Counts ==
  /\ commentCount <= Cardinality(Shown)
  /\ netComments = Cardinality(Remaining)
  /\ \A k \in Kinds : counters[k] = Cardinality(Fans(k)) /\ netRelations[k] = Cardinality(Fans(k))

LEMMA InitCounts == CommentsInit => Counts
  <1> SUFFICES ASSUME CommentsInit PROVE Counts
    OBVIOUS
  <1>1. Remaining = {} /\ Shown = {}
    BY DEF CommentsInit, Remaining, Shown
  <1>2. \A k : Fans(k) = {}
    BY DEF CommentsInit, Fans
  <1>3. Cardinality({}) = 0
    BY FS_EmptySet
  <1>4. Cardinality(Shown) = 0 /\ Cardinality(Remaining) = 0 /\ \A k : Cardinality(Fans(k)) = 0
    BY <1>1, <1>2, <1>3
  <1> QED  BY <1>4 DEF Counts, CommentsInit

LEMMA CreateCounts ==
  ASSUME RequestInv, Counts, NEW h \in Handlers, CreateComment(h)
  PROVE  Counts'
  <1> DEFINE id == Len(comments) + 1
  <1>0. CommentsTypeOK /\ ParentsExist
    BY DEF RequestInv
  <1>1. /\ comments' \in Seq(Comment) /\ Len(comments') = id
        /\ \A c \in DOMAIN comments : comments'[c] = comments[c]
        /\ comments'[id] = NewComment(pending[h], id)
    BY <1>0, Created
  <1>2. DOMAIN comments' = DOMAIN comments \cup {id} /\ id \notin DOMAIN comments
    BY <1>0, <1>1 DEF CommentsTypeOK
  <1>3. ~comments'[id].deleted /\ ~comments'[id].hidden
    BY <1>1 DEF NewComment
  <1>4. Remaining' = Remaining \cup {id} /\ id \notin Remaining
    BY <1>1, <1>2, <1>3 DEF Remaining
  <1>5. Shown' = Shown \cup {id} /\ id \notin Shown
    BY <1>1, <1>2, <1>3, <1>4 DEF Shown, Remaining
  <1>6. /\ Cardinality(Remaining') = Cardinality(Remaining) + 1
        /\ Cardinality(Shown') = Cardinality(Shown) + 1
    BY <1>0, <1>4, <1>5, TableFinite, FS_AddElement
  <1>7. commentCount' = commentCount + 1 /\ netComments' = netComments + 1 /\ UNCHANGED relationVars
    BY DEF CreateComment
  <1>8. \A k : Fans(k)' = Fans(k)
    BY <1>7 DEF Fans, relationVars
  <1>9. commentCount' <= Cardinality(Shown')
    BY <1>0, <1>6, <1>7, TableFinite DEF Counts, CommentsTypeOK
  <1>10. netComments' = Cardinality(Remaining')
    BY <1>6, <1>7 DEF Counts
  <1> QED  BY <1>7, <1>8, <1>9, <1>10 DEF Counts, relationVars

LEMMA ChangeCounts ==
  ASSUME RequestInv, Counts, NEW c \in DOMAIN comments,
         DeleteComment(c) \/ HideComment(c) \/ RestoreComment(c)
  PROVE  Counts'
  <1>0. CommentsTypeOK /\ comments \in Seq(Comment) /\ commentCount \in Nat
    BY DEF RequestInv, CommentsTypeOK
  <1>1. /\ DOMAIN comments' = DOMAIN comments
        /\ \A d \in DOMAIN comments : d # c => comments'[d] = comments[d]
    BY <1>0, Changed
  <1>2. comments[c] \in Comment
    BY <1>0
  <1>3. \A k \in Kinds : Fans(k)' = Fans(k) /\ counters' = counters /\ netRelations' = netRelations
    BY DEF DeleteComment, HideComment, RestoreComment, Fans, relationVars
  <1>4. CASE DeleteComment(c)
    <2>1. ~comments[c].deleted /\ comments'[c] = [comments[c] EXCEPT !.deleted = TRUE]
      BY <1>0, <1>4 DEF DeleteComment
    <2>2. comments'[c].deleted
      BY <1>2, <2>1 DEF Comment
    <2>3. Remaining' = Remaining \ {c} /\ c \in Remaining /\ Shown' = Shown \ {c}
      BY <1>1, <2>1, <2>2 DEF Remaining, Shown
    <2>4. /\ Cardinality(Remaining') = Cardinality(Remaining) - 1
          /\ Cardinality(Shown') = IF c \in Shown THEN Cardinality(Shown) - 1 ELSE Cardinality(Shown)
      BY <1>0, <2>3, TableFinite, FS_RemoveElement
    <2>5. commentCount' = Dropped(commentCount) /\ netComments' = netComments - 1
      BY <1>4 DEF DeleteComment
    <2>6. Cardinality(Shown') \in Nat
      <3>1. IsFiniteSet(Shown')
        BY <1>0, <2>3, TableFinite, FS_RemoveElement
      <3> QED  BY <3>1, FS_CardinalityType
    <2>7. commentCount' <= Cardinality(Shown')
      BY <1>0, <2>4, <2>5, <2>6, TableFinite DEF Counts, Dropped
    <2>8. netComments' = Cardinality(Remaining')
      BY <2>4, <2>5 DEF Counts
    <2> QED  BY <1>3, <2>7, <2>8 DEF Counts
  <1>5. CASE HideComment(c)
    <2>1. /\ ~comments[c].deleted /\ comments[c].hidden # TRUE
          /\ comments'[c] = [comments[c] EXCEPT !.hidden = TRUE]
      BY <1>0, <1>5 DEF HideComment, Becomes
    <2>2. comments'[c].hidden /\ comments'[c].deleted = comments[c].deleted /\ ~comments[c].hidden
      BY <1>2, <2>1 DEF Comment
    <2>3. Remaining' = Remaining
      BY <1>1, <2>2 DEF Remaining
    <2>4. Shown' = Shown \ {c} /\ c \in Shown
      BY <1>1, <2>1, <2>2, <2>3 DEF Shown, Remaining
    <2>5. Cardinality(Shown') = Cardinality(Shown) - 1
      BY <1>0, <2>4, TableFinite, FS_RemoveElement
    <2>6. commentCount' = commentCount - 1 /\ netComments' = netComments
      BY <1>5 DEF HideComment
    <2>7. commentCount' <= Cardinality(Shown')
      BY <1>0, <2>5, <2>6, TableFinite DEF Counts
    <2> QED  BY <1>3, <2>3, <2>6, <2>7 DEF Counts
  <1>6. CASE RestoreComment(c)
    <2>1. /\ ~comments[c].deleted /\ comments[c].hidden # FALSE
          /\ comments'[c] = [comments[c] EXCEPT !.hidden = FALSE]
      BY <1>0, <1>6 DEF RestoreComment, Becomes
    <2>2. ~comments'[c].hidden /\ comments'[c].deleted = comments[c].deleted /\ comments[c].hidden
      BY <1>2, <2>1 DEF Comment
    <2>3. Remaining' = Remaining
      BY <1>1, <2>2 DEF Remaining
    <2>4. Shown' = Shown \cup {c} /\ c \notin Shown
      BY <1>1, <2>1, <2>2, <2>3 DEF Shown, Remaining
    <2>5. Cardinality(Shown') = Cardinality(Shown) + 1
      BY <1>0, <2>4, TableFinite, FS_AddElement
    <2>6. commentCount' = commentCount + 1 /\ netComments' = netComments
      BY <1>6 DEF RestoreComment
    <2>7. commentCount' <= Cardinality(Shown')
      BY <1>0, <2>5, <2>6, TableFinite DEF Counts
    <2> QED  BY <1>3, <2>3, <2>6, <2>7 DEF Counts
  <1> QED  BY <1>4, <1>5, <1>6

LEMMA RelationCounts ==
  ASSUME RequestInv, Counts, NEW h \in Handlers, SetRelation(h)
  PROVE  Counts'
  <1> DEFINE r == pending[h]
             row == <<r.user, r.kind>>
  <1>0. CommentsTypeOK
    BY DEF RequestInv
  <1>1. r \in RelationRequest /\ UNCHANGED tableVars
    BY DEF SetRelation
  <1>2. r.user \in Users /\ r.kind \in Kinds /\ r.active \in BOOLEAN
    BY <1>1 DEF RelationRequest
  <1>3. /\ Remaining' = Remaining /\ Shown' = Shown
        /\ commentCount' = commentCount /\ netComments' = netComments
    BY <1>1 DEF Remaining, Shown, tableVars
  <1>4. SUFFICES ASSUME NEW k \in Kinds
                 PROVE  counters'[k] = Cardinality(Fans(k)') /\ netRelations'[k] = Cardinality(Fans(k)')
    BY <1>3 DEF Counts
  <1>5. counters[k] = Cardinality(Fans(k)) /\ netRelations[k] = Cardinality(Fans(k))
    BY DEF Counts
  <1>6. /\ counters \in [Kinds -> Nat] /\ netRelations \in [Kinds -> Int]
        /\ relations \subseteq Users \X Kinds
    BY <1>0 DEF CommentsTypeOK
  <1>7. CASE ~Applies(r)
    <2>1. UNCHANGED relationVars
      BY <1>7 DEF SetRelation
    <2> QED  BY <1>5, <2>1 DEF relationVars, Fans
  <1>8. CASE Applies(r) /\ r.active
    <2>1. /\ relations' = relations \cup {row} /\ row \notin relations
          /\ counters' = [counters EXCEPT ![r.kind] = @ + 1]
          /\ netRelations' = [netRelations EXCEPT ![r.kind] = @ + 1]
      BY <1>8 DEF SetRelation, Applies
    <2>2. CASE k = r.kind
      <3>1. Fans(k)' = Fans(k) \cup {r.user} /\ r.user \notin Fans(k)
        BY <1>2, <2>1, <2>2 DEF Fans
      <3>2. Cardinality(Fans(k)') = Cardinality(Fans(k)) + 1
        BY <3>1, FansFinite, FS_AddElement
      <3> QED  BY <1>2, <1>5, <1>6, <2>1, <2>2, <3>2
    <2>3. CASE k # r.kind
      <3>1. Fans(k)' = Fans(k)
        BY <2>1, <2>3 DEF Fans
      <3> QED  BY <1>5, <1>6, <2>1, <2>3, <3>1
    <2> QED  BY <2>2, <2>3
  <1>9. CASE Applies(r) /\ ~r.active
    <2>1. /\ relations' = relations \ {row} /\ row \in relations
          /\ counters' = [counters EXCEPT ![r.kind] = Dropped(@)]
          /\ netRelations' = [netRelations EXCEPT ![r.kind] = @ - 1]
      BY <1>2, <1>9 DEF SetRelation, Applies
    <2>2. CASE k = r.kind
      <3>1. Fans(k)' = Fans(k) \ {r.user} /\ r.user \in Fans(k)
        BY <1>2, <2>1, <2>2 DEF Fans
      <3>2. Cardinality(Fans(k)') = Cardinality(Fans(k)) - 1
        BY <3>1, FansFinite, FS_RemoveElement
      <3>3. Cardinality(Fans(k)) # 0
        BY <3>1, FansFinite, FS_EmptySet
      <3>4. counters'[k] = counters[k] - 1 /\ netRelations'[k] = netRelations[k] - 1
        BY <1>2, <1>5, <1>6, <2>1, <2>2, <3>3 DEF Dropped
      <3> QED  BY <1>5, <3>2, <3>4
    <2>3. CASE k # r.kind
      <3>1. Fans(k)' = Fans(k)
        BY <2>1, <2>3 DEF Fans
      <3> QED  BY <1>5, <1>6, <2>1, <2>3, <3>1
    <2> QED  BY <2>2, <2>3
  <1> QED  BY <1>2, <1>7, <1>8, <1>9

\* What changes neither the table nor the relations.
LEMMA OthersCount ==
  ASSUME Counts, UNCHANGED <<tableVars, relationVars>>
  PROVE  Counts'
  <1>1. Remaining' = Remaining /\ Shown' = Shown /\ \A k : Fans(k)' = Fans(k)
    BY DEF Remaining, Shown, Fans, tableVars, relationVars
  <1> QED  BY <1>1 DEF Counts, tableVars, relationVars

LEMMA StepCounts == ASSUME RequestInv, Counts, [CommentsNext]_commentsVars PROVE Counts'
  <1>1. CASE UNCHANGED commentsVars
    BY <1>1, OthersCount DEF commentsVars
  <1>2. CASE SetListed
    BY <1>2, OthersCount DEF SetListed
  <1>3. ASSUME NEW h \in Handlers, NEW request, EnsureEngageable(h, request) PROVE Counts'
    BY <1>3, OthersCount DEF EnsureEngageable
  <1>4. ASSUME NEW h \in Handlers, Refused(h) PROVE Counts'
    BY <1>4, OthersCount DEF Refused
  <1>5. ASSUME NEW h \in Handlers, CreateComment(h) PROVE Counts'
    BY <1>5, CreateCounts
  <1>6. ASSUME NEW h \in Handlers, SetRelation(h) PROVE Counts'
    BY <1>6, RelationCounts
  <1>7. ASSUME NEW c \in DOMAIN comments, DeleteComment(c) \/ HideComment(c) \/ RestoreComment(c)
        PROVE  Counts'
    BY <1>7, ChangeCounts
  <1> QED  BY <1>1, <1>2, <1>3, <1>4, <1>5, <1>6, <1>7, Steps

LEMMA CountsInvariant == CommentsSpec => []Counts
  <1>1. CommentsInit => Counts
    BY InitCounts
  <1>2. RequestInv /\ Counts /\ [CommentsNext]_commentsVars => Counts'
    BY StepCounts
  <1> QED  BY <1>1, <1>2, RequestInvariant, PTL DEF CommentsSpec

\* However deletions, hidings and restorings of comments interleave, and with
\* the decrement that stops at 0, comment_count never shows a comment that is
\* not there (dropCounter, applyTargetTx).
THEOREM CountIsNeverOver == CommentsSpec => []CountNeverOver
  <1>1. Counts => CountNeverOver
    BY DEF Counts, CountNeverOver
  <1> QED  BY <1>1, CountsInvariant, PTL

\* The counters of likes and favorites and the daily net numbers equal the rows
\* they count, through any repetition of mutate and DeleteComment.
THEOREM LedgersAlwaysAgree == CommentsSpec => []LedgersAgree
  <1>1. Counts => LedgersAgree
    BY DEF Counts, LedgersAgree, Fans
  <1> QED  BY <1>1, CountsInvariant, PTL

-----------------------------------------------------------------------------
(***************************************************************************)
(* Who is told.                                                            *)
(***************************************************************************)

\* The notices of a comment are those of its creation; what they were decided
\* by, the authors of the comment and of the one it replies to, does not change.
NoticesInv ==
  /\ \A n \in notices : n.about \in DOMAIN comments
  /\ \A c \in DOMAIN comments : \E parent \in {0} \cup DOMAIN comments :
       /\ comments[c].parent = parent
       /\ {n \in notices : n.about = c} = Notices(comments[c].user, c, Told(parent))

\* Rows stay what they are to those who are told of them.
LEMMA ToldStays ==
  ASSUME NEW parent \in {0} \cup DOMAIN comments,
         \A d \in DOMAIN comments : comments'[d].user = comments[d].user,
         0 \notin DOMAIN comments
  PROVE  Told(parent)' = Told(parent)
BY DEF Told

LEMMA SameNotices ==
  ASSUME CommentsTypeOK, NoticesInv, notices' = notices, DOMAIN comments' = DOMAIN comments,
         \A d \in DOMAIN comments : /\ comments'[d].user = comments[d].user
                                    /\ comments'[d].parent = comments[d].parent
  PROVE  NoticesInv'
<1>1. 0 \notin DOMAIN comments
  BY DEF CommentsTypeOK
<1>2. ASSUME NEW c \in DOMAIN comments
      PROVE  \E parent \in {0} \cup DOMAIN comments :
               /\ comments'[c].parent = parent
               /\ {n \in notices : n.about = c} = Notices(comments'[c].user, c, Told(parent)')
  <2>1. PICK parent \in {0} \cup DOMAIN comments :
          /\ comments[c].parent = parent
          /\ {n \in notices : n.about = c} = Notices(comments[c].user, c, Told(parent))
    BY DEF NoticesInv
  <2>2. Told(parent)' = Told(parent) /\ comments'[c].parent = parent
    BY <1>1, <2>1, ToldStays
  <2> QED
    BY <2>1, <2>2
<1> QED
  BY <1>2 DEF NoticesInv, Notices

\* The notices of a comment are about it.
LEMMA NoticesAbout ==
  ASSUME NEW user, NEW id, NEW told, NEW n \in Notices(user, id, told)
  PROVE  n.about = id
BY DEF Notices

LEMMA CreateNotices ==
  ASSUME RequestInv, NoticesInv, NEW h \in Handlers, CreateComment(h)
  PROVE  NoticesInv'
<1>1. PICK r \in CommentRequest, id \in IDs : r = pending[h] /\ id = Len(comments) + 1
  BY Created DEF RequestInv
<1>2. /\ comments \in Seq(Comment) /\ comments' \in Seq(Comment) /\ Len(comments') = id
      /\ \A c \in DOMAIN comments : comments'[c] = comments[c]
      /\ comments'[id] = NewComment(r, id)
      /\ r.parent \in 0..Len(comments)
  BY <1>1, Created DEF RequestInv, CommentsTypeOK, ParentsExist, CommentRequest
<1>3. /\ DOMAIN comments' = DOMAIN comments \cup {id} /\ id \notin DOMAIN comments
      /\ 0 \notin DOMAIN comments
  BY <1>1, <1>2
<1>4. r.parent \in {0} \cup DOMAIN comments
  BY <1>2
<1>5. comments'[id].user = r.user /\ comments'[id].parent = r.parent
  BY <1>2 DEF NewComment
<1>6. notices' = notices \cup Notices(r.user, id, Told(r.parent))
  BY <1>1 DEF CreateComment
<1>7. \A n \in notices : n.about \in DOMAIN comments
  BY DEF NoticesInv
<1>8. ASSUME NEW c \in DOMAIN comments
      PROVE  \E parent \in {0} \cup DOMAIN comments' :
               /\ comments'[c].parent = parent
               /\ {n \in notices' : n.about = c} = Notices(comments'[c].user, c, Told(parent)')
  <2>1. PICK parent \in {0} \cup DOMAIN comments :
          /\ comments[c].parent = parent
          /\ {n \in notices : n.about = c} = Notices(comments[c].user, c, Told(parent))
    BY DEF NoticesInv
  <2>2. Told(parent)' = Told(parent) /\ comments'[c] = comments[c]
    BY <1>2, <1>3, <2>1, ToldStays
  <2>3. {n \in notices' : n.about = c} = {n \in notices : n.about = c}
    BY <1>3, <1>6, NoticesAbout
  <2> QED
    BY <1>3, <2>1, <2>2, <2>3
<1>9. {n \in notices' : n.about = id} = Notices(r.user, id, Told(r.parent))
  BY <1>3, <1>6, <1>7, NoticesAbout
<1>10. Told(r.parent)' = Told(r.parent)
  BY <1>2, <1>3, <1>4, ToldStays
<1>11. ASSUME NEW c \in DOMAIN comments'
       PROVE  \E parent \in {0} \cup DOMAIN comments' :
                /\ comments'[c].parent = parent
                /\ {n \in notices' : n.about = c} = Notices(comments'[c].user, c, Told(parent)')
  BY <1>3, <1>4, <1>5, <1>8, <1>9, <1>10, ZenonT(60)
<1>12. \A n \in notices' : n.about \in DOMAIN comments'
  BY <1>3, <1>6, <1>7, NoticesAbout
<1> QED
  BY <1>11, <1>12 DEF NoticesInv, Notices

LEMMA StepNotices ==
  ASSUME RequestInv, NoticesInv, [CommentsNext]_commentsVars
  PROVE  NoticesInv'
<1>0. CommentsTypeOK
  BY DEF RequestInv
<1>1. CASE UNCHANGED <<comments, notices>>
  BY <1>0, <1>1, SameNotices
<1>2. CASE \/ UNCHANGED commentsVars \/ SetListed
           \/ \E h \in Handlers : SetRelation(h) \/ Refused(h)
           \/ \E h \in Handlers, u \in Users, q \in RequestIDs \cup {None},
                parent \in 0..Len(comments) :
                EnsureEngageable(h, [user |-> u, request |-> q, parent |-> parent])
           \/ \E h \in Handlers, u \in Users, k \in Kinds, active \in BOOLEAN :
                EnsureEngageable(h, [user |-> u, kind |-> k, active |-> active])
  BY <1>1, <1>2 DEF commentsVars, tableVars, SetListed, SetRelation, Refused, EnsureEngageable
<1>3. ASSUME NEW h \in Handlers, CreateComment(h) PROVE NoticesInv'
  BY <1>3, CreateNotices
<1>4. ASSUME NEW c \in DOMAIN comments, DeleteComment(c) \/ HideComment(c) \/ RestoreComment(c)
      PROVE  NoticesInv'
  <2>1. notices' = notices
    BY <1>4 DEF DeleteComment, HideComment, RestoreComment
  <2> QED
    BY <1>0, <1>4, <2>1, Changed, SameNotices
<1> QED
  BY <1>2, <1>3, <1>4, Steps

\* Of those concerned, each is in Told once, whatever they are in it for.
LEMMA ToldAgrees ==
  ASSUME CommentsTypeOK, NoticesInv, NEW c \in DOMAIN comments, NEW u \in Users
  PROVE  Cardinality({n \in notices : n.about = c /\ n.to = u})
           = IF u \in Concerned(c) \ {comments[c].user} THEN 1 ELSE 0
<1>1. PICK parent, user : parent = comments[c].parent /\ user = comments[c].user
  OBVIOUS
<1>2. \A n : n \in notices /\ n.about = c <=> n \in Notices(user, c, Told(parent))
  BY <1>1 DEF NoticesInv
<1>3. \A n : n \in notices /\ n.about = c /\ n.to = u <=>
        \E key \in {"author", "reply"} :
          n = [to |-> u, about |-> c, key |-> key] /\ u # user /\ <<u, key>> \in Told(parent)
  <2>1. \A t \in Told(parent) : t = <<t[1], t[2]>> /\ t[2] \in {"author", "reply"}
    BY DEF Told
  <2> QED
    BY <1>2, <2>1 DEF Notices
<1>4. u \in Concerned(c) <=> \E key \in {"author", "reply"} : <<u, key>> \in Told(parent)
  BY <1>1 DEF Concerned, Told
<1>5. ~(<<u, "author">> \in Told(parent) /\ <<u, "reply">> \in Told(parent))
  BY DEF Told
<1>6. CASE u \in Concerned(c) \ {comments[c].user}
  <2>1. PICK key \in {"author", "reply"} : <<u, key>> \in Told(parent)
    BY <1>4, <1>6
  <2>2. {n \in notices : n.about = c /\ n.to = u} = {[to |-> u, about |-> c, key |-> key]}
    BY <1>1, <1>3, <1>5, <1>6, <2>1
  <2> QED
    BY <1>6, <2>2, FS_Singleton
<1>7. CASE u \notin Concerned(c) \ {comments[c].user}
  <2>1. {n \in notices : n.about = c /\ n.to = u} = {}
    BY <1>1, <1>3, <1>4, <1>7
  <2> QED
    BY <1>7, <2>1, FS_EmptySet
<1> QED
  BY <1>6, <1>7

\* createComment and Emit: everybody a comment concerns, the video's author and
\* the author of the comment replied to, is told of it once, and nobody of what
\* they wrote, whatever happens to the comments meanwhile.
THEOREM EverybodyIsToldOnce == CommentsSpec => []ToldOnce
<1>1. CommentsInit => NoticesInv
  BY DEF CommentsInit, NoticesInv
<1>2. RequestInv /\ NoticesInv /\ [CommentsNext]_commentsVars => NoticesInv'
  BY StepNotices
<1>3. RequestInv /\ NoticesInv => ToldOnce
  BY ToldAgrees DEF RequestInv, ToldOnce
<1> QED
  BY <1>1, <1>2, <1>3, RequestInvariant, PTL DEF CommentsSpec
===============================================================================
