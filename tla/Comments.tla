------------------------------- MODULE Comments -------------------------------
(***************************************************************************)
(* What users and moderators do to one video: comments and replies, likes  *)
(* and favorites, and the counters and notifications that go with them     *)
(* (backend/internal/engagement/repository.go, and applyTargetTx of        *)
(* backend/internal/moderation for comments).                              *)
(*                                                                         *)
(* A transaction looks at the video first, without a lock, and writes      *)
(* later: these are two actions, with other transactions in between.  What *)
(* it writes is decided by locking reads, unique keys and conditions of    *)
(* UPDATEs, which see the present, and is one action.  Of two transactions *)
(* for one request id, each holding the gap lock of the missing receipt,   *)
(* one is a deadlock's victim or breaks the unique key: it is rolled back. *)
(*                                                                         *)
(* A comment's id is its index in comments.  A retry whose content differs *)
(* from the first request's is refused and changes nothing, like one whose *)
(* receipt is there; so contents are left out.                             *)
(***************************************************************************)
EXTENDS Integers, FiniteSets, Sequences

CONSTANTS Users,
          Owner,        \* the video's author
          Kinds,        \* of relation: like, favorite
          RequestIDs,   \* that clients choose
          Handlers,     \* requests a server handles at once
          None,         \* no request id, no request
          MaxComments   \* bound

ASSUME CommentsAssumption ==
  /\ IsFiniteSet(Users)
  /\ Owner \in Users
  /\ MaxComments \in Nat

VARIABLES listed,       \* the video is ready, public, visible, its author active
          comments,     \* the table
          commentCount, \* video_stats.comment_count
          netComments,  \* video_daily_metrics.net_comments, summed over the days
          relations,    \* the tables of likes and favorites
          counters,     \* their counters in video_stats
          netRelations, \* and in video_daily_metrics
          receipts,     \* operation_receipts: the comment of a request id, or 0
          notices,      \* notifications of comments
          pending       \* the requests that have found the video listed

tableVars == <<comments, commentCount, netComments, receipts, notices>>
relationVars == <<relations, counters, netRelations>>
commentsVars == <<listed, tableVars, relationVars, pending>>

IDs == 1..MaxComments

\* parent = 0: not a reply.
Comment == [user : Users, request : RequestIDs \cup {None}, parent : 0..MaxComments,
            root : IDs, deleted : BOOLEAN, hidden : BOOLEAN]

Notice == [to : Users, about : IDs, key : {"author", "reply"}]

CommentRequest == [user : Users, request : RequestIDs \cup {None}, parent : 0..MaxComments]

RelationRequest == [user : Users, kind : Kinds, active : BOOLEAN]

ASSUME NoneAssumption ==
  None \notin RequestIDs /\ None \notin CommentRequest /\ None \notin RelationRequest

CommentsTypeOK ==
  /\ listed \in BOOLEAN
  /\ comments \in Seq(Comment)
  /\ Len(comments) <= MaxComments
  /\ commentCount \in Nat
  /\ netComments \in Int
  /\ relations \subseteq Users \X Kinds
  /\ counters \in [Kinds -> Nat]
  /\ netRelations \in [Kinds -> Int]
  /\ receipts \in [Users -> [RequestIDs -> 0..MaxComments]]
  /\ notices \subseteq Notice
  /\ pending \in [Handlers -> CommentRequest \cup RelationRequest \cup {None}]

CommentsInit ==
  /\ listed = TRUE
  /\ comments = << >>
  /\ commentCount = 0
  /\ netComments = 0
  /\ relations = {}
  /\ counters = [k \in Kinds |-> 0]
  /\ netRelations = [k \in Kinds |-> 0]
  /\ receipts = [u \in Users |-> [q \in RequestIDs |-> 0]]
  /\ notices = {}
  /\ pending = [h \in Handlers |-> None]

-----------------------------------------------------------------------------
SetListed ==
  /\ listed' = ~listed
  /\ UNCHANGED <<tableVars, relationVars, pending>>

\* ensureEngageableVideo at the beginning of createComment and mutate.
EnsureEngageable(h, request) ==
  /\ pending[h] = None
  /\ listed
  /\ pending' = [pending EXCEPT ![h] = request]
  /\ UNCHANGED <<listed, tableVars, relationVars>>

Ends(h) == pending' = [pending EXCEPT ![h] = None] /\ UNCHANGED listed

\* The request is a repetition, has an invalid parent, or is rolled back.
Refused(h) ==
  /\ pending[h] # None
  /\ Ends(h)
  /\ UNCHANGED <<tableVars, relationVars>>

-----------------------------------------------------------------------------
\* Mutated: the key of the receipts is not unique.
AlwaysFirst(u, q) == TRUE

\* No receipt of the request id, which uq_operation_receipts decides.
FirstRequest(u, q) == q # None => receipts[u][q] = 0

Visible(c) == ~comments[c].deleted /\ ~comments[c].hidden

\* One level of replies: a reply to a reply belongs to the same thread.
ThreadOf(parent, id) == IF parent = 0 THEN id ELSE comments[parent].root

\* Mutated: the author is told of each reply.
ToldTwice(parent) ==
  {<<Owner, "author">>} \cup IF parent = 0 THEN {} ELSE {<<comments[parent].user, "reply">>}

\* Whom a comment is news to: the author of the comment replied to, and the
\* video's unless it is the same.
Told(parent) ==
  IF parent = 0 THEN {<<Owner, "author">>}
  ELSE LET user == comments[parent].user
       IN  {<<user, "reply">>} \cup IF user = Owner THEN {} ELSE {<<Owner, "author">>}

\* Emit, which tells nobody of what they did themselves.
Notices(user, id, told) ==
  {[to |-> t[1], about |-> id, key |-> t[2]] : t \in {x \in told : x[1] # user}}

CreateComment(h) ==
  LET r == pending[h]
      id == Len(comments) + 1
  IN  /\ r \in CommentRequest
      /\ id <= MaxComments
      /\ FirstRequest(r.user, r.request)
      /\ r.parent # 0 => Visible(r.parent)
      /\ comments' = Append(comments,
           [user |-> r.user, request |-> r.request, parent |-> r.parent,
            root |-> ThreadOf(r.parent, id), deleted |-> FALSE, hidden |-> FALSE])
      /\ commentCount' = commentCount + 1
      /\ netComments' = netComments + 1
      /\ notices' = notices \cup Notices(r.user, id, Told(r.parent))
      /\ receipts' = IF r.request = None THEN receipts
                     ELSE [receipts EXCEPT ![r.user][r.request] = id]
      /\ Ends(h)
      /\ UNCHANGED relationVars

\* dropCounter: n - LEAST(n, 1).
Dropped(n) == IF n = 0 THEN 0 ELSE n - 1

\* The comment's author deletes it, hidden or not.
DeleteComment(c) ==
  /\ ~comments[c].deleted
  /\ comments' = [comments EXCEPT ![c].deleted = TRUE]
  /\ commentCount' = Dropped(commentCount)
  /\ netComments' = netComments - 1
  /\ UNCHANGED <<listed, receipts, notices, relationVars, pending>>

\* Mutated: the present state is not looked at.
BecomesAlways(c, hidden) == ~comments[c].deleted

\* lockTarget refuses deleted comments; a state reached already is no change.
Becomes(c, hidden) == ~comments[c].deleted /\ comments[c].hidden # hidden

\* GREATEST(0, comment_count + -1) fails at 0: the column is unsigned.
HideComment(c) ==
  /\ Becomes(c, TRUE)
  /\ commentCount > 0
  /\ comments' = [comments EXCEPT ![c].hidden = TRUE]
  /\ commentCount' = commentCount - 1
  /\ UNCHANGED <<listed, netComments, receipts, notices, relationVars, pending>>

RestoreComment(c) ==
  /\ Becomes(c, FALSE)
  /\ comments' = [comments EXCEPT ![c].hidden = FALSE]
  /\ commentCount' = commentCount + 1
  /\ UNCHANGED <<listed, netComments, receipts, notices, relationVars, pending>>

-----------------------------------------------------------------------------
\* Mutated: the number of rows affected is not looked at.
AppliesAlways(r) == TRUE

\* INSERT IGNORE or DELETE changes a row.
Applies(r) == r.active # (<<r.user, r.kind>> \in relations)

\* mutate of SetLike and SetFavorite.
SetRelation(h) ==
  LET r == pending[h]
      row == <<r.user, r.kind>>
  IN  /\ r \in RelationRequest
      /\ Ends(h)
      /\ UNCHANGED tableVars
      /\ IF Applies(r)
           THEN /\ relations' = IF r.active THEN relations \cup {row} ELSE relations \ {row}
                /\ counters' = [counters EXCEPT ![r.kind] = IF r.active THEN @ + 1 ELSE Dropped(@)]
                /\ netRelations' = [netRelations EXCEPT ![r.kind] = IF r.active THEN @ + 1 ELSE @ - 1]
           ELSE UNCHANGED relationVars

-----------------------------------------------------------------------------
CommentsNext ==
  \/ SetListed
  \/ \E h \in Handlers :
       \/ \E u \in Users, q \in RequestIDs \cup {None}, parent \in 0..Len(comments) :
            EnsureEngageable(h, [user |-> u, request |-> q, parent |-> parent])
       \/ \E u \in Users, k \in Kinds, active \in BOOLEAN :
            EnsureEngageable(h, [user |-> u, kind |-> k, active |-> active])
       \/ CreateComment(h) \/ SetRelation(h) \/ Refused(h)
  \/ \E c \in DOMAIN comments : DeleteComment(c) \/ HideComment(c) \/ RestoreComment(c)

CommentsSpec == CommentsInit /\ [][CommentsNext]_commentsVars

-----------------------------------------------------------------------------
(***************************************************************************)
(* Properties.                                                             *)
(***************************************************************************)

\* A request id is worth one comment, however often and simultaneously it is
\* sent ("Duplicate requests return the original row", repository.go:294), and
\* its receipt leads to that comment.
OneCommentPerRequest ==
  \A c \in DOMAIN comments : comments[c].request # None =>
    /\ receipts[comments[c].user][comments[c].request] = c
    /\ \A d \in DOMAIN comments :
         comments[d].user = comments[c].user /\ comments[d].request = comments[c].request => d = c

Remaining == {c \in DOMAIN comments : ~comments[c].deleted}

Shown == {c \in Remaining : ~comments[c].hidden}

\* Whatever authors and moderators do to a comment in whatever order, the
\* counter never shows comments that are not there.  It may show too few: a
\* hidden comment that its author deletes is subtracted twice.
CountNeverOver == commentCount <= Cardinality(Shown)

\* The ledgers that are only moved when a row has changed are exact: the daily
\* net numbers, and the counters of likes and favorites, through any repetition
\* and simultaneity ("只在关系真正发生变化时才移动统计计数", repository.go:72).
LedgersAgree ==
  /\ netComments = Cardinality(Remaining)
  /\ \A k \in Kinds :
       LET fans == {u \in Users : <<u, k>> \in relations}
       IN  counters[k] = Cardinality(fans) /\ netRelations[k] = Cardinality(fans)

Concerned(c) ==
  {Owner} \cup IF comments[c].parent = 0 THEN {} ELSE {comments[comments[c].parent].user}

\* Each comment is told once to whom it concerns, and not to who wrote it.
ToldOnce ==
  \A c \in DOMAIN comments, u \in Users :
    Cardinality({n \in notices : n.about = c /\ n.to = u})
      = IF u \in Concerned(c) \ {comments[c].user} THEN 1 ELSE 0
=============================================================================
