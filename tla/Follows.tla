-------------------------------- MODULE Follows --------------------------------
(***************************************************************************)
(* Who follows whom (backend/internal/follow), what a creator's page says  *)
(* of it (backend/internal/creator), the daily net numbers of followers    *)
(* and the notifications that a follow sends.                              *)
(*                                                                         *)
(* setFollow looks at the followee first, without a lock, and writes       *)
(* later: these are two actions.  What it writes is decided by the locking *)
(* read of the receipt, the primary key of user_follows and the rows       *)
(* affected, which see the present, and is one action.  Of two             *)
(* transactions for one request id the second fails at the unique key of   *)
(* the receipts, or as a deadlock's victim.                                *)
(*                                                                         *)
(* A request id comes with the client's retries.  The web client chooses   *)
(* one for each click; the API accepts requests without.                   *)
(***************************************************************************)
EXTENDS Integers, FiniteSets, Sequences

CONSTANTS Users,
          Browsers,     \* the users of the web client
          RequestIDs,   \* that clients choose
          Handlers,     \* requests a server handles at once
          None,         \* no request id, no request
          MaxNotices,   \* bound: notifications of one user to another
          MaxReceipts   \* bound

ASSUME FollowsAssumption ==
  /\ IsFiniteSet(Users)
  /\ Browsers \subseteq Users
  /\ None \notin RequestIDs
  /\ MaxNotices \in Nat /\ MaxReceipts \in Nat

VARIABLES normal,       \* users.status = normal
          follows,      \* the table user_follows: follower, followee
          netFollowers, \* creator_daily_metrics.net_followers, summed over the days
          notices,      \* how many notifications "follow" one user sent another
          receipts,     \* operation_receipts of follow.set, in the order of their ids
          pending       \* the requests that have found the followee normal

tables == <<follows, netFollowers, notices, receipts>>
followsVars == <<normal, tables, pending>>

Pairs == {p \in Users \X Users : p[1] # p[2]}

\* What the handler and the service let through: nobody follows themselves.
FollowRequest ==
  {r \in [pair : Pairs, active : BOOLEAN, request : RequestIDs \cup {None}] :
     r.pair[1] \in Browsers => r.request # None}

ASSUME PendingAssumption == None \notin FollowRequest

FollowsTypeOK ==
  /\ normal \subseteq Users
  /\ follows \subseteq Pairs
  /\ netFollowers \in [Users -> Int]
  /\ notices \in [Pairs -> Nat]
  /\ receipts \in Seq([pair : Pairs, active : BOOLEAN, request : RequestIDs])
  /\ pending \in [Handlers -> FollowRequest \cup {None}]

FollowsInit ==
  /\ normal = Users
  /\ follows = {}
  /\ netFollowers = [u \in Users |-> 0]
  /\ notices = [p \in Pairs |-> 0]
  /\ receipts = << >>
  /\ pending = [h \in Handlers |-> None]

-----------------------------------------------------------------------------
\* An administrator disables or restores a user.
SetStatus(u) ==
  /\ normal' = IF u \in normal THEN normal \ {u} ELSE normal \cup {u}
  /\ UNCHANGED <<tables, pending>>

\* ensureFollowableUser, for a follower whom the middleware has let in.
EnsureFollowable(h, r) ==
  /\ pending[h] = None
  /\ r.pair[1] \in normal /\ r.pair[2] \in normal
  /\ pending' = [pending EXCEPT ![h] = r]
  /\ UNCHANGED <<normal, tables>>

Ends(h) == pending' = [pending EXCEPT ![h] = None] /\ UNCHANGED normal

\* The receipt is there, for this request or for one of another content, or the
\* transaction is rolled back.
Repeated(h) ==
  /\ pending[h] # None
  /\ Ends(h)
  /\ UNCHANGED tables

-----------------------------------------------------------------------------
\* Mutated: the unique key of the receipts contains the hash of the content.
RecordedAlike(r) == \E i \in DOMAIN receipts : receipts[i] = r

\* The request id has a receipt of this user.
Recorded(r) ==
  \E i \in DOMAIN receipts :
    receipts[i].request = r.request /\ receipts[i].pair[1] = r.pair[1]

\* Mutated: the rows affected are not looked at.
ChangesAlways(r) == TRUE

\* INSERT IGNORE or DELETE affects a row.
Changes(r) == r.active # (r.pair \in follows)

ApplyFollow(r) ==
  follows' = IF r.active THEN follows \cup {r.pair} ELSE follows \ {r.pair}

RecordFollowDelta(r) ==
  netFollowers' =
    IF Changes(r)
      THEN [netFollowers EXCEPT ![r.pair[2]] = @ + (IF r.active THEN 1 ELSE -1)]
      ELSE netFollowers

\* Mutated: the key of the notification has no time in it.
NotifiedOnce(n) == 1

\* The key has a time in it: nothing stands in the way of another row.
Notified(n) == n + 1

EmitFollow(r) ==
  IF Changes(r) /\ r.active
    THEN /\ notices[r.pair] < MaxNotices
         /\ notices' = [notices EXCEPT ![r.pair] = Notified(@)]
    ELSE notices' = notices

\* A request that changed nothing leaves a receipt, too.
SaveReceipt(r) ==
  IF r.request = None
    THEN receipts' = receipts
    ELSE Len(receipts) < MaxReceipts /\ receipts' = Append(receipts, r)

SetFollow(h) ==
  LET r == pending[h]
  IN  /\ r # None
      /\ ~Recorded(r)
      /\ ApplyFollow(r)
      /\ RecordFollowDelta(r)
      /\ EmitFollow(r)
      /\ SaveReceipt(r)
      /\ Ends(h)

-----------------------------------------------------------------------------
FollowsNext ==
  \/ \E u \in Users : SetStatus(u)
  \/ \E h \in Handlers :
       \/ \E r \in FollowRequest : EnsureFollowable(h, r)
       \/ Repeated(h) \/ SetFollow(h)

FollowsSpec == FollowsInit /\ [][FollowsNext]_followsVars

-----------------------------------------------------------------------------
(***************************************************************************)
(* What the pages show.                                                    *)
(***************************************************************************)

\* GET /users/:id, for a normal creator.
Profile(c, viewer) ==
  [followerCount |-> Cardinality({u \in normal : <<u, c>> \in follows}),
   followingCount |-> Cardinality({u \in normal : <<c, u>> \in follows}),
   following |-> <<viewer, c>> \in follows]

\* GET /users/:id/followers and GET /users/:id/follows.
ListFollowers(c) == {u \in normal : c \in normal /\ <<u, c>> \in follows}

ListFollows(c) == {u \in normal : <<c, u>> \in follows}

-----------------------------------------------------------------------------
(***************************************************************************)
(* Properties.                                                             *)
(***************************************************************************)

\* The trend of a creator's net followers, which only counts what a request
\* changed, adds up to the followers there are, through repetitions, races of
\* two pages and disabled accounts; and the page of a creator says what its
\* lists show, to each viewer ("已禁用的用户不出现在列表里", repository.go:146).
FollowersAgree ==
  \A c \in Users :
    /\ netFollowers[c] = Cardinality({u \in Users : <<u, c>> \in follows})
    /\ c \in normal => \A viewer \in normal :
         LET page == Profile(c, viewer)
         IN  /\ page.followerCount = Cardinality(ListFollowers(c))
             /\ page.followingCount = Cardinality(ListFollows(c))
             /\ page.following <=> viewer \in ListFollowers(c)
             /\ page.followerCount <= netFollowers[c]

\* The receipts of one user for another, in order.
Choices(p) == {i \in DOMAIN receipts : receipts[i].pair = p}

LastOf(choices, i) == \A j \in choices : j <= i

\* A retried or delayed click never undoes a later one: a browser's relation to
\* another user is what the last of its requests to be processed for the first
\* time asked for, and no request is processed for the first time twice ("a
\* conflict, never a second business operation", notification/repository.go:73).
LatestChoiceStands ==
  /\ \A i, j \in DOMAIN receipts :
       /\ receipts[i].request = receipts[j].request
       /\ receipts[i].pair[1] = receipts[j].pair[1]
       => i = j
  /\ \A p \in Pairs : p[1] \in Browsers =>
       (p \in follows <=>
          \E i \in Choices(p) : LastOf(Choices(p), i) /\ receipts[i].active)

\* The choice that turned the relation on: active, and the one before was not.
TurnsOn(p, i) ==
  /\ receipts[i].active
  /\ \A j \in Choices(p) :
       (j < i /\ \A k \in Choices(p) : k < i => k <= j) => ~receipts[j].active

\* "The operation receipt deduplicates retries of one request. ... a later
\* unfollow/re-follow can produce a fresh notification" (repository.go:90): one
\* notification for each time a browser's user begins to follow, no more for
\* retries and clicks that changed nothing, no fewer for a second beginning.
ToldPerFollow ==
  \A p \in Pairs : p[1] \in Browsers =>
    notices[p] = Cardinality({i \in Choices(p) : TurnsOn(p, i)})
=============================================================================
