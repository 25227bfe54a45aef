----------------------------- MODULE FollowsProofs -----------------------------
(***************************************************************************)
(* Proofs about Follows, for any finite set of users and any browsers,     *)
(* request ids, handlers and bounds: the daily numbers add up to the       *)
(* followers there are, the latest choice of a browser's user stands, and  *)
(* each beginning to follow is told once.                                  *)
(***************************************************************************)
EXTENDS Follows, FiniteSetTheorems, TLAPS

Receipt == [pair : Pairs, active : BOOLEAN, request : RequestIDs]

Followers(c) == {u \in Users : <<u, c>> \in follows}

NetAgrees == \A c \in Users : netFollowers[c] = Cardinality(Followers(c))

FollowsInv ==
  FollowsTypeOK /\ NetAgrees /\ LatestChoiceStands /\ ToldPerFollow

-----------------------------------------------------------------------------
LEMMA PairFacts ==
  \A p \in Pairs : p = <<p[1], p[2]>> /\ p[1] \in Users /\ p[2] \in Users /\ p[1] # p[2]
  BY DEF Pairs

\* Users are finitely many, and so are the followers of each.
LEMMA FollowersFinite ==
  \A c : IsFiniteSet(Followers(c)) /\ Cardinality(Followers(c)) \in Nat
  <1> SUFFICES ASSUME NEW c
               PROVE  IsFiniteSet(Followers(c)) /\ Cardinality(Followers(c)) \in Nat
    OBVIOUS
  <1>1. IsFiniteSet(Users) /\ Followers(c) \subseteq Users
    BY FollowsAssumption DEF Followers
  <1>2. IsFiniteSet(Followers(c))
    BY <1>1, FS_Subset
  <1> QED  BY <1>2, FS_CardinalityType

\* What SetFollow works on, and what it leaves behind.
LEMMA Processing ==
  ASSUME FollowsTypeOK, NEW h \in Handlers, SetFollow(h)
  PROVE  /\ pending[h] \in FollowRequest
         /\ pending[h].pair \in Pairs /\ pending[h].active \in BOOLEAN
         /\ pending[h].request \in RequestIDs \cup {None}
         /\ pending[h].pair[1] \in Browsers => pending[h].request # None
         /\ ~Recorded(pending[h]) /\ ApplyFollow(pending[h]) /\ RecordFollowDelta(pending[h])
         /\ EmitFollow(pending[h]) /\ SaveReceipt(pending[h]) /\ Ends(h)
  <1>1. pending[h] \in FollowRequest
    BY DEF SetFollow, FollowsTypeOK
  <1> QED  BY <1>1 DEF SetFollow, FollowRequest

\* The receipts afterwards: one more, or the same.
LEMMA Receipts ==
  ASSUME FollowsTypeOK, NEW r \in FollowRequest, SaveReceipt(r)
  PROVE  /\ receipts' \in Seq(Receipt)
         /\ r.request = None => receipts' = receipts
         /\ r.request # None =>
              /\ Len(receipts') = Len(receipts) + 1
              /\ receipts'[Len(receipts) + 1] = r
              /\ \A i \in 1..Len(receipts) : receipts'[i] = receipts[i]
  <1>1. receipts \in Seq(Receipt)
    BY DEF FollowsTypeOK, Receipt
  <1>2. CASE r.request = None
    BY <1>1, <1>2 DEF SaveReceipt
  <1>3. CASE r.request # None
    <2>1. r \in Receipt
      BY <1>3 DEF FollowRequest, Receipt
    <2>2. receipts' = Append(receipts, r)
      BY <1>3 DEF SaveReceipt
    <2> QED  BY <1>1, <1>3, <2>1, <2>2
  <1> QED  BY <1>2, <1>3

-----------------------------------------------------------------------------
(***************************************************************************)
(* SetFollow.                                                              *)
(***************************************************************************)
LEMMA SetFollowTypes ==
  ASSUME FollowsTypeOK, NEW h \in Handlers, SetFollow(h)
  PROVE  FollowsTypeOK'
  <1> DEFINE r == pending[h]
  <1>1. r \in FollowRequest /\ r.pair \in Pairs /\ r.active \in BOOLEAN
    BY Processing
  <1>2. follows' \subseteq Pairs
    BY <1>1, Processing DEF ApplyFollow, FollowsTypeOK
  <1>3. netFollowers' \in [Users -> Int]
    <2>1. r.pair[2] \in Users
      BY <1>1, PairFacts
    <2>2. netFollowers[r.pair[2]] + (IF r.active THEN 1 ELSE -1) \in Int
      BY <2>1 DEF FollowsTypeOK
    <2> QED  BY <2>1, <2>2, Processing DEF RecordFollowDelta, FollowsTypeOK
  <1>4. notices' \in [Pairs -> Nat]
    <2>1. notices \in [Pairs -> Nat] /\ EmitFollow(r)
      BY Processing DEF FollowsTypeOK
    <2>2. Notified(notices[r.pair]) \in Nat
      BY <1>1, <2>1 DEF Notified
    <2> QED  BY <1>1, <2>1, <2>2 DEF EmitFollow
  <1>5. receipts' \in Seq(Receipt)
    BY <1>1, Processing, Receipts
  <1>6. normal' = normal /\ pending' \in [Handlers -> FollowRequest \cup {None}]
    BY Processing DEF Ends, FollowsTypeOK
  <1> QED  BY <1>2, <1>3, <1>4, <1>5, <1>6 DEF FollowsTypeOK, Receipt

\* A row that is inserted or deleted is one follower more or less.
LEMMA SetFollowNet ==
  ASSUME FollowsInv, NEW h \in Handlers, SetFollow(h)
  PROVE  NetAgrees'
  <1> DEFINE r == pending[h]
             a == r.pair[1]
             b == r.pair[2]
  <1>1. FollowsTypeOK /\ NetAgrees /\ netFollowers \in [Users -> Int]
    BY DEF FollowsInv, FollowsTypeOK
  <1>2. /\ r.pair \in Pairs /\ r.pair = <<a, b>> /\ a \in Users /\ b \in Users
        /\ r.active \in BOOLEAN /\ ApplyFollow(r) /\ RecordFollowDelta(r)
    BY <1>1, Processing, PairFacts
  <1> SUFFICES ASSUME NEW c \in Users
               PROVE  netFollowers'[c] = Cardinality(Followers(c)')
    BY DEF NetAgrees
  <1>3. IsFiniteSet(Followers(c)) /\ Cardinality(Followers(c)) \in Nat
        /\ netFollowers[c] = Cardinality(Followers(c))
    BY <1>1, FollowersFinite DEF NetAgrees
  <1>4. CASE ~Changes(r) \/ c # b
    <2>1. netFollowers'[c] = netFollowers[c]
      BY <1>1, <1>2, <1>4 DEF RecordFollowDelta
    <2>2. Followers(c)' = Followers(c)
      BY <1>2, <1>4 DEF Followers, ApplyFollow, Changes
    <2> QED  BY <1>3, <2>1, <2>2
  <1>5. CASE Changes(r) /\ c = b /\ r.active
    <2>1. netFollowers'[c] = netFollowers[c] + 1
      BY <1>1, <1>2, <1>5 DEF RecordFollowDelta
    <2>2. Followers(c)' = Followers(c) \cup {a} /\ a \notin Followers(c)
      <3>1. r.pair \notin follows /\ follows' = follows \cup {<<a, b>>}
        BY <1>2, <1>5 DEF ApplyFollow, Changes
      <3> QED  BY <1>2, <1>5, <3>1 DEF Followers
    <2>3. Cardinality(Followers(c) \cup {a}) = Cardinality(Followers(c)) + 1
      BY <1>3, <2>2, FS_AddElement
    <2> QED  BY <1>3, <2>1, <2>2, <2>3
  <1>6. CASE Changes(r) /\ c = b /\ ~r.active
    <2>1. netFollowers'[c] = netFollowers[c] - 1
      BY <1>1, <1>2, <1>6 DEF RecordFollowDelta
    <2>2. Followers(c)' = Followers(c) \ {a} /\ a \in Followers(c)
      BY <1>2, <1>6 DEF Followers, ApplyFollow, Changes
    <2>3. Cardinality(Followers(c) \ {a}) = Cardinality(Followers(c)) - 1
      BY <1>3, <2>2, FS_RemoveElement
    <2> QED  BY <1>3, <2>1, <2>2, <2>3
  <1> QED  BY <1>2, <1>4, <1>5, <1>6

\* The choices that a new receipt adds.
LEMMA ChoicesAfter ==
  ASSUME FollowsTypeOK, NEW h \in Handlers, SetFollow(h)
  PROVE  /\ Len(receipts) \in Nat
         /\ \A p : Choices(p) \subseteq 1..Len(receipts)
         /\ \A p : p # pending[h].pair \/ pending[h].request = None => Choices(p)' = Choices(p)
         /\ \A p : p = pending[h].pair /\ pending[h].request # None =>
                     Choices(p)' = Choices(p) \cup {Len(receipts) + 1}
  <1> DEFINE r == pending[h]
             n == Len(receipts) + 1
  <1>1. r \in FollowRequest /\ SaveReceipt(r)
    BY Processing
  <1>2. receipts \in Seq(Receipt) /\ Len(receipts) \in Nat /\ DOMAIN receipts = 1..Len(receipts)
    BY DEF FollowsTypeOK, Receipt
  <1>3. \A p : Choices(p) = {i \in 1..Len(receipts) : receipts[i].pair = p}
    BY <1>2 DEF Choices
  <1>4. CASE r.request = None
    <2>1. receipts' = receipts
      BY <1>1, <1>4, Receipts
    <2>2. \A p : Choices(p)' = Choices(p)
      BY <2>1 DEF Choices
    <2> QED  BY <1>2, <1>3, <1>4, <2>2
  <1>5. CASE r.request # None
    <2>1. /\ receipts' \in Seq(Receipt) /\ Len(receipts') = n /\ receipts'[n] = r
          /\ \A i \in 1..Len(receipts) : receipts'[i] = receipts[i]
      BY <1>1, <1>5, Receipts
    <2>2. DOMAIN receipts' = 1..n
      BY <2>1
    <2>3. \A p : Choices(p)' = {i \in 1..n : receipts'[i].pair = p}
      BY <2>2 DEF Choices
    <2>4. 1..n = 1..Len(receipts) \cup {n} /\ n \notin 1..Len(receipts)
      BY <1>2
    <2>5. \A p : p # r.pair => Choices(p)' = Choices(p)
      BY <1>3, <2>1, <2>3, <2>4
    <2>6. \A p : p = r.pair => Choices(p)' = Choices(p) \cup {n}
      BY <1>3, <2>1, <2>3, <2>4
    <2> QED  BY <1>2, <1>3, <1>5, <2>5, <2>6
  <1> QED  BY <1>4, <1>5

\* The receipt of a request is the latest choice, and the relation is what it
\* asked for.
LEMMA SetFollowLatest ==
  ASSUME FollowsInv, NEW h \in Handlers, SetFollow(h)
  PROVE  LatestChoiceStands'
  <1> DEFINE r == pending[h]
             n == Len(receipts) + 1
  <1>1. /\ FollowsTypeOK /\ LatestChoiceStands
        /\ Len(receipts) \in Nat /\ DOMAIN receipts = 1..Len(receipts)
    BY DEF FollowsInv, FollowsTypeOK
  <1>2. /\ r \in FollowRequest /\ r.pair \in Pairs /\ r.active \in BOOLEAN
        /\ r.pair[1] \in Browsers => r.request # None
        /\ ~Recorded(r) /\ ApplyFollow(r) /\ SaveReceipt(r)
    BY <1>1, Processing
  <1>3. \A p : p \in follows' <=> IF p = r.pair THEN r.active ELSE p \in follows
    BY <1>2 DEF ApplyFollow
  <1>4. /\ receipts' \in Seq(Receipt)
        /\ r.request = None => receipts' = receipts
        /\ r.request # None =>
             /\ Len(receipts') = n /\ receipts'[n] = r
             /\ \A i \in 1..Len(receipts) : receipts'[i] = receipts[i]
    BY <1>1, <1>2, Receipts
  <1>5. ASSUME NEW i \in DOMAIN receipts', NEW j \in DOMAIN receipts',
               receipts'[i].request = receipts'[j].request,
               receipts'[i].pair[1] = receipts'[j].pair[1]
        PROVE  i = j
    <2>1. CASE r.request = None
      BY <1>1, <1>4, <1>5, <2>1 DEF LatestChoiceStands
    <2>2. CASE r.request # None
      <3>1. DOMAIN receipts' = 1..n /\ i \in 1..n /\ j \in 1..n
        BY <1>4, <1>5, <2>2
      <3>2. \A k \in 1..Len(receipts) :
              ~(receipts[k].request = r.request /\ receipts[k].pair[1] = r.pair[1])
        BY <1>1, <1>2 DEF Recorded
      <3>3. CASE i = n \/ j = n
        BY <1>1, <1>4, <1>5, <2>2, <3>1, <3>2, <3>3
      <3>4. CASE i # n /\ j # n
        <4>1. i \in 1..Len(receipts) /\ j \in 1..Len(receipts)
          BY <1>1, <3>1, <3>4
        <4> QED  BY <1>1, <1>4, <1>5, <2>2, <4>1 DEF LatestChoiceStands
      <3> QED  BY <3>3, <3>4
    <2> QED  BY <2>1, <2>2
  <1>6. ASSUME NEW p \in Pairs, p[1] \in Browsers
        PROVE  p \in follows' <=>
                 \E i \in Choices(p)' : LastOf(Choices(p)', i) /\ receipts'[i].active
    <2>1. p \in follows <=> \E i \in Choices(p) : LastOf(Choices(p), i) /\ receipts[i].active
      BY <1>1, <1>6 DEF LatestChoiceStands
    <2>2. Choices(p) \subseteq 1..Len(receipts)
      BY <1>1, ChoicesAfter
    <2>3. CASE p = r.pair
      <3>1. r.request # None
        BY <1>2, <1>6, <2>3
      <3>2. Choices(p)' = Choices(p) \cup {n} /\ receipts'[n] = r
        BY <1>1, <1>4, <2>3, <3>1, ChoicesAfter
      <3>3. LastOf(Choices(p)', n)
        <4>1. \A j \in Choices(p) \cup {n} : j <= n
          BY <1>1, <2>2
        <4> QED  BY <3>2, <4>1 DEF LastOf
      <3>4. ASSUME NEW i \in Choices(p)', LastOf(Choices(p)', i)
            PROVE  i = n
        <4>1. n \in Choices(p)'
          BY <3>2
        <4>2. n <= i
          BY <3>4, <4>1 DEF LastOf
        <4>3. i \in Choices(p) \cup {n}
          BY <3>2, <3>4
        <4> QED  BY <1>1, <2>2, <4>2, <4>3
      <3>5. p \in follows' <=> r.active
        BY <1>3, <2>3
      <3> QED  BY <3>2, <3>3, <3>4, <3>5
    <2>4. CASE p # r.pair
      <3>1. Choices(p)' = Choices(p) /\ (p \in follows' <=> p \in follows)
        BY <1>1, <1>3, <2>4, ChoicesAfter
      <3>2. \A i \in Choices(p) : receipts'[i] = receipts[i]
        BY <1>4, <2>2
      <3> QED  BY <2>1, <3>1, <3>2
    <2> QED  BY <2>3, <2>4
  <1> QED  BY <1>5, <1>6 DEF LatestChoiceStands, LastOf

\* A request that turns the relation on sends a notification; its receipt is
\* the only one that can become a beginning.
LEMMA SetFollowTold ==
  ASSUME FollowsInv, NEW h \in Handlers, SetFollow(h)
  PROVE  ToldPerFollow'
  <1> DEFINE r == pending[h]
             On(p) == {i \in Choices(p) : TurnsOn(p, i)}
  <1>0. PICK n : n = Len(receipts) + 1
    OBVIOUS
  <1>1. /\ FollowsTypeOK /\ LatestChoiceStands /\ ToldPerFollow
        /\ Len(receipts) \in Nat /\ notices \in [Pairs -> Nat]
        /\ \A p : Choices(p) \subseteq 1..Len(receipts)
    BY ChoicesAfter DEF FollowsInv, FollowsTypeOK
  <1>2. /\ r \in FollowRequest /\ r.pair \in Pairs /\ r.active \in BOOLEAN
        /\ r.pair[1] \in Browsers => r.request # None
        /\ EmitFollow(r) /\ SaveReceipt(r)
    BY <1>0, <1>1, Processing
  <1>3. /\ r.request = None => receipts' = receipts
        /\ r.request # None =>
             receipts'[n] = r /\ \A i \in 1..Len(receipts) : receipts'[i] = receipts[i]
    BY <1>0, <1>1, <1>2, Receipts
  <1>4. \A i \in 1..Len(receipts) : receipts'[i] = receipts[i]
    BY <1>3
  <1> SUFFICES ASSUME NEW p \in Pairs, p[1] \in Browsers
               PROVE  notices'[p] = Cardinality({i \in Choices(p)' : TurnsOn(p, i)'})
    BY DEF ToldPerFollow
  <1>5. notices[p] = Cardinality(On(p))
    BY <1>1 DEF ToldPerFollow
  <1>6. ASSUME Choices(p)' = Choices(p)
        PROVE  {i \in Choices(p)' : TurnsOn(p, i)'} = On(p)
    BY <1>0, <1>1, <1>4, <1>6 DEF TurnsOn
  <1>7. CASE p # r.pair
    <2>1. notices'[p] = notices[p]
      BY <1>0, <1>1, <1>2, <1>7 DEF EmitFollow
    <2>2. Choices(p)' = Choices(p)
      BY <1>0, <1>1, <1>7, ChoicesAfter
    <2> QED  BY <1>5, <1>6, <2>1, <2>2
  <1>8. CASE p = r.pair
    <2>1. r.request # None
      BY <1>2, <1>8
    <2>2. Choices(p)' = Choices(p) \cup {n} /\ receipts'[n] = r
      BY <1>0, <1>1, <1>3, <1>8, <2>1, ChoicesAfter
    <2>3. \A i \in Choices(p) : i \in 1..Len(receipts) /\ i # n /\ i < n
      BY <1>0, <1>1
    <2>4. ASSUME NEW i \in Choices(p)
          PROVE  TurnsOn(p, i)' <=> TurnsOn(p, i)
      <3>1. ~(n < i) /\ i \in Int
        BY <1>0, <1>1, <2>3
      <3>2. \A j \in Choices(p)' : j < i => j \in Choices(p)
        BY <2>2, <3>1
      <3>3. Choices(p) \subseteq Choices(p)'
        BY <2>2
      <3>4. \A j \in Choices(p) : receipts'[j] = receipts[j]
        BY <1>4, <2>3
      <3> QED  BY <3>2, <3>3, <3>4 DEF TurnsOn
    <2>5. TurnsOn(p, n)' <=> r.active /\ p \notin follows
      <3>1. p \in follows <=> \E i \in Choices(p) : LastOf(Choices(p), i) /\ receipts[i].active
        BY <1>1 DEF LatestChoiceStands
      <3>2. \A j \in Choices(p)' : j < n <=> j \in Choices(p)
        BY <1>0, <1>1, <2>2, <2>3
      <3>3. \A j \in Choices(p) : receipts'[j] = receipts[j]
        BY <1>4, <2>3
      <3>4. Choices(p) \subseteq Choices(p)'
        BY <2>2
      <3>5. \A j \in Choices(p) :
              (\A k \in Choices(p)' : k < n => k <= j) <=> LastOf(Choices(p), j)
        BY <3>2, <3>4 DEF LastOf
      <3>6. TurnsOn(p, n)' <=>
              r.active /\ \A j \in Choices(p) : LastOf(Choices(p), j) => ~receipts[j].active
        <4>1. TurnsOn(p, n)' <=>
                /\ receipts'[n].active
                /\ \A j \in Choices(p)' :
                     (j < n /\ \A k \in Choices(p)' : k < n => k <= j) => ~receipts'[j].active
          BY DEF TurnsOn
        <4> QED  BY <2>2, <3>2, <3>3, <3>4, <3>5, <4>1
      <3> QED  BY <3>1, <3>6
    <2>6. IsFiniteSet(On(p)) /\ Cardinality(On(p)) \in Nat /\ n \notin On(p)
      <3>1. IsFiniteSet(1..Len(receipts)) /\ On(p) \subseteq 1..Len(receipts)
        BY <1>0, <1>1, FS_Interval
      <3>2. IsFiniteSet(On(p))
        BY <3>1, FS_Subset
      <3> QED  BY <2>3, <3>2, FS_CardinalityType
    <2>7. CASE r.active /\ p \notin follows
      <3>1. {i \in Choices(p)' : TurnsOn(p, i)'} = On(p) \cup {n}
        BY <2>2, <2>4, <2>5, <2>7
      <3>2. Cardinality(On(p) \cup {n}) = Cardinality(On(p)) + 1
        BY <2>6, FS_AddElement
      <3>3. Changes(r)
        BY <1>8, <2>7 DEF Changes
      <3>4. notices'[p] = notices[p] + 1
        BY <1>0, <1>1, <1>2, <1>8, <2>7, <3>3 DEF EmitFollow, Notified
      <3> QED  BY <1>5, <3>1, <3>2, <3>4
    <2>8. CASE ~(r.active /\ p \notin follows)
      <3>1. {i \in Choices(p)' : TurnsOn(p, i)'} = On(p)
        BY <2>2, <2>4, <2>5, <2>8
      <3>2. ~(Changes(r) /\ r.active)
        BY <1>8, <2>8 DEF Changes
      <3>3. notices' = notices
        BY <1>2, <3>2 DEF EmitFollow
      <3> QED  BY <1>5, <3>1, <3>3
    <2> QED  BY <2>7, <2>8
  <1> QED  BY <1>7, <1>8

-----------------------------------------------------------------------------
(***************************************************************************)
(* The invariant.                                                          *)
(***************************************************************************)
LEMMA InvInit ==
  FollowsInit => FollowsInv
  <1> SUFFICES ASSUME FollowsInit
               PROVE  FollowsInv
    OBVIOUS
  <1>1. receipts = << >> /\ << >> \in Seq(Receipt) /\ DOMAIN receipts = {}
    BY DEF FollowsInit
  <1>2. FollowsTypeOK
    BY <1>1 DEF FollowsInit, FollowsTypeOK, Receipt
  <1>3. NetAgrees
    <2> SUFFICES ASSUME NEW c \in Users
                 PROVE  netFollowers[c] = Cardinality(Followers(c))
      BY DEF NetAgrees
    <2>1. Followers(c) = {} /\ netFollowers[c] = 0
      BY DEF FollowsInit, Followers
    <2> QED  BY <2>1, FS_EmptySet
  <1>4. \A p : Choices(p) = {}
    BY <1>1 DEF Choices
  <1>5. LatestChoiceStands
    BY <1>1, <1>4 DEF FollowsInit, LatestChoiceStands
  <1>6. ToldPerFollow
    <2> SUFFICES ASSUME NEW p \in Pairs
                 PROVE  notices[p] = Cardinality({i \in Choices(p) : TurnsOn(p, i)})
      BY DEF ToldPerFollow
    <2>1. {i \in Choices(p) : TurnsOn(p, i)} = {} /\ notices[p] = 0
      BY <1>4 DEF FollowsInit
    <2> QED  BY <2>1, FS_EmptySet
  <1> QED  BY <1>2, <1>3, <1>5, <1>6 DEF FollowsInv

\* The steps that leave the tables alone.
LEMMA TablesStay ==
  ASSUME FollowsInv, UNCHANGED tables, FollowsTypeOK'
  PROVE  FollowsInv'
  <1>1. UNCHANGED <<follows, netFollowers, notices, receipts>>
    BY DEF tables
  <1>2. NetAgrees'
    BY <1>1 DEF FollowsInv, NetAgrees, Followers
  <1>3. \A p : Choices(p)' = Choices(p)
    BY <1>1 DEF Choices
  <1>4. LatestChoiceStands'
    BY <1>1, <1>3 DEF FollowsInv, LatestChoiceStands
  <1>5. \A p, i : TurnsOn(p, i)' <=> TurnsOn(p, i)
    BY <1>1, <1>3 DEF TurnsOn
  <1>6. ToldPerFollow'
    BY <1>1, <1>3, <1>5 DEF FollowsInv, ToldPerFollow
  <1> QED  BY <1>2, <1>4, <1>6 DEF FollowsInv

LEMMA InvNext ==
  ASSUME FollowsInv, [FollowsNext]_followsVars
  PROVE  FollowsInv'
  <1>1. FollowsTypeOK
    BY DEF FollowsInv
  <1>2. CASE UNCHANGED followsVars
    <2>1. UNCHANGED tables /\ FollowsTypeOK'
      BY <1>1, <1>2 DEF followsVars, tables, FollowsTypeOK
    <2> QED  BY <2>1, TablesStay
  <1>3. ASSUME NEW u \in Users, SetStatus(u)
        PROVE  FollowsInv'
    <2>1. UNCHANGED tables /\ FollowsTypeOK'
      BY <1>1, <1>3 DEF SetStatus, tables, FollowsTypeOK
    <2> QED  BY <2>1, TablesStay
  <1>4. ASSUME NEW h \in Handlers, NEW r \in FollowRequest, EnsureFollowable(h, r)
        PROVE  FollowsInv'
    <2>1. UNCHANGED tables /\ FollowsTypeOK'
      BY <1>1, <1>4 DEF EnsureFollowable, tables, FollowsTypeOK
    <2> QED  BY <2>1, TablesStay
  <1>5. ASSUME NEW h \in Handlers, Repeated(h)
        PROVE  FollowsInv'
    <2>1. UNCHANGED tables /\ FollowsTypeOK'
      BY <1>1, <1>5 DEF Repeated, Ends, tables, FollowsTypeOK
    <2> QED  BY <2>1, TablesStay
  <1>6. ASSUME NEW h \in Handlers, SetFollow(h)
        PROVE  FollowsInv'
    BY <1>1, <1>6, SetFollowTypes, SetFollowNet, SetFollowLatest, SetFollowTold DEF FollowsInv
  <1> QED  BY <1>2, <1>3, <1>4, <1>5, <1>6 DEF FollowsNext

LEMMA InvAlways ==
  FollowsSpec => []FollowsInv
  <1>1. FollowsInv /\ [FollowsNext]_followsVars => FollowsInv'
    BY InvNext
  <1> QED  BY <1>1, InvInit, PTL DEF FollowsSpec

\* The rows, the numbers and the receipts have their types.
THEOREM FollowsTypeCorrect ==
  FollowsSpec => []FollowsTypeOK
  <1>1. FollowsInv => FollowsTypeOK
    BY DEF FollowsInv
  <1> QED  BY <1>1, InvAlways, PTL

\* The daily numbers of a creator add up to the rows of user_follows, and the
\* page of a creator says what its lists show (creator/repository.go,
\* follow/repository.go).
THEOREM FollowersAlwaysAgree ==
  FollowsSpec => []FollowersAgree
  <1>1. FollowsInv => FollowersAgree
    <2> SUFFICES ASSUME FollowsInv, NEW c \in Users
                 PROVE  /\ netFollowers[c] = Cardinality({u \in Users : <<u, c>> \in follows})
                        /\ c \in normal => \A viewer \in normal :
                             LET page == Profile(c, viewer)
                             IN  /\ page.followerCount = Cardinality(ListFollowers(c))
                                 /\ page.followingCount = Cardinality(ListFollows(c))
                                 /\ page.following <=> viewer \in ListFollowers(c)
                                 /\ page.followerCount <= netFollowers[c]
      BY DEF FollowersAgree
    <2>1. netFollowers[c] = Cardinality(Followers(c)) /\ normal \subseteq Users
      BY DEF FollowsInv, NetAgrees, FollowsTypeOK
    <2> SUFFICES ASSUME c \in normal, NEW viewer \in normal
                 PROVE  LET page == Profile(c, viewer)
                        IN  /\ page.followerCount = Cardinality(ListFollowers(c))
                            /\ page.followingCount = Cardinality(ListFollows(c))
                            /\ page.following <=> viewer \in ListFollowers(c)
                            /\ page.followerCount <= netFollowers[c]
      BY <2>1 DEF Followers
    <2>2. ListFollowers(c) = {u \in normal : <<u, c>> \in follows}
      BY DEF ListFollowers
    <2>3. /\ Profile(c, viewer).followerCount = Cardinality(ListFollowers(c))
          /\ Profile(c, viewer).followingCount = Cardinality(ListFollows(c))
          /\ Profile(c, viewer).following <=> <<viewer, c>> \in follows
      BY <2>2 DEF Profile, ListFollows
    <2>4. ListFollowers(c) \subseteq Followers(c)
      BY <2>1, <2>2 DEF Followers
    <2>5. Cardinality(ListFollowers(c)) <= Cardinality(Followers(c))
      BY <2>4, FollowersFinite, FS_Subset
    <2> QED  BY <2>1, <2>2, <2>3, <2>5
  <1> QED  BY <1>1, InvAlways, PTL

\* The latest choice of a browser's user stands, whatever is retried, delayed
\* or repeated (setFollow, follow/repository.go).
THEOREM LatestChoicesStand ==
  FollowsSpec => []LatestChoiceStands
  <1>1. FollowsInv => LatestChoiceStands
    BY DEF FollowsInv
  <1> QED  BY <1>1, InvAlways, PTL

\* One notification for each time a browser's user begins to follow.
THEOREM EachFollowTold ==
  FollowsSpec => []ToldPerFollow
  <1>1. FollowsInv => ToldPerFollow
    BY DEF FollowsInv
  <1> QED  BY <1>1, InvAlways, PTL
=============================================================================
