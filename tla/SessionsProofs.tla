---------------------------- MODULE SessionsProofs ----------------------------
(***************************************************************************)
(* Proofs about Sessions, for any users, browsers, tabs, lifetimes and     *)
(* bounds: the tables are well formed, a family has one token that renews  *)
(* it, no token outlives its family, the sessions implement SessionLife,   *)
(* and while nothing goes wrong the tabs of a browser never sign each      *)
(* other out and leave the browser the cookie that renews.                 *)
(***************************************************************************)
EXTENDS Sessions, SequenceTheorems, TLAPS

\* What a request names is there: n tokens have been issued.
Refers(r, n) ==
  r # None =>
    /\ r.do \in {"refresh", "rotate"} => r.token \in 1..n
    /\ r.do = "reply" => r.answer \in 0..n

References ==
  /\ \A t \in Tabs : Refers(requests[t], Len(tokens))
  /\ \A b \in Browsers : cookie[b] \in 0..Len(tokens)

TablesOK ==
  /\ families \in Seq(Family) /\ Len(families) <= MaxFamilies
  /\ tokens \in Seq(Token) /\ Len(tokens) <= MaxTokens
  /\ TokensWithinFamilies
  /\ OneLiveToken

SessionsInv == SessionsTypeOK /\ References /\ TablesOK

\* Families end, and nothing else happens to the tables.
FamiliesEnd ==
  /\ tokens' = tokens
  /\ families' \in Seq(Family)
  /\ Len(families') = Len(families)
  /\ \A f \in DOMAIN families :
       /\ families'[f].user = families[f].user
       /\ families'[f].expires = families[f].expires
       /\ families'[f].state # families[f].state =>
            families[f].state = "live" /\ families'[f].state # "live"

-----------------------------------------------------------------------------
(***************************************************************************)
(* The tables.                                                             *)
(***************************************************************************)

\* The kinds of requests are told apart by what they do.
LEMMA RequestKinds ==
  ASSUME SessionsTypeOK, NEW t \in Tabs, requests[t] # None
  PROVE  /\ Doing(t, "login") \/ Doing(t, "change") => requests[t].user \in Users
         /\ Doing(t, "refresh") \/ Doing(t, "rotate") =>
              requests[t].since \in Time /\ requests[t].token \in 1..MaxTokens
         /\ Doing(t, "rotate") => requests[t].at \in Time /\ requests[t].seen \in BOOLEAN
         /\ Doing(t, "reply") =>
              requests[t].since \in Time /\ requests[t].answer \in 0..MaxTokens
  <1>1. requests[t] \in Request
    BY DEF SessionsTypeOK
  <1> QED  BY <1>1 DEF Request, Doing

LEMMA ClockFacts ==
  ASSUME SessionsTypeOK
  PROVE  /\ clock \in Nat /\ clock \in Time
         /\ Len(tokens) \in Nat /\ Len(families) \in Nat
         /\ DOMAIN tokens = 1..Len(tokens) /\ DOMAIN families = 1..Len(families)
         /\ MaxTokens \in Nat /\ MaxFamilies \in Nat /\ MaxClock \in Nat /\ MaxPasswords \in Nat
         /\ FamilyTTL \in Nat /\ RefreshTTL \in Nat
  BY SessionsAssumption DEF SessionsTypeOK, Time

\* A request that Rotate works on presents a token of a family that is there.
LEMMA Rotating ==
  ASSUME SessionsInv, NEW t \in Tabs, Doing(t, "rotate")
  PROVE  /\ requests[t].token \in DOMAIN tokens
         /\ Presented(t) \in Token
         /\ Presented(t).family \in DOMAIN families
         /\ Locked(t) \in Family
         /\ requests[t].at \in Time /\ requests[t].since \in Time
  <1>1. SessionsTypeOK /\ requests[t] # None
    BY DEF SessionsInv, Doing
  <1>2. requests[t].token \in 1..Len(tokens)
    BY DEF SessionsInv, References, Refers, Doing
  <1>3. requests[t].token \in DOMAIN tokens /\ tokens[requests[t].token] \in Token
    BY <1>1, <1>2 DEF SessionsTypeOK
  <1>4. tokens[requests[t].token].family \in DOMAIN families
    BY <1>3 DEF SessionsInv, TablesOK, TokensWithinFamilies
  <1>5. families[tokens[requests[t].token].family] \in Family
    BY <1>1, <1>4 DEF SessionsTypeOK
  <1> QED  BY <1>1, <1>3, <1>4, <1>5, RequestKinds DEF Presented, Locked

LEMMA EndFamilyEnds ==
  ASSUME SessionsTypeOK, NEW f \in DOMAIN families, families[f].state = "live",
         NEW how \in {"revoked", "reused"}, EndFamily(f, how), tokens' = tokens
  PROVE  /\ FamiliesEnd
         /\ families'[f].state # "live"
         /\ \A g \in DOMAIN families : g # f => families'[g] = families[g]
  <1> DEFINE row == [families[f] EXCEPT !.state = how]
  <1>1. families \in Seq(Family) /\ f \in 1..Len(families) /\ families[f] \in Family
    BY DEF SessionsTypeOK
  <1>2. /\ row \in Family /\ row.user = families[f].user
        /\ row.expires = families[f].expires /\ row.state = how
    BY <1>1 DEF Family
  <1>3. families' = [families EXCEPT ![f] = row]
    BY DEF EndFamily
  <1>4. families' \in Seq(Family) /\ Len(families') = Len(families)
    BY <1>1, <1>2, <1>3
  <1>5. \A g \in DOMAIN families : families'[g] = IF g = f THEN row ELSE families[g]
    BY <1>1, <1>3
  <1> QED  BY <1>2, <1>4, <1>5 DEF FamiliesEnd

LEMMA EndAllEnds ==
  ASSUME SessionsTypeOK, NEW u, EndAll(u), tokens' = tokens
  PROVE  /\ FamiliesEnd
         /\ \A f \in DOMAIN families : families[f].user = u => families'[f].state # "live"
         /\ \A f \in DOMAIN families : families[f].user # u => families'[f] = families[f]
  <1> DEFINE row(f) == [families[f] EXCEPT !.state = "revoked"]
  <1>1. families \in Seq(Family) /\ Len(families) \in Nat /\ DOMAIN families = 1..Len(families)
    BY DEF SessionsTypeOK
  <1>2. \A f \in 1..Len(families) :
          /\ families[f] \in Family
          /\ row(f) \in Family /\ row(f).user = families[f].user
          /\ row(f).expires = families[f].expires /\ row(f).state = "revoked"
    <2> SUFFICES ASSUME NEW f \in 1..Len(families)
                 PROVE  /\ families[f] \in Family
                        /\ row(f) \in Family /\ row(f).user = families[f].user
                        /\ row(f).expires = families[f].expires /\ row(f).state = "revoked"
      OBVIOUS
    <2>1. families[f] \in Family
      BY <1>1
    <2> QED  BY <2>1 DEF Family
  <1>3. \A f \in 1..Len(families) :
          families'[f] = IF families[f].user = u /\ families[f].state = "live"
                         THEN row(f) ELSE families[f]
    BY <1>1 DEF EndAll
  <1>4. families' \in [1..Len(families) -> Family]
    BY <1>1, <1>2 DEF EndAll
  <1>5. families' \in Seq(Family)
    BY <1>1, <1>4, SeqDef
  <1>6. Len(families') \in Nat /\ DOMAIN families' = 1..Len(families')
    BY <1>5
  <1>7. Len(families') = Len(families)
    BY <1>1, <1>4, <1>6
  <1> QED  BY <1>1, <1>2, <1>3, <1>5, <1>7 DEF FamiliesEnd

LEMMA RevokeFamilyEnds ==
  ASSUME SessionsTypeOK, NEW f \in DOMAIN families, RevokeFamily(f), tokens' = tokens
  PROVE  FamiliesEnd
  <1>1. CASE families[f].state = "live"
    BY <1>1, EndFamilyEnds DEF RevokeFamily
  <1>2. CASE families[f].state # "live"
    BY <1>2 DEF RevokeFamily, FamiliesEnd, SessionsTypeOK
  <1> QED  BY <1>1, <1>2

\* Of the steps, two issue a token; the others end families at most.
LEMMA TableSteps ==
  ASSUME SessionsInv, [SessionsNext]_sessionsVars
  PROVE  \/ FamiliesEnd
         \/ \E t \in Tabs : Issue(t) \/ Renew(t)
  <1>0. SessionsTypeOK
    BY DEF SessionsInv
  <1>1. CASE UNCHANGED <<families, tokens>>
    BY <1>0, <1>1 DEF FamiliesEnd, SessionsTypeOK
  <1>2. ASSUME NEW t \in Tabs, Revoke(t) \/ Reused(t)
        PROVE  FamiliesEnd
    <2>1. Doing(t, "rotate") /\ Locked(t).state = "live" /\ tokens' = tokens
      BY <1>2 DEF Revoke, Reused, Live
    <2>2. Presented(t).family \in DOMAIN families /\ families[Presented(t).family].state = "live"
      BY <2>1, Rotating DEF Locked
    <2>3. EndFamily(Presented(t).family, "revoked") \/ EndFamily(Presented(t).family, "reused")
      BY <1>2 DEF Revoke, Reused
    <2> QED  BY <1>0, <2>1, <2>2, <2>3, EndFamilyEnds
  <1>3. ASSUME NEW t \in Tabs, Logout(t)
        PROVE  FamiliesEnd
    BY <1>0, <1>3, RevokeFamilyEnds DEF Logout
  <1>4. ASSUME NEW t \in Tabs, ChangePassword(t)
        PROVE  FamiliesEnd
    BY <1>0, <1>4, EndAllEnds DEF ChangePassword
  <1>5. ASSUME NEW u \in Users, DisableUser(u)
        PROVE  FamiliesEnd
    BY <1>0, <1>5, EndAllEnds DEF DisableUser
  <1>6. ASSUME NEW t \in Tabs,
               \/ \E u \in Users : Authenticate(t, u) \/ AskChange(t, u)
               \/ SendRefresh(t) \/ RotateLooks(t) \/ Refuse(t) \/ Conflict(t)
               \/ Deliver(t) \/ Lose(t)
        PROVE  UNCHANGED <<families, tokens>>
    BY <1>6 DEF Authenticate, AskChange, SendRefresh, RotateLooks, Refuse, Conflict, Deliver, Lose,
                tableVars
  <1>7. ASSUME Tick \/ (\E u \in Users : EnableUser(u)) \/ UNCHANGED sessionsVars
        PROVE  UNCHANGED <<families, tokens>>
    BY <1>7 DEF Tick, EnableUser, sessionsVars, tableVars
  <1> QED
    BY <1>1, <1>2, <1>3, <1>4, <1>5, <1>6, <1>7 DEF SessionsNext

-----------------------------------------------------------------------------
LEMMA EndsKeepTables ==
  ASSUME SessionsInv, FamiliesEnd
  PROVE  TablesOK' /\ DOMAIN families' = DOMAIN families
  <1>1. families \in Seq(Family) /\ families' \in Seq(Family) /\ Len(families') = Len(families)
        /\ tokens' = tokens /\ SessionsTypeOK
    BY DEF SessionsInv, SessionsTypeOK, FamiliesEnd
  <1>2. DOMAIN families' = DOMAIN families
    BY <1>1
  <1>3. TokensWithinFamilies'
    BY <1>1, <1>2 DEF SessionsInv, TablesOK, TokensWithinFamilies, FamiliesEnd
  <1>4. \A f : UnusedTokens(f)' = UnusedTokens(f)
    BY <1>1 DEF UnusedTokens
  <1>5. OneLiveToken'
    BY <1>2, <1>4 DEF SessionsInv, TablesOK, OneLiveToken
  <1> QED  BY <1>1, <1>2, <1>3, <1>5 DEF TablesOK, SessionsTypeOK

\* The token that TokenOf makes is a token of f that ends with the family.
LEMMA NewToken ==
  ASSUME SessionsTypeOK, NEW f \in 1..MaxFamilies, NEW at \in Time, NEW end \in Nat
  PROVE  /\ TokenOf(f, at, end) \in Token
         /\ TokenOf(f, at, end).family = f
         /\ TokenOf(f, at, end).rotated = None
         /\ TokenOf(f, at, end).expires <= end
  <1>1. at + RefreshTTL \in Nat
    BY ClockFacts DEF Time
  <1>2. Earlier(at + RefreshTTL, end) \in Nat /\ Earlier(at + RefreshTTL, end) <= end
    BY <1>1 DEF Earlier
  <1> QED  BY <1>2 DEF TokenOf, Token

LEMMA IssueKeepsTables ==
  ASSUME SessionsInv, NEW t \in Tabs, Issue(t)
  PROVE  /\ TablesOK'
         /\ Len(tokens') = Len(tokens) + 1
         /\ Len(families') = Len(families) + 1
         /\ \A f \in DOMAIN families : families'[f] = families[f] /\ UnusedTokens(f)' = UnusedTokens(f)
         /\ families'[Len(families) + 1] =
              [user |-> requests[t].user, expires |-> clock + FamilyTTL, state |-> "live"]
         /\ \A f : f = Len(families) + 1 => UnusedTokens(f)' = {Len(tokens) + 1}
         /\ \A i \in DOMAIN tokens : tokens'[i] = tokens[i]
         /\ tokens'[Len(tokens) + 1].rotated = None
  <1> DEFINE m == Len(families) + 1
             n == Len(tokens) + 1
             row == [user |-> requests[t].user, expires |-> clock + FamilyTTL, state |-> "live"]
             new == TokenOf(m, clock, clock + FamilyTTL)
  <1>1. /\ SessionsTypeOK
        /\ families \in Seq(Family) /\ tokens \in Seq(Token)
        /\ Len(families) \in Nat /\ Len(tokens) \in Nat
        /\ DOMAIN families = 1..Len(families) /\ DOMAIN tokens = 1..Len(tokens)
        /\ MaxFamilies \in Nat /\ MaxTokens \in Nat
        /\ clock \in Time /\ clock + FamilyTTL \in Nat
    BY ClockFacts DEF SessionsInv, SessionsTypeOK
  <1>2. /\ Len(families) < MaxFamilies /\ Len(tokens) < MaxTokens
        /\ families' = Append(families, row) /\ tokens' = Append(tokens, new)
    BY DEF Issue
  <1>3. requests[t].user \in Users
    BY <1>1, RequestKinds DEF Issue, Doing
  <1>4. row \in Family
    BY <1>1, <1>3 DEF Family
  <1>5. new \in Token /\ new.family = m /\ new.rotated = None /\ new.expires <= clock + FamilyTTL
    BY <1>1, <1>2, NewToken
  <1> HIDE DEF row, new
  <1>6. /\ families' \in Seq(Family) /\ Len(families') = m /\ families'[m] = row
        /\ \A f \in 1..Len(families) : families'[f] = families[f]
        /\ DOMAIN families' = 1..m
    BY <1>1, <1>2, <1>4
  <1>7. /\ tokens' \in Seq(Token) /\ Len(tokens') = n /\ tokens'[n] = new
        /\ \A i \in 1..Len(tokens) : tokens'[i] = tokens[i]
        /\ DOMAIN tokens' = 1..n
    BY <1>1, <1>2, <1>5
  <1>8. \A i \in 1..Len(tokens) :
          /\ tokens[i].family \in 1..Len(families)
          /\ tokens[i].expires <= families[tokens[i].family].expires
    BY <1>1 DEF SessionsInv, TablesOK, TokensWithinFamilies
  <1>9. TokensWithinFamilies'
    <2> SUFFICES ASSUME NEW i \in 1..n
                 PROVE  /\ tokens'[i].family \in 1..m
                        /\ tokens'[i].expires <= families'[tokens'[i].family].expires
      BY <1>6, <1>7 DEF TokensWithinFamilies
    <2>1. CASE i = n
      BY <1>1, <1>5, <1>6, <1>7, <2>1 DEF row
    <2>2. CASE i # n
      <3>1. i \in 1..Len(tokens)
        BY <1>1, <2>2
      <3>2. tokens'[i] = tokens[i] /\ tokens[i].family \in 1..Len(families)
        BY <1>7, <1>8, <3>1
      <3>3. families'[tokens[i].family] = families[tokens[i].family]
        BY <1>6, <3>2
      <3> QED  BY <1>1, <1>8, <3>1, <3>2, <3>3
    <2> QED  BY <2>1, <2>2
  <1>10. \A f \in 1..Len(families) : UnusedTokens(f)' = UnusedTokens(f)
    BY <1>1, <1>5, <1>7 DEF UnusedTokens
  <1>11. ASSUME NEW f, f = m
         PROVE  UnusedTokens(f)' = {n}
    <2>1. ASSUME NEW i \in 1..n
          PROVE  (tokens'[i].family = f /\ tokens'[i].rotated = None) <=> i = n
      <3>1. CASE i = n
        BY <1>5, <1>7, <1>11, <3>1
      <3>2. CASE i # n
        <4>1. i \in 1..Len(tokens) /\ tokens'[i] = tokens[i]
          BY <1>1, <1>7, <3>2
        <4> QED  BY <1>1, <1>8, <1>11, <3>2, <4>1
      <3> QED  BY <3>1, <3>2
    <2>2. UnusedTokens(f)' = {i \in 1..n : tokens'[i].family = f /\ tokens'[i].rotated = None}
      BY <1>7 DEF UnusedTokens
    <2>3. n \in 1..n
      BY <1>1
    <2> QED  BY <2>1, <2>2, <2>3
  <1>12. OneLiveToken'
    <2> SUFFICES ASSUME NEW f \in 1..m
                 PROVE  \E i : UnusedTokens(f)' = {i}
      BY <1>6 DEF OneLiveToken
    <2>1. CASE f = m
      BY <1>11, <2>1
    <2>2. CASE f # m
      <3>1. f \in 1..Len(families)
        BY <1>1, <2>2
      <3>2. \E i : UnusedTokens(f) = {i}
        BY <1>1, <3>1 DEF SessionsInv, TablesOK, OneLiveToken
      <3> QED  BY <1>10, <3>1, <3>2
    <2> QED  BY <2>1, <2>2
  <1>13. TablesOK'
    BY <1>1, <1>2, <1>6, <1>7, <1>9, <1>12 DEF TablesOK
  <1> QED  BY <1>1, <1>5, <1>6, <1>7, <1>10, <1>11, <1>13 DEF row

LEMMA RenewKeepsTables ==
  ASSUME SessionsInv, NEW t \in Tabs, Renew(t)
  PROVE  /\ TablesOK'
         /\ families' = families
         /\ Len(tokens') = Len(tokens) + 1
         /\ requests[t].token \in DOMAIN tokens
         /\ UnusedTokens(Presented(t).family) = {requests[t].token}
         /\ \A f : f = Presented(t).family => UnusedTokens(f)' = {Len(tokens) + 1}
         /\ \A f \in DOMAIN families : f # Presented(t).family => UnusedTokens(f)' = UnusedTokens(f)
         /\ \A i \in DOMAIN tokens : i # requests[t].token => tokens'[i] = tokens[i]
         /\ \A i \in DOMAIN tokens : tokens'[i].family = tokens[i].family
         /\ tokens'[requests[t].token].rotated \in Time
         /\ tokens'[requests[t].token].rotated = requests[t].at
         /\ tokens'[Len(tokens) + 1].rotated = None
  <1> DEFINE i0 == requests[t].token
             f0 == Presented(t).family
             n == Len(tokens) + 1
             old == [tokens[i0] EXCEPT !.rotated = requests[t].at]
             new == TokenOf(f0, requests[t].at, Locked(t).expires)
  <1>1. /\ SessionsTypeOK
        /\ tokens \in Seq(Token) /\ Len(tokens) \in Nat /\ DOMAIN tokens = 1..Len(tokens)
        /\ DOMAIN families = 1..Len(families) /\ MaxTokens \in Nat
        /\ Len(families) \in Nat /\ Len(families) <= MaxFamilies /\ MaxFamilies \in Nat
    BY ClockFacts DEF SessionsInv, SessionsTypeOK
  <1>2. Doing(t, "rotate") /\ Presented(t).rotated = None /\ Len(tokens) < MaxTokens
        /\ tokens' = Append(Spend(t), new) /\ families' = families
    BY DEF Renew
  <1>3. /\ i0 \in 1..Len(tokens) /\ tokens[i0] \in Token /\ tokens[i0].family = f0
        /\ f0 \in 1..Len(families) /\ f0 \in 1..MaxFamilies
        /\ requests[t].at \in Time /\ Locked(t).expires \in Nat
        /\ Locked(t) = families[f0] /\ tokens[i0].rotated = None
    BY <1>1, <1>2, Rotating DEF Presented, Locked, Family
  <1>4. new \in Token /\ new.family = f0 /\ new.rotated = None /\ new.expires <= families[f0].expires
    BY <1>1, <1>3, NewToken
  <1>5. /\ old \in Token /\ old.family = f0 /\ old.rotated = requests[t].at /\ old.rotated # None
        /\ old.expires = tokens[i0].expires
    BY <1>3, SessionsNoneAssumption DEF Token
  <1>6. Spend(t) = [tokens EXCEPT ![i0] = old]
    BY DEF Spend
  <1> HIDE DEF old, new
  <1>7. /\ Spend(t) \in Seq(Token) /\ Len(Spend(t)) = Len(tokens)
        /\ \A i \in 1..Len(tokens) : Spend(t)[i] = IF i = i0 THEN old ELSE tokens[i]
    BY <1>1, <1>3, <1>5, <1>6
  <1>8. /\ tokens' \in Seq(Token) /\ Len(tokens') = n /\ tokens'[n] = new
        /\ \A i \in 1..Len(tokens) : tokens'[i] = IF i = i0 THEN old ELSE tokens[i]
        /\ DOMAIN tokens' = 1..n
    BY <1>1, <1>2, <1>4, <1>7
  <1>9. \A i \in 1..Len(tokens) :
          /\ tokens[i].family \in 1..Len(families)
          /\ tokens[i].expires <= families[tokens[i].family].expires
    BY <1>1 DEF SessionsInv, TablesOK, TokensWithinFamilies
  <1>10. TokensWithinFamilies'
    <2> SUFFICES ASSUME NEW i \in 1..n
                 PROVE  /\ tokens'[i].family \in 1..Len(families)
                        /\ tokens'[i].expires <= families[tokens'[i].family].expires
      BY <1>1, <1>2, <1>8 DEF TokensWithinFamilies
    <2>1. CASE i = n
      BY <1>3, <1>4, <1>8, <2>1
    <2>2. CASE i = i0 /\ i # n
      BY <1>3, <1>5, <1>8, <1>9, <2>2
    <2>3. CASE i # i0 /\ i # n
      BY <1>1, <1>8, <1>9, <2>3
    <2> QED  BY <2>1, <2>2, <2>3
  <1>11. UnusedTokens(f0) = {i0}
    <2>1. i0 \in UnusedTokens(f0)
      BY <1>1, <1>3 DEF UnusedTokens
    <2>2. \E i \in UnusedTokens(f0) : UnusedTokens(f0) = {i}
      BY <1>1, <1>3 DEF SessionsInv, TablesOK, OneLiveToken
    <2> QED  BY <2>1, <2>2
  <1>12. ASSUME NEW f, f = f0
         PROVE  UnusedTokens(f)' = {n}
    <2>1. \A i \in 1..Len(tokens) : i # i0 => ~(tokens[i].family = f0 /\ tokens[i].rotated = None)
      BY <1>1, <1>11 DEF UnusedTokens
    <2>2. \A i \in 1..n : (tokens'[i].family = f /\ tokens'[i].rotated = None) <=> i = n
      BY <1>1, <1>3, <1>4, <1>5, <1>8, <1>12, <2>1
    <2>3. UnusedTokens(f)' = {i \in 1..n : tokens'[i].family = f /\ tokens'[i].rotated = None}
      BY <1>8 DEF UnusedTokens
    <2>4. n \in 1..n
      BY <1>1
    <2> QED  BY <2>2, <2>3, <2>4
  <1>13. \A f \in 1..Len(families) : f # f0 => UnusedTokens(f)' = UnusedTokens(f)
    BY <1>1, <1>3, <1>4, <1>5, <1>8 DEF UnusedTokens
  <1>14. OneLiveToken'
    <2> SUFFICES ASSUME NEW f \in 1..Len(families)
                 PROVE  \E i : UnusedTokens(f)' = {i}
      BY <1>1, <1>2 DEF OneLiveToken
    <2>1. \E i : UnusedTokens(f) = {i}
      BY <1>1 DEF SessionsInv, TablesOK, OneLiveToken
    <2>2. CASE f = f0
      BY <1>12, <2>2
    <2>3. CASE f # f0
      BY <1>13, <2>1, <2>3
    <2> QED  BY <2>2, <2>3
  <1>15. TablesOK'
    BY <1>1, <1>2, <1>8, <1>10, <1>14 DEF SessionsInv, TablesOK
  <1> QED
    BY <1>1, <1>2, <1>3, <1>4, <1>5, <1>8, <1>11, <1>12, <1>13, <1>15

\* Every step keeps the tables well formed, and tokens are never deleted.
LEMMA StepKeepsTables ==
  ASSUME SessionsInv, [SessionsNext]_sessionsVars
  PROVE  /\ TablesOK'
         /\ Len(tokens') \in Nat /\ Len(tokens') <= MaxTokens
         /\ Len(tokens) <= Len(tokens')
  <1>1. Len(tokens) \in Nat
    BY ClockFacts DEF SessionsInv
  <1>2. ASSUME FamiliesEnd
        PROVE  TablesOK' /\ tokens' = tokens
    BY <1>2, EndsKeepTables DEF FamiliesEnd
  <1>3. ASSUME NEW t \in Tabs, Issue(t)
        PROVE  TablesOK' /\ Len(tokens') = Len(tokens) + 1
    BY <1>3, IssueKeepsTables
  <1>4. ASSUME NEW t \in Tabs, Renew(t)
        PROVE  TablesOK' /\ Len(tokens') = Len(tokens) + 1
    BY <1>4, RenewKeepsTables
  <1>5. TablesOK' /\ (tokens' = tokens \/ Len(tokens') = Len(tokens) + 1)
    BY <1>2, <1>3, <1>4, TableSteps
  <1> QED  BY <1>1, <1>5 DEF TablesOK

-----------------------------------------------------------------------------
(***************************************************************************)
(* Requests and cookies.                                                   *)
(***************************************************************************)

\* The requests a step can leave behind.
LEMMA NewRequests ==
  ASSUME SessionsInv
  PROVE  /\ \A u \in Users : /\ [do |-> "login", user |-> u] \in Request
                            /\ [do |-> "change", user |-> u] \in Request
         /\ \A at \in Time, i \in 1..MaxTokens :
               [do |-> "refresh", since |-> at, token |-> i] \in Request
         /\ \A at \in Time, i \in 0..MaxTokens : Reply(at, i) \in Request
         /\ \A at, since \in Time, i \in 1..MaxTokens, seen \in BOOLEAN :
               [do |-> "rotate", since |-> since, token |-> i, at |-> at, seen |-> seen] \in Request
  BY DEF Request, Reply

\* At most one tab's request changes, to one that names issued tokens only.
LEMMA RequestStep ==
  ASSUME SessionsInv, SessionsNext
  PROVE  \/ UNCHANGED requests
         \/ \E t \in Tabs, r \in Request \cup {None} : Becomes(t, r) /\ Refers(r, Len(tokens'))
  <1> DEFINE Goal == \/ UNCHANGED requests
                     \/ \E t \in Tabs, r \in Request \cup {None} :
                          Becomes(t, r) /\ Refers(r, Len(tokens'))
  <1>1. /\ SessionsTypeOK /\ clock \in Time /\ Len(tokens) \in Nat /\ Len(tokens) <= MaxTokens
        /\ MaxTokens \in Nat
        /\ Len(tokens') \in Nat /\ Len(tokens') <= MaxTokens /\ Len(tokens) <= Len(tokens')
    BY ClockFacts, StepKeepsTables DEF SessionsInv, SessionsTypeOK
  <1>2. \A t \in Tabs : Refers(requests[t], Len(tokens))
    BY DEF SessionsInv, References
  <1>3. ASSUME NEW t \in Tabs, Becomes(t, None)
        PROVE  Goal
    BY <1>3 DEF Refers
  <1>4. ASSUME NEW t \in Tabs, NEW u \in Users, Authenticate(t, u) \/ AskChange(t, u)
        PROVE  Goal
    <2>1. PICK r \in Request : Becomes(t, r) /\ r.do \in {"login", "change"}
      BY <1>4, NewRequests DEF Authenticate, AskChange, Starts
    <2>2. Refers(r, Len(tokens'))
      BY <2>1 DEF Refers
    <2> QED  BY <2>1, <2>2
  <1>5. ASSUME NEW t \in Tabs, SendRefresh(t)
        PROVE  Goal
    <2> DEFINE r == [do |-> "refresh", since |-> clock, token |-> cookie[Home[t]]]
    <2>1. Becomes(t, r) /\ cookie[Home[t]] # 0 /\ tokens' = tokens
      BY <1>5 DEF SendRefresh, Starts, tableVars
    <2>2. Home[t] \in Browsers
      BY SessionsAssumption
    <2>3. cookie[Home[t]] \in 1..Len(tokens)
      BY <1>1, <2>1, <2>2 DEF SessionsInv, References
    <2>4. cookie[Home[t]] \in 1..MaxTokens
      BY <1>1, <2>3
    <2>5. r \in Request
      BY <1>1, <2>4, NewRequests
    <2>6. Refers(r, Len(tokens'))
      BY <2>1, <2>3 DEF Refers
    <2> QED  BY <2>1, <2>5, <2>6
  <1>6. ASSUME NEW t \in Tabs, RotateLooks(t)
        PROVE  Goal
    <2>1. Doing(t, "refresh") /\ tokens' = tokens
      BY <1>6 DEF RotateLooks, tableVars
    <2>2. /\ requests[t].since \in Time /\ requests[t].token \in 1..MaxTokens
          /\ requests[t].token \in 1..Len(tokens)
      BY <1>1, <1>2, <2>1, RequestKinds DEF Doing, Refers
    <2> DEFINE seen == families[tokens[requests[t].token].family].user \in normal
               r == [do |-> "rotate", since |-> requests[t].since, token |-> requests[t].token,
                     at |-> clock, seen |-> seen]
    <2>3. Becomes(t, r)
      BY <1>6 DEF RotateLooks
    <2>4. r \in Request
      <3>1. seen \in BOOLEAN
        OBVIOUS
      <3> HIDE DEF seen
      <3> QED  BY <1>1, <2>2, <3>1, NewRequests
    <2>5. Refers(r, Len(tokens'))
      BY <2>1, <2>2 DEF Refers
    <2> QED  BY <2>3, <2>4, <2>5
  <1>7. ASSUME NEW t \in Tabs, NEW at \in Time, NEW i \in 0..Len(tokens'), Becomes(t, Reply(at, i))
        PROVE  Goal
    <2>1. i \in 0..MaxTokens
      BY <1>1
    <2>2. Reply(at, i) \in Request
      BY <2>1, NewRequests
    <2>3. Refers(Reply(at, i), Len(tokens'))
      BY DEF Refers, Reply
    <2> QED  BY <1>7, <2>2, <2>3
  <1>8. ASSUME NEW t \in Tabs, Refuse(t) \/ Revoke(t) \/ Reused(t)
        PROVE  Goal
    <2>1. Becomes(t, Reply(requests[t].since, 0)) /\ requests[t].since \in Time
      BY <1>8, Rotating DEF Refuse, Revoke, Reused, Refreshed
    <2>2. 0 \in 0..Len(tokens')
      BY <1>1
    <2> QED  BY <1>7, <2>1, <2>2
  <1>9. ASSUME NEW t \in Tabs, Logout(t) \/ ChangePassword(t)
        PROVE  Goal
    <2>1. Becomes(t, Reply(clock, 0))
      BY <1>9 DEF Logout, ChangePassword, Starts
    <2>2. 0 \in 0..Len(tokens')
      BY <1>1
    <2> QED  BY <1>1, <1>7, <2>1, <2>2
  <1>10. ASSUME NEW t \in Tabs, Renew(t)
         PROVE  Goal
    <2>1. /\ Becomes(t, Reply(requests[t].since, Len(tokens) + 1))
          /\ requests[t].since \in Time
      BY <1>10, Rotating DEF Renew, Refreshed
    <2>2. Len(tokens) + 1 \in 0..Len(tokens')
      BY <1>1, <1>10, RenewKeepsTables
    <2> QED  BY <1>7, <2>1, <2>2
  <1>11. ASSUME NEW t \in Tabs, Issue(t)
         PROVE  Goal
    <2>1. Becomes(t, Reply(clock, Len(tokens) + 1))
      BY <1>11 DEF Issue
    <2>2. Len(tokens') = Len(tokens) + 1
      BY <1>11, IssueKeepsTables
    <2>3. Len(tokens) + 1 \in 0..Len(tokens')
      BY <1>1, <2>2
    <2> QED  BY <1>1, <1>7, <2>1, <2>3
  <1>12. ASSUME NEW t \in Tabs, Conflict(t) \/ Deliver(t) \/ Lose(t)
         PROVE  Goal
    BY <1>3, <1>12 DEF Conflict, Deliver, Lose
  <1>13. ASSUME Tick \/ \E u \in Users : DisableUser(u) \/ EnableUser(u)
         PROVE  Goal
    BY <1>13 DEF Tick, DisableUser, EnableUser
  <1> QED
    BY <1>4, <1>5, <1>6, <1>8, <1>9, <1>10, <1>11, <1>12, <1>13 DEF SessionsNext

\* The cookie a reply brings was issued.
LEMMA CookieStep ==
  ASSUME SessionsInv, SessionsNext
  PROVE  \/ UNCHANGED cookie
         \/ \E b \in Browsers, i \in 0..Len(tokens) : cookie' = [cookie EXCEPT ![b] = i]
  <1>1. ASSUME NEW t \in Tabs, Deliver(t)
        PROVE  \E b \in Browsers, i \in 0..Len(tokens) : cookie' = [cookie EXCEPT ![b] = i]
    <2>1. Home[t] \in Browsers
      BY SessionsAssumption
    <2>2. requests[t].answer \in 0..Len(tokens)
      BY <1>1 DEF Deliver, Doing, SessionsInv, References, Refers
    <2> QED  BY <1>1, <2>1, <2>2 DEF Deliver, Answer
  <1>2. CASE \E t \in Tabs :
               \/ \E u \in Users : Authenticate(t, u) \/ AskChange(t, u)
               \/ Issue(t) \/ SendRefresh(t) \/ RotateLooks(t)
               \/ Refuse(t) \/ Revoke(t) \/ Conflict(t) \/ Reused(t) \/ Renew(t)
               \/ Logout(t) \/ ChangePassword(t) \/ Lose(t)
    BY <1>2 DEF Authenticate, AskChange, Issue, SendRefresh, RotateLooks, Refuse, Revoke, Conflict,
                Reused, Renew, Logout, ChangePassword, Lose
  <1>3. CASE Tick \/ \E u \in Users : DisableUser(u) \/ EnableUser(u)
    BY <1>3 DEF Tick, DisableUser, EnableUser
  <1> QED  BY <1>1, <1>2, <1>3 DEF SessionsNext

\* The clock, the users and the passwords keep their types.
LEMMA ScalarStep ==
  ASSUME SessionsInv, SessionsNext
  PROVE  /\ clock' \in Time /\ normal' \subseteq Users
         /\ passwords' \in [Users -> 0..MaxPasswords] /\ trouble' \subseteq {"lost", "slow"}
  <1> DEFINE Goal == /\ clock' \in Time /\ normal' \subseteq Users
                     /\ passwords' \in [Users -> 0..MaxPasswords]
                     /\ trouble' \subseteq {"lost", "slow"}
  <1>1. /\ clock \in Time /\ normal \subseteq Users /\ passwords \in [Users -> 0..MaxPasswords]
        /\ trouble \subseteq {"lost", "slow"} /\ MaxPasswords \in Nat /\ MaxClock \in Nat
    BY SessionsAssumption DEF SessionsInv, SessionsTypeOK
  <1>2. CASE \E t \in Tabs :
               \/ \E u \in Users : Authenticate(t, u) \/ AskChange(t, u)
               \/ Issue(t) \/ SendRefresh(t) \/ RotateLooks(t)
               \/ Refuse(t) \/ Revoke(t) \/ Conflict(t) \/ Reused(t) \/ Renew(t)
               \/ Logout(t) \/ Deliver(t)
    BY <1>1, <1>2 DEF Authenticate, AskChange, Issue, SendRefresh, RotateLooks, Refuse, Revoke,
                Conflict, Reused, Renew, Logout, Deliver, tableVars
  <1>3. ASSUME NEW t \in Tabs, ChangePassword(t)
        PROVE  Goal
    <2>1. requests[t].user \in Users
      BY <1>3, RequestKinds DEF ChangePassword, Doing, SessionsInv
    <2>2. passwords[requests[t].user] + 1 \in 0..MaxPasswords
      BY <1>1, <1>3, <2>1 DEF ChangePassword
    <2>3. passwords' \in [Users -> 0..MaxPasswords]
      BY <1>1, <1>3, <2>1, <2>2 DEF ChangePassword
    <2> QED  BY <1>1, <1>3, <2>3 DEF ChangePassword
  <1>4. CASE \E t \in Tabs : Lose(t)
    BY <1>1, <1>4 DEF Lose, tableVars
  <1>5. CASE \E u \in Users : DisableUser(u) \/ EnableUser(u)
    BY <1>1, <1>5 DEF DisableUser, EnableUser
  <1>6. CASE Tick
    <2>1. clock' \in Time
      BY <1>1, <1>6 DEF Tick, Time
    <2> QED  BY <1>1, <1>6, <2>1 DEF Tick, tableVars
  <1> QED  BY <1>2, <1>3, <1>4, <1>5, <1>6 DEF SessionsNext

-----------------------------------------------------------------------------
(***************************************************************************)
(* The invariant.                                                          *)
(***************************************************************************)
LEMMA InvInit ==
  SessionsInit => SessionsInv
  <1> SUFFICES ASSUME SessionsInit
               PROVE  SessionsInv
    OBVIOUS
  <1>1. << >> \in Seq(Family) /\ << >> \in Seq(Token) /\ Len(families) = 0 /\ Len(tokens) = 0
        /\ DOMAIN families = {} /\ DOMAIN tokens = {}
    BY DEF SessionsInit
  <1>2. SessionsTypeOK
    BY <1>1, SessionsAssumption DEF SessionsInit, SessionsTypeOK, Time
  <1>3. References
    BY <1>1 DEF SessionsInit, References, Refers
  <1>4. TablesOK
    BY <1>1, <1>2 DEF TablesOK, SessionsTypeOK, TokensWithinFamilies, OneLiveToken
  <1> QED  BY <1>2, <1>3, <1>4 DEF SessionsInv

\* What a request names stays there as tokens are added.
LEMMA InvNext ==
  ASSUME SessionsInv, [SessionsNext]_sessionsVars
  PROVE  SessionsInv'
  <1>1. TablesOK' /\ Len(tokens') \in Nat /\ Len(tokens) \in Nat /\ Len(tokens) <= Len(tokens')
        /\ Len(tokens') <= MaxTokens /\ MaxTokens \in Nat
    BY StepKeepsTables, ClockFacts DEF SessionsInv
  <1>2. CASE UNCHANGED sessionsVars
    <2>1. SessionsTypeOK' /\ References'
      BY <1>2 DEF SessionsInv, SessionsTypeOK, References, sessionsVars
    <2> QED  BY <1>1, <2>1 DEF SessionsInv
  <1>3. CASE SessionsNext
    <2>1. \A r : Refers(r, Len(tokens)) => Refers(r, Len(tokens'))
      BY <1>1 DEF Refers
    <2>2. /\ requests \in [Tabs -> Request \cup {None}] /\ cookie \in [Browsers -> 0..MaxTokens]
          /\ \A t \in Tabs : Refers(requests[t], Len(tokens))
          /\ \A b \in Browsers : cookie[b] \in 0..Len(tokens)
      BY DEF SessionsInv, SessionsTypeOK, References
    <2>3. /\ requests' \in [Tabs -> Request \cup {None}]
          /\ \A t \in Tabs : Refers(requests'[t], Len(tokens'))
      <3>1. CASE UNCHANGED requests
        BY <2>1, <2>2, <3>1
      <3>2. ASSUME NEW t \in Tabs, NEW r \in Request \cup {None}, Becomes(t, r),
                   Refers(r, Len(tokens'))
            PROVE  /\ requests' \in [Tabs -> Request \cup {None}]
                   /\ \A s \in Tabs : Refers(requests'[s], Len(tokens'))
        <4>1. /\ requests' \in [Tabs -> Request \cup {None}]
              /\ \A s \in Tabs : requests'[s] = IF s = t THEN r ELSE requests[s]
          BY <2>2, <3>2 DEF Becomes
        <4> QED  BY <2>1, <2>2, <3>2, <4>1
      <3> QED  BY <1>3, <3>1, <3>2, RequestStep
    <2>4. /\ cookie' \in [Browsers -> 0..MaxTokens]
          /\ \A b \in Browsers : cookie'[b] \in 0..Len(tokens')
      <3>1. CASE UNCHANGED cookie
        BY <1>1, <2>2, <3>1
      <3>2. ASSUME NEW b \in Browsers, NEW i \in 0..Len(tokens), cookie' = [cookie EXCEPT ![b] = i]
            PROVE  /\ cookie' \in [Browsers -> 0..MaxTokens]
                   /\ \A c \in Browsers : cookie'[c] \in 0..Len(tokens')
        <4>1. i \in 0..MaxTokens /\ i \in 0..Len(tokens')
          BY <1>1
        <4>2. \A c \in Browsers : cookie'[c] = IF c = b THEN i ELSE cookie[c]
          BY <2>2, <3>2
        <4> QED  BY <1>1, <2>2, <3>2, <4>1, <4>2
      <3> QED  BY <1>3, <3>1, <3>2, CookieStep
    <2>5. SessionsTypeOK'
      BY <1>1, <1>3, <2>3, <2>4, ScalarStep DEF SessionsTypeOK, TablesOK
    <2>6. References'
      BY <2>3, <2>4 DEF References
    <2> QED  BY <1>1, <2>5, <2>6 DEF SessionsInv
  <1> QED  BY <1>2, <1>3

LEMMA InvAlways ==
  SessionsSpec => []SessionsInv
  BY InvInit, InvNext, PTL DEF SessionsSpec

\* The tables, the cookies and the requests under way have their types.
THEOREM SessionsTypeCorrect ==
  SessionsSpec => []SessionsTypeOK
  <1>1. SessionsInv => SessionsTypeOK
    BY DEF SessionsInv
  <1> QED  BY <1>1, InvAlways, PTL

\* Whatever refreshes, logins, logouts, password changes and disablings are
\* under way, every family has one token that was not rotated (Rotate,
\* session/repository.go).
THEOREM OneTokenLives ==
  SessionsSpec => []OneLiveToken
  <1>1. SessionsInv => OneLiveToken
    BY DEF SessionsInv, TablesOK
  <1> QED  BY <1>1, InvAlways, PTL

\* No token outlives its family.
THEOREM TokensEndWithFamilies ==
  SessionsSpec => []TokensWithinFamilies
  <1>1. SessionsInv => TokensWithinFamilies
    BY DEF SessionsInv, TablesOK
  <1> QED  BY <1>1, InvAlways, PTL

-----------------------------------------------------------------------------
(***************************************************************************)
(* Sessions implements SessionLife.                                        *)
(***************************************************************************)

\* The user whom a rotation saw enabled is enabled as long as the family
\* lives: whoever disables the user ends it.
SeenNormal ==
  \A t \in Tabs :
    Doing(t, "rotate") /\ requests[t].seen /\ Live(t) => Locked(t).user \in normal

LifeInv == SessionsInv /\ SeenNormal

\* Tokens stay with their families, families with their users, and what has
\* ended does not come back.
LEMMA History ==
  ASSUME SessionsInv, [SessionsNext]_sessionsVars
  PROVE  /\ \A i \in DOMAIN tokens : i \in DOMAIN tokens' /\ tokens'[i].family = tokens[i].family
         /\ \A f \in DOMAIN families :
               /\ f \in DOMAIN families' /\ families'[f].user = families[f].user
               /\ families'[f].state = "live" => families[f].state = "live"
  <1> DEFINE Goal ==
        /\ \A i \in DOMAIN tokens : i \in DOMAIN tokens' /\ tokens'[i].family = tokens[i].family
        /\ \A f \in DOMAIN families :
              /\ f \in DOMAIN families' /\ families'[f].user = families[f].user
              /\ families'[f].state = "live" => families[f].state = "live"
  <1>1. /\ DOMAIN tokens = 1..Len(tokens) /\ DOMAIN families = 1..Len(families)
        /\ Len(tokens) \in Nat /\ Len(families) \in Nat
        /\ tokens' \in Seq(Token) /\ families' \in Seq(Family)
    BY ClockFacts, StepKeepsTables DEF SessionsInv, TablesOK
  <1>2. DOMAIN tokens' = 1..Len(tokens') /\ DOMAIN families' = 1..Len(families')
    BY <1>1
  <1>3. ASSUME FamiliesEnd
        PROVE  Goal
    BY <1>1, <1>2, <1>3 DEF FamiliesEnd
  <1>4. ASSUME NEW t \in Tabs, Issue(t)
        PROVE  Goal
    <2>1. /\ Len(tokens') = Len(tokens) + 1 /\ Len(families') = Len(families) + 1
          /\ \A f \in DOMAIN families : families'[f] = families[f]
          /\ \A i \in DOMAIN tokens : tokens'[i] = tokens[i]
      BY <1>4, IssueKeepsTables
    <2>2. \A i \in 1..Len(tokens) : i \in 1..Len(tokens')
      BY <1>1, <2>1
    <2>3. \A f \in 1..Len(families) : f \in 1..Len(families')
      BY <1>1, <2>1
    <2> QED  BY <1>1, <1>2, <2>1, <2>2, <2>3
  <1>5. ASSUME NEW t \in Tabs, Renew(t)
        PROVE  Goal
    <2>1. /\ Len(tokens') = Len(tokens) + 1 /\ families' = families
          /\ \A i \in DOMAIN tokens : tokens'[i].family = tokens[i].family
      BY <1>5, RenewKeepsTables
    <2>2. \A i \in 1..Len(tokens) : i \in 1..Len(tokens')
      BY <1>1, <2>1
    <2> QED  BY <1>1, <1>2, <2>1, <2>2
  <1> QED  BY <1>3, <1>4, <1>5, TableSteps

\* A rotation under way after a step was so before, or has just looked.
LEMMA RotationsBegin ==
  ASSUME SessionsInv, SessionsNext, NEW t \in Tabs, Doing(t, "rotate")'
  PROVE  requests'[t] = requests[t] \/ RotateLooks(t)
  <1>1. requests \in [Tabs -> Request \cup {None}]
    BY DEF SessionsInv, SessionsTypeOK
  <1>2. ASSUME NEW s \in Tabs, NEW r, Becomes(s, r), r = None \/ r.do # "rotate"
        PROVE  requests'[t] = requests[t]
    <2>1. requests'[t] = IF t = s THEN r ELSE requests[t]
      BY <1>1, <1>2 DEF Becomes
    <2> QED  BY <1>2, <2>1 DEF Doing
  <1>3. ASSUME NEW s \in Tabs, RotateLooks(s)
        PROVE  requests'[t] = requests[t] \/ RotateLooks(t)
    BY <1>1, <1>3 DEF RotateLooks, Becomes
  <1>4. ASSUME NEW s \in Tabs, Conflict(s) \/ Deliver(s) \/ Lose(s)
        PROVE  requests'[t] = requests[t]
    BY <1>2, <1>4 DEF Conflict, Deliver, Lose
  <1>5. ASSUME NEW s \in Tabs, NEW since, NEW answer, Becomes(s, Reply(since, answer))
        PROVE  requests'[t] = requests[t]
    <2>1. Reply(since, answer).do # "rotate"
      BY DEF Reply
    <2> QED  BY <1>2, <1>5, <2>1
  <1>6. ASSUME NEW s \in Tabs,
               Issue(s) \/ Refuse(s) \/ Revoke(s) \/ Reused(s) \/ Renew(s) \/ Logout(s)
               \/ ChangePassword(s)
        PROVE  requests'[t] = requests[t]
    BY <1>5, <1>6 DEF Issue, Refuse, Revoke, Reused, Renew, Logout, ChangePassword, Refreshed, Starts
  <1>7. ASSUME NEW s \in Tabs, NEW u \in Users, Authenticate(s, u) \/ AskChange(s, u)
        PROVE  requests'[t] = requests[t]
    <2>1. /\ [do |-> "login", user |-> u].do # "rotate"
          /\ [do |-> "change", user |-> u].do # "rotate"
      OBVIOUS
    <2> QED  BY <1>2, <1>7, <2>1 DEF Authenticate, AskChange, Starts
  <1>8. ASSUME NEW s \in Tabs, SendRefresh(s)
        PROVE  requests'[t] = requests[t]
    <2> DEFINE r == [do |-> "refresh", since |-> clock, token |-> cookie[Home[s]]]
    <2>1. r.do # "rotate" /\ Becomes(s, r)
      BY <1>8 DEF SendRefresh, Starts
    <2> QED  BY <1>2, <2>1
  <1>9. CASE Tick \/ \E u \in Users : DisableUser(u) \/ EnableUser(u)
    BY <1>9 DEF Tick, DisableUser, EnableUser
  <1> QED  BY <1>3, <1>4, <1>6, <1>7, <1>8, <1>9 DEF SessionsNext

\* A user is disabled by DisableUser only.
LEMMA Disabled ==
  ASSUME SessionsInv, SessionsNext, NEW u \in normal, u \notin normal'
  PROVE  u \in Users /\ DisableUser(u)
  <1>1. normal \subseteq Users
    BY DEF SessionsInv, SessionsTypeOK
  <1>2. ASSUME \E t \in Tabs :
                 \/ \E v \in Users : Authenticate(t, v) \/ AskChange(t, v)
                 \/ Issue(t) \/ SendRefresh(t) \/ RotateLooks(t)
                 \/ Refuse(t) \/ Revoke(t) \/ Conflict(t) \/ Reused(t) \/ Renew(t)
                 \/ Logout(t) \/ ChangePassword(t) \/ Deliver(t) \/ Lose(t)
        PROVE  normal' = normal
    BY <1>2 DEF Authenticate, AskChange, Issue, SendRefresh, RotateLooks, Refuse, Revoke, Conflict,
                Reused, Renew, Logout, ChangePassword, Deliver, Lose, tableVars
  <1>3. ASSUME NEW v \in Users, DisableUser(v)
        PROVE  u = v
    BY <1>3 DEF DisableUser
  <1>4. ASSUME Tick \/ \E v \in Users : EnableUser(v)
        PROVE  u \in normal'
    BY <1>4 DEF Tick, EnableUser, tableVars
  <1> QED  BY <1>1, <1>2, <1>3, <1>4 DEF SessionsNext

LEMMA LifeInvInit ==
  SessionsInit => LifeInv
  BY InvInit DEF LifeInv, SeenNormal, SessionsInit, Doing

LEMMA LifeInvNext ==
  ASSUME LifeInv, [SessionsNext]_sessionsVars
  PROVE  LifeInv'
  <1>1. SessionsInv /\ SeenNormal /\ SessionsInv'
    BY InvNext DEF LifeInv
  <1>2. CASE UNCHANGED sessionsVars
    BY <1>1, <1>2 DEF LifeInv, SeenNormal, sessionsVars, Doing, Live, Locked, Presented
  <1>3. CASE SessionsNext
    <2> SUFFICES ASSUME NEW t \in Tabs, Doing(t, "rotate")', requests'[t].seen, Live(t)'
                 PROVE  Locked(t).user' \in normal'
      BY <1>1 DEF LifeInv, SeenNormal
    <2>1. CASE requests'[t] = requests[t]
      <3> DEFINE i == requests[t].token
                 f == tokens[i].family
      <3>1. Doing(t, "rotate") /\ requests[t].seen
        BY <2>1 DEF Doing
      <3>2. i \in DOMAIN tokens /\ f \in DOMAIN families
        BY <1>1, <3>1, Rotating DEF Presented
      <3>3. tokens'[i].family = f
        BY <1>1, <3>2, History
      <3>4. /\ families'[f].user = families[f].user
            /\ families'[f].state = "live" => families[f].state = "live"
        BY <1>1, <3>2, History
      <3>5. Locked(t)' = families'[f] /\ families'[f].state = "live"
        BY <2>1, <3>3 DEF Locked, Presented, Live
      <3>6. families[f].user \in normal
        BY <1>1, <3>1, <3>4, <3>5 DEF SeenNormal, Live, Locked, Presented
      <3>7. ASSUME families[f].user \notin normal'
            PROVE  FALSE
        <4>1. DisableUser(families[f].user)
          BY <1>1, <1>3, <3>6, <3>7, Disabled
        <4>2. families'[f].state # "live"
          BY <1>1, <3>2, <4>1, EndAllEnds DEF DisableUser, SessionsInv
        <4> QED  BY <3>5, <4>2
      <3> QED  BY <3>4, <3>5, <3>7
    <2>2. CASE RotateLooks(t)
      <3> DEFINE seen == families[tokens[requests[t].token].family].user \in normal
                 r == [do |-> "rotate", since |-> requests[t].since, token |-> requests[t].token,
                       at |-> clock, seen |-> seen]
      <3>1. Becomes(t, r) /\ families' = families /\ tokens' = tokens /\ normal' = normal
        BY <2>2 DEF RotateLooks, tableVars
      <3>2. requests'[t] = r
        BY <1>1, <3>1 DEF Becomes, SessionsInv, SessionsTypeOK
      <3>3. Locked(t)' = families[tokens[requests[t].token].family]
        BY <3>1, <3>2 DEF Locked, Presented
      <3>4. seen
        <4>1. seen \in BOOLEAN
          OBVIOUS
        <4> HIDE DEF seen
        <4>2. requests'[t].seen = seen
          BY <3>2, <4>1
        <4> QED  BY <4>2
      <3> QED  BY <3>1, <3>3, <3>4
    <2> QED  BY <1>1, <1>3, <2>1, <2>2, RotationsBegin
  <1> QED  BY <1>2, <1>3

LEMMA LifeInvAlways ==
  SessionsSpec => []LifeInv
  BY LifeInvInit, LifeInvNext, PTL DEF SessionsSpec

-----------------------------------------------------------------------------
\* The credential of a family is its one token that was not rotated.
LEMMA CredentialIs ==
  ASSUME SessionsInv, NEW f \in DOMAIN families
  PROVE  UnusedTokens(f) = {Credential[f]} /\ Credential[f] \in DOMAIN tokens
  <1>1. PICK i : i \in UnusedTokens(f) /\ UnusedTokens(f) = {i}
    BY DEF SessionsInv, TablesOK, OneLiveToken
  <1>2. Credential[f] = CHOOSE j \in UnusedTokens(f) : TRUE
    BY DEF Credential
  <1>3. Credential[f] \in UnusedTokens(f)
    BY <1>1, <1>2
  <1> QED  BY <1>1, <1>3 DEF UnusedTokens

LEMMA CredentialIsAfter ==
  ASSUME SessionsInv', NEW f \in DOMAIN families'
  PROVE  \A i : UnusedTokens(f)' = {i} => Credential'[f] = i
  BY DEF Credential

\* What the mapping sees of a step that ends families at most.
LEMMA EndsMapped ==
  ASSUME SessionsInv, FamiliesEnd
  PROVE  /\ Owners' = Owners /\ Credential' = Credential /\ SpentTokens' = SpentTokens
         /\ LiveFamilies' = {f \in DOMAIN families : families'[f].state = "live"}
  <1>1. DOMAIN families' = DOMAIN families /\ tokens' = tokens
    BY EndsKeepTables DEF FamiliesEnd
  <1>2. Owners' = Owners
    BY <1>1 DEF Owners, FamiliesEnd
  <1>3. \A f : UnusedTokens(f)' = UnusedTokens(f)
    BY <1>1 DEF UnusedTokens
  <1>4. Credential' = Credential
    BY <1>1, <1>3 DEF Credential
  <1> QED  BY <1>1, <1>2, <1>4 DEF SpentTokens, LiveFamilies

LEMMA EndFamilyMapped ==
  ASSUME SessionsInv, NEW f \in DOMAIN families, families[f].state = "live",
         NEW how \in {"revoked", "reused"}, EndFamily(f, how), tokens' = tokens,
         UNCHANGED <<normal, passwords>>
  PROVE  Life!Next
  <1>1. /\ FamiliesEnd /\ families'[f].state # "live"
        /\ \A g \in DOMAIN families : g # f => families'[g] = families[g]
    BY EndFamilyEnds DEF SessionsInv
  <1>2. f \in LiveFamilies /\ LiveFamilies' = LiveFamilies \ {f}
    BY <1>1, EndsMapped DEF LiveFamilies
  <1>3. f \in 1..MaxFamilies
    BY ClockFacts DEF SessionsInv, SessionsTypeOK
  <1>4. Life!End(f)
    BY <1>1, <1>2, EndsMapped DEF Life!End
  <1> QED  BY <1>3, <1>4 DEF Life!Next

LEMMA EndAllMapped ==
  ASSUME SessionsInv, NEW u, EndAll(u), tokens' = tokens
  PROVE  /\ Owners' = Owners /\ Credential' = Credential /\ SpentTokens' = SpentTokens
         /\ LiveFamilies' = LiveFamilies \ Life!Of(u)
  <1>1. /\ FamiliesEnd
        /\ \A f \in DOMAIN families : families[f].user = u => families'[f].state # "live"
        /\ \A f \in DOMAIN families : families[f].user # u => families'[f] = families[f]
    BY EndAllEnds DEF SessionsInv
  <1>2. Life!Of(u) = {f \in DOMAIN families : families[f].user = u}
    BY DEF Life!Of, Life!Started, Owners
  <1> QED  BY <1>1, <1>2, EndsMapped DEF LiveFamilies

\* A login starts a session with a token nobody has had.
LEMMA IssueMapped ==
  ASSUME SessionsInv, SessionsInv', NEW t \in Tabs, Issue(t)
  PROVE  Life!Next
  <1> DEFINE m == Len(families) + 1
             n == Len(tokens) + 1
             u == requests[t].user
  <1>1. /\ Len(families) \in Nat /\ Len(tokens) \in Nat
        /\ DOMAIN families = 1..Len(families) /\ DOMAIN tokens = 1..Len(tokens)
        /\ families' \in Seq(Family) /\ tokens' \in Seq(Token)
        /\ MaxFamilies \in Nat /\ MaxTokens \in Nat
        /\ Len(families) < MaxFamilies /\ Len(tokens) < MaxTokens
        /\ UNCHANGED <<normal, passwords>>
    BY ClockFacts DEF SessionsInv, SessionsTypeOK, Issue
  <1>2. /\ Len(tokens') = n /\ Len(families') = m
        /\ \A f \in DOMAIN families : families'[f] = families[f]
        /\ families'[m].user = u /\ families'[m].state = "live"
        /\ \A i \in DOMAIN tokens : tokens'[i] = tokens[i]
        /\ tokens'[n].rotated = None
    <2>1. families'[m] = [user |-> u, expires |-> clock + FamilyTTL, state |-> "live"]
      BY IssueKeepsTables
    <2>2. families'[m].user = u /\ families'[m].state = "live"
      BY <2>1
    <2>3. /\ Len(tokens') = n /\ Len(families') = m /\ tokens'[n].rotated = None
          /\ \A f \in DOMAIN families : families'[f] = families[f]
          /\ \A i \in DOMAIN tokens : tokens'[i] = tokens[i]
      BY IssueKeepsTables
    <2> QED  BY <2>2, <2>3
  <1>3. \A f \in DOMAIN families : UnusedTokens(f)' = UnusedTokens(f)
    BY IssueKeepsTables
  <1>4. ASSUME NEW f, f = m
        PROVE  UnusedTokens(f)' = {n}
    BY <1>4, IssueKeepsTables
  <1>5. /\ DOMAIN families' = DOMAIN families \cup {m} /\ m \notin DOMAIN families
        /\ DOMAIN tokens' = DOMAIN tokens \cup {n} /\ n \notin DOMAIN tokens
        /\ m \in 1..MaxFamilies /\ n \in 1..MaxTokens
    BY <1>1, <1>2
  <1>6. u \in Users
    BY RequestKinds DEF Issue, Doing, SessionsInv
  <1>7. Owners' = [r \in DOMAIN families \cup {m} |-> IF r = m THEN u ELSE Owners[r]]
    <2>1. \A r \in DOMAIN families \cup {m} :
            families'[r].user = IF r = m THEN u ELSE Owners[r]
      BY <1>2, <1>5 DEF Owners
    <2> QED  BY <1>5, <2>1 DEF Owners
  <1>8. LiveFamilies' = LiveFamilies \cup {m}
    BY <1>2, <1>5 DEF LiveFamilies
  <1>9. SpentTokens' = SpentTokens
    BY <1>2, <1>5 DEF SpentTokens
  <1>10. Credential' = [r \in DOMAIN families \cup {m} |-> IF r = m THEN n ELSE Credential[r]]
    <2>1. ASSUME NEW r \in DOMAIN families \cup {m}
          PROVE  Credential'[r] = IF r = m THEN n ELSE Credential[r]
      <3>1. CASE r = m
        BY <1>4, <1>5, <3>1, CredentialIsAfter
      <3>2. CASE r # m
        BY <1>3, <1>5, <3>2, CredentialIs, CredentialIsAfter
      <3> QED  BY <3>1, <3>2
    <2>2. Credential' = [r \in DOMAIN families \cup {m} |-> Credential'[r]]
      BY <1>5 DEF Credential
    <2> QED  BY <2>1, <2>2
  <1>11. n \in Life!Fresh
    <2>1. n \notin SpentTokens
      BY <1>5 DEF SpentTokens
    <2>2. \A f \in DOMAIN families : Credential[f] # n
      BY <1>5, CredentialIs
    <2> QED  BY <1>5, <2>1, <2>2 DEF Life!Fresh, Life!Started, Owners
  <1>12. Life!Started = DOMAIN families
    BY DEF Life!Started, Owners
  <1>13. Life!Start(m, u)
    BY <1>1, <1>5, <1>7, <1>8, <1>9, <1>10, <1>11, <1>12 DEF Life!Start
  <1> QED  BY <1>5, <1>6, <1>13 DEF Life!Next

\* A rotation replaces the credential of an enabled user's session.
LEMMA RenewMapped ==
  ASSUME LifeInv, SessionsInv', NEW t \in Tabs, Renew(t)
  PROVE  Life!Next
  <1> DEFINE i0 == requests[t].token
             f0 == Presented(t).family
             n == Len(tokens) + 1
  <1>1. /\ SessionsInv /\ SeenNormal
        /\ Len(families) \in Nat /\ Len(tokens) \in Nat
        /\ DOMAIN families = 1..Len(families) /\ DOMAIN tokens = 1..Len(tokens)
        /\ tokens' \in Seq(Token) /\ Len(families) <= MaxFamilies
        /\ MaxFamilies \in Nat /\ MaxTokens \in Nat
        /\ Len(tokens) < MaxTokens
        /\ UNCHANGED <<normal, passwords, families>>
        /\ Doing(t, "rotate") /\ requests[t].seen /\ Live(t)
    BY ClockFacts DEF LifeInv, SessionsInv, SessionsTypeOK, Renew
  <1>2. /\ Len(tokens') = n /\ i0 \in DOMAIN tokens
        /\ \A i \in DOMAIN tokens : i # i0 => tokens'[i] = tokens[i]
        /\ tokens'[i0].rotated \in Time /\ tokens'[n].rotated = None
    BY <1>1, RenewKeepsTables
  <1>3. \A f \in DOMAIN families : f # f0 => UnusedTokens(f)' = UnusedTokens(f)
    BY <1>1, RenewKeepsTables
  <1>4. ASSUME NEW f, f = f0
        PROVE  UnusedTokens(f)' = {n}
    BY <1>1, <1>4, RenewKeepsTables
  <1>5. UnusedTokens(f0) = {i0}
    BY <1>1, RenewKeepsTables
  <1>6. /\ f0 \in DOMAIN families /\ f0 \in 1..MaxFamilies /\ n \in 1..MaxTokens
        /\ DOMAIN tokens' = DOMAIN tokens \cup {n} /\ n \notin DOMAIN tokens
    <2>1. f0 \in DOMAIN families
      BY <1>1, Rotating
    <2> QED  BY <1>1, <1>2, <2>1
  <1>7. f0 \in LiveFamilies /\ Owners[f0] \in normal
    BY <1>1, <1>6 DEF LiveFamilies, Owners, SeenNormal, Live, Locked
  <1>8. Credential[f0] = i0
    BY <1>1, <1>5, <1>6, CredentialIs
  <1>9. Owners' = Owners /\ LiveFamilies' = LiveFamilies
    BY <1>1 DEF Owners, LiveFamilies
  <1>10. SpentTokens' = SpentTokens \cup {i0}
    <2>1. tokens'[i0].rotated # None
      BY <1>2, SessionsNoneAssumption
    <2> QED  BY <1>2, <1>6, <2>1 DEF SpentTokens
  <1>11. Credential' = [Credential EXCEPT ![f0] = n]
    <2>1. ASSUME NEW r \in DOMAIN families
          PROVE  Credential'[r] = IF r = f0 THEN n ELSE Credential[r]
      <3>1. CASE r = f0
        BY <1>1, <1>4, <3>1, CredentialIsAfter
      <3>2. CASE r # f0
        BY <1>1, <1>3, <3>2, CredentialIs, CredentialIsAfter
      <3> QED  BY <3>1, <3>2
    <2>2. /\ Credential' = [r \in DOMAIN families |-> Credential'[r]]
          /\ Credential = [r \in DOMAIN families |-> Credential[r]]
      BY <1>1 DEF Credential
    <2> QED  BY <1>6, <2>1, <2>2
  <1>12. n \in Life!Fresh
    <2>1. n \notin SpentTokens
      BY <1>6 DEF SpentTokens
    <2>2. \A f \in DOMAIN families : Credential[f] # n
      BY <1>1, <1>6, CredentialIs
    <2> QED  BY <1>6, <2>1, <2>2 DEF Life!Fresh, Life!Started, Owners
  <1>13. Life!Renew(f0)
    BY <1>1, <1>7, <1>8, <1>9, <1>10, <1>11, <1>12 DEF Life!Renew
  <1> QED  BY <1>6, <1>13 DEF Life!Next

LEMMA LifeInit ==
  SessionsInit => Life!Init
  <1> SUFFICES ASSUME SessionsInit
               PROVE  Life!Init
    OBVIOUS
  <1>1. DOMAIN families = {} /\ DOMAIN tokens = {}
    BY DEF SessionsInit
  <1>2. Owners = << >> /\ Credential = << >>
    BY <1>1 DEF Owners, Credential
  <1> QED  BY <1>1, <1>2 DEF SessionsInit, Life!Init, LiveFamilies, SpentTokens

\* Every step is a step of SessionLife, or nothing to it.
LEMMA LifeStep ==
  ASSUME LifeInv, SessionsInv', [SessionsNext]_sessionsVars
  PROVE  [Life!Next]_(Life!vars)
  <1>1. SessionsInv
    BY DEF LifeInv
  <1>2. ASSUME UNCHANGED tableVars
        PROVE  UNCHANGED Life!vars
    <2>1. UNCHANGED <<normal, passwords, families, tokens>>
      BY <1>2 DEF tableVars
    <2>2. Owners' = Owners /\ LiveFamilies' = LiveFamilies /\ SpentTokens' = SpentTokens
      BY <2>1 DEF Owners, LiveFamilies, SpentTokens
    <2>3. Credential' = Credential
      BY <2>1 DEF Credential, UnusedTokens
    <2> QED  BY <2>1, <2>2, <2>3 DEF Life!vars
  <1>3. ASSUME NEW t \in Tabs, Revoke(t) \/ Reused(t)
        PROVE  Life!Next
    <2>1. Doing(t, "rotate") /\ Live(t) /\ tokens' = tokens /\ UNCHANGED <<normal, passwords>>
      BY <1>3 DEF Revoke, Reused
    <2>2. Presented(t).family \in DOMAIN families /\ families[Presented(t).family].state = "live"
      BY <1>1, <2>1, Rotating DEF Locked, Live
    <2>3. EndFamily(Presented(t).family, "revoked") \/ EndFamily(Presented(t).family, "reused")
      BY <1>3 DEF Revoke, Reused
    <2> QED  BY <1>1, <2>1, <2>2, <2>3, EndFamilyMapped
  <1>4. ASSUME NEW t \in Tabs, Logout(t)
        PROVE  Life!Next \/ UNCHANGED tableVars
    <2>1. PICK f \in DOMAIN families : RevokeFamily(f)
      BY <1>4 DEF Logout
    <2>2. tokens' = tokens /\ UNCHANGED <<normal, passwords>>
      BY <1>4 DEF Logout
    <2>3. CASE families[f].state = "live"
      BY <1>1, <2>1, <2>2, <2>3, EndFamilyMapped DEF RevokeFamily
    <2>4. CASE families[f].state # "live"
      BY <2>1, <2>2, <2>4 DEF RevokeFamily, tableVars
    <2> QED  BY <2>3, <2>4
  <1>5. ASSUME NEW t \in Tabs, ChangePassword(t)
        PROVE  Life!Next
    <2>1. requests[t].user \in Users
      BY <1>1, <1>5, RequestKinds DEF ChangePassword, Doing, SessionsInv
    <2>2. Life!ChangePassword(requests[t].user)
      BY <1>1, <1>5, EndAllMapped DEF ChangePassword, Life!ChangePassword
    <2> QED  BY <2>1, <2>2 DEF Life!Next
  <1>6. ASSUME NEW u \in Users, DisableUser(u)
        PROVE  Life!Next
    <2>1. Life!Disable(u)
      BY <1>1, <1>6, EndAllMapped DEF DisableUser, Life!Disable
    <2> QED  BY <2>1 DEF Life!Next
  <1>7. ASSUME NEW u \in Users, EnableUser(u)
        PROVE  Life!Next
    <2>1. UNCHANGED <<passwords, families, tokens>> /\ normal' = normal \cup {u}
      BY <1>7 DEF EnableUser
    <2>2. Owners' = Owners /\ LiveFamilies' = LiveFamilies /\ SpentTokens' = SpentTokens
      BY <2>1 DEF Owners, LiveFamilies, SpentTokens
    <2>3. Credential' = Credential
      BY <2>1 DEF Credential, UnusedTokens
    <2>4. Life!Enable(u)
      BY <2>1, <2>2, <2>3 DEF Life!Enable
    <2> QED  BY <2>4 DEF Life!Next
  <1>8. ASSUME \/ \E t \in Tabs :
                    \/ \E u \in Users : Authenticate(t, u) \/ AskChange(t, u)
                    \/ SendRefresh(t) \/ RotateLooks(t) \/ Refuse(t) \/ Conflict(t)
                    \/ Deliver(t) \/ Lose(t)
               \/ Tick \/ UNCHANGED sessionsVars
        PROVE  UNCHANGED tableVars
    BY <1>8 DEF Authenticate, AskChange, SendRefresh, RotateLooks, Refuse, Conflict, Deliver, Lose,
                Tick, sessionsVars, tableVars
  <1>9. ASSUME NEW t \in Tabs, Issue(t) \/ Renew(t)
        PROVE  Life!Next
    BY <1>1, <1>9, IssueMapped, RenewMapped
  <1> QED
    BY <1>2, <1>3, <1>4, <1>5, <1>6, <1>7, <1>8, <1>9 DEF SessionsNext

\* Sessions, tokens and requests implement SessionLife: one credential each,
\* replaced by a fresh one while the user is enabled, and no session goes on
\* after it ended, its user was disabled or the password changed.
THEOREM SessionsImplementLife ==
  SessionsSpec => LifeSpec
  <1>1. LifeInv => SessionsInv
    BY DEF LifeInv
  <1>2. LifeInv /\ LifeInv' /\ [SessionsNext]_sessionsVars => [Life!Next]_(Life!vars)
    BY LifeStep DEF LifeInv
  <1> QED
    BY <1>2, LifeInit, LifeInvAlways, PTL DEF SessionsSpec, LifeSpec, Life!Spec

-----------------------------------------------------------------------------
(***************************************************************************)
(* The tabs of a browser.  Whoever holds a renewed token is about to hear  *)
(* what became of it, as long as no reply is lost; and as long as none is  *)
(* slow, whoever presents a renewed token sent it before it could hear.    *)
(***************************************************************************)

\* The tab asks to have token i renewed; its reply brings token i.
Presents(t, i) ==
  (Doing(t, "refresh") \/ Doing(t, "rotate")) /\ requests[t].token = i
Answers(t, i) == Doing(t, "reply") /\ requests[t].answer = i

\* A token on its way to a browser is nowhere else yet.
Travelling ==
  \A t \in Tabs, i \in DOMAIN tokens : Answers(t, i) =>
    /\ tokens[i].rotated = None
    /\ \A b \in Browsers : cookie[b] # i
    /\ \A s \in Tabs : ~Presents(s, i)
    /\ \A s \in Tabs : Answers(s, i) => s = t

\* A browser's token is no other's, and only its tabs present it.
AtHome ==
  \A b \in Browsers, i \in DOMAIN tokens : cookie[b] = i =>
    /\ \A c \in Browsers : cookie[c] = i => c = b
    /\ \A t \in Tabs : Presents(t, i) => Home[t] = b

\* Nobody waits since, or looked at, a time to come.
Clocks ==
  /\ \A t \in Tabs : Waiting(t) => requests[t].since <= clock
  /\ \A t \in Tabs : Doing(t, "rotate") =>
       requests[t].since <= requests[t].at /\ requests[t].at <= clock

\* No request takes long.
Prompt ==
  "slow" \notin trouble =>
    \A t \in Tabs : Waiting(t) => clock <= requests[t].since + Patience

\* Of a renewed token its browser is about to hear, in a reply to a request
\* sent before it was renewed; with the token that replaces it, unless the
\* family ended.
Renewing ==
  "lost" \notin trouble =>
    \A b \in Browsers, i \in DOMAIN tokens : cookie[b] = i /\ tokens[i].rotated # None =>
      \E t \in Tabs :
        /\ Home[t] = b /\ Doing(t, "reply") /\ requests[t].since <= tokens[i].rotated
        /\ families[tokens[i].family].state = "live" =>
             requests[t].answer \in UnusedTokens(tokens[i].family)

\* A renewed token is presented by those who sent it before they could hear.
Recent ==
  trouble = {} =>
    \A t \in Tabs, i \in DOMAIN tokens : Presents(t, i) /\ tokens[i].rotated # None =>
      requests[t].since <= tokens[i].rotated + Patience

UnderWay == Travelling /\ AtHome /\ Clocks /\ Prompt /\ Renewing /\ Recent

TabsInv == SessionsInv /\ UnderWay /\ TabsStaySignedIn

\* What the clock, the lists and the requests are made of.
LEMMA TabFacts ==
  ASSUME SessionsInv
  PROVE  /\ clock \in Nat /\ Len(tokens) \in Nat /\ Len(families) \in Nat /\ Patience \in Nat
         /\ DOMAIN tokens = 1..Len(tokens) /\ DOMAIN families = 1..Len(families)
         /\ cookie \in [Browsers -> 0..MaxTokens]
         /\ \A b \in Browsers : cookie[b] \in 0..Len(tokens)
         /\ \A t \in Tabs : Home[t] \in Browsers
         /\ \A t \in Tabs : Waiting(t) => requests[t].since \in Nat
         /\ \A t \in Tabs : Doing(t, "rotate") => requests[t].at \in Nat
         /\ \A t \in Tabs : \A i : Presents(t, i) => i \in DOMAIN tokens
         /\ \A t \in Tabs : Doing(t, "reply") => requests[t].answer \in 0..Len(tokens)
         /\ \A i \in DOMAIN tokens : /\ tokens[i].family \in DOMAIN families
                                     /\ tokens[i].rotated \in Nat \cup {None}
  <1>1. SessionsTypeOK /\ References /\ TablesOK
    BY DEF SessionsInv
  <1>2. \A t \in Tabs : Waiting(t) => requests[t].since \in Time
    BY <1>1, RequestKinds DEF Waiting, Doing
  <1>3. \A t \in Tabs : Doing(t, "rotate") => requests[t].at \in Time
    BY <1>1, RequestKinds DEF Doing
  <1>4. \A t \in Tabs : \A i : Presents(t, i) => i \in 1..Len(tokens)
    BY <1>1 DEF Presents, Doing, References, Refers
  <1>5. \A t \in Tabs : Doing(t, "reply") => requests[t].answer \in 0..Len(tokens)
    BY <1>1 DEF Doing, References, Refers
  <1>6. \A i \in DOMAIN tokens : tokens[i] \in Token
    BY <1>1, ClockFacts DEF SessionsTypeOK
  <1>7. \A i \in DOMAIN tokens : tokens[i].rotated \in Nat \cup {None}
    BY <1>6 DEF Token, Time
  <1>8. \A i \in DOMAIN tokens : tokens[i].family \in DOMAIN families
    BY <1>1 DEF TablesOK, TokensWithinFamilies
  <1>9. Time \subseteq Nat
    BY DEF Time
  <1> QED
    BY <1>1, <1>2, <1>3, <1>4, <1>5, <1>7, <1>8, <1>9, ClockFacts, SessionsAssumption
    DEF SessionsTypeOK, References

\* As one tab's request changes, the others' do not.
LEMMA OtherTabs ==
  ASSUME SessionsTypeOK, NEW t \in Tabs, NEW r, Becomes(t, r)
  PROVE  /\ requests'[t] = r
         /\ \A s \in Tabs : s # t =>
              /\ requests'[s] = requests[s]
              /\ \A w : Doing(s, w)' <=> Doing(s, w)
              /\ Waiting(s)' <=> Waiting(s)
              /\ \A i : Presents(s, i)' <=> Presents(s, i)
              /\ \A i : Answers(s, i)' <=> Answers(s, i)
  <1>1. \A s \in Tabs : requests'[s] = IF s = t THEN r ELSE requests[s]
    BY DEF SessionsTypeOK, Becomes
  <1> QED  BY <1>1 DEF Doing, Waiting, Presents, Answers

\* What a tab's new request means: none or a login or a change of password,
\* a refresh, a rotation, a reply.
LEMMA OwnRequest ==
  ASSUME SessionsTypeOK, NEW t \in Tabs, NEW r, Becomes(t, r)
  PROVE  /\ r = None \/ (r # None /\ r.do \in {"login", "change"}) =>
              /\ ~Waiting(t)' /\ ~Doing(t, "rotate")' /\ ~Doing(t, "reply")'
              /\ \A i : ~Presents(t, i)' /\ ~Answers(t, i)'
         /\ r # None /\ r.do \in {"refresh", "rotate"} =>
              /\ Waiting(t)' /\ ~Doing(t, "reply")' /\ (Doing(t, "rotate")' <=> r.do = "rotate")
              /\ \A i : (Presents(t, i)' <=> i = r.token) /\ ~Answers(t, i)'
         /\ r # None /\ r.do = "reply" =>
              /\ Waiting(t)' /\ ~Doing(t, "rotate")' /\ Doing(t, "reply")'
              /\ \A i : ~Presents(t, i)' /\ (Answers(t, i)' <=> i = r.answer)
  <1>1. requests'[t] = r
    BY OtherTabs
  <1> QED  BY <1>1 DEF Doing, Waiting, Presents, Answers

\* What a request can become when no token is renewed and no cookie changes: it
\* ends, begins, is refused, or is looked at.
Modest(t, r) ==
  \/ r = None
  \/ r # None /\ r.do \in {"login", "change"}
  \/ /\ r # None /\ r.do = "reply" /\ r.answer = 0 /\ r.since <= clock
     /\ "slow" \notin trouble => clock <= r.since + Patience
  \/ /\ r # None /\ r.do = "rotate" /\ Doing(t, "refresh")
     /\ r.since = requests[t].since /\ r.token = requests[t].token /\ r.at = clock

\* Such a step keeps everything under way, if the reply that it drops is lost.
LEMMA ModestSteps ==
  ASSUME SessionsInv, UnderWay, FamiliesEnd, UNCHANGED <<clock, cookie>>,
         trouble \subseteq trouble',
         NEW t \in Tabs, NEW r, Becomes(t, r), Modest(t, r),
         Doing(t, "reply") => "lost" \in trouble'
  PROVE  UnderWay'
  <1>0. SessionsTypeOK
    BY DEF SessionsInv
  <1>1. tokens' = tokens /\ DOMAIN families' = DOMAIN families
    BY EndsKeepTables DEF FamiliesEnd
  <1>2. \A f : UnusedTokens(f)' = UnusedTokens(f)
    BY <1>1 DEF UnusedTokens
  <1>3. 0 \notin DOMAIN tokens /\ requests'[t] = r
    BY <1>0, TabFacts, OtherTabs
  <1>4. \A s \in Tabs, i \in DOMAIN tokens : Answers(s, i)' => Answers(s, i) /\ s # t
    BY <1>0, <1>3, OtherTabs, OwnRequest DEF Modest
  <1>5. \A s \in Tabs : \A i : Presents(s, i)' =>
          Presents(s, i) /\ requests'[s].since = requests[s].since
    <2>1. ASSUME NEW i, Presents(t, i)'
          PROVE  Presents(t, i) /\ requests'[t].since = requests[t].since
      <3>1. r # None /\ r.do = "rotate" /\ i = r.token
        BY <1>0, <2>1, OwnRequest DEF Modest
      <3> QED  BY <1>3, <3>1 DEF Modest, Presents
    <2>2. ASSUME NEW s \in Tabs, s # t, NEW i, Presents(s, i)'
          PROVE  Presents(s, i) /\ requests'[s].since = requests[s].since
      BY <1>0, <2>2, OtherTabs
    <2> QED  BY <2>1, <2>2
  <1>6. Travelling'
    BY <1>1, <1>4, <1>5 DEF UnderWay, Travelling
  <1>7. AtHome'
    BY <1>1, <1>5 DEF UnderWay, AtHome
  <1>8. ASSUME Waiting(t)'
        PROVE  /\ r.since <= clock
               /\ "slow" \notin trouble => clock <= r.since + Patience
               /\ Doing(t, "rotate")' => r.since <= r.at /\ r.at = clock
    <2>1. CASE r # None /\ r.do = "reply"
      BY <1>0, <2>1, OwnRequest DEF Modest
    <2>2. CASE /\ r # None /\ r.do = "rotate" /\ Doing(t, "refresh")
               /\ r.since = requests[t].since /\ r.token = requests[t].token /\ r.at = clock
      BY <2>2 DEF UnderWay, Clocks, Prompt, Waiting
    <2>3. CASE r = None \/ (r # None /\ r.do \in {"login", "change"})
      BY <1>0, <1>8, <2>3, OwnRequest
    <2> QED  BY <2>1, <2>2, <2>3 DEF Modest
  <1>9. Doing(t, "rotate")' => Waiting(t)'
    BY DEF Waiting
  <1>10. clock \in Nat
    BY TabFacts
  <1>11. Clocks'
    <2>1. ASSUME NEW s \in Tabs, Waiting(s)'
          PROVE  requests'[s].since <= clock
      BY <1>0, <1>3, <1>8, <2>1, OtherTabs DEF UnderWay, Clocks
    <2>2. ASSUME NEW s \in Tabs, Doing(s, "rotate")'
          PROVE  requests'[s].since <= requests'[s].at /\ requests'[s].at <= clock
      BY <1>0, <1>3, <1>8, <1>9, <1>10, <2>2, OtherTabs DEF UnderWay, Clocks
    <2> QED  BY <2>1, <2>2 DEF Clocks
  <1>12. Prompt'
    <2>1. ASSUME "slow" \notin trouble', NEW s \in Tabs, Waiting(s)'
          PROVE  clock <= requests'[s].since + Patience
      BY <1>0, <1>3, <1>8, <2>1, OtherTabs DEF UnderWay, Prompt
    <2> QED  BY <2>1 DEF Prompt
  <1>13. Renewing'
    <2> SUFFICES ASSUME "lost" \notin trouble', NEW b \in Browsers, NEW i \in DOMAIN tokens,
                        cookie[b] = i, tokens[i].rotated # None
                 PROVE  \E s \in Tabs :
                          /\ Home[s] = b /\ Doing(s, "reply")'
                          /\ requests'[s].since <= tokens[i].rotated
                          /\ families'[tokens[i].family].state = "live" =>
                               requests'[s].answer \in UnusedTokens(tokens[i].family)
      BY <1>1, <1>2 DEF Renewing
    <2>1. PICK s \in Tabs :
            /\ Home[s] = b /\ Doing(s, "reply") /\ requests[s].since <= tokens[i].rotated
            /\ families[tokens[i].family].state = "live" =>
                 requests[s].answer \in UnusedTokens(tokens[i].family)
      BY DEF UnderWay, Renewing
    <2>2. s # t
      BY <2>1
    <2>3. tokens[i].family \in DOMAIN families
      BY TabFacts
    <2>4. families'[tokens[i].family].state = "live" => families[tokens[i].family].state = "live"
      BY <2>3 DEF FamiliesEnd
    <2>5. Doing(s, "reply")' /\ requests'[s] = requests[s]
      BY <1>0, <2>1, <2>2, OtherTabs
    <2> QED  BY <2>1, <2>4, <2>5
  <1>14. Recent'
    BY <1>1, <1>5 DEF UnderWay, Recent
  <1> QED  BY <1>6, <1>7, <1>11, <1>12, <1>13, <1>14 DEF UnderWay

\* So does one that ends families and leaves the requests alone.
LEMMA EndsKeepUnderWay ==
  ASSUME SessionsInv, UnderWay, FamiliesEnd, UNCHANGED <<clock, cookie, requests, trouble>>
  PROVE  UnderWay'
  <1>1. tokens' = tokens
    BY DEF FamiliesEnd
  <1>2. \A f : UnusedTokens(f)' = UnusedTokens(f)
    BY <1>1 DEF UnusedTokens
  <1>3. Travelling' /\ AtHome' /\ Clocks' /\ Prompt' /\ Recent'
    BY <1>1 DEF UnderWay, Travelling, AtHome, Clocks, Prompt, Recent, Answers, Presents, Doing, Waiting
  <1>4. \A i \in DOMAIN tokens :
          families'[tokens[i].family].state = "live" => families[tokens[i].family].state = "live"
    BY TabFacts DEF FamiliesEnd
  <1>5. Renewing'
    BY <1>1, <1>2, <1>4 DEF UnderWay, Renewing, Doing
  <1> QED  BY <1>3, <1>5 DEF UnderWay

\* A tab presents its browser's token: until now only the reply that tells what
\* became of it can have come after its renewal.
LEMMA SendRefreshKeepsUnderWay ==
  ASSUME SessionsInv, UnderWay, NEW t \in Tabs, SendRefresh(t)
  PROVE  UnderWay'
  <1> DEFINE b0 == Home[t]
             i0 == cookie[b0]
             r == [do |-> "refresh", since |-> clock, token |-> i0]
  <1>0. SessionsTypeOK /\ b0 \in Browsers /\ i0 \in DOMAIN tokens /\ clock \in Nat /\ Patience \in Nat
    BY TabFacts DEF SessionsInv, SendRefresh
  <1>1. /\ requests[t] = None /\ Becomes(t, r)
        /\ clock' = clock /\ cookie' = cookie /\ tokens' = tokens /\ families' = families
        /\ trouble' = trouble
    BY DEF SendRefresh, Starts, tableVars
  <1>2. r # None
    BY <1>1, TabFacts, ClockFacts, NewRequests, SessionsNoneAssumption, <1>0
    DEF SessionsInv, SessionsTypeOK
  <1>3. /\ r.do = "refresh" /\ r.since = clock /\ r.token = i0
        /\ requests'[t] = r
    BY <1>0, <1>1, OtherTabs
  <1> HIDE DEF r
  <1>4. /\ Waiting(t)' /\ ~Doing(t, "reply")' /\ ~Doing(t, "rotate")'
        /\ \A i : (Presents(t, i)' <=> i = i0) /\ ~Answers(t, i)'
    BY <1>0, <1>1, <1>2, <1>3, OwnRequest
  <1>5. \A s \in Tabs : \A i : Answers(s, i)' => Answers(s, i)
    BY <1>0, <1>1, <1>4, OtherTabs
  <1>6. \A s \in Tabs : \A i : Presents(s, i)' => Presents(s, i) \/ (s = t /\ i = i0)
    BY <1>0, <1>1, <1>4, OtherTabs
  <1>7. \A f : UnusedTokens(f)' = UnusedTokens(f)
    BY <1>1 DEF UnusedTokens
  <1>8. Travelling'
    BY <1>0, <1>1, <1>5, <1>6 DEF UnderWay, Travelling
  <1>9. AtHome'
    BY <1>0, <1>1, <1>6 DEF UnderWay, AtHome
  <1>10. Clocks' /\ Prompt'
    <2>1. ASSUME NEW s \in Tabs, s # t
          PROVE  /\ requests'[s] = requests[s] /\ (Waiting(s)' <=> Waiting(s))
                 /\ (Doing(s, "rotate")' <=> Doing(s, "rotate"))
      BY <1>0, <1>1, <2>1, OtherTabs
    <2>2. Clocks'
      BY <1>0, <1>1, <1>3, <1>4, <2>1 DEF UnderWay, Clocks
    <2>3. Prompt'
      BY <1>0, <1>1, <1>3, <1>4, <2>1 DEF UnderWay, Prompt
    <2> QED  BY <2>2, <2>3
  <1>11. Renewing'
    <2>1. ASSUME NEW s \in Tabs, Doing(s, "reply")
          PROVE  Doing(s, "reply")' /\ requests'[s] = requests[s]
      <3>1. s # t
        BY <1>1, <2>1 DEF Doing
      <3> QED  BY <1>0, <1>1, <2>1, <3>1, OtherTabs
    <2> QED  BY <1>1, <1>7, <2>1 DEF UnderWay, Renewing
  <1>12. Recent'
    <2> SUFFICES ASSUME trouble = {}, NEW s \in Tabs, NEW i \in DOMAIN tokens, Presents(s, i)',
                        tokens[i].rotated # None
                 PROVE  requests'[s].since <= tokens[i].rotated + Patience
      BY <1>1 DEF Recent
    <2>1. CASE s # t
      BY <1>0, <1>1, <2>1, OtherTabs DEF UnderWay, Recent
    <2>2. CASE s = t
      <3>1. i = i0
        BY <1>4, <2>2
      <3>2. PICK w \in Tabs : Doing(w, "reply") /\ requests[w].since <= tokens[i].rotated
        BY <1>0, <3>1 DEF UnderWay, Renewing
      <3>3. clock <= requests[w].since + Patience
        BY <3>2 DEF UnderWay, Prompt, Waiting
      <3>4. requests[w].since \in Nat /\ tokens[i].rotated \in Nat
        BY <3>2, TabFacts DEF Waiting
      <3> QED  BY <1>0, <1>3, <2>2, <3>2, <3>3, <3>4
    <2> QED  BY <2>1, <2>2
  <1> QED  BY <1>8, <1>9, <1>10, <1>11, <1>12 DEF UnderWay

\* A login's token is new: no cookie, no request names it.
LEMMA IssueKeepsUnderWay ==
  ASSUME SessionsInv, UnderWay, NEW t \in Tabs, Issue(t)
  PROVE  UnderWay'
  <1> DEFINE n == Len(tokens) + 1
             r == Reply(clock, n)
  <1>0. /\ SessionsTypeOK /\ clock \in Nat /\ Patience \in Nat
        /\ Len(tokens) \in Nat /\ DOMAIN tokens = 1..Len(tokens)
    BY TabFacts DEF SessionsInv
  <1>1. /\ Doing(t, "login") /\ Becomes(t, r)
        /\ clock' = clock /\ cookie' = cookie /\ trouble' = trouble
    BY DEF Issue
  <1>2. /\ \A f \in DOMAIN families : families'[f] = families[f] /\ UnusedTokens(f)' = UnusedTokens(f)
        /\ \A i \in DOMAIN tokens : tokens'[i] = tokens[i]
        /\ tokens'[n].rotated = None
        /\ DOMAIN tokens' = 1..n
    <2>1. tokens' \in Seq(Token) /\ Len(tokens') = n
      BY IssueKeepsTables DEF TablesOK
    <2>2. DOMAIN tokens' = 1..n
      BY <2>1
    <2> QED  BY <2>2, IssueKeepsTables
  <1>3. r # None /\ r.do = "reply" /\ r.since = clock /\ r.answer = n /\ requests'[t] = r
    <2>1. clock \in Time /\ n \in 0..MaxTokens
      BY <1>0, ClockFacts DEF Issue
    <2>2. r \in Request
      BY <2>1, NewRequests
    <2> QED  BY <1>0, <1>1, <2>2, OtherTabs, SessionsNoneAssumption DEF Reply
  <1> HIDE DEF r
  <1>4. /\ Waiting(t)' /\ ~Doing(t, "rotate")' /\ Doing(t, "reply")'
        /\ \A i : ~Presents(t, i)' /\ (Answers(t, i)' <=> i = n)
    BY <1>0, <1>1, <1>3, OwnRequest
  <1>5. \A s \in Tabs : \A i : Answers(s, i)' => (Answers(s, i) /\ i # n) \/ (s = t /\ i = n)
    <2>1. \A s \in Tabs : ~Answers(s, n)
      BY <1>0, TabFacts DEF Answers
    <2> QED  BY <1>0, <1>1, <1>4, <2>1, OtherTabs
  <1>6. \A s \in Tabs : \A i : Presents(s, i)' => Presents(s, i) /\ s # t /\ i \in DOMAIN tokens
    BY <1>0, <1>1, <1>4, OtherTabs, TabFacts
  <1>7. \A b \in Browsers : cookie[b] # n
    BY <1>0, TabFacts
  <1>8. \A i : i \in DOMAIN tokens' => i \in DOMAIN tokens \/ i = n
    BY <1>0, <1>2
  <1>9. n \notin DOMAIN tokens
    BY <1>0
  <1>10. \A s \in Tabs : s # t =>
           /\ requests'[s] = requests[s] /\ (Waiting(s)' <=> Waiting(s))
           /\ (Doing(s, "rotate")' <=> Doing(s, "rotate"))
           /\ (Doing(s, "reply")' <=> Doing(s, "reply"))
    BY <1>0, <1>1, OtherTabs
  <1>11. Travelling'
    <2> SUFFICES ASSUME NEW s \in Tabs, NEW i \in DOMAIN tokens', Answers(s, i)'
                 PROVE  /\ tokens'[i].rotated = None
                        /\ \A b \in Browsers : cookie[b] # i
                        /\ \A w \in Tabs : ~Presents(w, i)'
                        /\ \A w \in Tabs : Answers(w, i)' => w = s
      BY <1>1 DEF Travelling
    <2>1. CASE i = n
      BY <1>2, <1>5, <1>6, <1>7, <1>9, <2>1
    <2>2. CASE i # n
      <3>1. i \in DOMAIN tokens /\ Answers(s, i)
        BY <1>5, <1>8, <2>2
      <3> QED  BY <1>2, <1>5, <1>6, <2>2, <3>1 DEF UnderWay, Travelling
    <2> QED  BY <2>1, <2>2
  <1>12. AtHome'
    BY <1>1, <1>6, <1>7, <1>8 DEF UnderWay, AtHome
  <1>13. Clocks' /\ Prompt'
    <2>1. Clocks'
      BY <1>0, <1>1, <1>3, <1>4, <1>10 DEF UnderWay, Clocks
    <2>2. Prompt'
      BY <1>0, <1>1, <1>3, <1>4, <1>10 DEF UnderWay, Prompt
    <2> QED  BY <2>1, <2>2
  <1>14. Renewing'
    <2> SUFFICES ASSUME "lost" \notin trouble, NEW b \in Browsers, NEW i \in DOMAIN tokens',
                        cookie[b] = i, tokens'[i].rotated # None
                 PROVE  \E s \in Tabs :
                          /\ Home[s] = b /\ Doing(s, "reply")'
                          /\ requests'[s].since <= tokens'[i].rotated
                          /\ families'[tokens'[i].family].state = "live" =>
                               requests'[s].answer \in
                                 {j \in DOMAIN tokens' : /\ tokens'[j].family = tokens'[i].family
                                                        /\ tokens'[j].rotated = None}
      BY <1>1 DEF Renewing, UnusedTokens
    <2>1. i \in DOMAIN tokens /\ tokens'[i] = tokens[i] /\ tokens[i].family \in DOMAIN families
      BY <1>2, <1>7, <1>8, TabFacts
    <2>2. PICK s \in Tabs :
            /\ Home[s] = b /\ Doing(s, "reply") /\ requests[s].since <= tokens[i].rotated
            /\ families[tokens[i].family].state = "live" =>
                 requests[s].answer \in UnusedTokens(tokens[i].family)
      BY <2>1 DEF UnderWay, Renewing
    <2>3. s # t
      BY <1>1, <2>2 DEF Doing
    <2>4. PICK f : f = tokens[i].family
      OBVIOUS
    <2>5. UnusedTokens(f)' = UnusedTokens(f) /\ families'[f] = families[f]
      BY <1>2, <2>1, <2>4
    <2>6. UnusedTokens(f)' = {j \in DOMAIN tokens' : tokens'[j].family = f /\ tokens'[j].rotated = None}
      BY DEF UnusedTokens
    <2> QED  BY <1>10, <2>1, <2>2, <2>3, <2>4, <2>5, <2>6
  <1>15. Recent'
    <2> SUFFICES ASSUME trouble = {}, NEW s \in Tabs, NEW i \in DOMAIN tokens', Presents(s, i)',
                        tokens'[i].rotated # None
                 PROVE  requests'[s].since <= tokens'[i].rotated + Patience
      BY <1>1 DEF Recent
    <2> QED  BY <1>2, <1>6, <1>10 DEF UnderWay, Recent
  <1> QED  BY <1>11, <1>12, <1>13, <1>14, <1>15 DEF UnderWay

\* The tab that renews a token is of the browser that holds it, and will bring
\* it the replacement; everybody who presents the token was as quick.
LEMMA RenewKeepsUnderWay ==
  ASSUME SessionsInv, UnderWay, NEW t \in Tabs, Renew(t)
  PROVE  UnderWay'
  <1> DEFINE n == Len(tokens) + 1
             i0 == requests[t].token
             at == requests[t].at
             f0 == Presented(t).family
             r == Reply(requests[t].since, n)
  <1>0. /\ SessionsTypeOK /\ clock \in Nat /\ Patience \in Nat
        /\ Len(tokens) \in Nat /\ DOMAIN tokens = 1..Len(tokens)
    BY TabFacts DEF SessionsInv
  <1>1. /\ Doing(t, "rotate") /\ Becomes(t, r)
        /\ clock' = clock /\ cookie' = cookie /\ trouble' = trouble
    BY DEF Renew, Refreshed
  <1>2. /\ families' = families
        /\ i0 \in DOMAIN tokens /\ f0 = tokens[i0].family
        /\ UnusedTokens(f0) = {i0}
        /\ \A f : f = f0 => UnusedTokens(f)' = {n}
        /\ \A f \in DOMAIN families : f # f0 => UnusedTokens(f)' = UnusedTokens(f)
        /\ \A i \in DOMAIN tokens : i # i0 => tokens'[i] = tokens[i]
        /\ \A i \in DOMAIN tokens : tokens'[i].family = tokens[i].family
        /\ tokens'[i0].rotated = at /\ tokens'[n].rotated = None
        /\ DOMAIN tokens' = 1..n
    <2>1. tokens' \in Seq(Token) /\ Len(tokens') = n
      BY RenewKeepsTables DEF TablesOK
    <2>2. DOMAIN tokens' = 1..n
      BY <2>1
    <2>3. f0 = tokens[i0].family
      BY DEF Presented
    <2> QED  BY <2>2, <2>3, RenewKeepsTables
  <1>3. /\ r # None /\ r.do = "reply" /\ r.since = requests[t].since /\ r.answer = n
        /\ requests'[t] = r
    <2>1. requests[t].since \in Time /\ n \in 0..MaxTokens
      BY <1>0, <1>1, Rotating, ClockFacts DEF Renew
    <2>2. r \in Request
      BY <2>1, NewRequests
    <2> QED  BY <1>0, <1>1, <2>2, OtherTabs, SessionsNoneAssumption DEF Reply
  <1> HIDE DEF r, f0
  <1>4. /\ Waiting(t)' /\ ~Doing(t, "rotate")' /\ Doing(t, "reply")'
        /\ \A i : ~Presents(t, i)' /\ (Answers(t, i)' <=> i = n)
    BY <1>0, <1>1, <1>3, OwnRequest
  <1>5. \A s \in Tabs : \A i : Answers(s, i)' => (Answers(s, i) /\ i # n) \/ (s = t /\ i = n)
    <2>1. \A s \in Tabs : ~Answers(s, n)
      BY <1>0, TabFacts DEF Answers
    <2> QED  BY <1>0, <1>1, <1>4, <2>1, OtherTabs
  <1>6. \A s \in Tabs : \A i : Presents(s, i)' => Presents(s, i) /\ s # t /\ i \in DOMAIN tokens
    BY <1>0, <1>1, <1>4, OtherTabs, TabFacts
  <1>7. \A b \in Browsers : cookie[b] # n
    BY <1>0, TabFacts
  <1>8. \A i : i \in DOMAIN tokens' => i \in DOMAIN tokens \/ i = n
    BY <1>0, <1>2
  <1>9. n \notin DOMAIN tokens
    BY <1>0
  <1>10. \A s \in Tabs : s # t =>
           /\ requests'[s] = requests[s] /\ (Waiting(s)' <=> Waiting(s))
           /\ (Doing(s, "rotate")' <=> Doing(s, "rotate"))
           /\ (Doing(s, "reply")' <=> Doing(s, "reply"))
    BY <1>0, <1>1, OtherTabs
  <1>11. Presents(t, i0) /\ Waiting(t)
    BY <1>1 DEF Presents, Waiting
  <1>12. /\ requests[t].since \in Nat /\ at \in Nat
         /\ requests[t].since <= at /\ at <= clock
    BY <1>1, <1>11, TabFacts DEF UnderWay, Clocks
  <1>13. Travelling'
    <2> SUFFICES ASSUME NEW s \in Tabs, NEW i \in DOMAIN tokens', Answers(s, i)'
                 PROVE  /\ tokens'[i].rotated = None
                        /\ \A b \in Browsers : cookie[b] # i
                        /\ \A w \in Tabs : ~Presents(w, i)'
                        /\ \A w \in Tabs : Answers(w, i)' => w = s
      BY <1>1 DEF Travelling
    <2>1. CASE i = n
      BY <1>2, <1>5, <1>6, <1>7, <1>9, <2>1
    <2>2. CASE i # n
      <3>1. i \in DOMAIN tokens /\ Answers(s, i)
        BY <1>5, <1>8, <2>2
      <3>2. i # i0
        BY <1>11, <3>1 DEF UnderWay, Travelling
      <3> QED  BY <1>2, <1>5, <1>6, <2>2, <3>1, <3>2 DEF UnderWay, Travelling
    <2> QED  BY <2>1, <2>2
  <1>14. AtHome'
    BY <1>1, <1>6, <1>7, <1>8 DEF UnderWay, AtHome
  <1>15. Clocks' /\ Prompt'
    <2>1. Clocks'
      BY <1>0, <1>1, <1>3, <1>4, <1>10, <1>11 DEF UnderWay, Clocks
    <2>2. Prompt'
      BY <1>0, <1>1, <1>3, <1>4, <1>10, <1>11 DEF UnderWay, Prompt
    <2> QED  BY <2>1, <2>2
  <1>16. Renewing'
    <2> SUFFICES ASSUME "lost" \notin trouble, NEW b \in Browsers, NEW i \in DOMAIN tokens',
                        cookie[b] = i, tokens'[i].rotated # None
                 PROVE  \E s \in Tabs :
                          /\ Home[s] = b /\ Doing(s, "reply")'
                          /\ requests'[s].since <= tokens'[i].rotated
                          /\ families'[tokens'[i].family].state = "live" =>
                               requests'[s].answer \in
                                 {j \in DOMAIN tokens' : /\ tokens'[j].family = tokens'[i].family
                                                        /\ tokens'[j].rotated = None}
      BY <1>1 DEF Renewing, UnusedTokens
    <2>1. i \in DOMAIN tokens /\ tokens[i].family \in DOMAIN families
      BY <1>7, <1>8, TabFacts
    <2>2. PICK f : f = tokens[i].family
      OBVIOUS
    <2>3. UnusedTokens(f)' = {j \in DOMAIN tokens' : /\ tokens'[j].family = tokens'[i].family
                                                    /\ tokens'[j].rotated = None}
      BY <1>2, <2>1, <2>2 DEF UnusedTokens
    <2>4. CASE i = i0
      <3>1. Home[t] = b
        BY <1>11, <2>1, <2>4 DEF UnderWay, AtHome
      <3>2. UnusedTokens(f)' = {n}
        BY <1>2, <2>2, <2>4
      <3> QED  BY <1>2, <1>3, <1>4, <1>12, <2>3, <2>4, <3>1, <3>2
    <2>5. CASE i # i0
      <3>1. tokens'[i] = tokens[i]
        BY <1>2, <2>1, <2>5
      <3>2. PICK s \in Tabs :
              /\ Home[s] = b /\ Doing(s, "reply") /\ requests[s].since <= tokens[i].rotated
              /\ families[tokens[i].family].state = "live" =>
                   requests[s].answer \in UnusedTokens(tokens[i].family)
        BY <2>1, <3>1 DEF UnderWay, Renewing
      <3>3. s # t
        BY <1>1, <3>2 DEF Doing
      <3>4. ASSUME families[f].state = "live"
            PROVE  f # f0
        <4>1. SUFFICES ASSUME f = f0
                       PROVE  FALSE
          OBVIOUS
        <4>2. Answers(s, i0)
          BY <1>2, <2>2, <3>2, <3>4, <4>1 DEF Answers
        <4> QED  BY <1>2, <1>11, <4>2 DEF UnderWay, Travelling
      <3>5. families[f].state = "live" => requests[s].answer \in UnusedTokens(f)'
        BY <1>2, <2>1, <2>2, <3>2, <3>4
      <3> QED  BY <1>2, <1>10, <2>2, <2>3, <3>1, <3>2, <3>3, <3>5
    <2> QED  BY <2>4, <2>5
  <1>17. Recent'
    <2> SUFFICES ASSUME trouble = {}, NEW s \in Tabs, NEW i \in DOMAIN tokens', Presents(s, i)',
                        tokens'[i].rotated # None
                 PROVE  requests'[s].since <= tokens'[i].rotated + Patience
      BY <1>1 DEF Recent
    <2>1. s # t /\ i \in DOMAIN tokens /\ Presents(s, i) /\ requests'[s] = requests[s]
      BY <1>6, <1>10
    <2>2. CASE i = i0
      <3>1. Waiting(s) /\ requests[s].since \in Nat
        BY <2>1, TabFacts DEF Waiting, Presents
      <3>2. requests[s].since <= clock /\ clock <= requests[t].since + Patience
        BY <1>11, <3>1 DEF UnderWay, Clocks, Prompt
      <3> QED  BY <1>0, <1>2, <1>12, <2>1, <2>2, <3>1, <3>2, SMTT(30)
    <2>3. CASE i # i0
      BY <1>2, <2>1, <2>3 DEF UnderWay, Recent
    <2> QED  BY <2>2, <2>3
  <1> QED  BY <1>13, <1>14, <1>15, <1>16, <1>17 DEF UnderWay

\* A reply arrives: its token was nowhere else.
LEMMA DeliverKeepsUnderWay ==
  ASSUME SessionsInv, UnderWay, NEW t \in Tabs, Deliver(t)
  PROVE  UnderWay'
  <1> DEFINE b0 == Home[t]
             i0 == requests[t].answer
  <1>0. SessionsTypeOK /\ b0 \in Browsers /\ clock \in Nat /\ Patience \in Nat /\ 0 \notin DOMAIN tokens
    BY TabFacts DEF SessionsInv
  <1>1. /\ Doing(t, "reply") /\ Becomes(t, None)
        /\ clock' = clock /\ tokens' = tokens /\ families' = families /\ trouble' = trouble
        /\ \A b \in Browsers : cookie'[b] = IF b = b0 THEN i0 ELSE cookie[b]
    BY TabFacts DEF Deliver, Answer, tableVars
  <1>2. /\ ~Waiting(t)' /\ ~Doing(t, "rotate")' /\ ~Doing(t, "reply")'
        /\ \A i : ~Presents(t, i)' /\ ~Answers(t, i)'
    BY <1>0, <1>1, OwnRequest
  <1>3. \A s \in Tabs : \A i : /\ Answers(s, i)' => Answers(s, i) /\ s # t
                               /\ Presents(s, i)' => Presents(s, i) /\ s # t
    BY <1>0, <1>1, <1>2, OtherTabs
  <1>4. \A s \in Tabs : s # t =>
           /\ requests'[s] = requests[s] /\ (Waiting(s)' <=> Waiting(s))
           /\ (Doing(s, "rotate")' <=> Doing(s, "rotate"))
           /\ (Doing(s, "reply")' <=> Doing(s, "reply"))
    BY <1>0, <1>1, OtherTabs
  <1>5. Answers(t, i0)
    BY <1>1 DEF Answers
  <1>6. i0 \in DOMAIN tokens =>
          /\ tokens[i0].rotated = None
          /\ \A b \in Browsers : cookie[b] # i0
          /\ \A s \in Tabs : ~Presents(s, i0)
          /\ \A s \in Tabs : Answers(s, i0) => s = t
    BY <1>5 DEF UnderWay, Travelling
  <1>7. \A f : UnusedTokens(f)' = UnusedTokens(f)
    BY <1>1 DEF UnusedTokens
  <1>8. Travelling'
    BY <1>0, <1>1, <1>3, <1>6 DEF UnderWay, Travelling
  <1>9. AtHome'
    <2> SUFFICES ASSUME NEW b \in Browsers, NEW i \in DOMAIN tokens, cookie'[b] = i
                 PROVE  /\ \A c \in Browsers : cookie'[c] = i => c = b
                        /\ \A s \in Tabs : Presents(s, i) => Home[s] = b
      BY <1>1, <1>3 DEF AtHome
    <2>1. CASE b = b0
      BY <1>1, <1>6, <2>1
    <2>2. CASE b # b0
      BY <1>1, <1>6, <2>2 DEF UnderWay, AtHome
    <2> QED  BY <2>1, <2>2
  <1>10. Clocks' /\ Prompt'
    <2>1. Clocks'
      BY <1>1, <1>2, <1>4 DEF UnderWay, Clocks
    <2>2. Prompt'
      BY <1>1, <1>2, <1>4 DEF UnderWay, Prompt
    <2> QED  BY <2>1, <2>2
  <1>11. Renewing'
    <2> SUFFICES ASSUME "lost" \notin trouble, NEW b \in Browsers, NEW i \in DOMAIN tokens,
                        cookie'[b] = i, tokens[i].rotated # None
                 PROVE  \E s \in Tabs :
                          /\ Home[s] = b /\ Doing(s, "reply")'
                          /\ requests'[s].since <= tokens[i].rotated
                          /\ families[tokens[i].family].state = "live" =>
                               requests'[s].answer \in UnusedTokens(tokens[i].family)
      BY <1>1, <1>7 DEF Renewing
    <2>1. b # b0 /\ cookie[b] = i
      BY <1>1, <1>6
    <2>2. PICK s \in Tabs :
            /\ Home[s] = b /\ Doing(s, "reply") /\ requests[s].since <= tokens[i].rotated
            /\ families[tokens[i].family].state = "live" =>
                 requests[s].answer \in UnusedTokens(tokens[i].family)
      BY <2>1 DEF UnderWay, Renewing
    <2> QED  BY <1>4, <2>1, <2>2
  <1>12. Recent'
    BY <1>1, <1>3, <1>4 DEF UnderWay, Recent
  <1> QED  BY <1>8, <1>9, <1>10, <1>11, <1>12 DEF UnderWay

\* The clock goes on; if a request is late then, it is slow.
LEMMA TickKeepsUnderWay ==
  ASSUME SessionsInv, UnderWay, Tick
  PROVE  UnderWay'
  <1>0. clock \in Nat /\ Patience \in Nat
    BY TabFacts
  <1>1. /\ clock' = clock + 1
        /\ cookie' = cookie /\ requests' = requests /\ tokens' = tokens /\ families' = families
        /\ trouble \subseteq trouble'
        /\ (\E t \in Tabs : Waiting(t) /\ clock + 1 - requests[t].since > Patience) =>
             "slow" \in trouble'
    BY DEF Tick, tableVars
  <1>2. \A t \in Tabs : /\ Waiting(t) => requests[t].since \in Nat
                        /\ Doing(t, "rotate") => requests[t].at \in Nat
    BY TabFacts
  <1>3. /\ \A t \in Tabs : \A w : Doing(t, w)' <=> Doing(t, w)
        /\ \A t \in Tabs : Waiting(t)' <=> Waiting(t)
        /\ \A t \in Tabs : \A i : /\ Presents(t, i)' <=> Presents(t, i)
                                  /\ Answers(t, i)' <=> Answers(t, i)
        /\ \A f : UnusedTokens(f)' = UnusedTokens(f)
    BY <1>1 DEF Doing, Waiting, Presents, Answers, UnusedTokens
  <1>4. Travelling' /\ AtHome'
    BY <1>1, <1>3 DEF UnderWay, Travelling, AtHome
  <1>5. Clocks'
    BY <1>0, <1>1, <1>2, <1>3 DEF UnderWay, Clocks
  <1>6. Prompt'
    BY <1>0, <1>1, <1>2, <1>3 DEF Prompt
  <1>7. Renewing'
    BY <1>1, <1>3 DEF UnderWay, Renewing
  <1>8. Recent'
    BY <1>1, <1>3 DEF UnderWay, Recent
  <1> QED  BY <1>4, <1>5, <1>6, <1>7, <1>8 DEF UnderWay

\* Every step keeps what is under way.
LEMMA StepKeepsUnderWay ==
  ASSUME SessionsInv, UnderWay, [SessionsNext]_sessionsVars
  PROVE  UnderWay'
  <1>0. /\ SessionsTypeOK /\ clock \in Nat /\ Patience \in Nat
        /\ FamiliesEnd \/ \E t \in Tabs : Issue(t) \/ Renew(t)
    BY TabFacts, TableSteps DEF SessionsInv
  <1>1. UNCHANGED <<families, tokens>> => FamiliesEnd
    BY <1>0 DEF FamiliesEnd, SessionsTypeOK
  <1>2. ASSUME NEW t \in Tabs, NEW u \in Users, Authenticate(t, u) \/ AskChange(t, u)
        PROVE  UnderWay'
    <2>1. PICK r \in Request : Becomes(t, r) /\ r.do \in {"login", "change"}
      BY <1>2, NewRequests DEF Authenticate, AskChange, Starts
    <2>2. requests[t] = None /\ UNCHANGED <<clock, families, tokens, cookie, trouble>>
      BY <1>2 DEF Authenticate, AskChange, Starts, tableVars
    <2>3. Modest(t, r) /\ ~Doing(t, "reply")
      BY <2>1, <2>2, SessionsNoneAssumption DEF Modest, Doing
    <2> QED  BY <1>1, <2>1, <2>2, <2>3, ModestSteps
  <1>3. ASSUME NEW t \in Tabs, RotateLooks(t)
        PROVE  UnderWay'
    <2> DEFINE r == [do |-> "rotate", since |-> requests[t].since, token |-> requests[t].token,
                     at |-> clock,
                     seen |-> families[tokens[requests[t].token].family].user \in normal]
    <2>1. Doing(t, "refresh") /\ Becomes(t, r) /\ UNCHANGED <<clock, families, tokens, cookie, trouble>>
      BY <1>3 DEF RotateLooks, tableVars
    <2>2. r \in Request
      BY <1>0, <2>1, RequestKinds, ClockFacts DEF Doing, Request
    <2>3. r # None
      BY <2>2, SessionsNoneAssumption
    <2>4. Modest(t, r)
      BY <2>1, <2>3 DEF Modest
    <2>5. ~Doing(t, "reply")
      BY <2>1 DEF Doing
    <2> QED  BY <1>1, <2>1, <2>4, <2>5, ModestSteps
  <1>4. ASSUME NEW t \in Tabs, Refuse(t) \/ Revoke(t) \/ Reused(t)
        PROVE  UnderWay'
    <2> DEFINE r == Reply(requests[t].since, 0)
    <2>1. Doing(t, "rotate") /\ Becomes(t, r) /\ UNCHANGED <<clock, tokens, cookie, trouble>>
      BY <1>4 DEF Refuse, Revoke, Reused, Refreshed, tableVars
    <2>2. r \in Request /\ r.do = "reply" /\ r.answer = 0 /\ r.since = requests[t].since
      BY <1>0, <2>1, Rotating, ClockFacts, NewRequests DEF Reply
    <2>3. r # None
      BY <2>2, SessionsNoneAssumption
    <2>4. r.since <= clock /\ ("slow" \notin trouble => clock <= r.since + Patience)
      BY <2>1, <2>2 DEF UnderWay, Clocks, Prompt, Waiting
    <2>5. Modest(t, r)
      BY <2>2, <2>3, <2>4 DEF Modest
    <2>6. ~Doing(t, "reply")
      BY <2>1 DEF Doing
    <2>7. FamiliesEnd
      <3>1. ASSUME NEW s \in Tabs, Issue(s) \/ Renew(s)
            PROVE  FALSE
        <4>1. Len(tokens') = Len(tokens) + 1
          BY <3>1, IssueKeepsTables, RenewKeepsTables
        <4>2. tokens' = tokens /\ Len(tokens) \in Nat
          BY <2>1, TabFacts
        <4> QED  BY <4>1, <4>2
      <3> QED  BY <1>0, <3>1
    <2> QED  BY <2>1, <2>5, <2>6, <2>7, ModestSteps
  <1>5. ASSUME NEW t \in Tabs, Logout(t) \/ ChangePassword(t)
        PROVE  UnderWay'
    <2> DEFINE r == Reply(clock, 0)
    <2>1. Becomes(t, r) /\ ~Doing(t, "reply") /\ UNCHANGED <<clock, tokens, cookie, trouble>>
      BY <1>5 DEF Logout, ChangePassword, Starts, Doing
    <2>2. r \in Request /\ r.do = "reply" /\ r.answer = 0 /\ r.since = clock
      BY <1>0, ClockFacts, NewRequests DEF Reply
    <2>3. r # None
      BY <2>2, SessionsNoneAssumption
    <2>4. Modest(t, r)
      BY <1>0, <2>2, <2>3 DEF Modest
    <2>5. FamiliesEnd
      BY <1>0, <1>5, RevokeFamilyEnds, EndAllEnds DEF Logout, ChangePassword
    <2> QED  BY <2>1, <2>4, <2>5, ModestSteps
  <1>6. ASSUME NEW t \in Tabs, Conflict(t) \/ Lose(t)
        PROVE  UnderWay'
    <2>1. /\ Becomes(t, None) /\ UNCHANGED <<clock, families, tokens, cookie>>
          /\ trouble \subseteq trouble' /\ (Doing(t, "reply") => "lost" \in trouble')
      BY <1>6 DEF Conflict, Lose, tableVars, Doing
    <2> QED  BY <1>1, <2>1, ModestSteps DEF Modest
  <1>7. ASSUME NEW u \in Users, DisableUser(u) \/ EnableUser(u)
        PROVE  UnderWay'
    <2>1. UNCHANGED <<clock, tokens, cookie, requests, trouble>>
      BY <1>7 DEF DisableUser, EnableUser
    <2>2. FamiliesEnd
      BY <1>0, <1>1, <1>7, EndAllEnds DEF DisableUser, EnableUser
    <2> QED  BY <2>1, <2>2, EndsKeepUnderWay
  <1>8. CASE UNCHANGED sessionsVars
    BY <1>1, <1>8, EndsKeepUnderWay DEF sessionsVars
  <1> QED
    BY <1>2, <1>3, <1>4, <1>5, <1>6, <1>7, <1>8, SendRefreshKeepsUnderWay, IssueKeepsUnderWay,
       RenewKeepsUnderWay, DeliverKeepsUnderWay, TickKeepsUnderWay
    DEF SessionsNext

\* A token that comes again within the window is a conflict: with no trouble,
\* none comes later.
LEMMA NoneComesLate ==
  ASSUME SessionsInv, UnderWay, NEW t \in Tabs, Reused(t)
  PROVE  trouble # {}
  <1> DEFINE i0 == requests[t].token
  <1> SUFFICES ASSUME trouble = {}
               PROVE  FALSE
    OBVIOUS
  <1>1. /\ Doing(t, "rotate") /\ tokens[i0].rotated # None
        /\ ~(requests[t].at - tokens[i0].rotated <= ConflictWindow)
    BY DEF Reused, Conflicting, Presented
  <1>2. Presents(t, i0) /\ Waiting(t)
    BY <1>1 DEF Presents, Waiting
  <1>3. /\ requests[t].since \in Nat /\ requests[t].at \in Nat /\ tokens[i0].rotated \in Nat
        /\ clock \in Nat /\ i0 \in DOMAIN tokens
    BY <1>1, <1>2, TabFacts
  <1>4. /\ requests[t].since <= tokens[i0].rotated + Patience
        /\ clock <= requests[t].since + Patience
        /\ requests[t].at <= clock
    BY <1>1, <1>2, <1>3 DEF UnderWay, Recent, Prompt, Clocks
  <1> QED  BY <1>1, <1>3, <1>4, SessionsAssumption

\* A family ends as reused only when a token is taken for a stolen one.
LEMMA EndsAsReused ==
  ASSUME SessionsInv, [SessionsNext]_sessionsVars, NEW f \in DOMAIN families',
         families'[f].state = "reused"
  PROVE  \/ f \in DOMAIN families /\ families[f].state = "reused"
         \/ \E t \in Tabs : Reused(t)
  <1> DEFINE Goal == \/ f \in DOMAIN families /\ families[f].state = "reused"
                     \/ \E t \in Tabs : Reused(t)
  <1>0. SessionsTypeOK /\ Len(families) \in Nat
    BY TabFacts DEF SessionsInv
  <1>1. families' = families => Goal
    OBVIOUS
  <1>2. ASSUME NEW g, families' = [families EXCEPT ![g].state = "revoked"]
        PROVE  Goal
    <2>1. f \in DOMAIN families
      BY <1>2
    <2>2. f # g => families'[f] = families[f]
      BY <1>2, <2>1
    <2>3. f = g => families'[f] = [families[f] EXCEPT !.state = "revoked"]
      BY <1>2, <2>1
    <2>4. families[f] \in Family
      BY <1>0, <2>1 DEF SessionsTypeOK
    <2>5. [families[f] EXCEPT !.state = "revoked"].state = "revoked"
      BY <2>4 DEF Family
    <2> QED  BY <2>1, <2>2, <2>3, <2>5
  <1>3. ASSUME NEW u, EndAll(u)
        PROVE  Goal
    <2>1. f \in DOMAIN families
      BY <1>3 DEF EndAll
    <2>2. \/ families'[f] = families[f]
          \/ families'[f] = [families[f] EXCEPT !.state = "revoked"]
      BY <1>3, <2>1 DEF EndAll
    <2>3. families[f] \in Family
      BY <1>0, <2>1 DEF SessionsTypeOK
    <2>4. [families[f] EXCEPT !.state = "revoked"].state = "revoked"
      BY <2>3 DEF Family
    <2> QED  BY <2>1, <2>2, <2>4
  <1>4. ASSUME NEW t \in Tabs, Issue(t)
        PROVE  Goal
    <2> DEFINE m == Len(families) + 1
               row == [user |-> requests[t].user, expires |-> clock + FamilyTTL, state |-> "live"]
    <2>1. families' \in Seq(Family) /\ Len(families') = m /\ families'[m] = row
      BY <1>4, IssueKeepsTables DEF TablesOK
    <2>2. DOMAIN families' = 1..m /\ DOMAIN families = 1..Len(families)
      BY <2>1, TabFacts
    <2>3. f # m /\ f \in DOMAIN families
      BY <1>0, <2>1, <2>2
    <2>4. families'[f] = families[f]
      BY <1>4, <2>3, IssueKeepsTables
    <2> QED  BY <2>3, <2>4
  <1>5. ASSUME NEW t \in Tabs, Revoke(t) \/ Logout(t)
        PROVE  Goal
    BY <1>1, <1>2, <1>5 DEF Revoke, Logout, RevokeFamily, EndFamily
  <1>6. ASSUME NEW t \in Tabs, ChangePassword(t)
        PROVE  Goal
    BY <1>3, <1>6 DEF ChangePassword
  <1>7. ASSUME NEW u \in Users, DisableUser(u)
        PROVE  Goal
    BY <1>3, <1>7 DEF DisableUser
  <1>8. ASSUME NEW t \in Tabs,
               \/ \E u \in Users : Authenticate(t, u) \/ AskChange(t, u)
               \/ SendRefresh(t) \/ RotateLooks(t) \/ Refuse(t) \/ Conflict(t) \/ Renew(t)
               \/ Deliver(t) \/ Lose(t)
        PROVE  Goal
    BY <1>1, <1>8 DEF Authenticate, AskChange, SendRefresh, RotateLooks, Refuse, Conflict, Renew,
                      Deliver, Lose, tableVars
  <1>9. ASSUME Tick \/ (\E u \in Users : EnableUser(u)) \/ UNCHANGED sessionsVars
        PROVE  Goal
    BY <1>1, <1>9 DEF Tick, EnableUser, sessionsVars, tableVars
  <1> QED  BY <1>4, <1>5, <1>6, <1>7, <1>8, <1>9 DEF SessionsNext

\* Trouble is never forgotten.
LEMMA TroubleStays ==
  ASSUME [SessionsNext]_sessionsVars
  PROVE  trouble \subseteq trouble'
  BY DEF SessionsNext, sessionsVars, Authenticate, AskChange, Issue, SendRefresh, RotateLooks, Refuse,
         Revoke, Conflict, Reused, Renew, Logout, ChangePassword, Deliver, Lose, DisableUser,
         EnableUser, Tick

LEMMA TabsInvInit ==
  SessionsInit => TabsInv
  <1> SUFFICES ASSUME SessionsInit
               PROVE  TabsInv
    OBVIOUS
  <1>1. DOMAIN families = {} /\ DOMAIN tokens = {} /\ \A t \in Tabs : requests[t] = None
    BY DEF SessionsInit
  <1>2. UnderWay
    BY <1>1 DEF UnderWay, Travelling, AtHome, Clocks, Prompt, Renewing, Recent, Waiting, Doing
  <1> QED  BY <1>1, <1>2, InvInit DEF TabsInv, TabsStaySignedIn

LEMMA TabsInvNext ==
  ASSUME TabsInv, [SessionsNext]_sessionsVars
  PROVE  TabsInv'
  <1>1. SessionsInv' /\ UnderWay'
    BY InvNext, StepKeepsUnderWay DEF TabsInv
  <1>2. ASSUME NEW f \in DOMAIN families', families'[f].state = "reused"
        PROVE  trouble' # {}
    BY <1>2, EndsAsReused, NoneComesLate, TroubleStays DEF TabsInv, TabsStaySignedIn
  <1>3. TabsStaySignedIn'
    BY <1>2 DEF TabsStaySignedIn
  <1> QED  BY <1>1, <1>3 DEF TabsInv

LEMMA TabsInvAlways ==
  SessionsSpec => []TabsInv
  BY TabsInvInit, TabsInvNext, PTL DEF SessionsSpec

\* While replies arrive within half the window, no refresh is taken for that
\* of a thief, however many tabs of however many browsers refresh at once
\* (Rotate's conflict window, session/repository.go).
THEOREM NobodyIsSignedOut ==
  SessionsSpec => []TabsStaySignedIn
  <1>1. TabsInv => TabsStaySignedIn
    BY DEF TabsInv
  <1> QED  BY <1>1, TabsInvAlways, PTL

\* Unless a reply was lost, a browser whose session goes on holds the token
\* that renews it, or will with a reply under way: whichever tab renewed it,
\* and whatever the others were answered meanwhile (Refresh,
\* session/handler.go).
THEOREM CookiesAreCurrent ==
  SessionsSpec => []CookieIsCurrent
  <1>1. TabsInv => CookieIsCurrent
    <2> SUFFICES ASSUME SessionsInv, Renewing, "lost" \notin trouble, NEW b \in Browsers,
                        cookie[b] # 0, families[tokens[cookie[b]].family].state = "live",
                        tokens[cookie[b]].rotated # None
                 PROVE  \E t \in Tabs :
                          /\ Home[t] = b /\ Doing(t, "reply")
                          /\ requests[t].answer \in UnusedTokens(tokens[cookie[b]].family)
      BY DEF TabsInv, UnderWay, CookieIsCurrent
    <2>1. cookie[b] \in DOMAIN tokens
      BY TabFacts
    <2> QED  BY <2>1 DEF Renewing
  <1> QED  BY <1>1, TabsInvAlways, PTL
=============================================================================
