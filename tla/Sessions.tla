------------------------------- MODULE Sessions -------------------------------
(***************************************************************************)
(* Sign-in sessions: families of refresh tokens, each token good for one   *)
(* refresh, and the browsers whose tabs share the cookie with the token    *)
(* (backend/internal/session, backend/internal/user).                      *)
(*                                                                         *)
(* Rotate reads the clock and the token before it holds the family's lock. *)
(* The first read also fixes what the transaction's plain reads see, so    *)
(* the user's status is as old; the locking reads of family and token see  *)
(* the present.  Hence two actions, RotateLooks and one of the outcomes.   *)
(* Login and ChangePassword check the password first and write later.      *)
(*                                                                         *)
(* A family's id is its index in families, a token's its index in tokens.  *)
(* Tokens nobody issued and wrong passwords are refused and left out, as   *)
(* are access tokens: a logout that carries one names the family in it,    *)
(* one that does not names it by the cookie, and any family may be named.  *)
(***************************************************************************)
EXTENDS Integers, FiniteSets, Sequences

CONSTANTS Users,
          Browsers,
          Tabs,
          Home,            \* of a tab: its browser
          None,            \* no request, not rotated
          FamilyTTL,       \* in ticks of the clock, like the next three
          RefreshTTL,
          ConflictWindow,  \* in which a token may come twice
          Patience,        \* the longest a request takes while nothing is wrong
          MaxClock,        \* bound
          MaxFamilies,     \* bound
          MaxTokens,       \* bound
          MaxPasswords     \* bound: how often a password is changed

ASSUME SessionsAssumption ==
  /\ Home \in [Tabs -> Browsers]
  /\ FamilyTTL \in Nat \ {0} /\ RefreshTTL \in Nat \ {0}
  /\ ConflictWindow \in Nat /\ Patience \in Nat
  /\ 2 * Patience <= ConflictWindow
  /\ MaxClock \in Nat /\ MaxFamilies \in Nat /\ MaxTokens \in Nat /\ MaxPasswords \in Nat
  /\ None \notin Nat

VARIABLES clock,
          normal,    \* users with StatusNormal
          passwords, \* of a user: how often it was changed
          families,  \* session_families
          tokens,    \* refresh_tokens
          cookie,    \* of a browser: the token it holds, 0: none
          requests,  \* of a tab: the request it waits for
          trouble    \* lost: a reply was; slow: a request took longer than Patience

sessionsVars == <<clock, normal, passwords, families, tokens, cookie, requests, trouble>>

Time == 0..MaxClock

\* reused: revoked because a token came again after the window.
Family == [user : Users, expires : Nat, state : {"live", "revoked", "reused"}]

Token == [family : 1..MaxFamilies, rotated : Time \cup {None}, expires : Nat]

\* since: the refresh was sent, or what the reply tells was committed.
\* at and seen: the time and whether the user was normal, when RotateLooks.
\* answer: the token the reply sets as the cookie; 0: it clears the cookie.
Request ==
  [do : {"login", "change"}, user : Users]
  \cup [do : {"refresh"}, since : Time, token : 1..MaxTokens]
  \cup [do : {"rotate"}, since : Time, token : 1..MaxTokens, at : Time, seen : BOOLEAN]
  \cup [do : {"reply"}, since : Time, answer : 0..MaxTokens]

ASSUME SessionsNoneAssumption == None \notin Request /\ None \notin Time

SessionsTypeOK ==
  /\ clock \in Time
  /\ normal \subseteq Users
  /\ passwords \in [Users -> 0..MaxPasswords]
  /\ families \in Seq(Family) /\ Len(families) <= MaxFamilies
  /\ tokens \in Seq(Token) /\ Len(tokens) <= MaxTokens
  /\ cookie \in [Browsers -> 0..MaxTokens]
  /\ requests \in [Tabs -> Request \cup {None}]
  /\ trouble \subseteq {"lost", "slow"}

SessionsInit ==
  /\ clock = 0
  /\ normal = Users
  /\ passwords = [u \in Users |-> 0]
  /\ families = << >> /\ tokens = << >>
  /\ cookie = [b \in Browsers |-> 0]
  /\ requests = [t \in Tabs |-> None]
  /\ trouble = {}

-----------------------------------------------------------------------------
tableVars == <<normal, passwords, families, tokens>>

Doing(t, what) == requests[t] # None /\ requests[t].do = what

Becomes(t, request) == requests' = [requests EXCEPT ![t] = request]

Starts(t, request) ==
  /\ requests[t] = None
  /\ Becomes(t, request)

\* The reply to the tab's request: the token of its cookie, or 0.
Reply(since, answer) == [do |-> "reply", since |-> since, answer |-> answer]

Refreshed(t, answer) == Becomes(t, Reply(requests[t].since, answer))

\* Mutated: a replacement outlives its family.
NotEarlier(m, n) == m
Earlier(m, n) == IF m <= n THEN m ELSE n

TokenOf(f, at, end) ==
  [family |-> f, rotated |-> None, expires |-> Earlier(at + RefreshTTL, end)]

EndFamily(f, how) ==
  families' = [families EXCEPT ![f].state = how]

RevokeFamily(f) ==
  IF families[f].state = "live" THEN EndFamily(f, "revoked") ELSE UNCHANGED families

EndAll(u) ==
  families' = [f \in DOMAIN families |->
                 IF families[f].user = u /\ families[f].state = "live"
                 THEN [families[f] EXCEPT !.state = "revoked"] ELSE families[f]]

ValidateFamily(u, f) ==
  families[f].user = u /\ families[f].state = "live" /\ clock < families[f].expires

Authorized(u) == u \in normal /\ \E f \in DOMAIN families : ValidateFamily(u, f)

-----------------------------------------------------------------------------
\* The password was found right; the family comes with Issue.
Authenticate(t, u) ==
  /\ u \in normal
  /\ Len(families) < MaxFamilies
  /\ Starts(t, [do |-> "login", user |-> u])
  /\ UNCHANGED <<clock, tableVars, cookie, trouble>>

Issue(t) ==
  /\ Doing(t, "login")
  /\ Len(families) < MaxFamilies /\ Len(tokens) < MaxTokens
  /\ families' = Append(families, [user |-> requests[t].user, expires |-> clock + FamilyTTL,
                                   state |-> "live"])
  /\ tokens' = Append(tokens, TokenOf(Len(families) + 1, clock, clock + FamilyTTL))
  /\ Becomes(t, Reply(clock, Len(tokens) + 1))
  /\ UNCHANGED <<clock, normal, passwords, cookie, trouble>>

SendRefresh(t) ==
  /\ cookie[Home[t]] # 0
  /\ Starts(t, [do |-> "refresh", since |-> clock, token |-> cookie[Home[t]]])
  /\ UNCHANGED <<clock, tableVars, cookie, trouble>>

RotateLooks(t) ==
  /\ Doing(t, "refresh")
  /\ LET r == requests[t]
     IN  Becomes(t, [do |-> "rotate", since |-> r.since, token |-> r.token, at |-> clock,
                     seen |-> families[tokens[r.token].family].user \in normal])
  /\ UNCHANGED <<clock, tableVars, cookie, trouble>>

\* What Rotate finds under the family's lock.
Presented(t) == tokens[requests[t].token]
Locked(t) == families[Presented(t).family]

\* Mutated: nobody looks whether the family was revoked meanwhile.
Ongoing(t) == TRUE
Live(t) == Locked(t).state = "live"

FamilyExpired(t) == requests[t].at >= Locked(t).expires

\* Mutated: a token that comes again is always a reused one.
JustNow(t) == FALSE
Conflicting(t) == requests[t].at - Presented(t).rotated <= ConflictWindow

Refuse(t) ==
  /\ Doing(t, "rotate")
  /\ \/ ~Live(t)
     \/ /\ Live(t) /\ requests[t].seen /\ ~FamilyExpired(t)
        /\ Presented(t).rotated = None /\ requests[t].at >= Presented(t).expires
  /\ Refreshed(t, 0)
  /\ UNCHANGED <<clock, tableVars, cookie, trouble>>

\* Of a disabled user, or at its end.
Revoke(t) ==
  /\ Doing(t, "rotate") /\ Live(t)
  /\ ~requests[t].seen \/ FamilyExpired(t)
  /\ EndFamily(Presented(t).family, "revoked")
  /\ Refreshed(t, 0)
  /\ UNCHANGED <<clock, normal, passwords, tokens, cookie, trouble>>

\* ErrRefreshConflict: the cookie is kept.
Conflict(t) ==
  /\ Doing(t, "rotate") /\ Live(t) /\ requests[t].seen /\ ~FamilyExpired(t)
  /\ Presented(t).rotated # None /\ Conflicting(t)
  /\ Becomes(t, None)
  /\ UNCHANGED <<clock, tableVars, cookie, trouble>>

Reused(t) ==
  /\ Doing(t, "rotate") /\ Live(t) /\ requests[t].seen /\ ~FamilyExpired(t)
  /\ Presented(t).rotated # None /\ ~Conflicting(t)
  /\ EndFamily(Presented(t).family, "reused")
  /\ Refreshed(t, 0)
  /\ UNCHANGED <<clock, normal, passwords, tokens, cookie, trouble>>

\* Mutated: the token can be presented again.
Keep(t) == tokens
Spend(t) == [tokens EXCEPT ![requests[t].token].rotated = requests[t].at]

Renew(t) ==
  /\ Doing(t, "rotate") /\ Live(t) /\ requests[t].seen /\ ~FamilyExpired(t)
  /\ Presented(t).rotated = None /\ requests[t].at < Presented(t).expires
  /\ Len(tokens) < MaxTokens
  /\ tokens' = Append(Spend(t), TokenOf(Presented(t).family, requests[t].at, Locked(t).expires))
  /\ Refreshed(t, Len(tokens) + 1)
  /\ UNCHANGED <<clock, normal, passwords, families, cookie, trouble>>

-----------------------------------------------------------------------------
Logout(t) ==
  /\ \E f \in DOMAIN families : RevokeFamily(f)
  /\ Starts(t, Reply(clock, 0))
  /\ UNCHANGED <<clock, normal, passwords, tokens, cookie, trouble>>

\* The old password was found right.
AskChange(t, u) ==
  /\ Authorized(u)
  /\ passwords[u] < MaxPasswords
  /\ Starts(t, [do |-> "change", user |-> u])
  /\ UNCHANGED <<clock, tableVars, cookie, trouble>>

ChangePassword(t) ==
  /\ Doing(t, "change")
  /\ LET u == requests[t].user
     IN  /\ u \in normal /\ passwords[u] < MaxPasswords
         /\ passwords' = [passwords EXCEPT ![u] = @ + 1]
         /\ EndAll(u)
  /\ Becomes(t, Reply(clock, 0))
  /\ UNCHANGED <<clock, normal, tokens, cookie, trouble>>

\* Of applyTargetTx, which audits it in Moderation; a user who is disabled
\* already loses the sessions begun since.
DisableUser(u) ==
  /\ normal' = normal \ {u}
  /\ EndAll(u)
  /\ UNCHANGED <<clock, passwords, tokens, cookie, requests, trouble>>

EnableUser(u) ==
  /\ u \in Users \ normal
  /\ normal' = normal \cup {u}
  /\ UNCHANGED <<clock, passwords, families, tokens, cookie, requests, trouble>>

\* Mutated: only a login's reply sets the cookie, or one that clears it.
FirstAnswer(t) == IF requests[t].answer # 0 /\ cookie[Home[t]] # 0
                  THEN cookie[Home[t]] ELSE requests[t].answer
Answer(t) == requests[t].answer

Deliver(t) ==
  /\ Doing(t, "reply")
  /\ cookie' = [cookie EXCEPT ![Home[t]] = Answer(t)]
  /\ Becomes(t, None)
  /\ UNCHANGED <<clock, tableVars, trouble>>

\* A request fails before it commits, or its reply is lost.
Lose(t) ==
  /\ requests[t] # None
  /\ trouble' = trouble \cup (IF Doing(t, "reply") THEN {"lost"} ELSE {})
  /\ Becomes(t, None)
  /\ UNCHANGED <<clock, tableVars, cookie>>

Waiting(t) == Doing(t, "refresh") \/ Doing(t, "rotate") \/ Doing(t, "reply")

Tick ==
  /\ clock < MaxClock
  /\ clock' = clock + 1
  /\ trouble' = trouble \cup
       {x \in {"slow"} :
          \E t \in Tabs : Waiting(t) /\ clock + 1 - requests[t].since > Patience}
  /\ UNCHANGED <<tableVars, cookie, requests>>

SessionsNext ==
  \/ \E t \in Tabs :
       \/ \E u \in Users : Authenticate(t, u) \/ AskChange(t, u)
       \/ Issue(t) \/ SendRefresh(t) \/ RotateLooks(t)
       \/ Refuse(t) \/ Revoke(t) \/ Conflict(t) \/ Reused(t) \/ Renew(t)
       \/ Logout(t) \/ ChangePassword(t) \/ Deliver(t) \/ Lose(t)
  \/ \E u \in Users : DisableUser(u) \/ EnableUser(u)
  \/ Tick

SessionsSpec == SessionsInit /\ [][SessionsNext]_sessionsVars

-----------------------------------------------------------------------------
(***************************************************************************)
(* PROPERTIES                                                              *)
(***************************************************************************)
UnusedTokens(f) == {i \in DOMAIN tokens : tokens[i].family = f /\ tokens[i].rotated = None}

\* Every family has one token that was not rotated, however many refreshes
\* came at once ("This serializes two refresh requests across API
\* instances", session/repository.go:59).
OneLiveToken == \A f \in DOMAIN families : \E i \in UnusedTokens(f) : UnusedTokens(f) = {i}

\* No token outlives its family, whichever request's clock it was cut by
\* (session/repository.go:131).
TokensWithinFamilies ==
  \A i \in DOMAIN tokens :
    /\ tokens[i].family \in DOMAIN families
    /\ tokens[i].expires <= families[tokens[i].family].expires

\* A browser whose session goes on holds the token that renews it, or will
\* with the reply under way, unless a reply was lost: no tab's reply takes
\* it back to a token another tab has used (Refresh keeps the cookie on a
\* conflict, session/handler.go:90).
CookieIsCurrent ==
  \A b \in Browsers :
    LET c == cookie[b]
    IN  c # 0 /\ families[tokens[c].family].state = "live" /\ tokens[c].rotated # None =>
          \/ "lost" \in trouble
          \/ \E t \in Tabs : /\ Home[t] = b /\ Doing(t, "reply")
                             /\ requests[t].answer \in UnusedTokens(tokens[c].family)

\* Tabs that refresh at once do not sign each other out: while replies
\* arrive, within half the window, no token is taken for a stolen one (plan
\* of stage 5: refreshes of two tabs must not end the session).
TabsStaySignedIn ==
  (\E f \in DOMAIN families : families[f].state = "reused") => trouble # {}

\* What SessionLife knows of the tables.
Owners == [f \in DOMAIN families |-> families[f].user]
LiveFamilies == {f \in DOMAIN families : families[f].state = "live"}
Credential == [f \in DOMAIN families |-> CHOOSE i \in UnusedTokens(f) : TRUE]
SpentTokens == {i \in DOMAIN tokens : tokens[i].rotated # None}

\* The sessions behave as SessionLife promises: one credential each,
\* replaced by a fresh one, and never after the session ended, its user was
\* disabled or the password changed (session/repository.go:83,
\* user/repository.go:77).
Life == INSTANCE SessionLife WITH
  Sessions <- 1..MaxFamilies,
  Credentials <- 1..MaxTokens,
  enabled <- normal,
  password <- passwords,
  owner <- Owners,
  live <- LiveFamilies,
  credential <- Credential,
  spent <- SpentTokens

LifeSpec == Life!Spec
=============================================================================
