----------------------------- MODULE SessionLife -----------------------------
(***************************************************************************)
(* What a session is to its user, whatever requests, retries and tabs      *)
(* stand behind it (backend/internal/session, backend/internal/user): it   *)
(* starts with one credential; a renewal replaces the credential by one    *)
(* never used before and is given to the sessions of enabled users that    *)
(* have not ended; it ends for good, and all sessions of a user end        *)
(* together with their password and when the user is disabled.  Enabling   *)
(* the user starts none again.  Sessions implements this module.           *)
(***************************************************************************)
EXTENDS Naturals

CONSTANTS Users, Sessions, Credentials

VARIABLES enabled,    \* users
          password,   \* [Users -> Nat]: how often it was changed
          owner,      \* of the sessions that have started
          live,       \* the sessions that have not ended
          credential, \* of a session: the one that renews it
          spent       \* credentials that were replaced

vars == <<enabled, password, owner, live, credential, spent>>

Started == DOMAIN owner

Of(u) == {s \in Started : owner[s] = u}

Fresh == Credentials \ (spent \cup {credential[s] : s \in Started})

Init ==
  /\ enabled = Users
  /\ password = [u \in Users |-> 0]
  /\ owner = << >> /\ credential = << >>
  /\ live = {} /\ spent = {}

\* Maybe for a user who was disabled after the password was found right.
Start(s, u) ==
  /\ s \notin Started
  /\ live' = live \cup {s}
  /\ owner' = [r \in Started \cup {s} |-> IF r = s THEN u ELSE owner[r]]
  /\ \E c \in Fresh :
       credential' = [r \in Started \cup {s} |-> IF r = s THEN c ELSE credential[r]]
  /\ UNCHANGED <<enabled, password, spent>>

Renew(s) ==
  /\ s \in live /\ owner[s] \in enabled
  /\ spent' = spent \cup {credential[s]}
  /\ \E c \in Fresh : credential' = [credential EXCEPT ![s] = c]
  /\ UNCHANGED <<enabled, password, owner, live>>

End(s) ==
  /\ s \in live
  /\ live' = live \ {s}
  /\ UNCHANGED <<enabled, password, owner, credential, spent>>

ChangePassword(u) ==
  /\ u \in enabled
  /\ password' = [password EXCEPT ![u] = @ + 1]
  /\ live' = live \ Of(u)
  /\ UNCHANGED <<enabled, owner, credential, spent>>

Disable(u) ==
  /\ enabled' = enabled \ {u}
  /\ live' = live \ Of(u)
  /\ UNCHANGED <<password, owner, credential, spent>>

Enable(u) ==
  /\ enabled' = enabled \cup {u}
  /\ UNCHANGED <<password, owner, live, credential, spent>>

Next ==
  \/ \E s \in Sessions : Renew(s) \/ End(s) \/ \E u \in Users : Start(s, u)
  \/ \E u \in Users : ChangePassword(u) \/ Disable(u) \/ Enable(u)

Spec == Init /\ [][Next]_vars
=============================================================================
