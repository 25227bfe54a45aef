------------------------------ MODULE JSONCache ------------------------------
(***************************************************************************)
(* A value that MySQL owns, copied under one key of Redis, as GetOrLoad of *)
(* backend/internal/cache/json.go keeps it: callers that miss share a load *)
(* of their server, the load stores what it read, and nothing but the TTL  *)
(* tells it of a change (Delete has no caller in src/).                    *)
(*                                                                         *)
(* A hit changes nothing and is left out.  One key never needs more of     *)
(* loadSlots than one: they are left out as well.                          *)
(***************************************************************************)
EXTENDS Naturals, FiniteSets

CONSTANTS Values,
          FirstValue,  \* of the source
          Servers,
          Callers,     \* requests that a server handles at once
          ServerOf,    \* of a caller
          None,        \* key missing, no load, nothing read yet, nobody
          MaxChanges   \* bound: changes of the source

ASSUME CacheAssumption ==
  /\ FirstValue \in Values /\ None \notin Values
  /\ ServerOf \in [Callers -> Servers] /\ None \notin Callers
  /\ MaxChanges \in Nat

VARIABLES source,   \* in MySQL
          changes,  \* of it so far
          cached,   \* in Redis
          loads,    \* of a server: the load under way
          waiting   \* callers

cacheVars == <<source, changes, cached, loads, waiting>>

\* value: None, when it is not read yet; parent: the caller whose context the
\* load's own derives from; canceled: that context was.
Load == [value : Values \cup {None}, parent : Callers \cup {None}, canceled : BOOLEAN]

ASSUME CacheNoneAssumption == None \notin Load

CacheTypeOK ==
  /\ source \in Values
  /\ changes \in 0..MaxChanges
  /\ cached \in Values \cup {None}
  /\ loads \in [Servers -> Load \cup {None}]
  /\ waiting \subseteq Callers

CacheInit ==
  /\ source = FirstValue
  /\ changes = 0
  /\ cached = None
  /\ loads = [s \in Servers |-> None]
  /\ waiting = {}

Clients(s) == {c \in Callers : ServerOf[c] = s}

\* By hand, in MySQL.
ChangeSource(value) ==
  /\ value # source /\ changes < MaxChanges
  /\ source' = value
  /\ changes' = changes + 1
  /\ UNCHANGED <<cached, loads, waiting>>

\* Mutated: loaderCtx derives from the context of the caller that begins the load.
FirstCaller(c) == c

\* loaderCtx derives from context.Background().
Parent(c) == None

\* DoChan: the first that misses begins a load.
Joined(c) ==
  IF loads[ServerOf[c]] = None
  THEN [loads EXCEPT ![ServerOf[c]] = [value |-> None, parent |-> Parent(c), canceled |-> FALSE]]
  ELSE loads

\* The key is missing, or Redis fails.
Miss(c) ==
  /\ c \notin waiting
  /\ waiting' = waiting \cup {c}
  /\ loads' = Joined(c)
  /\ UNCHANGED <<source, changes, cached>>

ReadSource(s) ==
  /\ loads[s] # None /\ loads[s].value = None /\ ~loads[s].canceled
  /\ loads' = [loads EXCEPT ![s].value = source]
  /\ UNCHANGED <<source, changes, cached, waiting>>

\* Whoever waits is handed the load's value or its error.
LoadEnds(s) ==
  /\ loads' = [loads EXCEPT ![s] = None]
  /\ waiting' = waiting \ Clients(s)
  /\ UNCHANGED <<source, changes>>

\* A failure of Set is only counted.
Store(s) ==
  /\ loads[s] # None /\ loads[s].value # None
  /\ cached' \in {cached, loads[s].value}
  /\ LoadEnds(s)

\* The query fails, loaderTimeout is over, or the load's context was canceled.
LoadFails(s) ==
  /\ loads[s] # None /\ loads[s].value = None
  /\ LoadEnds(s)
  /\ UNCHANGED cached

\* A context is canceled with its parent.
CanceledBy(c, load) ==
  IF load # None /\ load.parent = c THEN [load EXCEPT !.canceled = TRUE] ELSE load

\* The client goes, its request's context is canceled.
Leave(c) ==
  /\ c \in waiting
  /\ waiting' = waiting \ {c}
  /\ loads' = [s \in Servers |-> CanceledBy(c, loads[s])]
  /\ UNCHANGED <<source, changes, cached>>

\* Mutated: the key has no TTL.
KeptForEver == FALSE
HasTTL == cached # None

Expire ==
  /\ HasTTL
  /\ cached' = None
  /\ UNCHANGED <<source, changes, loads, waiting>>

LoadStep(s) == ReadSource(s) \/ Store(s)

CacheNext ==
  \/ \E c \in Callers : Miss(c) \/ Leave(c)
  \/ \E s \in Servers : LoadStep(s) \/ LoadFails(s)
  \/ Expire

CacheSpec ==
  CacheInit /\ [][CacheNext \/ \E value \in Values : ChangeSource(value)]_cacheVars

-----------------------------------------------------------------------------
(***************************************************************************)
(* PROPERTIES                                                              *)
(***************************************************************************)
\* c's load ends with its value, or for a reason of its own: the query or
\* loaderTimeout, not that a caller left.
Answered(c) ==
  LET load == loads[ServerOf[c]]
  IN  /\ load # None /\ loads'[ServerOf[c]] = None
      /\ load.value # None \/ ~load.canceled

\* Whoever stops waiting has left by itself or is answered: no caller's
\* leaving ends the load that others wait for, also not that of the caller
\* that began it ("Otherwise one canceled request can cancel every waiter
\* coalesced on this key", cache/json.go:137-138).
LeavingCancelsNobody == [][\A c \in waiting \ waiting' : Leave(c) \/ Answered(c)]_cacheVars

\* Once the source stays as it is, so does the cache: a load that read the
\* old value and stored it late is forgotten with the TTL ("allowed to
\* converge through the TTL", cache/json.go:199).
CacheConverges == <>[](cached \in {None, source})
=============================================================================
