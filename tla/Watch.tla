-------------------------------- MODULE Watch --------------------------------
(***************************************************************************)
(* Watch sessions, histories and the daily metrics of one video            *)
(* (backend/internal/analytics: StartSession, Heartbeat; engagement:       *)
(* RecordWatch).  A viewer may play the video in several tabs, each a      *)
(* session whose heartbeats claim watched time; the time credited is       *)
(* capped by the session's and by the viewer's clock, and views and        *)
(* completions are counted by session.                                     *)
(*                                                                         *)
(* A handler reads the time when the request arrives and waits for the     *)
(* rows' locks afterwards, so that transactions run with times out of      *)
(* order.  A heartbeat may be duplicated, late or lost: any number can     *)
(* arrive at any time.  Its transaction locks session, video and history   *)
(* and is one action; RecordWatch looks at the video without a lock and    *)
(* writes later, which makes two.                                          *)
(*                                                                         *)
(* Positions are abstracted to ended: the player ended within two seconds  *)
(* of the video's end.  The daily rows of the video's creator are written  *)
(* along with the video's, with the same numbers.                          *)
(***************************************************************************)
EXTENDS Integers, FiniteSets, Functions

CONSTANTS Viewers,
          Sessions,     \* ids of watch_sessions
          ViewerOf,     \* [Sessions -> Viewers]
          Handlers,     \* heartbeats a server handles at once
          None,
          Duration,     \* of the video, 0 when unknown
          QualifyMin,   \* watched time that makes a view, 3 s in the code
          Cap,          \* of one heartbeat's credit, 15 s in the code
          Lifetime,     \* of a session, 24 h in the code
          DayLength,
          Skew,         \* the database's clock minus the API's
          MaxClock, MaxSeq, Deltas  \* bounds: time, sequence numbers, claims

ASSUME WatchAssumption ==
  /\ IsFiniteSet(Viewers) /\ IsFiniteSet(Sessions)
  /\ ViewerOf \in [Sessions -> Viewers]
  /\ {Duration, QualifyMin, MaxClock, MaxSeq} \subseteq Nat
  /\ {Cap, Lifetime, DayLength} \subseteq Nat \ {0}
  /\ Skew \in Nat
  /\ None \notin Int
  /\ Deltas \subseteq 0..Cap

VARIABLES clock,        \* the API's
          session,      \* watch_sessions
          history,      \* watch_histories, by viewer
          viewCount,    \* video_stats.view_count
          daily,        \* video_daily_metrics, by day
          listed,       \* the video is ready, public, visible, its author active
          handler,      \* the heartbeat each handler works on
          recording     \* viewers whose RecordWatch has found the video listed

vars == <<clock, session, history, viewCount, daily, listed, handler, recording>>

Time == 0..MaxClock
Day(t) == t \div DayLength
Days == 0..Day(MaxClock)

\* A session that has not started has created = None.
Session == [created : Time \cup {None}, received : Time, seq : 0..MaxSeq, credited : Nat,
            qualified : BOOLEAN, completed : BOOLEAN, cohort : Days \cup {None}]

NewSession(created) ==
  [created |-> created, received |-> clock, seq |-> 0, credited |-> 0,
   qualified |-> FALSE, completed |-> FALSE, cohort |-> None]

\* There is a history once first is set.
History == [first : Nat \cup {None}, creditAt : Time \cup {None}, effective : Nat]

NoHistory == [first |-> None, creditAt |-> None, effective |-> 0]

Metrics == [views : Nat, watch : Nat, completions : Nat]

Heartbeat == [session : Sessions, seq : 1..MaxSeq, delta : Deltas, ended : BOOLEAN, now : Time]

WatchTypeOK ==
  /\ clock \in Time
  /\ session \in [Sessions -> Session]
  /\ history \in [Viewers -> History]
  /\ viewCount \in Nat
  /\ daily \in [Days -> Metrics]
  /\ listed \in BOOLEAN
  /\ handler \in [Handlers -> Heartbeat \cup {None}]
  /\ recording \subseteq Viewers

Init ==
  /\ clock = 0
  /\ session = [s \in Sessions |-> NewSession(None)]
  /\ history = [v \in Viewers |-> NoHistory]
  /\ viewCount = 0
  /\ daily = [d \in Days |-> [views |-> 0, watch |-> 0, completions |-> 0]]
  /\ listed = TRUE
  /\ handler = [h \in Handlers |-> None]
  /\ recording = {}

Started(s) == session[s].created # None
Watched(v) == history[v].first # None

-----------------------------------------------------------------------------
Tick ==
  /\ clock < MaxClock
  /\ clock' = clock + 1
  /\ UNCHANGED <<session, history, viewCount, daily, listed, handler, recording>>

\* The author or a moderator hides the video or shows it again.
SetListed ==
  /\ listed' = ~listed
  /\ UNCHANGED <<clock, session, history, viewCount, daily, handler, recording>>

StartSession(s) ==
  /\ ~Started(s)
  /\ listed
  /\ session' = [session EXCEPT ![s] = NewSession(clock)]
  /\ UNCHANGED <<clock, history, viewCount, daily, listed, handler, recording>>

\* A heartbeat arrives, new, duplicated or late.
Receive(h, s, seq, delta, ended) ==
  /\ handler[h] = None
  /\ Started(s)
  /\ handler' = [handler EXCEPT ![h] =
       [session |-> s, seq |-> seq, delta |-> delta, ended |-> ended, now |-> clock]]
  /\ UNCHANGED <<clock, session, history, viewCount, daily, listed, recording>>

-----------------------------------------------------------------------------
(***************************************************************************)
(* The transaction of heartbeat r.                                         *)
(***************************************************************************)

Viewer(r) == ViewerOf[r.session]

Lesser(a, b) == IF a <= b THEN a ELSE b

Elapsed(from, now) == IF from <= now THEN now - from ELSE 0

\* Mutated: the sequence number is not looked at.
AnySeq(r) == TRUE

\* The session has not seen the heartbeat, nor a later one.
FreshSeq(r) == r.seq > session[r.session].seq

\* The CHECK of watch_histories, first_watched_at <= last_watched_at.
TimesOrdered(r) == Watched(Viewer(r)) => history[Viewer(r)].first <= r.now

Applies(r) ==
  /\ r.now < session[r.session].created + Lifetime
  /\ FreshSeq(r)
  /\ listed
  /\ TimesOrdered(r)

\* Mutated: the viewer's other tabs are not looked at.
AcceptedPerTab(r) ==
  Lesser(Lesser(r.delta, Cap), Elapsed(session[r.session].received, r.now))

\* The time credited: no more than claimed, than elapsed since the session's
\* last heartbeat, and than elapsed since the viewer's last credit anywhere.
Accepted(r) ==
  LET own == Lesser(Lesser(r.delta, Cap), Elapsed(session[r.session].received, r.now))
      creditAt == history[Viewer(r)].creditAt
  IN  IF creditAt = None THEN own ELSE Lesser(own, Elapsed(creditAt, r.now))

\* Mutated: the session is credited what the client claims.
CreditedClaim(r) == session[r.session].credited + r.delta

Credited(r) == session[r.session].credited + Accepted(r)

\* Mutated: the viewer's total counts, as in the other tabs.
QualifiesByHistory(r) ==
  Duration > 0 /\ history[Viewer(r)].effective + Accepted(r) >= Lesser(QualifyMin, Duration)

Qualifies(r) == Duration > 0 /\ Credited(r) >= Lesser(QualifyMin, Duration)

Completes(r) == Duration > 0 /\ r.ended /\ Credited(r) * 100 >= Duration * 80

\* Mutated: each heartbeat of a qualified session counts.
NewViewAgain(r) == Qualifies(r)

NewView(r) == Qualifies(r) /\ ~session[r.session].qualified

NewCompletion(r) == Completes(r) /\ ~session[r.session].completed

\* The day a session's view, and then its completion, counts for.
Cohort(r) == IF NewView(r) THEN Day(r.now) ELSE session[r.session].cohort

One(b) == IF b THEN 1 ELSE 0

CompletionDay(r) == IF Cohort(r) = None THEN Day(r.now) ELSE Cohort(r)

\* The upserts of the daily rows.
Booked(r) ==
  [d \in Days |->
     [views |-> daily[d].views + One(NewView(r) /\ d = Day(r.now)),
      watch |-> daily[d].watch + (IF d = Day(r.now) THEN Accepted(r) ELSE 0),
      completions |-> daily[d].completions + One(NewCompletion(r) /\ d = CompletionDay(r))]]

CreditAt(r) == IF Accepted(r) > 0 THEN r.now ELSE history[Viewer(r)].creditAt

\* The viewer's first history row counts as a view.
CountView(v) == viewCount' = viewCount + One(~Watched(v))

HeartbeatApplies(h) ==
  /\ handler[h] # None
  /\ Applies(handler[h])
  /\ LET r == handler[h]
         v == Viewer(r)
     IN  /\ history' = [history EXCEPT ![v] =
              [first |-> IF Watched(v) THEN @.first ELSE r.now,
               creditAt |-> CreditAt(r),
               effective |-> @.effective + Accepted(r)]]
         /\ CountView(v)
         /\ daily' = Booked(r)
         /\ session' = [session EXCEPT ![r.session] =
              [created |-> @.created, received |-> r.now, seq |-> r.seq,
               credited |-> Credited(r),
               qualified |-> @.qualified \/ Qualifies(r),
               completed |-> @.completed \/ Completes(r),
               cohort |-> Cohort(r)]]
  /\ handler' = [handler EXCEPT ![h] = None]
  /\ UNCHANGED <<clock, listed, recording>>

\* Acknowledged as a duplicate, refused, or rolled back: by the CHECK, or as the
\* victim of a deadlock with RecordWatch over the missing history row.
HeartbeatRefused(h) ==
  /\ handler[h] # None
  /\ handler' = [handler EXCEPT ![h] = None]
  /\ UNCHANGED <<clock, session, history, viewCount, daily, listed, recording>>

-----------------------------------------------------------------------------
\* RecordWatch, the request without a session: ensureEngageableVideo ...
EnsureEngageable(v) ==
  /\ v \notin recording
  /\ listed
  /\ recording' = recording \cup {v}
  /\ UNCHANGED <<clock, session, history, viewCount, daily, listed, handler>>

\* ... and the upsert of the history, with the database's clock.
RecordWatch(v) ==
  /\ v \in recording
  /\ history' = [history EXCEPT ![v].first = IF Watched(v) THEN @ ELSE clock + Skew]
  /\ CountView(v)
  /\ recording' = recording \ {v}
  /\ UNCHANGED <<clock, session, daily, listed, handler>>

-----------------------------------------------------------------------------
Next ==
  \/ Tick
  \/ SetListed
  \/ \E s \in Sessions :
       \/ StartSession(s)
       \/ \E h \in Handlers, seq \in 1..MaxSeq, delta \in Deltas, ended \in BOOLEAN :
            Receive(h, s, seq, delta, ended)
  \/ \E h \in Handlers : HeartbeatApplies(h) \/ HeartbeatRefused(h)
  \/ \E v \in Viewers : EnsureEngageable(v) \/ RecordWatch(v)

Spec == Init /\ [][Next]_vars

-----------------------------------------------------------------------------
(***************************************************************************)
(* Properties.                                                             *)
(***************************************************************************)

TabsOf(v) == {s \in Sessions : ViewerOf[s] = v}

\* However many tabs a viewer has, and however their heartbeats are claimed,
\* delayed and duplicated, the effective watch time is no more than the time
\* since the first tab was opened ("the cross-tab cap", repository.go:194).
CreditWithinElapsed ==
  \A v \in Viewers : history[v].effective > 0 =>
    \E s \in TabsOf(v) : Started(s) /\ history[v].effective <= clock - session[s].created

\* Each unit of time is credited to one session, to its viewer's history and to
\* one day: the three ledgers, read by three different pages, agree.
WatchTimeAgrees ==
  LET credited == [s \in Sessions |-> session[s].credited]
      effective == [v \in Viewers |-> history[v].effective]
      booked == [d \in Days |-> daily[d].watch]
  IN  /\ \A v \in Viewers : SumFunctionOnSet(credited, TabsOf(v)) = effective[v]
      /\ SumFunction(booked) = SumFunction(effective)

\* The counters are what the rows say: a legacy view for each history, whichever
\* of Heartbeat and RecordWatch created it, an effective view for each qualified
\* session on its cohort day, a completion for each completed session.  And
\* "完成率有明确分母且不超过 100%" (docs/superpowers/plans/2026-09-22-stage5-
\* feature-expansion.md:374): no day has more completions than views, wherever
\* midnight falls, if the video is long enough that 80% of it is a view.
CountersAgree ==
  /\ viewCount = Cardinality({v \in Viewers : Watched(v)})
  /\ SumFunction([d \in Days |-> daily[d].completions])
       = Cardinality({s \in Sessions : session[s].completed})
  /\ \A d \in Days :
       /\ daily[d].views =
            Cardinality({s \in Sessions : session[s].qualified /\ session[s].cohort = d})
       /\ daily[d].completions <= daily[d].views

\* A second tab cannot qualify without credit of its own (repository.go:192-194):
\* each view of a viewer has cost QualifyMin of watched time.
TabsShareTime ==
  \A v \in Viewers :
    Cardinality({s \in TabsOf(v) : session[s].qualified}) * Lesser(QualifyMin, Duration)
      <= history[v].effective

\* Sessions change by fresh heartbeats, and metrics only with a session.
InOrder ==
  /\ \A s \in Sessions :
       session'[s] # session[s] => session'[s].seq > session[s].seq \/ ~Started(s)
  /\ daily' # daily => \E s \in Sessions : session'[s].seq > session[s].seq

\* "A duplicate or out-of-order heartbeat is acknowledged as a no-op"
\* (repository.go:105): a session's heartbeats take effect in their order and
\* once each, and one that changed nothing of the session changed no metrics.
SeqGuardsCredit == [][InOrder]_vars
=============================================================================
