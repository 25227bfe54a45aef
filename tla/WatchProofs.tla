----------------------------- MODULE WatchProofs -----------------------------
(***************************************************************************)
(* Proofs about Watch, for any viewers, tabs, handlers and settings: no    *)
(* viewer is credited more than the time there was, heartbeats take effect *)
(* in order, the three ledgers of watched time have one sum, and the       *)
(* counters of views and completions are the sessions they count.          *)
(*                                                                         *)
(* Sums over a set of viewers or sessions are those of the community       *)
(* module's fold; what a change of one summand does to them is proved by   *)
(* well-founded induction on the subsets summed over.                      *)
(***************************************************************************)
EXTENDS Watch, FiniteSetTheorems, TLAPS

\* A request works with a time between its session's start and the present.
RequestTimes ==
  \A h \in Handlers : handler[h] # None =>
    LET r == handler[h] IN
    /\ Started(r.session)
    /\ session[r.session].created <= r.now
    /\ r.now <= clock

\* So does a session, whose received may go back but not beyond its start.
SessionTimes ==
  \A s \in Sessions : Started(s) =>
    session[s].created <= session[s].received /\ session[s].received <= clock

\* What makes CreditWithinElapsed inductive: the time credited to a viewer fits
\* between the start of a tab and the viewer's last credit.
CreditTimes ==
  \A v \in Viewers :
    IF history[v].creditAt = None
      THEN history[v].effective = 0
      ELSE /\ history[v].creditAt <= clock
           /\ \E s \in TabsOf(v) :
                /\ Started(s)
                /\ history[v].effective <= history[v].creditAt - session[s].created

CreditInv == WatchTypeOK /\ RequestTimes /\ SessionTimes /\ CreditTimes

\* The day of a time in bounds is one of the days.
LEMMA DayInDays == ASSUME NEW t \in Time PROVE Day(t) \in Days
  <1>1. MaxClock \in Nat /\ DayLength \in Nat /\ DayLength > 0  BY WatchAssumption
  <1>2. t \in Nat /\ t <= MaxClock  BY <1>1 DEF Time
  <1>3. t \div DayLength \in Nat /\ MaxClock \div DayLength \in Nat  BY <1>1, <1>2
  <1>4. t \div DayLength <= MaxClock \div DayLength  BY <1>1, <1>2
  <1> QED  BY <1>3, <1>4 DEF Day, Days

\* The credit of a heartbeat is a number between nothing and what has elapsed
\* for its session and since the viewer's last credit.
LEMMA AcceptedBounds ==
  ASSUME WatchTypeOK, NEW r \in Heartbeat
  PROVE  /\ Accepted(r) \in Nat
         /\ Accepted(r) <= Elapsed(session[r.session].received, r.now)
         /\ history[Viewer(r)].creditAt # None =>
              Accepted(r) <= Elapsed(history[Viewer(r)].creditAt, r.now)
  <1> DEFINE s == r.session
             v == Viewer(r)
  <1>0. /\ Cap \in Nat /\ MaxClock \in Nat /\ Deltas \subseteq 0..Cap
        /\ ViewerOf \in [Sessions -> Viewers]
    BY WatchAssumption
  <1>1. /\ s \in Sessions /\ v \in Viewers
        /\ r.now \in Nat /\ r.delta \in Nat /\ Cap \in Nat
    <2>1. r.session \in Sessions /\ r.delta \in Deltas /\ r.now \in Time
      BY DEF Heartbeat
    <2>2. r.delta \in 0..Cap /\ r.now \in 0..MaxClock
      BY <1>0, <2>1 DEF Time
    <2>3. ViewerOf[r.session] \in Viewers
      BY <1>0, <2>1
    <2> QED  BY <1>0, <2>1, <2>2, <2>3 DEF Viewer
  <1>2. session[s].received \in Nat
    BY <1>1 DEF WatchTypeOK, Session, Time
  <1>3. history[v].creditAt \in Nat \cup {None}
    BY <1>1 DEF WatchTypeOK, History, Time
  <1> HIDE DEF s, v
  <1>4. Accepted(r) = LET own == Lesser(Lesser(r.delta, Cap), Elapsed(session[s].received, r.now))
                      IN IF history[v].creditAt = None THEN own
                         ELSE Lesser(own, Elapsed(history[v].creditAt, r.now))
    BY DEF Accepted, s, v
  <1>5. Elapsed(session[s].received, r.now) \in Nat
    BY <1>1, <1>2 DEF Elapsed
  <1>6. history[v].creditAt # None => Elapsed(history[v].creditAt, r.now) \in Nat
    BY <1>1, <1>3 DEF Elapsed
  <1>7. /\ Accepted(r) \in Nat
        /\ Accepted(r) <= Elapsed(session[s].received, r.now)
        /\ history[v].creditAt # None => Accepted(r) <= Elapsed(history[v].creditAt, r.now)
    BY <1>1, <1>4, <1>5, <1>6 DEF Lesser
  <1> QED  BY <1>7 DEF s, v

-----------------------------------------------------------------------------
LEMMA InitCredit == Init => CreditInv
  <1> SUFFICES ASSUME Init PROVE CreditInv
    OBVIOUS
  <1>1. WatchTypeOK
    <2>1. clock \in Time /\ 0 \in Time /\ 0 \in 0..MaxSeq
      BY WatchAssumption DEF Init, Time
    <2>2. session \in [Sessions -> Session]
      BY <2>1 DEF Init, NewSession, Session
    <2>3. history \in [Viewers -> History]
      BY DEF Init, NoHistory, History
    <2>4. daily \in [Days -> Metrics]
      BY DEF Init, Metrics
    <2> QED  BY <2>1, <2>2, <2>3, <2>4 DEF Init, WatchTypeOK
  <1>2. RequestTimes /\ SessionTimes
    BY DEF Init, RequestTimes, SessionTimes, Started, NewSession
  <1>3. CreditTimes
    BY DEF Init, CreditTimes, NoHistory
  <1> QED  BY <1>1, <1>2, <1>3 DEF CreditInv

LEMMA StepType == ASSUME WatchTypeOK, [Next]_vars PROVE WatchTypeOK'
  <1>1. CASE Tick
    BY <1>1, WatchAssumption DEF Tick, WatchTypeOK, Time
  <1>2. CASE SetListed
    BY <1>2 DEF SetListed, WatchTypeOK
  <1>3. ASSUME NEW s \in Sessions, StartSession(s) PROVE WatchTypeOK'
    <2>1. NewSession(clock) \in Session
      BY WatchAssumption DEF WatchTypeOK, NewSession, Session
    <2>2. session' \in [Sessions -> Session]
      BY <1>3, <2>1 DEF StartSession, WatchTypeOK
    <2> QED  BY <1>3, <2>2 DEF StartSession, WatchTypeOK
  <1>4. ASSUME NEW s \in Sessions, NEW h \in Handlers, NEW seq \in 1..MaxSeq,
               NEW delta \in Deltas, NEW ended \in BOOLEAN, Receive(h, s, seq, delta, ended)
        PROVE  WatchTypeOK'
    <2>1. [session |-> s, seq |-> seq, delta |-> delta, ended |-> ended, now |-> clock] \in Heartbeat
      BY DEF WatchTypeOK, Heartbeat
    <2>2. handler' \in [Handlers -> Heartbeat \cup {None}]
      BY <1>4, <2>1 DEF Receive, WatchTypeOK
    <2> QED  BY <1>4, <2>2 DEF Receive, WatchTypeOK
  <1>5. ASSUME NEW h \in Handlers, HeartbeatApplies(h) PROVE WatchTypeOK'
    <2> DEFINE r == handler[h]
               v == Viewer(r)
    <2>1. r \in Heartbeat
      BY <1>5 DEF HeartbeatApplies, WatchTypeOK
    <2>2. /\ r.session \in Sessions /\ v \in Viewers
          /\ r.now \in Time /\ r.now \in Nat /\ r.seq \in 0..MaxSeq
      BY <2>1, WatchAssumption DEF Heartbeat, Viewer, Time
    <2>3. Accepted(r) \in Nat
      BY <2>1, AcceptedBounds
    <2>4. Day(r.now) \in Days
      BY <2>2, DayInDays
    <2>5. handler' \in [Handlers -> Heartbeat \cup {None}]
      BY <1>5 DEF HeartbeatApplies, WatchTypeOK
    <2>6. history' \in [Viewers -> History]
      <3> DEFINE row == [first |-> IF Watched(v) THEN history[v].first ELSE r.now,
                         creditAt |-> CreditAt(r),
                         effective |-> history[v].effective + Accepted(r)]
      <3>1. history[v] \in History
        BY <2>2 DEF WatchTypeOK
      <3>2. row \in History
        BY <2>2, <2>3, <3>1 DEF History, CreditAt
      <3>3. history' = [history EXCEPT ![v] = row]
        BY <1>5 DEF HeartbeatApplies
      <3> QED  BY <3>2, <3>3 DEF WatchTypeOK
    <2>7. session' \in [Sessions -> Session]
      <3> DEFINE old == session[r.session]
                 row == [created |-> old.created, received |-> r.now, seq |-> r.seq,
                         credited |-> Credited(r),
                         qualified |-> old.qualified \/ Qualifies(r),
                         completed |-> old.completed \/ Completes(r),
                         cohort |-> Cohort(r)]
      <3>1. old \in Session
        BY <2>2 DEF WatchTypeOK
      <3>2. Credited(r) \in Nat
        BY <2>3, <3>1 DEF Credited, Session
      <3>3. Cohort(r) \in Days \cup {None}
        BY <2>4, <3>1 DEF Cohort, Session
      <3>4. (old.qualified \/ Qualifies(r)) \in BOOLEAN /\ (old.completed \/ Completes(r)) \in BOOLEAN
        OBVIOUS
      <3>5. old.created \in Time \cup {None}
        BY <3>1 DEF Session
      <3> HIDE DEF old
      <3>6. row \in Session
        BY <2>2, <3>2, <3>3, <3>4, <3>5 DEF Session
      <3>7. session' = [session EXCEPT ![r.session] = row]
        BY <1>5 DEF HeartbeatApplies, old
      <3> QED  BY <3>6, <3>7 DEF WatchTypeOK
    <2>8. daily' \in [Days -> Metrics]
      <3>1. ASSUME NEW d \in Days, NEW x \in BOOLEAN, NEW y \in BOOLEAN
            PROVE  [views |-> daily[d].views + One(x),
                    watch |-> daily[d].watch + (IF d = Day(r.now) THEN Accepted(r) ELSE 0),
                    completions |-> daily[d].completions + One(y)] \in Metrics
        BY <2>3 DEF WatchTypeOK, Metrics, One
      <3>2. \A d \in Days :
              /\ (NewView(r) /\ d = Day(r.now)) \in BOOLEAN
              /\ (NewCompletion(r) /\ d = CompletionDay(r)) \in BOOLEAN
        OBVIOUS
      <3>3. Booked(r) \in [Days -> Metrics]
        BY <3>1, <3>2 DEF Booked
      <3> QED  BY <1>5, <3>3 DEF HeartbeatApplies
    <2>9. viewCount' \in Nat
      BY <1>5 DEF HeartbeatApplies, CountView, One, WatchTypeOK
    <2> QED  BY <1>5, <2>5, <2>6, <2>7, <2>8, <2>9 DEF HeartbeatApplies, WatchTypeOK
  <1>6. ASSUME NEW h \in Handlers, HeartbeatRefused(h) PROVE WatchTypeOK'
    BY <1>6 DEF HeartbeatRefused, WatchTypeOK
  <1>7. ASSUME NEW v \in Viewers, EnsureEngageable(v) PROVE WatchTypeOK'
    BY <1>7 DEF EnsureEngageable, WatchTypeOK
  <1>8. ASSUME NEW v \in Viewers, RecordWatch(v) PROVE WatchTypeOK'
    <2>1. clock + Skew \in Nat
      BY WatchAssumption DEF WatchTypeOK, Time
    <2>2. history' \in [Viewers -> History]
      BY <1>8, <2>1 DEF RecordWatch, WatchTypeOK, History
    <2>3. viewCount' \in Nat
      BY <1>8 DEF RecordWatch, CountView, One, WatchTypeOK
    <2> QED  BY <1>8, <2>2, <2>3 DEF RecordWatch, WatchTypeOK
  <1>9. CASE UNCHANGED vars
    BY <1>9 DEF vars, WatchTypeOK
  <1> QED  BY <1>1, <1>2, <1>3, <1>4, <1>5, <1>6, <1>7, <1>8, <1>9 DEF Next

LEMMA StepTimes ==
  ASSUME CreditInv, [Next]_vars
  PROVE  RequestTimes' /\ SessionTimes'
  <1> USE DEF CreditInv
  <1>1. CASE Tick
    <2>1. clock \in Nat /\ clock' = clock + 1 /\ UNCHANGED <<session, handler>>
      BY <1>1 DEF Tick, WatchTypeOK, Time
    <2>2. \A h \in Handlers : handler[h] # None => handler[h].now \in Nat
      BY DEF WatchTypeOK, Heartbeat, Time
    <2>3. \A s \in Sessions : session[s].received \in Nat
      BY DEF WatchTypeOK, Session, Time
    <2>4. RequestTimes'
      BY <2>1, <2>2 DEF RequestTimes, Started
    <2>5. SessionTimes'
      BY <2>1, <2>3 DEF SessionTimes, Started
    <2> QED  BY <2>4, <2>5
  <1>2. CASE SetListed
    BY <1>2 DEF SetListed, RequestTimes, SessionTimes, Started
  <1>3. ASSUME NEW s \in Sessions, StartSession(s) PROVE RequestTimes' /\ SessionTimes'
    <2>1. /\ session' = [session EXCEPT ![s] = NewSession(clock)]
          /\ ~Started(s) /\ UNCHANGED <<clock, handler>>
      BY <1>3 DEF StartSession
    <2>2. \A x \in Sessions : Started(x) => session'[x] = session[x]
      BY <2>1 DEF WatchTypeOK
    <2>3. \A h \in Handlers : handler[h] # None => handler[h].session \in Sessions
      BY DEF WatchTypeOK, Heartbeat
    <2>4. RequestTimes'
      BY <2>1, <2>2, <2>3 DEF RequestTimes, Started
    <2>5. session'[s].created = clock /\ session'[s].received = clock /\ clock \in Nat
      BY <2>1 DEF NewSession, WatchTypeOK, Time
    <2>6. SessionTimes'
      BY <2>1, <2>5 DEF SessionTimes, Started, WatchTypeOK
    <2> QED  BY <2>4, <2>6
  <1>4. ASSUME NEW s \in Sessions, NEW h \in Handlers, NEW seq \in 1..MaxSeq,
               NEW delta \in Deltas, NEW ended \in BOOLEAN, Receive(h, s, seq, delta, ended)
        PROVE  RequestTimes' /\ SessionTimes'
    <2>1. /\ Started(s) /\ UNCHANGED <<clock, session>>
          /\ handler' = [handler EXCEPT ![h] =
               [session |-> s, seq |-> seq, delta |-> delta, ended |-> ended, now |-> clock]]
      BY <1>4 DEF Receive
    <2>2. session[s].created <= clock /\ clock \in Nat
      BY <2>1 DEF SessionTimes, Started, WatchTypeOK, Session, Time
    <2>3. RequestTimes'
      BY <2>1, <2>2 DEF RequestTimes, Started, WatchTypeOK
    <2>4. SessionTimes'
      BY <2>1 DEF SessionTimes, Started
    <2> QED  BY <2>3, <2>4
  <1>5. ASSUME NEW h \in Handlers, HeartbeatApplies(h) PROVE RequestTimes' /\ SessionTimes'
    <2> DEFINE r == handler[h]
    <2>1. /\ r \in Heartbeat /\ r.session \in Sessions
          /\ Started(r.session) /\ session[r.session].created <= r.now /\ r.now <= clock
      BY <1>5 DEF HeartbeatApplies, WatchTypeOK, RequestTimes, Heartbeat
    <2>2. /\ \A x \in Sessions : session'[x].created = session[x].created
          /\ \A x \in Sessions : x # r.session => session'[x] = session[x]
          /\ session'[r.session].received = r.now
      BY <1>5, <2>1 DEF HeartbeatApplies, WatchTypeOK
    <2>3. UNCHANGED clock /\ handler' = [handler EXCEPT ![h] = None]
      BY <1>5 DEF HeartbeatApplies
    <2>4. \A g \in Handlers : handler'[g] # None => handler'[g] = handler[g]
      BY <2>3 DEF WatchTypeOK
    <2>5. RequestTimes'
      BY <2>2, <2>3, <2>4 DEF RequestTimes, Started, WatchTypeOK, Heartbeat
    <2>6. SessionTimes'
      BY <2>1, <2>2, <2>3 DEF SessionTimes, Started
    <2> QED  BY <2>5, <2>6
  <1>6. ASSUME NEW h \in Handlers, HeartbeatRefused(h) PROVE RequestTimes' /\ SessionTimes'
    BY <1>6 DEF HeartbeatRefused, RequestTimes, SessionTimes, Started, WatchTypeOK
  <1>7. ASSUME NEW v \in Viewers, EnsureEngageable(v) PROVE RequestTimes' /\ SessionTimes'
    BY <1>7 DEF EnsureEngageable, RequestTimes, SessionTimes, Started
  <1>8. ASSUME NEW v \in Viewers, RecordWatch(v) PROVE RequestTimes' /\ SessionTimes'
    BY <1>8 DEF RecordWatch, RequestTimes, SessionTimes, Started
  <1>9. CASE UNCHANGED vars
    BY <1>9 DEF vars, RequestTimes, SessionTimes, Started
  <1> QED  BY <1>1, <1>2, <1>3, <1>4, <1>5, <1>6, <1>7, <1>8, <1>9 DEF Next

\* A started session keeps its start, and time does not go back.
LEMMA CreditTimesKept ==
  ASSUME CreditInv, NEW v \in Viewers, clock' \in Nat, clock <= clock',
         history'[v].creditAt = history[v].creditAt,
         history'[v].effective = history[v].effective,
         \A s \in Sessions : Started(s) => session'[s].created = session[s].created
  PROVE  IF history'[v].creditAt = None
           THEN history'[v].effective = 0
           ELSE /\ history'[v].creditAt <= clock'
                /\ \E s \in TabsOf(v) :
                     /\ Started(s)'
                     /\ history'[v].effective <= history'[v].creditAt - session'[s].created
  <1>1. CASE history[v].creditAt = None
    BY <1>1 DEF CreditInv, CreditTimes
  <1>2. CASE history[v].creditAt # None
    <2>1. PICK s \in TabsOf(v) :
            Started(s) /\ history[v].effective <= history[v].creditAt - session[s].created
      BY <1>2 DEF CreditInv, CreditTimes
    <2>2. s \in Sessions /\ session'[s].created = session[s].created
      BY <2>1 DEF TabsOf
    <2>3. history[v].creditAt \in Nat /\ clock \in Nat /\ history[v].creditAt <= clock
      BY <1>2 DEF CreditInv, CreditTimes, WatchTypeOK, History, Time
    <2>4. history'[v].creditAt <= clock'
      BY <2>3
    <2>5. /\ Started(s)'
          /\ history'[v].effective <= history'[v].creditAt - session'[s].created
      BY <2>1, <2>2 DEF Started
    <2> QED  BY <1>2, <2>1, <2>4, <2>5
  <1> QED  BY <1>1, <1>2

\* The heart of the argument: what a heartbeat credits lies after the viewer's
\* last credit, or, for a first credit, after the start of its own session.
LEMMA HeartbeatCredit ==
  ASSUME CreditInv, NEW h \in Handlers, HeartbeatApplies(h)
  PROVE  CreditTimes'
  <1> DEFINE r == handler[h]
             w == Viewer(r)
  <1>1. /\ r \in Heartbeat /\ r.session \in Sessions /\ w \in Viewers
        /\ r.session \in TabsOf(w) /\ r.now \in Nat
        /\ Started(r.session) /\ session[r.session].created <= r.now /\ r.now <= clock
        /\ session[r.session].created <= session[r.session].received
    <2>1. r \in Heartbeat /\ r # None
      BY DEF HeartbeatApplies, CreditInv, WatchTypeOK
    <2>2. r.session \in Sessions /\ r.now \in Time /\ ViewerOf \in [Sessions -> Viewers]
      BY <2>1, WatchAssumption DEF Heartbeat
    <2>3. w \in Viewers /\ r.session \in TabsOf(w)
      BY <2>2 DEF Viewer, TabsOf
    <2>4. /\ Started(r.session) /\ session[r.session].created <= r.now /\ r.now <= clock
      BY <2>1 DEF CreditInv, RequestTimes
    <2> QED  BY <2>1, <2>2, <2>3, <2>4 DEF CreditInv, SessionTimes, Time
  <1>2. /\ session[r.session].created \in Nat /\ session[r.session].received \in Nat
        /\ clock \in Nat
    BY <1>1 DEF CreditInv, WatchTypeOK, Session, Started, Time
  <1>3. /\ Accepted(r) \in Nat
        /\ Accepted(r) <= Elapsed(session[r.session].received, r.now)
        /\ history[w].creditAt # None => Accepted(r) <= Elapsed(history[w].creditAt, r.now)
    BY <1>1, AcceptedBounds DEF CreditInv
  <1>4. /\ UNCHANGED clock
        /\ \A s \in Sessions : session'[s].created = session[s].created
        /\ \A v \in Viewers : v # w => history'[v] = history[v]
        /\ history'[w].creditAt = CreditAt(r)
        /\ history'[w].effective = history[w].effective + Accepted(r)
    BY <1>1 DEF HeartbeatApplies, CreditInv, WatchTypeOK
  <1>5. history[w].effective \in Nat /\ history[w].creditAt \in Nat \cup {None}
    BY <1>1 DEF CreditInv, WatchTypeOK, History, Time
  <1> HIDE DEF r, w
  <1> SUFFICES ASSUME NEW v \in Viewers
               PROVE  IF history'[v].creditAt = None
                        THEN history'[v].effective = 0
                        ELSE /\ history'[v].creditAt <= clock'
                             /\ \E s \in TabsOf(v) :
                                  /\ Started(s)'
                                  /\ history'[v].effective
                                       <= history'[v].creditAt - session'[s].created
    BY DEF CreditTimes, TabsOf
  <1>6. CASE v # w \/ Accepted(r) = 0
    <2>1. history'[v].creditAt = history[v].creditAt /\ history'[v].effective = history[v].effective
      BY <1>1, <1>4, <1>5, <1>6 DEF CreditAt, w
    <2> QED  BY <1>2, <1>4, <2>1, CreditTimesKept
  <1>7. CASE v = w /\ Accepted(r) > 0
    <2>1. history'[w].creditAt = r.now /\ r.now # None
      BY <1>1, <1>4, <1>7, WatchAssumption DEF CreditAt
    <2>2. history'[w].creditAt <= clock'
      BY <1>1, <1>4, <2>1
    <2>3. \E s \in TabsOf(w) :
            Started(s)' /\ history'[w].effective <= r.now - session'[s].created
      <3>1. CASE history[w].creditAt = None
        <4>1. history[w].effective = 0
          BY <1>1, <3>1 DEF CreditInv, CreditTimes
        <4>2. Accepted(r) <= r.now - session[r.session].received
          BY <1>1, <1>2, <1>3, <1>7 DEF Elapsed
        <4>3. history'[w].effective <= r.now - session[r.session].created
          BY <1>1, <1>2, <1>3, <1>4, <4>1, <4>2
        <4> QED  BY <1>1, <1>4, <4>3 DEF Started
      <3>2. CASE history[w].creditAt # None
        <4>1. PICK s \in TabsOf(w) :
                Started(s) /\ history[w].effective <= history[w].creditAt - session[s].created
          BY <1>1, <3>2 DEF CreditInv, CreditTimes
        <4>2. s \in Sessions /\ session[s].created \in Nat
          BY <4>1 DEF TabsOf, CreditInv, WatchTypeOK, Session, Started, Time
        <4>3. Accepted(r) <= r.now - history[w].creditAt
          BY <1>1, <1>3, <1>5, <1>7, <3>2 DEF Elapsed
        <4>4. history'[w].effective <= r.now - session'[s].created
          BY <1>1, <1>3, <1>4, <1>5, <3>2, <4>1, <4>2, <4>3
        <4> QED  BY <1>4, <4>1, <4>2, <4>4 DEF Started
      <3> QED  BY <3>1, <3>2
    <2> QED  BY <1>7, <2>1, <2>2, <2>3
  <1> QED  BY <1>3, <1>6, <1>7

LEMMA StepCredit ==
  ASSUME CreditInv, [Next]_vars, WatchTypeOK'
  PROVE  CreditTimes'
  <1>1. ASSUME UNCHANGED history, clock <= clock',
               \A s \in Sessions : Started(s) => session'[s].created = session[s].created
        PROVE  CreditTimes'
    <2>1. clock' \in Nat
      BY DEF WatchTypeOK, Time
    <2> QED  BY <1>1, <2>1, CreditTimesKept DEF CreditTimes, TabsOf
  <1>2. clock \in Nat /\ clock <= clock
    BY DEF CreditInv, WatchTypeOK, Time
  <1>3. CASE Tick
    BY <1>1, <1>2, <1>3 DEF Tick
  <1>4. CASE SetListed
    BY <1>1, <1>2, <1>4 DEF SetListed
  <1>5. ASSUME NEW s \in Sessions, StartSession(s) PROVE CreditTimes'
    BY <1>1, <1>2, <1>5 DEF StartSession, CreditInv, WatchTypeOK
  <1>6. ASSUME NEW s \in Sessions, NEW h \in Handlers, NEW seq \in 1..MaxSeq,
               NEW delta \in Deltas, NEW ended \in BOOLEAN, Receive(h, s, seq, delta, ended)
        PROVE  CreditTimes'
    BY <1>1, <1>2, <1>6 DEF Receive
  <1>7. ASSUME NEW h \in Handlers, HeartbeatApplies(h) PROVE CreditTimes'
    BY <1>7, HeartbeatCredit
  <1>8. ASSUME NEW h \in Handlers, HeartbeatRefused(h) PROVE CreditTimes'
    BY <1>1, <1>2, <1>8 DEF HeartbeatRefused
  <1>9. ASSUME NEW v \in Viewers, EnsureEngageable(v) PROVE CreditTimes'
    BY <1>1, <1>2, <1>9 DEF EnsureEngageable
  <1>10. ASSUME NEW v \in Viewers, RecordWatch(v) PROVE CreditTimes'
    <2>1. /\ UNCHANGED <<clock, session>>
          /\ \A x \in Viewers : /\ history'[x].creditAt = history[x].creditAt
                                /\ history'[x].effective = history[x].effective
      BY <1>10 DEF RecordWatch, CreditInv, WatchTypeOK, History
    <2> QED  BY <1>2, <2>1, CreditTimesKept DEF CreditTimes, TabsOf
  <1>11. CASE UNCHANGED vars
    BY <1>1, <1>2, <1>11 DEF vars
  <1> QED  BY <1>3, <1>4, <1>5, <1>6, <1>7, <1>8, <1>9, <1>10, <1>11 DEF Next

-----------------------------------------------------------------------------
\* The invariant of the credit is inductive.
THEOREM CreditInvariant == Spec => []CreditInv
  <1>1. Init => CreditInv
    BY InitCredit
  <1>2. CreditInv /\ [Next]_vars => CreditInv'
    <2> SUFFICES ASSUME CreditInv, [Next]_vars PROVE CreditInv'
      OBVIOUS
    <2>1. WatchTypeOK'
      BY StepType DEF CreditInv
    <2>2. RequestTimes' /\ SessionTimes'
      BY StepTimes
    <2>3. CreditTimes'
      BY <2>1, StepCredit
    <2> QED  BY <2>1, <2>2, <2>3 DEF CreditInv
  <1> QED  BY <1>1, <1>2, PTL DEF Spec

\* Sessions, histories and metrics are well formed in every reachable state of
\* StartSession, Heartbeat and RecordWatch.
THEOREM WatchTypeCorrect == Spec => []WatchTypeOK
  BY CreditInvariant, PTL DEF CreditInv

\* Heartbeat never credits a viewer more time than has passed since the first
\* tab was opened, for any number of tabs and any delays and duplicates.
THEOREM CreditIsElapsed == Spec => []CreditWithinElapsed
  <1>1. CreditInv => CreditWithinElapsed
    <2> SUFFICES ASSUME CreditInv, NEW v \in Viewers, history[v].effective > 0
                 PROVE  \E s \in TabsOf(v) :
                          Started(s) /\ history[v].effective <= clock - session[s].created
      BY DEF CreditWithinElapsed
    <2>1. history[v].creditAt # None
      BY DEF CreditInv, CreditTimes
    <2>2. PICK s \in TabsOf(v) :
            Started(s) /\ history[v].effective <= history[v].creditAt - session[s].created
      BY <2>1 DEF CreditInv, CreditTimes
    <2>3. /\ history[v].creditAt \in Nat /\ clock \in Nat /\ history[v].creditAt <= clock
          /\ history[v].effective \in Nat
      BY <2>1 DEF CreditInv, CreditTimes, WatchTypeOK, History, Time
    <2>4. session[s].created \in Nat
      BY <2>2 DEF TabsOf, CreditInv, WatchTypeOK, Session, Started, Time
    <2>5. history[v].effective <= clock - session[s].created
      BY <2>2, <2>3, <2>4
    <2> QED  BY <2>2, <2>5
  <1> QED  BY <1>1, CreditInvariant, PTL

LEMMA StepInOrder ==
  ASSUME WatchTypeOK, [Next]_vars
  PROVE  InOrder
  <1>1. ASSUME UNCHANGED <<session, daily>> PROVE InOrder
    BY <1>1 DEF InOrder
  <1>2. ASSUME NEW s \in Sessions, StartSession(s) PROVE InOrder
    BY <1>2 DEF StartSession, WatchTypeOK, InOrder
  <1>3. ASSUME NEW h \in Handlers, HeartbeatApplies(h) PROVE InOrder
    <2>1. handler[h].session \in Sessions
      BY <1>3 DEF HeartbeatApplies, WatchTypeOK, Heartbeat
    <2>2. handler[h].seq > session[handler[h].session].seq
      BY <1>3 DEF HeartbeatApplies, Applies, FreshSeq
    <2>3. session'[handler[h].session].seq = handler[h].seq
      BY <1>3, <2>1 DEF HeartbeatApplies, WatchTypeOK
    <2>4. \A s \in Sessions : s # handler[h].session => session'[s] = session[s]
      BY <1>3, <2>1 DEF HeartbeatApplies, WatchTypeOK
    <2> QED  BY <2>1, <2>2, <2>3, <2>4 DEF InOrder
  <1> QED
    BY <1>1, <1>2, <1>3
    DEF Next, vars, Tick, SetListed, Receive, HeartbeatRefused, EnsureEngageable, RecordWatch

\* A session's heartbeats take effect in their order and once each, and metrics
\* change with a session only.
THEOREM HeartbeatsInOrder == Spec => SeqGuardsCredit
  <1>1. WatchTypeOK /\ [Next]_vars => [InOrder]_vars
    BY StepInOrder
  <1> QED  BY <1>1, WatchTypeCorrect, PTL DEF Spec, SeqGuardsCredit

-----------------------------------------------------------------------------
(***************************************************************************)
(* Sums over a finite set (SumFunctionOnSet of Functions), by induction    *)
(* over its subsets.                                                       *)
(***************************************************************************)

\* The element that the fold takes first.
Some(s) == CHOOSE x \in s : TRUE

\* Induction over the subsets of a finite set: if T holds a subset whenever it
\* holds all smaller ones, it holds them all.
LEMMA SubsetsBySize ==
  ASSUME NEW S, IsFiniteSet(S), NEW T,
         \A s \in SUBSET S : (\A r \in SUBSET s : r # s => r \in T) => s \in T
  PROVE  \A s \in SUBSET S : s \in T
  <1> DEFINE U == {s \in SUBSET S : s \notin T}
  <1> SUFFICES ASSUME U # {}
               PROVE  FALSE
    OBVIOUS
  <1>1. IsWellFoundedOn(StrictSubsetOrdering(S), SUBSET S)
    <2>1. FiniteSubsetsOf(S) = SUBSET S
      BY FS_FiniteSubsetsOfFinite
    <2>2. IsWellFoundedOn(StrictSubsetOrdering(S), FiniteSubsetsOf(S))
      BY FS_StrictSubsetOrderingWellFounded
    <2> QED  BY <2>1, <2>2
  <1>2. U \subseteq SUBSET S
    OBVIOUS
  <1> HIDE DEF U
  <1>3. PICK s \in U : \A r \in U : ~ (<<r, s>> \in StrictSubsetOrdering(S))
    BY <1>1, <1>2, WFMin
  <1>4. s \in SUBSET S /\ s \notin T
    BY <1>3 DEF U
  <1>5. ASSUME NEW r \in SUBSET s, r # s
        PROVE  r \in T
    <2>1. r \in SUBSET S /\ <<r, s>> \in StrictSubsetOrdering(S)
      BY <1>4, <1>5 DEF StrictSubsetOrdering
    <2> QED  BY <1>3, <2>1 DEF U
  <1> QED  BY <1>4, <1>5

\* The same, if it holds the empty set, and a subset whenever it holds what is
\* left without one of its elements.
LEMMA SubsetsByElements ==
  ASSUME NEW S, IsFiniteSet(S), NEW T, {} \in T,
         \A s \in SUBSET S : s # {} /\ s \ {Some(s)} \in T => s \in T
  PROVE  \A s \in SUBSET S : s \in T
  <1>1. ASSUME NEW s \in SUBSET S, \A r \in SUBSET s : r # s => r \in T
        PROVE  s \in T
    <2>1. CASE s = {}
      BY <2>1
    <2>2. CASE s # {}
      <3>1. Some(s) \in s
        BY <2>2 DEF Some
      <3>2. s \ {Some(s)} \in SUBSET s /\ s \ {Some(s)} # s
        BY <3>1
      <3> QED  BY <1>1, <2>2, <3>2
    <2> QED  BY <2>1, <2>2
  <1> QED  BY <1>1, SubsetsBySize

\* g is a table of the sums of f over the subsets of S.
SumTable(f, S, g) ==
  g = [s \in SUBSET S |-> IF s = {} THEN 0 ELSE f[Some(s)] + g[s \ {Some(s)}]]

LEMMA SumFromTable ==
  ASSUME NEW f, NEW S
  PROVE  SumFunctionOnSet(f, S) = (CHOOSE g : SumTable(f, S, g))[S]
  BY DEF SumFunctionOnSet, FoldFunctionOnSet, MapThenFoldSet, SumTable, Some

\* Two tables agree on the subsets they share.
LEMMA TablesAgree ==
  ASSUME NEW f, NEW S, IsFiniteSet(S), NEW R, S \subseteq R,
         NEW g, NEW h, SumTable(f, S, g), SumTable(f, R, h)
  PROVE  \A s \in SUBSET S : g[s] = h[s]
  <1> DEFINE T == {s \in SUBSET S : g[s] = h[s]}
  <1>1. ASSUME NEW s \in SUBSET S
        PROVE  /\ g[s] = IF s = {} THEN 0 ELSE f[Some(s)] + g[s \ {Some(s)}]
               /\ h[s] = IF s = {} THEN 0 ELSE f[Some(s)] + h[s \ {Some(s)}]
    BY DEF SumTable
  <1>2. {} \in T
    BY <1>1
  <1>3. ASSUME NEW s \in SUBSET S, s # {}, s \ {Some(s)} \in T
        PROVE  s \in T
    BY <1>1, <1>3
  <1> HIDE DEF T
  <1>4. \A s \in SUBSET S : s \in T
    BY <1>2, <1>3, SubsetsByElements
  <1> QED  BY <1>4 DEF T

\* There is a table for every finite set, which holds the sums of its subsets.
LEMMA TableExists ==
  ASSUME NEW f, NEW S, IsFiniteSet(S)
  PROVE  \E g : SumTable(f, S, g)
  <1> DEFINE T == {s \in SUBSET S : \E g : SumTable(f, s, g)}
             Table(r) == CHOOSE g : SumTable(f, r, g)
  <1>1. ASSUME NEW s \in SUBSET S, \A r \in SUBSET s : r # s => r \in T
        PROVE  s \in T
    <2> DEFINE x == Some(s)
               total == IF s = {} THEN 0 ELSE f[x] + Table(s \ {x})[s \ {x}]
               g == [r \in SUBSET s |-> IF r = s THEN total ELSE Table(r)[r]]
    <2>1. \A r \in SUBSET s : r # s => SumTable(f, r, Table(r))
      BY <1>1
    <2>2. \A r \in SUBSET s : r # {} => Some(r) \in r /\ r \ {Some(r)} \in SUBSET s /\ r \ {Some(r)} # s
      BY DEF Some
    <2>3. IsFiniteSet(s)
      BY FS_Subset
    <2> HIDE DEF Table
    <2>4. ASSUME NEW r \in SUBSET s
          PROVE  g[r] = IF r = {} THEN 0 ELSE f[Some(r)] + g[r \ {Some(r)}]
      <3>1. CASE r = s
        BY <2>2, <3>1
      <3>2. CASE r # s
        <4> DEFINE q == r \ {Some(r)}
        <4>1. SumTable(f, r, Table(r)) /\ r \in SUBSET r
          BY <2>1, <3>2
        <4>2. Table(r)[r] = IF r = {} THEN 0 ELSE f[Some(r)] + Table(r)[q]
          BY <4>1 DEF SumTable
        <4>3. g[r] = Table(r)[r]
          BY <3>2
        <4>4. CASE r # {}
          <5>1. q \in SUBSET s /\ q # s /\ q \in SUBSET r /\ IsFiniteSet(r) /\ IsFiniteSet(q)
            BY <2>2, <2>3, <4>4, FS_Subset
          <5>2. SumTable(f, q, Table(q))
            BY <2>1, <5>1
          <5>3. g[q] = Table(q)[q]
            BY <5>1
          <5>4. q \subseteq r /\ q \in SUBSET q
            BY <5>1
          <5>5. Table(q)[q] = Table(r)[q]
            <6> HIDE DEF q, g
            <6> QED  BY <4>1, <5>1, <5>2, <5>4, TablesAgree
          <5> QED  BY <4>2, <4>3, <4>4, <5>3, <5>5
        <4> QED  BY <4>2, <4>3, <4>4
      <3> QED  BY <3>1, <3>2
    <2>5. g = [r \in SUBSET s |-> IF r = {} THEN 0 ELSE f[Some(r)] + g[r \ {Some(r)}]]
      <3> DEFINE h == [r \in SUBSET s |-> IF r = {} THEN 0 ELSE f[Some(r)] + g[r \ {Some(r)}]]
      <3>1. \A r \in SUBSET s : g[r] = h[r]
        BY <2>4
      <3>2. g = [r \in SUBSET s |-> g[r]] /\ h = [r \in SUBSET s |-> h[r]]
        OBVIOUS
      <3> HIDE DEF g, h
      <3>3. g = h
        BY <3>1, <3>2
      <3> QED  BY <3>3 DEF h
    <2> HIDE DEF g
    <2> QED  BY <2>5 DEF SumTable
  <1> HIDE DEF T
  <1>2. S \in T
    BY <1>1, SubsetsBySize
  <1> QED  BY <1>2 DEF T

\* The sum over a finite set, by taking one element away.
LEMMA SumByElement ==
  ASSUME NEW f, NEW S, IsFiniteSet(S)
  PROVE  SumFunctionOnSet(f, S) =
           IF S = {} THEN 0 ELSE f[Some(S)] + SumFunctionOnSet(f, S \ {Some(S)})
  <1> DEFINE Table(r) == CHOOSE g : SumTable(f, r, g)
             q == S \ {Some(S)}
  <1>1. IsFiniteSet(q) /\ q \subseteq S
    BY FS_Subset
  <1>2. SumTable(f, S, Table(S)) /\ SumTable(f, q, Table(q))
    BY <1>1, TableExists
  <1>3. Table(q)[q] = Table(S)[q]
    BY <1>1, <1>2, TablesAgree
  <1>4. SumFunctionOnSet(f, S) = Table(S)[S] /\ SumFunctionOnSet(f, q) = Table(q)[q]
    BY SumFromTable
  <1>5. Table(S)[S] = IF S = {} THEN 0 ELSE f[Some(S)] + Table(S)[q]
    BY <1>2 DEF SumTable
  <1> QED  BY <1>3, <1>4, <1>5

LEMMA SumOfNone ==
  ASSUME NEW f
  PROVE  SumFunctionOnSet(f, {}) = 0
  <1>1. IsFiniteSet({})
    BY FS_EmptySet
  <1> QED  BY <1>1, SumByElement

\* A sum of numbers is a number.
LEMMA SumIsNat ==
  ASSUME NEW f, NEW S, IsFiniteSet(S), \A x \in S : f[x] \in Nat
  PROVE  SumFunctionOnSet(f, S) \in Nat
  <1> DEFINE T == {s \in SUBSET S : SumFunctionOnSet(f, s) \in Nat}
  <1>0. \A s \in SUBSET S : IsFiniteSet(s)
    BY FS_Subset
  <1>1. {} \in T
    BY SumOfNone
  <1>2. ASSUME NEW s \in SUBSET S, s # {}, s \ {Some(s)} \in T
        PROVE  s \in T
    <2>1. Some(s) \in S
      BY <1>2 DEF Some
    <2>2. SumFunctionOnSet(f, s) = f[Some(s)] + SumFunctionOnSet(f, s \ {Some(s)})
      BY <1>0, <1>2, SumByElement
    <2> QED  BY <1>2, <2>1, <2>2
  <1> HIDE DEF T
  <1>3. S \in T
    BY <1>1, <1>2, SubsetsByElements
  <1> QED  BY <1>3 DEF T

\* A sum of nothings is nothing.
LEMMA SumOfZeros ==
  ASSUME NEW f, NEW S, IsFiniteSet(S), \A x \in S : f[x] = 0
  PROVE  SumFunctionOnSet(f, S) = 0
  <1> DEFINE T == {s \in SUBSET S : SumFunctionOnSet(f, s) = 0}
  <1>0. \A s \in SUBSET S : IsFiniteSet(s)
    BY FS_Subset
  <1>1. {} \in T
    BY SumOfNone
  <1>2. ASSUME NEW s \in SUBSET S, s # {}, s \ {Some(s)} \in T
        PROVE  s \in T
    <2>1. Some(s) \in S
      BY <1>2 DEF Some
    <2>2. SumFunctionOnSet(f, s) = f[Some(s)] + SumFunctionOnSet(f, s \ {Some(s)})
      BY <1>0, <1>2, SumByElement
    <2> QED  BY <1>2, <2>1, <2>2
  <1> HIDE DEF T
  <1>3. S \in T
    BY <1>1, <1>2, SubsetsByElements
  <1> QED  BY <1>3 DEF T

\* Where two functions differ at a alone, so do their sums.
LEMMA SumChanges ==
  ASSUME NEW f, NEW h, NEW S, IsFiniteSet(S), NEW a,
         \A x \in S : f[x] \in Nat /\ h[x] \in Nat,
         \A x \in S : x # a => h[x] = f[x]
  PROVE  SumFunctionOnSet(h, S) =
           SumFunctionOnSet(f, S) + (IF a \in S THEN h[a] - f[a] ELSE 0)
  <1> DEFINE T == {s \in SUBSET S : SumFunctionOnSet(h, s) =
                     SumFunctionOnSet(f, s) + (IF a \in s THEN h[a] - f[a] ELSE 0)}
  <1>0. \A s \in SUBSET S : IsFiniteSet(s)
    BY FS_Subset
  <1>1. \A s \in SUBSET S : SumFunctionOnSet(f, s) \in Nat /\ SumFunctionOnSet(h, s) \in Nat
    BY <1>0, SumIsNat
  <1>2. {} \in T
    BY SumOfNone
  <1>3. ASSUME NEW s \in SUBSET S, s # {}, s \ {Some(s)} \in T
        PROVE  s \in T
    <2> DEFINE x == Some(s)
               q == s \ {x}
    <2>1. x \in s /\ x \in S
      BY <1>3 DEF Some
    <2>2. /\ SumFunctionOnSet(f, s) = f[x] + SumFunctionOnSet(f, q)
          /\ SumFunctionOnSet(h, s) = h[x] + SumFunctionOnSet(h, q)
      BY <1>0, <1>3, SumByElement
    <2>3. SumFunctionOnSet(h, q) = SumFunctionOnSet(f, q) + (IF a \in q THEN h[a] - f[a] ELSE 0)
      BY <1>3
    <2>4. /\ f[x] \in Nat /\ h[x] \in Nat /\ (a \in S => f[a] \in Nat /\ h[a] \in Nat)
          /\ SumFunctionOnSet(f, q) \in Nat /\ SumFunctionOnSet(h, q) \in Nat
      BY <1>1, <2>1
    <2> HIDE DEF x
    <2>5. CASE x = a
      BY <2>1, <2>2, <2>3, <2>4, <2>5
    <2>6. CASE x # a
      <3>1. h[x] = f[x] /\ (a \in q <=> a \in s)
        BY <2>1, <2>6
      <3> QED  BY <2>1, <2>2, <2>3, <2>4, <3>1
    <2> QED  BY <2>5, <2>6
  <1> HIDE DEF T
  <1>4. S \in T
    BY <1>2, <1>3, SubsetsByElements
  <1> QED  BY <1>4 DEF T

\* Where every element of Q counts for m at least, the sum is as large.
LEMMA SumAtLeast ==
  ASSUME NEW f, NEW S, IsFiniteSet(S), NEW Q \in SUBSET S, NEW m \in Nat,
         \A x \in S : f[x] \in Nat,
         \A x \in Q : f[x] >= m
  PROVE  Cardinality(Q) * m <= SumFunctionOnSet(f, S)
  <1> DEFINE T == {s \in SUBSET S : Cardinality(Q \cap s) * m <= SumFunctionOnSet(f, s)}
  <1>0. \A s \in SUBSET S : IsFiniteSet(s) /\ IsFiniteSet(Q \cap s)
    BY FS_Subset
  <1>1. \A s \in SUBSET S : SumFunctionOnSet(f, s) \in Nat /\ Cardinality(Q \cap s) \in Nat
    BY <1>0, SumIsNat, FS_CardinalityType
  <1>2. {} \in T
    <2>1. Q \cap {} = {}
      OBVIOUS
    <2>2. Cardinality({}) = 0 /\ SumFunctionOnSet(f, {}) = 0
      BY SumOfNone, FS_EmptySet
    <2> QED  BY <2>1, <2>2
  <1>3. ASSUME NEW s \in SUBSET S, s # {}, s \ {Some(s)} \in T
        PROVE  s \in T
    <2> DEFINE x == Some(s)
               q == s \ {x}
               c == Cardinality(Q \cap q)
    <2>1. x \in s /\ x \in S /\ q \in SUBSET S
      BY <1>3 DEF Some
    <2>2. SumFunctionOnSet(f, s) = f[x] + SumFunctionOnSet(f, q)
      BY <1>0, <1>3, SumByElement
    <2>3. c * m <= SumFunctionOnSet(f, q)
      BY <1>3
    <2>4. f[x] \in Nat /\ SumFunctionOnSet(f, q) \in Nat /\ c \in Nat
      BY <1>1, <2>1
    <2> HIDE DEF x
    <2>5. CASE x \in Q
      <3>1. Q \cap s = (Q \cap q) \cup {x} /\ x \notin Q \cap q
        BY <2>1, <2>5
      <3>2. Cardinality(Q \cap s) = c + 1
        BY <1>0, <2>1, <3>1, FS_AddElement
      <3>3. (c + 1) * m = c * m + m /\ c * m \in Nat
        BY <2>4
      <3>4. f[x] >= m
        BY <2>5
      <3> HIDE DEF c, q
      <3>5. (c + 1) * m <= SumFunctionOnSet(f, s)
        BY <2>2, <2>3, <2>4, <3>3, <3>4
      <3> QED  BY <3>2, <3>5
    <2>6. CASE x \notin Q
      <3>1. Q \cap s = Q \cap q
        BY <2>1, <2>6
      <3>2. c * m \in Nat
        BY <2>4
      <3>3. Cardinality(Q \cap s) = c
        BY <3>1
      <3> HIDE DEF c, q
      <3> QED  BY <2>2, <2>3, <2>4, <3>2, <3>3
    <2> QED  BY <2>5, <2>6
  <1> HIDE DEF T
  <1>4. S \in T
    BY <1>2, <1>3, SubsetsByElements
  <1>5. Q \cap S = Q
    OBVIOUS
  <1> QED  BY <1>4, <1>5 DEF T

-----------------------------------------------------------------------------
(***************************************************************************)
(* The ledgers: sessions, histories and the daily rows.                    *)
(***************************************************************************)

\* A session that has not started has nothing to its credit.
Blank ==
  \A s \in Sessions : ~Started(s) =>
    /\ session[s].credited = 0 /\ ~session[s].qualified
    /\ ~session[s].completed /\ session[s].cohort = None

\* A session has a cohort once it qualified, which it did with its own credit.
Qualified ==
  \A s \in Sessions :
    /\ session[s].qualified <=> session[s].cohort # None
    /\ session[s].qualified => Duration > 0 /\ session[s].credited >= Lesser(QualifyMin, Duration)

\* The views are the qualified sessions, the legacy views the histories, the
\* completions the completed sessions.
Counted ==
  /\ viewCount = Cardinality({v \in Viewers : Watched(v)})
  /\ SumFunction([d \in Days |-> daily[d].completions])
       = Cardinality({s \in Sessions : session[s].completed})
  /\ \A d \in Days :
       daily[d].views =
         Cardinality({s \in Sessions : session[s].qualified /\ session[s].cohort = d})

LedgerInv == CreditInv /\ Blank /\ Qualified /\ Counted /\ WatchTimeAgrees

\* 80% of the video is a view: for a view of 3 s, one of 3.75 s or longer.
LongEnough == Duration > 0 => 100 * Lesser(QualifyMin, Duration) <= 80 * Duration

\* Of such a video, a completed session is a view, completed on the view's day.
CompletedInv ==
  /\ \A s \in Sessions : session[s].completed => session[s].qualified
  /\ \A d \in Days :
       daily[d].completions =
         Cardinality({s \in Sessions : session[s].completed /\ session[s].cohort = d})

\* What a heartbeat writes, row by row.
LEMMA HeartbeatRows ==
  ASSUME CreditInv, NEW h \in Handlers, HeartbeatApplies(h), NEW r, r = handler[h]
  PROVE  /\ r \in Heartbeat /\ r.session \in Sessions /\ Viewer(r) \in Viewers
         /\ r.session \in TabsOf(Viewer(r)) /\ Started(r.session)
         /\ Day(r.now) \in Days /\ Accepted(r) \in Nat
         /\ \A s \in Sessions : s # r.session => session'[s] = session[s]
         /\ session'[r.session].credited = session[r.session].credited + Accepted(r)
         /\ session'[r.session].qualified = (session[r.session].qualified \/ Qualifies(r))
         /\ session'[r.session].completed = (session[r.session].completed \/ Completes(r))
         /\ session'[r.session].cohort = Cohort(r)
         /\ session'[r.session].created = session[r.session].created
         /\ \A v \in Viewers : v # Viewer(r) => history'[v] = history[v]
         /\ history'[Viewer(r)].effective = history[Viewer(r)].effective + Accepted(r)
         /\ history'[Viewer(r)].first # None
         /\ CountView(Viewer(r))
         /\ \A d \in Days :
              /\ daily'[d].views = daily[d].views + One(NewView(r) /\ d = Day(r.now))
              /\ daily'[d].watch = daily[d].watch + (IF d = Day(r.now) THEN Accepted(r) ELSE 0)
              /\ daily'[d].completions
                   = daily[d].completions + One(NewCompletion(r) /\ d = CompletionDay(r))
  <1> DEFINE s0 == r.session
             v0 == Viewer(r)
             old == session[s0]
             row == [created |-> old.created, received |-> r.now, seq |-> r.seq,
                     credited |-> Credited(r),
                     qualified |-> old.qualified \/ Qualifies(r),
                     completed |-> old.completed \/ Completes(r),
                     cohort |-> Cohort(r)]
             past == [first |-> IF Watched(v0) THEN history[v0].first ELSE r.now,
                      creditAt |-> CreditAt(r),
                      effective |-> history[v0].effective + Accepted(r)]
  <1>1. r # None /\ r \in Heartbeat
    BY DEF HeartbeatApplies, CreditInv, WatchTypeOK
  <1>2. r.session \in Sessions /\ r.now \in Time /\ ViewerOf \in [Sessions -> Viewers]
    BY <1>1, WatchAssumption DEF Heartbeat
  <1>3. Viewer(r) \in Viewers /\ r.session \in TabsOf(Viewer(r)) /\ Day(r.now) \in Days
    BY <1>2, DayInDays DEF Viewer, TabsOf
  <1>4. Started(r.session) /\ Accepted(r) \in Nat
    BY <1>1, AcceptedBounds DEF CreditInv, RequestTimes
  <1>5. /\ session \in [Sessions -> Session] /\ history \in [Viewers -> History]
        /\ daily \in [Days -> Metrics]
    BY DEF CreditInv, WatchTypeOK
  <1>6. session' = [session EXCEPT ![s0] = row]
    BY DEF HeartbeatApplies
  <1>7. history' = [history EXCEPT ![v0] = past]
    BY DEF HeartbeatApplies
  <1>8. daily' = Booked(r) /\ CountView(v0)
    BY DEF HeartbeatApplies
  <1>9. session'[s0] = row /\ \A s \in Sessions : s # s0 => session'[s] = session[s]
    BY <1>2, <1>5, <1>6
  <1>10. history'[v0] = past /\ \A v \in Viewers : v # v0 => history'[v] = history[v]
    BY <1>3, <1>5, <1>7
  <1>11. past.first # None
    BY <1>2, WatchAssumption DEF Watched, Time
  <1> HIDE DEF s0, v0
  <1>12. /\ session'[s0].credited = old.credited + Accepted(r)
         /\ session'[s0].qualified = (old.qualified \/ Qualifies(r))
         /\ session'[s0].completed = (old.completed \/ Completes(r))
         /\ session'[s0].cohort = Cohort(r) /\ session'[s0].created = old.created
    BY <1>9 DEF Credited, s0
  <1>13. history'[v0].effective = history[v0].effective + Accepted(r) /\ history'[v0].first # None
    BY <1>10, <1>11
  <1>14. \A d \in Days :
           /\ daily'[d].views = daily[d].views + One(NewView(r) /\ d = Day(r.now))
           /\ daily'[d].watch = daily[d].watch + (IF d = Day(r.now) THEN Accepted(r) ELSE 0)
           /\ daily'[d].completions
                = daily[d].completions + One(NewCompletion(r) /\ d = CompletionDay(r))
    BY <1>8 DEF Booked
  <1> QED
    BY <1>1, <1>2, <1>3, <1>4, <1>8, <1>9, <1>10, <1>12, <1>13, <1>14 DEF s0, v0

\* No other step writes them; RecordWatch may begin a history.
LEMMA QuietRows ==
  ASSUME CreditInv, Blank, [Next]_vars, \A h \in Handlers : ~HeartbeatApplies(h)
  PROVE  /\ \A s \in Sessions : /\ session'[s].credited = session[s].credited
                                /\ session'[s].qualified = session[s].qualified
                                /\ session'[s].completed = session[s].completed
                                /\ session'[s].cohort = session[s].cohort
                                /\ Started(s) => Started(s)'
         /\ \A v \in Viewers : history'[v].effective = history[v].effective
         /\ daily' = daily
         /\ \/ viewCount' = viewCount /\ \A v \in Viewers : history'[v].first = history[v].first
            \/ \E v \in Viewers :
                 /\ CountView(v) /\ history'[v].first # None
                 /\ \A w \in Viewers : w # v => history'[w] = history[w]
  <1>1. /\ session \in [Sessions -> Session] /\ history \in [Viewers -> History] /\ clock \in Nat
    BY DEF CreditInv, WatchTypeOK, Time
  <1>2. ASSUME NEW s \in Sessions, StartSession(s)
        PROVE  /\ \A x \in Sessions : /\ session'[x].credited = session[x].credited
                                      /\ session'[x].qualified = session[x].qualified
                                      /\ session'[x].completed = session[x].completed
                                      /\ session'[x].cohort = session[x].cohort
                                      /\ Started(x) => Started(x)'
               /\ UNCHANGED <<history, daily, viewCount>>
    <2>1. session' = [session EXCEPT ![s] = NewSession(clock)] /\ ~Started(s)
      BY <1>2 DEF StartSession
    <2>2. session'[s] = NewSession(clock) /\ \A x \in Sessions : x # s => session'[x] = session[x]
      BY <1>1, <2>1
    <2>3. /\ session'[s].credited = 0 /\ session'[s].qualified = FALSE
          /\ session'[s].completed = FALSE /\ session'[s].cohort = None
      BY <2>2 DEF NewSession
    <2>4. session[s].qualified \in BOOLEAN /\ session[s].completed \in BOOLEAN
      BY <1>1 DEF Session
    <2>5. /\ session[s].credited = 0 /\ session[s].qualified = FALSE
          /\ session[s].completed = FALSE /\ session[s].cohort = None
      BY <2>1, <2>4 DEF Blank
    <2> QED  BY <1>2, <2>1, <2>2, <2>3, <2>5 DEF StartSession, Started
  <1>3. ASSUME NEW v \in Viewers, RecordWatch(v)
        PROVE  /\ UNCHANGED <<session, daily>> /\ CountView(v)
               /\ history'[v].first # None
               /\ \A w \in Viewers : /\ history'[w].effective = history[w].effective
                                     /\ w # v => history'[w] = history[w]
    <2>1. clock + Skew \in Nat /\ None \notin Nat
      BY <1>1, WatchAssumption
    <2>2. history[v] \in History
      BY <1>1
    <2>3. history' = [history EXCEPT ![v].first = IF Watched(v) THEN @ ELSE clock + Skew]
      BY <1>3 DEF RecordWatch
    <2>4. history'[v] = [history[v] EXCEPT !.first = IF Watched(v) THEN @ ELSE clock + Skew]
      BY <1>1, <2>3
    <2>5. /\ history'[v].first = IF Watched(v) THEN history[v].first ELSE clock + Skew
          /\ history'[v].effective = history[v].effective
      BY <2>2, <2>4 DEF History
    <2>6. \A w \in Viewers : w # v => history'[w] = history[w]
      BY <1>1, <2>3
    <2> QED  BY <1>3, <2>1, <2>5, <2>6 DEF RecordWatch, Watched
  <1>4. CASE UNCHANGED <<session, history, daily, viewCount>>
    BY <1>4 DEF Started
  <1>5. ASSUME \/ Tick \/ SetListed \/ UNCHANGED vars
               \/ \E s \in Sessions, h \in Handlers, seq \in 1..MaxSeq, delta \in Deltas,
                    ended \in BOOLEAN : Receive(h, s, seq, delta, ended)
               \/ \E h \in Handlers : HeartbeatRefused(h)
               \/ \E v \in Viewers : EnsureEngageable(v)
        PROVE  UNCHANGED <<session, history, daily, viewCount>>
    BY <1>5 DEF Tick, SetListed, vars, Receive, HeartbeatRefused, EnsureEngageable
  <1>6. CASE \E s \in Sessions : StartSession(s)
    BY <1>2, <1>6
  <1>7. CASE \E v \in Viewers : RecordWatch(v)
    BY <1>3, <1>7 DEF Started
  <1> QED  BY <1>4, <1>5, <1>6, <1>7 DEF Next

\* A set that gains one element at most has one more.
LEMMA OneMore ==
  ASSUME NEW S, IsFiniteSet(S), NEW A \in SUBSET S, NEW B \in SUBSET S, NEW a \in S, NEW b \in BOOLEAN,
         \A x \in S : x \in B <=> x \in A \/ (b /\ x = a),
         b => a \notin A
  PROVE  Cardinality(B) = Cardinality(A) + One(b)
  <1>1. IsFiniteSet(A) /\ Cardinality(A) \in Nat
    BY FS_Subset, FS_CardinalityType
  <1>2. CASE b
    <2>1. B = A \cup {a} /\ a \notin A
      BY <1>2
    <2> QED  BY <1>1, <1>2, <2>1, FS_AddElement DEF One
  <1>3. CASE ~b
    <2>1. B = A
      BY <1>3
    <2> QED  BY <1>1, <1>3, <2>1 DEF One
  <1> QED  BY <1>2, <1>3

\* The numbers in the rows.
LEMMA LedgerTypes ==
  ASSUME WatchTypeOK
  PROVE  /\ \A s \in Sessions : /\ session[s].credited \in Nat
                                /\ session[s].qualified \in BOOLEAN /\ session[s].completed \in BOOLEAN
                                /\ session[s].cohort \in Days \cup {None}
         /\ \A v \in Viewers : history[v].effective \in Nat
         /\ \A d \in Days : /\ daily[d].views \in Nat /\ daily[d].watch \in Nat
                            /\ daily[d].completions \in Nat
         /\ IsFiniteSet(Sessions) /\ IsFiniteSet(Viewers) /\ IsFiniteSet(Days)
         /\ \A v \in Viewers : IsFiniteSet(TabsOf(v))
         /\ None \notin Days
         /\ Duration \in Nat /\ QualifyMin \in Nat
  <1>1. \A s \in Sessions : session[s] \in Session
    BY DEF WatchTypeOK
  <1>2. \A v \in Viewers : history[v] \in History
    BY DEF WatchTypeOK
  <1>3. \A d \in Days : daily[d] \in Metrics
    BY DEF WatchTypeOK
  <1>4. MaxClock \in Nat /\ DayLength \in Nat /\ DayLength > 0
    BY WatchAssumption
  <1>5. Day(MaxClock) \in Int
    BY <1>4 DEF Day
  <1>6. IsFiniteSet(Days)
    BY <1>5, FS_Interval DEF Days
  <1>7. IsFiniteSet(Sessions) /\ IsFiniteSet(Viewers)
    BY WatchAssumption
  <1>8. \A v \in Viewers : TabsOf(v) \subseteq Sessions
    BY DEF TabsOf
  <1>9. \A v \in Viewers : IsFiniteSet(TabsOf(v))
    BY <1>7, <1>8, FS_Subset
  <1>10. None \notin Days
    BY WatchAssumption DEF Days
  <1>11. Duration \in Nat /\ QualifyMin \in Nat
    BY WatchAssumption
  <1> QED
    BY <1>1, <1>2, <1>3, <1>6, <1>7, <1>9, <1>10, <1>11 DEF Session, History, Metrics

LEMMA LedgerInit == Init => LedgerInv
  <1> SUFFICES ASSUME Init
               PROVE  LedgerInv
    OBVIOUS
  <1>0. CreditInv /\ WatchTypeOK
    BY InitCredit DEF CreditInv
  <1>1. /\ \A s \in Sessions : /\ session[s].credited = 0 /\ ~session[s].qualified
                               /\ ~session[s].completed /\ session[s].cohort = None
        /\ \A v \in Viewers : history[v].first = None /\ history[v].effective = 0
        /\ \A d \in Days : daily[d].views = 0 /\ daily[d].watch = 0 /\ daily[d].completions = 0
        /\ viewCount = 0
    BY DEF Init, NewSession, NoHistory
  <1>2. Blank /\ Qualified
    BY <1>1 DEF Blank, Qualified
  <1>3. /\ IsFiniteSet(Sessions) /\ IsFiniteSet(Viewers) /\ IsFiniteSet(Days)
        /\ \A v \in Viewers : IsFiniteSet(TabsOf(v)) /\ TabsOf(v) \subseteq Sessions
    BY <1>0, LedgerTypes DEF TabsOf
  <1>4. Counted
    <2>1. /\ {v \in Viewers : Watched(v)} = {} /\ {s \in Sessions : session[s].completed} = {}
          /\ \A d \in Days : {s \in Sessions : session[s].qualified /\ session[s].cohort = d} = {}
      BY <1>1 DEF Watched
    <2>2. SumFunction([d \in Days |-> daily[d].completions]) = 0
      BY <1>1, <1>3, SumOfZeros DEF SumFunction
    <2> QED  BY <1>1, <2>1, <2>2, FS_EmptySet DEF Counted
  <1>5. WatchTimeAgrees
    <2>1. \A v \in Viewers : SumFunctionOnSet([s \in Sessions |-> session[s].credited], TabsOf(v)) = 0
      BY <1>1, <1>3, SumOfZeros
    <2>2. SumFunction([d \in Days |-> daily[d].watch]) = 0
      BY <1>1, <1>3, SumOfZeros DEF SumFunction
    <2>3. SumFunction([v \in Viewers |-> history[v].effective]) = 0
      BY <1>1, <1>3, SumOfZeros DEF SumFunction
    <2> QED  BY <1>1, <2>1, <2>2, <2>3 DEF WatchTimeAgrees
  <1> QED  BY <1>0, <1>2, <1>4, <1>5 DEF LedgerInv

\* A heartbeat credits session, viewer and day the same time.
LEMMA HeartbeatAgrees ==
  ASSUME CreditInv, WatchTypeOK', WatchTimeAgrees, NEW h \in Handlers, HeartbeatApplies(h)
  PROVE  WatchTimeAgrees'
  <1> DEFINE credited == [s \in Sessions |-> session[s].credited]
             effective == [v \in Viewers |-> history[v].effective]
             booked == [d \in Days |-> daily[d].watch]
             newCredited == [s \in Sessions |-> session'[s].credited]
             newEffective == [v \in Viewers |-> history'[v].effective]
             newBooked == [d \in Days |-> daily'[d].watch]
  <1>0. PICK r : r = handler[h]
    OBVIOUS
  <1>1. PICK s0, v0, d0, n : s0 = r.session /\ v0 = Viewer(r) /\ d0 = Day(r.now) /\ n = Accepted(r)
    OBVIOUS
  <1>2. /\ s0 \in Sessions /\ v0 \in Viewers /\ s0 \in TabsOf(v0) /\ d0 \in Days /\ n \in Nat
        /\ \A s \in Sessions : s # s0 => session'[s] = session[s]
        /\ session'[s0].credited = session[s0].credited + n
        /\ \A v \in Viewers : v # v0 => history'[v] = history[v]
        /\ history'[v0].effective = history[v0].effective + n
        /\ \A d \in Days : daily'[d].watch = daily[d].watch + (IF d = d0 THEN n ELSE 0)
    BY <1>0, <1>1, HeartbeatRows
  <1>3. /\ \A s \in Sessions : credited[s] \in Nat /\ newCredited[s] \in Nat
        /\ \A v \in Viewers : effective[v] \in Nat /\ newEffective[v] \in Nat
        /\ \A d \in Days : booked[d] \in Nat /\ newBooked[d] \in Nat
        /\ IsFiniteSet(Viewers) /\ IsFiniteSet(Days) /\ \A v \in Viewers : IsFiniteSet(TabsOf(v))
    <2>1. /\ \A s \in Sessions : session[s].credited \in Nat
          /\ \A v \in Viewers : history[v].effective \in Nat
          /\ \A d \in Days : daily[d].watch \in Nat
          /\ IsFiniteSet(Viewers) /\ IsFiniteSet(Days) /\ \A v \in Viewers : IsFiniteSet(TabsOf(v))
      BY LedgerTypes DEF CreditInv
    <2>2. \A s \in Sessions : session'[s] \in Session
      BY DEF WatchTypeOK
    <2>3. \A v \in Viewers : history'[v] \in History
      BY DEF WatchTypeOK
    <2>4. \A d \in Days : daily'[d] \in Metrics
      BY DEF WatchTypeOK
    <2> QED  BY <2>1, <2>2, <2>3, <2>4 DEF Session, History, Metrics
  <1>4. /\ \A v \in Viewers : SumFunctionOnSet(credited, TabsOf(v)) = history[v].effective
        /\ SumFunctionOnSet(booked, Days) = SumFunctionOnSet(effective, Viewers)
    BY DEF WatchTimeAgrees, SumFunction
  <1>5. /\ newCredited[s0] = credited[s0] + n
        /\ \A s \in Sessions : s # s0 => newCredited[s] = credited[s]
        /\ newEffective[v0] = effective[v0] + n
        /\ \A v \in Viewers : v # v0 => newEffective[v] = effective[v]
        /\ newBooked[d0] = booked[d0] + n /\ \A d \in Days : d # d0 => newBooked[d] = booked[d]
    <2>1. \A d \in Days : daily[d].watch \in Nat
      BY LedgerTypes DEF CreditInv
    <2> QED  BY <1>2, <2>1
  <1> HIDE DEF credited, effective, booked, newCredited, newEffective, newBooked
  <1>6. ASSUME NEW v \in Viewers
        PROVE  SumFunctionOnSet(newCredited, TabsOf(v)) = newEffective[v]
    <2>1. /\ IsFiniteSet(TabsOf(v)) /\ TabsOf(v) \subseteq Sessions
          /\ (s0 \in TabsOf(v) <=> v = v0)
      BY <1>2, <1>3 DEF TabsOf
    <2>2. SumFunctionOnSet(newCredited, TabsOf(v)) =
            SumFunctionOnSet(credited, TabsOf(v))
              + (IF s0 \in TabsOf(v) THEN newCredited[s0] - credited[s0] ELSE 0)
      BY <1>3, <1>5, <2>1, SumChanges
    <2>3. SumFunctionOnSet(credited, TabsOf(v)) = effective[v]
      BY <1>4 DEF effective
    <2> QED  BY <1>2, <1>3, <1>5, <2>1, <2>2, <2>3
  <1>7. SumFunctionOnSet(newEffective, Viewers) = SumFunctionOnSet(effective, Viewers) + n
    <2>1. SumFunctionOnSet(newEffective, Viewers) =
            SumFunctionOnSet(effective, Viewers)
              + (IF v0 \in Viewers THEN newEffective[v0] - effective[v0] ELSE 0)
      BY <1>3, <1>5, SumChanges
    <2> QED  BY <1>2, <1>3, <1>5, <2>1
  <1>8. SumFunctionOnSet(newBooked, Days) = SumFunctionOnSet(booked, Days) + n
    <2>1. SumFunctionOnSet(newBooked, Days) =
            SumFunctionOnSet(booked, Days) + (IF d0 \in Days THEN newBooked[d0] - booked[d0] ELSE 0)
      BY <1>3, <1>5, SumChanges
    <2> QED  BY <1>2, <1>3, <1>5, <2>1
  <1> QED
    BY <1>4, <1>6, <1>7, <1>8
    DEF WatchTimeAgrees, SumFunction, newCredited, newEffective, newBooked, TabsOf

\* The other steps write none of the three.
LEMMA QuietAgrees ==
  ASSUME CreditInv, Blank, [Next]_vars, WatchTimeAgrees, \A h \in Handlers : ~HeartbeatApplies(h)
  PROVE  WatchTimeAgrees'
  <1>1. /\ [s \in Sessions |-> session'[s].credited] = [s \in Sessions |-> session[s].credited]
        /\ [v \in Viewers |-> history'[v].effective] = [v \in Viewers |-> history[v].effective]
        /\ daily' = daily
    BY QuietRows
  <1> QED  BY <1>1 DEF WatchTimeAgrees, TabsOf

\* A heartbeat keeps the marks of its session.
LEMMA HeartbeatMarks ==
  ASSUME CreditInv, Blank, Qualified, NEW h \in Handlers, HeartbeatApplies(h)
  PROVE  Blank' /\ Qualified'
  <1>0. PICK r : r = handler[h]
    OBVIOUS
  <1>1. PICK s0 : s0 = r.session
    OBVIOUS
  <1>2. /\ s0 \in Sessions /\ Started(s0) /\ Day(r.now) \in Days /\ Accepted(r) \in Nat
        /\ \A s \in Sessions : s # s0 => session'[s] = session[s]
        /\ session'[s0].credited = session[s0].credited + Accepted(r)
        /\ session'[s0].qualified = (session[s0].qualified \/ Qualifies(r))
        /\ session'[s0].cohort = Cohort(r)
        /\ session'[s0].created = session[s0].created
    BY <1>0, <1>1, HeartbeatRows
  <1>3. /\ session[s0].credited \in Nat /\ None \notin Days /\ Duration \in Nat /\ QualifyMin \in Nat
    BY <1>2, LedgerTypes DEF CreditInv
  <1>4. Blank'
    BY <1>2 DEF Blank, Started
  <1>5. Lesser(QualifyMin, Duration) \in Nat
    BY <1>3 DEF Lesser
  <1>6. /\ session'[s0].qualified <=> session'[s0].cohort # None
        /\ session'[s0].qualified =>
             Duration > 0 /\ session'[s0].credited >= Lesser(QualifyMin, Duration)
    <2>1. /\ session[s0].qualified <=> session[s0].cohort # None
          /\ session[s0].qualified =>
               Duration > 0 /\ session[s0].credited >= Lesser(QualifyMin, Duration)
      BY <1>2 DEF Qualified
    <2>2. Qualifies(r) =>
            Duration > 0 /\ session'[s0].credited >= Lesser(QualifyMin, Duration)
      BY <1>1, <1>2 DEF Qualifies, Credited
    <2>3. Cohort(r) = IF Qualifies(r) /\ ~session[s0].qualified THEN Day(r.now) ELSE session[s0].cohort
      BY <1>1 DEF Cohort, NewView
    <2>4. session'[s0].qualified <=> session'[s0].cohort # None
      BY <1>2, <1>3, <2>1, <2>3
    <2>5. session[s0].credited >= Lesser(QualifyMin, Duration) =>
            session'[s0].credited >= Lesser(QualifyMin, Duration)
      BY <1>2, <1>3, <1>5
    <2> QED  BY <1>2, <2>1, <2>2, <2>4, <2>5
  <1>7. Qualified'
    BY <1>2, <1>6 DEF Qualified
  <1> QED  BY <1>4, <1>7

\* The other steps too.
LEMMA QuietMarks ==
  ASSUME CreditInv, Blank, Qualified, [Next]_vars, \A h \in Handlers : ~HeartbeatApplies(h)
  PROVE  Blank' /\ Qualified'
  <1>1. \A s \in Sessions : /\ session'[s].credited = session[s].credited
                            /\ session'[s].qualified = session[s].qualified
                            /\ session'[s].completed = session[s].completed
                            /\ session'[s].cohort = session[s].cohort
                            /\ Started(s) => Started(s)'
    BY QuietRows
  <1> QED  BY <1>1 DEF Blank, Qualified

\* The histories' count, whichever request begins one.
LEMMA HistoriesCounted ==
  ASSUME CreditInv, NEW v \in Viewers, CountView(v), history'[v].first # None,
         \A w \in Viewers : w # v => history'[w] = history[w],
         viewCount = Cardinality({w \in Viewers : Watched(w)})
  PROVE  viewCount' = Cardinality({w \in Viewers : Watched(w)})'
  <1> DEFINE A == {w \in Viewers : history[w].first # None}
             B == {w \in Viewers : history'[w].first # None}
             b == history[v].first = None
  <1>1. IsFiniteSet(Viewers)
    BY LedgerTypes DEF CreditInv
  <1>2. \A w \in Viewers : w \in B <=> w \in A \/ (b /\ w = v)
    OBVIOUS
  <1>3. A \in SUBSET Viewers /\ B \in SUBSET Viewers /\ b \in BOOLEAN /\ (b => v \notin A)
    OBVIOUS
  <1> HIDE DEF A, B, b
  <1>4. Cardinality(B) = Cardinality(A) + One(b)
    BY <1>1, <1>2, <1>3, OneMore
  <1>5. viewCount' = viewCount + One(b)
    BY DEF CountView, Watched, One, b
  <1> QED  BY <1>4, <1>5 DEF Watched, A, B

\* A heartbeat counts its session once for its view and once for its completion.
LEMMA HeartbeatCounted ==
  ASSUME CreditInv, WatchTypeOK', Qualified, Counted, NEW h \in Handlers, HeartbeatApplies(h)
  PROVE  Counted'
  <1>0. PICK r : r = handler[h]
    OBVIOUS
  <1>1. PICK s0, d0, c0 : s0 = r.session /\ d0 = Day(r.now) /\ c0 = CompletionDay(r)
    OBVIOUS
  <1>2. /\ s0 \in Sessions /\ d0 \in Days
        /\ \A s \in Sessions : s # s0 => session'[s] = session[s]
        /\ session'[s0].qualified = (session[s0].qualified \/ Qualifies(r))
        /\ session'[s0].completed = (session[s0].completed \/ Completes(r))
        /\ session'[s0].cohort = Cohort(r)
        /\ \A d \in Days :
             /\ daily'[d].views = daily[d].views + One(NewView(r) /\ d = d0)
             /\ daily'[d].completions = daily[d].completions + One(NewCompletion(r) /\ d = c0)
    BY <1>0, <1>1, HeartbeatRows
  <1>3. /\ IsFiniteSet(Sessions) /\ IsFiniteSet(Days) /\ None \notin Days
        /\ session[s0].qualified \in BOOLEAN /\ session[s0].completed \in BOOLEAN
        /\ session[s0].cohort \in Days \cup {None}
        /\ \A d \in Days : daily[d].completions \in Nat
    BY <1>2, LedgerTypes DEF CreditInv
  <1>4. /\ NewView(r) <=> Qualifies(r) /\ ~session[s0].qualified
        /\ NewCompletion(r) <=> Completes(r) /\ ~session[s0].completed
        /\ Cohort(r) = IF NewView(r) THEN d0 ELSE session[s0].cohort
        /\ c0 \in Days
    BY <1>1, <1>2, <1>3 DEF NewView, NewCompletion, Cohort, CompletionDay
  <1>5. viewCount' = Cardinality({w \in Viewers : Watched(w)})'
    <2>1. /\ Viewer(r) \in Viewers /\ CountView(Viewer(r)) /\ history'[Viewer(r)].first # None
          /\ \A w \in Viewers : w # Viewer(r) => history'[w] = history[w]
      BY <1>0, HeartbeatRows
    <2>2. PICK v : v = Viewer(r)
      OBVIOUS
    <2> QED  BY <2>1, <2>2, HistoriesCounted DEF Counted
  <1>6. SumFunction([d \in Days |-> daily[d].completions])'
          = Cardinality({s \in Sessions : session[s].completed})'
    <2> DEFINE done == [d \in Days |-> daily[d].completions]
               newDone == [d \in Days |-> daily'[d].completions]
               A == {s \in Sessions : session[s].completed}
               B == {s \in Sessions : session'[s].completed}
               b == NewCompletion(r)
    <2>1. /\ \A d \in Days : done[d] \in Nat /\ newDone[d] \in Nat
          /\ \A d \in Days : d # c0 => newDone[d] = done[d]
          /\ newDone[c0] = done[c0] + One(b)
      BY <1>2, <1>3, <1>4 DEF One
    <2>2. SumFunctionOnSet(done, Days) = Cardinality(A)
      BY DEF Counted, SumFunction
    <2>3. A \in SUBSET Sessions /\ B \in SUBSET Sessions /\ b \in BOOLEAN
      BY DEF NewCompletion
    <2>4. \A s \in Sessions : s \in B <=> s \in A \/ (b /\ s = s0)
      BY <1>2, <1>3, <1>4
    <2>5. b => s0 \notin A
      BY <1>4
    <2>6. newDone = [d \in Days |-> daily'[d].completions] /\ DOMAIN newDone = Days
      OBVIOUS
    <2> HIDE DEF done, newDone, A, B, b
    <2>7. Cardinality(B) = Cardinality(A) + One(b)
      BY <1>2, <1>3, <2>3, <2>4, <2>5, OneMore
    <2>8. SumFunctionOnSet(newDone, Days) =
            SumFunctionOnSet(done, Days) + (IF c0 \in Days THEN newDone[c0] - done[c0] ELSE 0)
      BY <1>3, <2>1, SumChanges
    <2>9. newDone[c0] - done[c0] = One(b) /\ One(b) \in Nat
      BY <1>4, <2>1, <2>3 DEF One
    <2>10. SumFunctionOnSet(newDone, Days) = Cardinality(B)
      BY <1>4, <2>2, <2>7, <2>8, <2>9
    <2> QED  BY <2>6, <2>10 DEF SumFunction, newDone, B
  <1>7. ASSUME NEW d \in Days
        PROVE  daily'[d].views =
                 Cardinality({s \in Sessions : session'[s].qualified /\ session'[s].cohort = d})
    <2> DEFINE A == {s \in Sessions : session[s].qualified /\ session[s].cohort = d}
               B == {s \in Sessions : session'[s].qualified /\ session'[s].cohort = d}
               b == NewView(r) /\ d = d0
    <2>1. daily[d].views = Cardinality(A)
      BY DEF Counted
    <2>2. A \in SUBSET Sessions /\ B \in SUBSET Sessions /\ b \in BOOLEAN
      BY <1>4
    <2>3. s0 \in B <=> s0 \in A \/ b
      <3>1. session[s0].qualified <=> session[s0].cohort # None
        BY <1>2 DEF Qualified
      <3>2. session'[s0].cohort = IF NewView(r) THEN d0 ELSE session[s0].cohort
        BY <1>2, <1>4
      <3>3. session'[s0].qualified <=> session[s0].qualified \/ NewView(r)
        BY <1>2, <1>4
      <3>4. NewView(r) => ~session[s0].qualified
        BY <1>4
      <3>5. s0 \in B <=> session'[s0].qualified /\ session'[s0].cohort = d
        BY <1>2
      <3>6. s0 \in A <=> session[s0].qualified /\ session[s0].cohort = d
        BY <1>2
      <3> HIDE DEF A, B
      <3> QED  BY <3>1, <3>2, <3>3, <3>4, <3>5, <3>6
    <2>4. \A s \in Sessions : s \in B <=> s \in A \/ (b /\ s = s0)
      BY <1>2, <2>3
    <2>5. b => s0 \notin A
      BY <1>4
    <2> HIDE DEF A, B, b
    <2>6. Cardinality(B) = Cardinality(A) + One(b)
      BY <1>2, <1>3, <2>2, <2>4, <2>5, OneMore
    <2>7. daily'[d].views = daily[d].views + One(b)
      BY <1>2 DEF b
    <2> QED  BY <2>1, <2>6, <2>7 DEF B
  <1> QED  BY <1>5, <1>6, <1>7 DEF Counted

LEMMA QuietCounted ==
  ASSUME CreditInv, Blank, Counted, [Next]_vars, \A h \in Handlers : ~HeartbeatApplies(h)
  PROVE  Counted'
  <1>1. /\ \A s \in Sessions : /\ session'[s].qualified = session[s].qualified
                               /\ session'[s].completed = session[s].completed
                               /\ session'[s].cohort = session[s].cohort
        /\ daily' = daily
        /\ \/ viewCount' = viewCount /\ \A v \in Viewers : history'[v].first = history[v].first
           \/ \E v \in Viewers :
                /\ CountView(v) /\ history'[v].first # None
                /\ \A w \in Viewers : w # v => history'[w] = history[w]
    BY QuietRows
  <1>2. viewCount' = Cardinality({w \in Viewers : Watched(w)})'
    <2>1. CASE viewCount' = viewCount /\ \A v \in Viewers : history'[v].first = history[v].first
      <3>1. {w \in Viewers : history'[w].first # None} = {w \in Viewers : history[w].first # None}
        BY <2>1
      <3> QED  BY <2>1, <3>1 DEF Counted, Watched
    <2>2. CASE \E v \in Viewers :
                 /\ CountView(v) /\ history'[v].first # None
                 /\ \A w \in Viewers : w # v => history'[w] = history[w]
      BY <2>2, HistoriesCounted DEF Counted
    <2> QED  BY <1>1, <2>1, <2>2
  <1>3. /\ {s \in Sessions : session'[s].completed} = {s \in Sessions : session[s].completed}
        /\ \A d \in Days : {s \in Sessions : session'[s].qualified /\ session'[s].cohort = d}
                             = {s \in Sessions : session[s].qualified /\ session[s].cohort = d}
    BY <1>1
  <1> QED  BY <1>1, <1>2, <1>3 DEF Counted

\* A video of which 80% is a view: whoever completes it has viewed it.
LEMMA HeartbeatCompletes ==
  ASSUME LongEnough, CreditInv, WatchTypeOK', Qualified, CompletedInv,
         NEW h \in Handlers, HeartbeatApplies(h)
  PROVE  CompletedInv'
  <1>0. PICK r : r = handler[h]
    OBVIOUS
  <1>1. PICK s0, d0, c0 : s0 = r.session /\ d0 = Day(r.now) /\ c0 = CompletionDay(r)
    OBVIOUS
  <1>2. /\ s0 \in Sessions /\ d0 \in Days /\ Accepted(r) \in Nat
        /\ \A s \in Sessions : s # s0 => session'[s] = session[s]
        /\ session'[s0].qualified = (session[s0].qualified \/ Qualifies(r))
        /\ session'[s0].completed = (session[s0].completed \/ Completes(r))
        /\ session'[s0].cohort = Cohort(r)
        /\ \A d \in Days :
             daily'[d].completions = daily[d].completions + One(NewCompletion(r) /\ d = c0)
    BY <1>0, <1>1, HeartbeatRows
  <1>3. /\ IsFiniteSet(Sessions) /\ None \notin Days
        /\ session[s0].credited \in Nat
        /\ session[s0].qualified \in BOOLEAN /\ session[s0].completed \in BOOLEAN
        /\ Duration \in Nat /\ QualifyMin \in Nat
    BY <1>2, LedgerTypes DEF CreditInv
  <1>4. Completes(r) => Qualifies(r)
    <2>1. Credited(r) \in Nat /\ Lesser(QualifyMin, Duration) \in Nat
      BY <1>1, <1>2, <1>3 DEF Credited, Lesser
    <2>2. Completes(r) => Duration > 0 /\ Credited(r) * 100 >= Duration * 80
      BY DEF Completes
    <2>3. Completes(r) => Credited(r) >= Lesser(QualifyMin, Duration)
      BY <1>3, <2>1, <2>2 DEF LongEnough
    <2> QED  BY <2>2, <2>3 DEF Qualifies
  <1>5. /\ session[s0].completed => session[s0].qualified
        /\ session[s0].qualified <=> session[s0].cohort # None
    BY <1>2 DEF CompletedInv, Qualified
  <1>6. session'[s0].completed => session'[s0].qualified
    BY <1>2, <1>4, <1>5
  <1>7. /\ NewCompletion(r) <=> Completes(r) /\ ~session[s0].completed
        /\ session[s0].qualified => Cohort(r) = session[s0].cohort
        /\ Qualifies(r) => Cohort(r) # None
    BY <1>1, <1>2, <1>3, <1>5 DEF NewCompletion, Cohort, NewView
  <1>8. NewCompletion(r) => c0 = Cohort(r)
    BY <1>1, <1>4, <1>7 DEF CompletionDay
  <1>9. ASSUME NEW d \in Days
        PROVE  daily'[d].completions =
                 Cardinality({s \in Sessions : session'[s].completed /\ session'[s].cohort = d})
    <2> DEFINE A == {s \in Sessions : session[s].completed /\ session[s].cohort = d}
               B == {s \in Sessions : session'[s].completed /\ session'[s].cohort = d}
               b == NewCompletion(r) /\ d = c0
    <2>1. daily[d].completions = Cardinality(A)
      BY DEF CompletedInv
    <2>2. A \in SUBSET Sessions /\ B \in SUBSET Sessions /\ b \in BOOLEAN
      OBVIOUS
    <2>3. s0 \in B <=> s0 \in A \/ b
      <3>1. s0 \in B <=> session'[s0].completed /\ session'[s0].cohort = d
        BY <1>2
      <3>2. s0 \in A <=> session[s0].completed /\ session[s0].cohort = d
        BY <1>2
      <3>3. session'[s0].completed <=> session[s0].completed \/ NewCompletion(r)
        BY <1>2, <1>7
      <3>4. session[s0].completed => session'[s0].cohort = session[s0].cohort
        BY <1>2, <1>5, <1>7
      <3>5. NewCompletion(r) => session'[s0].cohort = c0
        BY <1>2, <1>8
      <3> HIDE DEF A, B
      <3> QED  BY <3>1, <3>2, <3>3, <3>4, <3>5
    <2>4. \A s \in Sessions : s \in B <=> s \in A \/ (b /\ s = s0)
      BY <1>2, <2>3
    <2>5. b => s0 \notin A
      BY <1>7
    <2> HIDE DEF A, B, b
    <2>6. Cardinality(B) = Cardinality(A) + One(b)
      BY <1>2, <1>3, <2>2, <2>4, <2>5, OneMore
    <2>7. daily'[d].completions = daily[d].completions + One(b)
      BY <1>2 DEF b
    <2> QED  BY <2>1, <2>6, <2>7 DEF B
  <1>10. \A s \in Sessions : session'[s].completed => session'[s].qualified
    BY <1>2, <1>6 DEF CompletedInv
  <1> QED  BY <1>9, <1>10 DEF CompletedInv

-----------------------------------------------------------------------------
\* The ledgers' invariant is inductive.
LEMMA LedgerNext ==
  ASSUME LedgerInv, [Next]_vars
  PROVE  LedgerInv'
  <1>1. CreditInv' /\ WatchTypeOK'
    <2>1. WatchTypeOK'
      BY StepType DEF LedgerInv, CreditInv
    <2> QED  BY <2>1, StepTimes, StepCredit DEF LedgerInv, CreditInv
  <1>2. ASSUME NEW h \in Handlers, HeartbeatApplies(h)
        PROVE  LedgerInv'
    BY <1>1, <1>2, HeartbeatMarks, HeartbeatCounted, HeartbeatAgrees DEF LedgerInv
  <1>3. CASE \A h \in Handlers : ~HeartbeatApplies(h)
    BY <1>1, <1>3, QuietMarks, QuietCounted, QuietAgrees DEF LedgerInv
  <1> QED  BY <1>2, <1>3

THEOREM LedgerInvariant == Spec => []LedgerInv
  BY LedgerInit, LedgerNext, PTL DEF Spec

\* Each unit of watched time is credited to one session, to its viewer and to
\* one day (Heartbeat, analytics/repository.go), for any number of viewers,
\* tabs and heartbeats at once.
THEOREM LedgersAgree == Spec => []WatchTimeAgrees
  BY LedgerInvariant, PTL DEF LedgerInv

\* Each view of a viewer has cost QualifyMin of watched time, however many tabs
\* play the video: the time of the tabs that qualified is the viewer's.
THEOREM ViewsAreWatched == Spec => []TabsShareTime
  <1>1. LedgerInv => TabsShareTime
    <2> SUFFICES ASSUME LedgerInv, NEW v \in Viewers
                 PROVE  Cardinality({s \in TabsOf(v) : session[s].qualified})
                          * Lesser(QualifyMin, Duration) <= history[v].effective
      BY DEF TabsShareTime
    <2> DEFINE credited == [s \in Sessions |-> session[s].credited]
               Q == {s \in TabsOf(v) : session[s].qualified}
               m == Lesser(QualifyMin, Duration)
    <2>1. IsFiniteSet(TabsOf(v)) /\ TabsOf(v) \subseteq Sessions /\ m \in Nat
      BY LedgerTypes DEF LedgerInv, CreditInv, TabsOf, Lesser
    <2>2. \A s \in TabsOf(v) : credited[s] \in Nat
      BY <2>1, LedgerTypes DEF LedgerInv, CreditInv
    <2>3. \A s \in Q : credited[s] >= m
      BY <2>1 DEF LedgerInv, Qualified
    <2>4. Q \in SUBSET TabsOf(v)
      OBVIOUS
    <2>5. SumFunctionOnSet(credited, TabsOf(v)) = history[v].effective
      BY DEF LedgerInv, WatchTimeAgrees
    <2> HIDE DEF credited, Q, m
    <2>6. Cardinality(Q) * m <= SumFunctionOnSet(credited, TabsOf(v))
      BY <2>1, <2>2, <2>3, <2>4, SumAtLeast
    <2> QED  BY <2>5, <2>6 DEF Q, m
  <1> QED  BY <1>1, LedgerInvariant, PTL

\* The counters are what the rows say, and no day of a video long enough has
\* more completions than views, wherever midnight falls.
THEOREM CountersAreRows ==
  ASSUME LongEnough
  PROVE  Spec => []CountersAgree
  <1>1. Init => CompletedInv
    <2> SUFFICES ASSUME Init
                 PROVE  CompletedInv
      OBVIOUS
    <2>1. /\ \A s \in Sessions : ~session[s].completed
          /\ \A d \in Days : daily[d].completions = 0
      BY DEF Init, NewSession
    <2>2. \A d \in Days : {s \in Sessions : session[s].completed /\ session[s].cohort = d} = {}
      BY <2>1
    <2> QED  BY <2>1, <2>2, FS_EmptySet DEF CompletedInv
  <1>2. LedgerInv /\ CompletedInv /\ [Next]_vars => CompletedInv'
    <2> SUFFICES ASSUME LedgerInv, CompletedInv, [Next]_vars
                 PROVE  CompletedInv'
      OBVIOUS
    <2>1. ASSUME NEW h \in Handlers, HeartbeatApplies(h)
          PROVE  CompletedInv'
      <3>1. WatchTypeOK'
        BY StepType DEF LedgerInv, CreditInv
      <3> QED  BY <2>1, <3>1, HeartbeatCompletes DEF LedgerInv
    <2>2. CASE \A h \in Handlers : ~HeartbeatApplies(h)
      <3>1. /\ \A s \in Sessions : /\ session'[s].qualified = session[s].qualified
                                   /\ session'[s].completed = session[s].completed
                                   /\ session'[s].cohort = session[s].cohort
            /\ daily' = daily
        BY <2>2, QuietRows DEF LedgerInv
      <3>2. \A d \in Days : {s \in Sessions : session'[s].completed /\ session'[s].cohort = d}
                              = {s \in Sessions : session[s].completed /\ session[s].cohort = d}
        BY <3>1
      <3> QED  BY <3>1, <3>2 DEF CompletedInv
    <2> QED  BY <2>1, <2>2
  <1>3. LedgerInv /\ CompletedInv => CountersAgree
    <2> SUFFICES ASSUME LedgerInv, CompletedInv
                 PROVE  CountersAgree
      OBVIOUS
    <2>1. ASSUME NEW d \in Days
          PROVE  daily[d].completions <= daily[d].views
      <3> DEFINE A == {s \in Sessions : session[s].completed /\ session[s].cohort = d}
                 B == {s \in Sessions : session[s].qualified /\ session[s].cohort = d}
      <3>1. A \subseteq B /\ B \subseteq Sessions
        BY DEF CompletedInv
      <3>2. IsFiniteSet(B)
        BY <3>1, LedgerTypes, FS_Subset DEF LedgerInv, CreditInv
      <3>3. daily[d].completions = Cardinality(A) /\ daily[d].views = Cardinality(B)
        BY DEF LedgerInv, CompletedInv, Counted
      <3> HIDE DEF A, B
      <3>4. Cardinality(A) <= Cardinality(B)
        BY <3>1, <3>2, FS_Subset
      <3> QED  BY <3>3, <3>4
    <2> QED  BY <2>1 DEF LedgerInv, Counted, CountersAgree
  <1> QED  BY <1>1, <1>2, <1>3, LedgerInvariant, PTL DEF Spec
=============================================================================
