------------------------- MODULE GoldRefresh_proofs -------------------------
(***************************************************************************)
(* Gold, for any number of events, sessions, crashes and steps of the      *)
(* clock.  No event is counted twice: read_sessions lets a refresh go on   *)
(* only with sessions that do not overlap at its own time, so that every   *)
(* event it writes has one session, and a write replaces whole minutes.    *)
(* Types follow from what a refresh has read: sessions SQLite still knows. *)
(*                                                                         *)
(* ExactInv is the reason why nothing in Gold is stale but what is going   *)
(* to be rebuilt.  While the clock does not step back, the time that a     *)
(* session covers only grows, so that the row of an unchanged session and  *)
(* its record hold the same events; the minutes a refresh takes hold its   *)
(* whole batch and every session that has changed, and cut through no      *)
(* session; and between the two writes of a refresh the minutes are ahead  *)
(* of the rows by the refresh in progress, or, after a crash there, by     *)
(* sessions that still differ from what Gold has stored.                   *)
(***************************************************************************)
EXTENDS GoldRefresh, FiniteSetTheorems, WellFoundedInduction, TLAPS

Instants == Int
Records == [start : Instants, end : Instants]
Timed(events) == \A e \in events : e.time \in Instants

GoldTypes ==
    /\ clock \in Int /\ sessions \in Seq(Records)
    /\ Timed(arrived)
    /\ \A m \in minutes : m = [event |-> m.event, session |-> m.session]

\* What a refresh in progress has read.
ReadWell ==
    refresh.phase = "minutes" =>
        /\ refresh.sessions \in Seq(Records) /\ refresh.now \in Int
        /\ Timed(refresh.pinned)
        /\ Readable(refresh.sessions, refresh.now)

GoldInv == GoldTypes /\ ReadWell /\ CountedOnce

-----------------------------------------------------------------------------
\* Of sessions that can be read, one at most holds an event.
LEMMA OneHolder ==
    ASSUME NEW ss \in Seq(Records), NEW now \in Int, Readable(ss, now),
           NEW e, e.time \in Instants, NEW i \in Holding(e, ss, now), NEW j \in Holding(e, ss, now)
    PROVE  i = j
<1> SUFFICES ASSUME i # j PROVE FALSE
  OBVIOUS
<1>1. i \in DOMAIN ss /\ j \in DOMAIN ss /\ i \in Nat /\ j \in Nat
  BY DEF Holding
<1>2. /\ ss[i].start \in Int /\ ss[j].start \in Int /\ e.time \in Int
      /\ EffectiveEnd(ss[i], now) \in Int /\ EffectiveEnd(ss[j], now) \in Int
  <2>1. ss[i] \in Records /\ ss[j] \in Records
    BY <1>1
  <2> QED
    BY <2>1 DEF Records, Instants, EffectiveEnd
<1>3. /\ ss[i].start <= e.time /\ e.time < EffectiveEnd(ss[i], now)
      /\ ss[j].start <= e.time /\ e.time < EffectiveEnd(ss[j], now)
  BY DEF Holding
<1>4. \A k, l \in DOMAIN ss :
         k # l /\ ss[k].start <= ss[l].start /\ (ss[k].start = ss[l].start => k < l)
         => EffectiveEnd(ss[k], now) <= ss[l].start
  BY DEF Readable
<1>5. CASE ss[i].start < ss[j].start \/ (ss[i].start = ss[j].start /\ i < j)
  <2>1. EffectiveEnd(ss[i], now) <= ss[j].start
    BY <1>1, <1>2, <1>4, <1>5
  <2> QED
    BY <2>1, <1>2, <1>3
<1>6. CASE ss[j].start < ss[i].start \/ (ss[i].start = ss[j].start /\ j < i)
  <2>1. EffectiveEnd(ss[j], now) <= ss[i].start
    BY <1>1, <1>2, <1>4, <1>6
  <2> QED
    BY <2>1, <1>2, <1>3
<1> QED
  BY <1>1, <1>2, <1>5, <1>6

LEMMA AssignedOnce ==
    ASSUME NEW ss \in Seq(Records), NEW now \in Int, Readable(ss, now),
           NEW events, Timed(events)
    PROVE  /\ \A m \in Assigned(events, ss, now) :
                 m = [event |-> m.event, session |-> m.session] /\ m.event \in events
           /\ \A m, n \in Assigned(events, ss, now) : m.event = n.event => m = n
<1>1. \A m \in Assigned(events, ss, now) :
         /\ m = [event |-> m.event, session |-> m.session] /\ m.event \in events
         /\ m.session \in SessionsOf(m.event, ss, now)
  BY DEF Assigned
<1>2. \A e \in events : \A i, j \in SessionsOf(e, ss, now) : i = j
  BY OneHolder DEF SessionsOf, Timed
<1> QED
  BY <1>1, <1>2

LEMMA InitGold == Init => GoldInv
BY DEF Init, GoldInv, GoldTypes, Timed, ReadWell, CountedOnce, Idle

LEMMA WriteMinutesKeeps == GoldInv /\ WriteMinutes => GoldInv'
<1> SUFFICES ASSUME GoldInv, WriteMinutes PROVE GoldInv'
  OBVIOUS
<1> DEFINE events == IF refresh.whole THEN refresh.pinned ELSE {e \in silver : InRange(e)}
           new == Assigned(events, refresh.sessions, refresh.now)
           old == {m \in minutes : ~InRange(m.event)}
<1>1. /\ refresh.sessions \in Seq(Records) /\ refresh.now \in Int
      /\ Timed(refresh.pinned) /\ Readable(refresh.sessions, refresh.now)
  BY DEF GoldInv, ReadWell, WriteMinutes
<1>2. Timed(events) /\ \A e \in events : InRange(e)
  BY <1>1 DEF GoldInv, GoldTypes, silver, InRange, Timed
<1>3. /\ \A m \in new : m = [event |-> m.event, session |-> m.session] /\ m.event \in events
      /\ \A m, n \in new : m.event = n.event => m = n
  BY <1>1, <1>2, AssignedOnce
<1>4. minutes' = old \cup new /\ refresh'.phase # "minutes" /\ UNCHANGED source
  <2>1. refresh' = [refresh EXCEPT !.phase = "rows"] /\ refresh.phase = "minutes"
    BY DEF WriteMinutes
  <2> QED
    BY <2>1 DEF WriteMinutes
<1> HIDE DEF new, events
<1>5. GoldTypes'
  BY <1>3, <1>4 DEF GoldInv, GoldTypes, source
<1>6. CountedOnce'
  <2> SUFFICES ASSUME NEW m \in minutes', NEW n \in minutes', m.event = n.event
               PROVE  m = n
    BY DEF CountedOnce
  <2>1. m \in old /\ n \in old => m = n
    BY DEF GoldInv, CountedOnce
  <2>2. m \in new /\ n \in new => m = n
    BY <1>3
  <2>3. \A o \in old : ~InRange(o.event)
    OBVIOUS
  <2>4. \A o \in new : InRange(o.event)
    BY <1>2, <1>3
  <2> QED
    BY <1>4, <2>1, <2>2, <2>3, <2>4
<1> QED
  BY <1>4, <1>5, <1>6 DEF GoldInv, ReadWell

\* A step of the world around Gold.
LEMMA WorldKeeps ==
    ASSUME GoldInv, UNCHANGED <<gold, refresh>>, clock' \in Int, sessions' \in Seq(Records),
           Timed(arrived')
    PROVE  GoldInv'
BY DEF GoldInv, GoldTypes, ReadWell, CountedOnce, gold

LEMMA StepKeepsGold == GoldInv /\ [Next]_vars => GoldInv'
<1> SUFFICES ASSUME GoldInv, [Next]_vars PROVE GoldInv'
  OBVIOUS
<1>1. clock \in Int /\ sessions \in Seq(Records) /\ Timed(arrived)
  BY DEF GoldInv, GoldTypes
<1>2. CASE Tick \/ StepBack \/ UNCHANGED vars \/ PlanBatch \/ DeleteEvent
  <2>1. clock' \in Int
    BY <1>1, <1>2 DEF Tick, StepBack, vars, source, PlanBatch, DeleteEvent
  <2>2. UNCHANGED <<gold, refresh, sessions, arrived>>
    BY <1>2 DEF Tick, StepBack, vars, source, PlanBatch, DeleteEvent
  <2> QED
    BY <1>1, <2>1, <2>2, WorldKeeps
<1>3. CASE OpenSession \/ CloseSession \/ ResumeSession
  <2>1. UNCHANGED <<gold, refresh, clock, arrived>>
    BY <1>3 DEF OpenSession, CloseSession, ResumeSession
  <2>2. CASE OpenSession
    <3>1. [start |-> clock, end |-> Open] \in Records
      BY <1>1 DEF Records, Instants, Open
    <3>2. sessions' \in Seq(Records)
      BY <1>1, <2>2, <3>1 DEF OpenSession
    <3> QED
      BY <1>1, <2>1, <3>2, WorldKeeps
  <2>3. CASE CloseSession \/ ResumeSession
    <3> DEFINE n == Len(sessions)
    <3>1. n \in DOMAIN sessions /\ sessions[n] \in Records
      BY <1>1, <2>3 DEF CloseSession, ResumeSession, NoneOpen
    <3>2. PICK x \in Int : sessions' = [sessions EXCEPT ![n].end = x]
      BY <1>1, <2>3 DEF CloseSession, ResumeSession, Open
    <3>3. [sessions[n] EXCEPT !.end = x] \in Records
      BY <3>1 DEF Records, Instants
    <3>4. sessions' \in Seq(Records)
      BY <1>1, <3>1, <3>2, <3>3
    <3> QED
      BY <1>1, <2>1, <3>4, WorldKeeps
  <2> QED
    BY <1>3, <2>2, <2>3
<1>4. CASE InsertEvent
  <2>1. UNCHANGED <<gold, refresh, clock, sessions>>
    BY <1>4 DEF InsertEvent
  <2>2. PICK t \in 0..(clock - 1) :
           arrived' = arrived \cup {[id |-> Cardinality(arrived) + 1, time |-> t]}
    BY <1>4 DEF InsertEvent
  <2> QED
    BY <1>1, <2>1, <2>2, WorldKeeps DEF Timed, Instants
<1>5. CASE \E by, events, whole : Begin(by, events, whole)
  <2>1. PICK by, events, whole : Begin(by, events, whole)
    BY <1>5
  <2>2. /\ Readable(sessions, clock) /\ UNCHANGED <<source, gold>>
        /\ refresh'.sessions = sessions /\ refresh'.now = clock
        /\ refresh'.pinned \in {silver, {}}
    BY <2>1 DEF Begin
  <2>3. Timed(refresh'.pinned)
    BY <1>1, <2>2 DEF silver, Timed
  <2>4. ReadWell'
    BY <1>1, <2>2, <2>3 DEF ReadWell
  <2> QED
    BY <2>2, <2>4 DEF GoldInv, GoldTypes, CountedOnce, source, gold
<1>6. CASE WriteMinutes
  BY <1>6, WriteMinutesKeeps
<1>7. CASE WriteRows \/ CommitBatch \/ Crash
  <2>1. refresh' = Idle \/ refresh' = [Idle EXCEPT !.phase = "commit", !.by = "stream"]
    BY <1>7 DEF WriteRows, CommitBatch, Crash
  <2>2. refresh'.phase # "minutes"
    <3>1. Idle.phase = "idle" /\ [Idle EXCEPT !.phase = "commit", !.by = "stream"].phase = "commit"
      BY DEF Idle
    <3> QED
      BY <2>1, <3>1
  <2>3. UNCHANGED <<source, minutes>>
    BY <1>7 DEF WriteRows, CommitBatch, Crash, gold
  <2> QED
    BY <2>2, <2>3 DEF GoldInv, GoldTypes, ReadWell, CountedOnce, source
<1> QED
  BY <1>2, <1>3, <1>4, <1>5, <1>6, <1>7 DEF Next, BeginBatch, BeginTimer, BeginFull

(* No event is counted twice (read_sessions, refresh, run).                 *)
THEOREM NoDoubleCount == Spec => []CountedOnce
<1>1. Spec => []GoldInv
  BY InitGold, StepKeepsGold, PTL DEF Spec
<1> QED
  BY <1>1, PTL DEF GoldInv

-----------------------------------------------------------------------------
(* Types.  The sessions that a refresh has read are an initial part of      *)
(* those of SQLite, and what it pinned has arrived.                         *)

Reading ==
    /\ refresh = [phase |-> refresh.phase, by |-> refresh.by, whole |-> refresh.whole,
                  sessions |-> refresh.sessions, now |-> refresh.now, range |-> refresh.range,
                  refreshed |-> refresh.refreshed, pinned |-> refresh.pinned]
    /\ DOMAIN refresh.sessions \subseteq DOMAIN sessions
    /\ refresh.pinned \subseteq arrived

TypeInv == TypeOK /\ Reading /\ IsFiniteSet(arrived)

LEMMA BoundsAre ==
    /\ MaxTime \in Nat /\ MaxSessions \in Nat /\ MaxEvents \in Nat /\ MaxTroubles \in Nat
BY GoldAssumption

LEMMA InitTyped == Init => TypeInv
<1> SUFFICES ASSUME Init PROVE TypeInv
  OBVIOUS
<1>1. refresh = Idle /\ Reading
  BY DEF Init, Reading, Idle
<1>2. IsFiniteSet(arrived)
  BY FS_EmptySet DEF Init
<1>3. /\ sessions \in Seq(Session) /\ Len(sessions) = 0 /\ DOMAIN rows = {}
  BY DEF Init
<1>4. refresh.phase = "idle" /\ refresh.refreshed = {}
  BY <1>1 DEF Idle
<1>5. /\ clock \in 0..MaxTime /\ troubles \in 0..MaxTroubles /\ Len(sessions) <= MaxSessions
  BY <1>3, BoundsAre DEF Init
<1>6. {built, stepped} \subseteq BOOLEAN
  BY DEF Init
<1>7. /\ arrived \subseteq Event /\ deleted \subseteq arrived /\ seen \subseteq arrived
      /\ batch \subseteq arrived \ seen
      /\ minutes \subseteq [event : arrived, session : 0..Len(sessions)]
      /\ \A i \in DOMAIN rows : rows[i].events \subseteq arrived
  BY <1>3 DEF Init
<1> QED
  BY <1>1, <1>2, <1>3, <1>4, <1>5, <1>6, <1>7 DEF TypeInv, TypeOK

\* The world moves: sessions and events may be added, and Gold stands still.
LEMMA WorldTyped ==
    ASSUME TypeInv, UNCHANGED <<gold, refresh>>,
           clock' \in 0..MaxTime, stepped' \in BOOLEAN, troubles' \in 0..MaxTroubles,
           sessions' \in Seq(Session), Len(sessions) <= Len(sessions'),
           Len(sessions') <= MaxSessions,
           arrived \subseteq arrived', arrived' \subseteq Event, IsFiniteSet(arrived'),
           deleted' \subseteq arrived', seen' \subseteq arrived', batch' \subseteq arrived' \ seen'
    PROVE  TypeInv'
<1>1. DOMAIN sessions \subseteq DOMAIN sessions'
  BY DEF TypeInv, TypeOK
<1>2. minutes' \subseteq [event : arrived', session : 0..Len(sessions')]
  <2> SUFFICES ASSUME NEW m \in minutes PROVE m \in [event : arrived', session : 0..Len(sessions')]
    BY DEF gold
  <2>1. m \in [event : arrived, session : 0..Len(sessions)] /\ Len(sessions) \in Nat
    BY DEF TypeInv, TypeOK
  <2> QED
    BY <2>1
<1>3. Reading'
  BY <1>1 DEF TypeInv, Reading
<1>4. /\ DOMAIN rows' \subseteq DOMAIN sessions'
      /\ \A i \in DOMAIN rows' : rows'[i].events \subseteq arrived'
      /\ refresh'.phase \in {"idle", "minutes", "rows", "commit"}
      /\ refresh'.refreshed \subseteq DOMAIN sessions'
      /\ {built', stepped'} \subseteq BOOLEAN
  BY <1>1 DEF TypeInv, TypeOK, gold
<1> QED
  BY <1>2, <1>3, <1>4 DEF TypeInv, TypeOK

\* Gold moves, and what it is made from stands still.
LEMMA GoldTyped ==
    ASSUME TypeInv, UNCHANGED source, Reading',
           seen' \subseteq arrived, batch' \subseteq arrived \ seen',
           minutes' \subseteq [event : arrived, session : 0..Len(sessions)],
           DOMAIN rows' \subseteq DOMAIN sessions,
           \A i \in DOMAIN rows' : rows'[i].events \subseteq arrived,
           refresh'.phase \in {"idle", "minutes", "rows", "commit"},
           refresh'.refreshed \subseteq DOMAIN sessions,
           built' \in BOOLEAN, troubles' \in 0..MaxTroubles
    PROVE  TypeInv'
BY DEF TypeInv, TypeOK, source, Event, Session

LEMMA AssignedTyped ==
    ASSUME NEW ss, NEW n \in Nat, DOMAIN ss \subseteq 1..n, NEW now, NEW events
    PROVE  Assigned(events, ss, now) \subseteq [event : events, session : 0..n]
<1> SUFFICES ASSUME NEW m \in Assigned(events, ss, now)
    PROVE  m \in [event : events, session : 0..n]
  OBVIOUS
<1>1. PICK e \in events : m \in {[event |-> e, session |-> i] : i \in SessionsOf(e, ss, now)}
  BY DEF Assigned
<1>2. PICK i \in SessionsOf(e, ss, now) : m = [event |-> e, session |-> i]
  BY <1>1
<1>3. i \in 0..n
  BY DEF SessionsOf, Holding, NoSession
<1> QED
  BY <1>2, <1>3

LEMMA StepTyped == TypeInv /\ [Next]_vars => TypeInv'
<1> SUFFICES ASSUME TypeInv, [Next]_vars PROVE TypeInv'
  OBVIOUS
<1>1. /\ clock \in 0..MaxTime /\ sessions \in Seq(Session) /\ Len(sessions) \in Nat
      /\ Len(sessions) <= MaxSessions /\ DOMAIN sessions = 1..Len(sessions)
      /\ arrived \subseteq Event /\ IsFiniteSet(arrived) /\ deleted \subseteq arrived
      /\ seen \subseteq arrived /\ batch \subseteq arrived \ seen
      /\ stepped \in BOOLEAN /\ built \in BOOLEAN
      /\ troubles \in 0..MaxTroubles
  BY DEF TypeInv, TypeOK
<1>2. CASE Tick \/ StepBack
  <2>1. clock' \in 0..MaxTime /\ troubles' \in 0..MaxTroubles
    BY <1>1, <1>2, BoundsAre DEF Tick, StepBack
  <2>3. stepped' \in BOOLEAN
    BY <1>1, <1>2 DEF Tick, StepBack
  <2>2. UNCHANGED <<sessions, arrived, deleted, stream, gold, refresh>>
    BY <1>2 DEF Tick, StepBack
  <2> QED
    BY <1>1, <2>1, <2>2, <2>3, WorldTyped DEF stream
<1>3. CASE OpenSession \/ CloseSession \/ ResumeSession
  <2>1. /\ UNCHANGED <<clock, arrived, deleted, stepped, stream, gold, refresh, troubles>>
    BY <1>3 DEF OpenSession, CloseSession, ResumeSession
  <2>2. CASE OpenSession
    <3>1. [start |-> clock, end |-> Open] \in Session
      BY <1>1 DEF Session, Open
    <3>2. /\ sessions' \in Seq(Session) /\ Len(sessions') = Len(sessions) + 1
          /\ Len(sessions') <= MaxSessions
      BY <1>1, <2>2, <3>1, BoundsAre DEF OpenSession
    <3> QED
      BY <1>1, <2>1, <3>2, WorldTyped DEF stream
  <2>3. CASE CloseSession \/ ResumeSession
    <3> DEFINE n == Len(sessions)
    <3>1. n \in DOMAIN sessions /\ sessions[n] \in Session
      BY <1>1, <2>3 DEF CloseSession, ResumeSession, NoneOpen
    <3>2. PICK x \in {Open} \cup 0..MaxTime : sessions' = [sessions EXCEPT ![n].end = x]
      BY <1>1, <2>3 DEF CloseSession, ResumeSession
    <3>3. [sessions[n] EXCEPT !.end = x] \in Session
      BY <3>1 DEF Session
    <3>4. sessions' \in Seq(Session) /\ Len(sessions') = Len(sessions)
      BY <1>1, <3>1, <3>2, <3>3
    <3> QED
      BY <1>1, <2>1, <3>4, WorldTyped DEF stream
  <2> QED
    BY <1>3, <2>2, <2>3
<1>4. CASE InsertEvent
  <2>1. /\ UNCHANGED <<clock, sessions, deleted, stepped, stream, gold, refresh, troubles>>
        /\ Cardinality(arrived) < MaxEvents
    BY <1>4 DEF InsertEvent
  <2>2. PICK t \in 0..(clock - 1) :
           arrived' = arrived \cup {[id |-> Cardinality(arrived) + 1, time |-> t]}
    BY <1>4 DEF InsertEvent
  <2>3. Cardinality(arrived) \in Nat
    BY <1>1, FS_CardinalityType
  <2>4. [id |-> Cardinality(arrived) + 1, time |-> t] \in Event
    BY <1>1, <2>1, <2>3, BoundsAre DEF Event
  <2>5. IsFiniteSet(arrived') /\ arrived' \subseteq Event /\ arrived \subseteq arrived'
    BY <1>1, <2>2, <2>4, FS_AddElement
  <2> QED
    BY <1>1, <2>1, <2>5, WorldTyped DEF stream
<1>5. CASE DeleteEvent
  <2>1. /\ UNCHANGED <<clock, sessions, arrived, stepped, stream, gold, refresh>>
        /\ troubles' = troubles + 1 /\ troubles < MaxTroubles
    BY <1>5 DEF DeleteEvent
  <2>2. deleted' \subseteq arrived
    BY <1>1, <1>5 DEF DeleteEvent, silver
  <2> QED
    BY <1>1, <2>1, <2>2, BoundsAre, WorldTyped DEF stream
<1>6. CASE PlanBatch
  <2>1. UNCHANGED <<source, gold, refresh, troubles, seen>> /\ batch' = arrived \ seen
    BY <1>6 DEF PlanBatch
  <2> QED
    BY <1>1, <2>1, WorldTyped DEF source
<1>7. ASSUME NEW by, NEW events, NEW whole, Begin(by, events, whole),
             troubles' \in 0..MaxTroubles
      PROVE  TypeInv'
  <2>1. UNCHANGED <<source, stream, gold>>
    BY <1>7 DEF Begin
  <2>2. PICK range, refreshed, pinned :
          /\ refresh' = [phase |-> "minutes", by |-> by, whole |-> whole, sessions |-> sessions,
                         now |-> clock, range |-> range, refreshed |-> refreshed,
                         pinned |-> pinned]
          /\ \/ refreshed = DOMAIN sessions
             \/ refreshed = Refreshed(Ranges(events, sessions, clock), sessions, clock)
          /\ pinned \in {silver, {}}
    BY <1>7 DEF Begin
  <2>3. \A r : Refreshed(r, sessions, clock) \subseteq DOMAIN sessions
    BY DEF Refreshed, Changed, Overlapping
  <2>4. refreshed \subseteq DOMAIN sessions /\ pinned \subseteq arrived
    BY <2>2, <2>3 DEF silver
  <2>5. Reading'
    BY <2>1, <2>2, <2>4 DEF Reading, source
  <2>6. refresh'.phase = "minutes" /\ refresh'.refreshed \subseteq DOMAIN sessions
    BY <2>2, <2>4
  <2>7. /\ minutes' \subseteq [event : arrived, session : 0..Len(sessions)]
        /\ DOMAIN rows' \subseteq DOMAIN sessions
        /\ \A i \in DOMAIN rows' : rows'[i].events \subseteq arrived
        /\ built' \in BOOLEAN /\ seen' = seen /\ batch' = batch
    BY <1>1, <2>1 DEF gold, stream, TypeInv, TypeOK
  <2> QED
    BY <1>1, <1>7, <2>1, <2>5, <2>6, <2>7, GoldTyped
<1>8. CASE BeginBatch \/ BeginTimer \/ BeginFull
  <2>1. PICK by, events, whole : Begin(by, events, whole)
    BY <1>8 DEF BeginBatch, BeginTimer, BeginFull
  <2>2. troubles' \in 0..MaxTroubles
    <3>1. troubles' = troubles \/ (troubles < MaxTroubles /\ troubles' = troubles + 1)
      BY <1>8 DEF BeginBatch, BeginTimer, BeginFull
    <3> QED
      BY <1>1, <3>1, BoundsAre
  <2> QED
    BY <1>7, <2>1, <2>2
<1>9. CASE WriteMinutes
  <2>1. UNCHANGED <<source, stream, rows, built, troubles>>
    BY <1>9 DEF WriteMinutes
  <2>2. refresh' = [refresh EXCEPT !.phase = "rows"] /\ Reading
    BY <1>9 DEF WriteMinutes, TypeInv
  <2>3. refresh' = [phase |-> "rows", by |-> refresh.by, whole |-> refresh.whole,
                    sessions |-> refresh.sessions, now |-> refresh.now, range |-> refresh.range,
                    refreshed |-> refresh.refreshed, pinned |-> refresh.pinned]
    BY <2>2 DEF Reading
  <2>4. Reading'
    BY <2>1, <2>2, <2>3 DEF Reading, source
  <2> DEFINE events == IF refresh.whole THEN refresh.pinned ELSE {e \in silver : InRange(e)}
             new == Assigned(events, refresh.sessions, refresh.now)
  <2>5. events \subseteq arrived
    BY <2>2 DEF Reading, silver
  <2>6. new \subseteq [event : events, session : 0..Len(sessions)]
    BY <1>1, <2>2, AssignedTyped DEF Reading
  <2>7. minutes' \subseteq minutes \cup new
    BY <1>9 DEF WriteMinutes
  <2> HIDE DEF events, new
  <2>8. minutes' \subseteq [event : arrived, session : 0..Len(sessions)]
    BY <2>5, <2>6, <2>7 DEF TypeInv, TypeOK
  <2>9. refresh'.phase = "rows" /\ refresh'.refreshed \subseteq DOMAIN sessions
    BY <2>3 DEF TypeInv, TypeOK
  <2>10. /\ DOMAIN rows' \subseteq DOMAIN sessions
         /\ \A i \in DOMAIN rows' : rows'[i].events \subseteq arrived
         /\ seen' = seen /\ batch' = batch
    BY <2>1 DEF stream, TypeInv, TypeOK
  <2> QED
    BY <1>1, <2>1, <2>4, <2>8, <2>9, <2>10, GoldTyped
<1>10. CASE WriteRows \/ CommitBatch \/ Crash
  <2>1. UNCHANGED <<source, minutes>>
    BY <1>10 DEF WriteRows, CommitBatch, Crash, gold
  <2>2. \/ refresh' = Idle
        \/ refresh' = [Idle EXCEPT !.phase = "commit", !.by = "stream"]
    BY <1>10 DEF WriteRows, CommitBatch, Crash
  <2>3. PICK phase \in {"idle", "commit"}, by \in {"nobody", "stream"} :
          refresh' = [phase |-> phase, by |-> by, whole |-> FALSE, sessions |-> <<>>,
                      now |-> 0, range |-> {}, refreshed |-> {}, pinned |-> {}]
    BY <2>2 DEF Idle
  <2>4. Reading' /\ refresh'.phase \in {"idle", "commit"} /\ refresh'.refreshed = {}
    BY <2>3 DEF Reading
  <2>5. /\ DOMAIN rows' \subseteq DOMAIN sessions
        /\ \A i \in DOMAIN rows' : rows'[i].events \subseteq arrived
    <3>1. CASE WriteRows
      <4>1. refresh.refreshed \subseteq DOMAIN sessions /\ DOMAIN rows \subseteq DOMAIN sessions
        BY DEF TypeInv, TypeOK
      <4>2. \A i, s, now : SessionRow(i, s, now, minutes).events \subseteq arrived
        BY DEF SessionRow, TypeInv, TypeOK
      <4>3. /\ DOMAIN rows' = refresh.refreshed \cup (IF refresh.whole THEN {} ELSE DOMAIN rows)
            /\ \A i \in DOMAIN rows' :
                 \/ rows'[i] = SessionRow(i, refresh.sessions[i], refresh.now, minutes)
                 \/ i \in DOMAIN rows /\ rows'[i] = rows[i]
        BY <3>1 DEF WriteRows
      <4>4. \A i \in DOMAIN rows : rows[i].events \subseteq arrived
        BY DEF TypeInv, TypeOK
      <4> QED
        BY <4>1, <4>2, <4>3, <4>4
    <3>2. CASE CommitBatch \/ Crash
      BY <3>2 DEF CommitBatch, Crash, gold, TypeInv, TypeOK
    <3> QED
      BY <1>10, <3>1, <3>2
  <2>6. seen' \subseteq arrived /\ batch' \subseteq arrived \ seen'
    BY <1>1, <1>10 DEF WriteRows, CommitBatch, Crash, stream
  <2>7. built' \in BOOLEAN
    BY <1>1, <1>10 DEF WriteRows, CommitBatch, Crash, gold
  <2>8. troubles' \in 0..MaxTroubles
    BY <1>1, <1>10, BoundsAre DEF WriteRows, CommitBatch, Crash
  <2>9. minutes' \subseteq [event : arrived, session : 0..Len(sessions)]
    BY <2>1 DEF TypeInv, TypeOK
  <2> QED
    BY <1>1, <2>1, <2>4, <2>5, <2>6, <2>7, <2>8, <2>9, GoldTyped
<1>11. CASE UNCHANGED vars
  BY <1>1, <1>11, WorldTyped DEF vars, source, stream
<1> QED
  BY <1>2, <1>3, <1>4, <1>5, <1>6, <1>8, <1>9, <1>10, <1>11 DEF Next

(* Every variable keeps its type; in particular, minute rows name sessions  *)
(* that SQLite knows, and no row counts an event that never was in Silver.  *)
THEOREM GoldTypesHold == Spec => []TypeOK
<1>1. Spec => []TypeInv
  BY InitTyped, StepTyped, PTL DEF Spec
<1> QED
  BY <1>1, PTL DEF TypeInv


-----------------------------------------------------------------------------
(* Ranges of minutes.                                                       *)

\* A nonempty set of natural numbers has a least member.
LEMMA LeastNat ==
    ASSUME NEW T, T \subseteq Nat, T # {}
    PROVE  \E m \in T : \A k \in T : m <= k
<1> DEFINE R == OpToRel(<, Nat)
<1>1. IsWellFoundedOn(R, Nat)
  BY NatLessThanWellFounded
<1>2. \A x, y \in Nat : <<x, y>> \in R <=> x < y
  BY DEF OpToRel
<1> HIDE DEF R
<1>3. PICK m \in T : \A k \in T : ~ (<<k, m>> \in R)
  BY <1>1, WFMin
<1>4. \A k \in T : ~ (k < m)
  BY <1>2, <1>3
<1> QED
  BY <1>4

\* A bounded one has a least and a greatest.
LEMMA MinMax ==
    ASSUME NEW B \in Nat, NEW S, S \subseteq 0..B, S # {}
    PROVE  /\ Min(S) \in S /\ \A x \in S : Min(S) <= x
           /\ Max(S) \in S /\ \A x \in S : x <= Max(S)
<1>1. Min(S) \in S /\ \A x \in S : Min(S) <= x
  <2>1. \E m \in S : \A k \in S : m <= k
    <3>1. S \subseteq Nat
      OBVIOUS
    <3> QED
      BY <3>1, LeastNat
  <2> QED
    BY <2>1 DEF Min
<1>2. Max(S) \in S /\ \A x \in S : x <= Max(S)
  <2> DEFINE T == {B - x : x \in S}
  <2>1. T \subseteq Nat /\ T # {}
    <3>1. \A x \in S : B - x \in Nat
      OBVIOUS
    <3> QED
      BY <3>1
  <2> HIDE DEF T
  <2>2. PICK m \in T : \A k \in T : m <= k
    BY <2>1, LeastNat
  <2> USE DEF T
  <2>3. PICK y \in S : m = B - y
    OBVIOUS
  <2>4. \A x \in S : y >= x
    <3> SUFFICES ASSUME NEW x \in S PROVE y >= x
      OBVIOUS
    <3>1. B - y <= B - x
      BY <2>2, <2>3
    <3>2. x \in Int /\ y \in Int
      OBVIOUS
    <3> QED
      BY <3>1, <3>2
  <2>5. Max(S) \in S /\ \A x \in S : Max(S) >= x
    BY <2>3, <2>4 DEF Max
  <2> QED
    BY <2>5
<1> QED
  BY <1>1, <1>2

\* The hull holds what lies between two members.
LEMMA HullHolds ==
    ASSUME NEW B \in Nat, NEW S, S \subseteq 0..B
    PROVE  /\ Hull(S) \subseteq 0..B
           /\ \A x, y \in S : \A z \in Int : x <= z /\ z <= y => z \in Hull(S)
<1>1. CASE S = {}
  BY <1>1 DEF Hull
<1>2. CASE S # {}
  <2>1. /\ Min(S) \in S /\ \A x \in S : Min(S) <= x
        /\ Max(S) \in S /\ \A x \in S : x <= Max(S)
    BY <1>2, MinMax
  <2>2. Hull(S) = Min(S)..Max(S)
    BY <1>2 DEF Hull
  <2>3. Min(S) \in Int /\ Max(S) \in Int /\ 0 <= Min(S) /\ Max(S) <= B
    <3>1. Min(S) \in 0..B /\ Max(S) \in 0..B
      BY <2>1
    <3> QED
      BY <3>1
  <2>4. Hull(S) \subseteq 0..B
    BY <2>2, <2>3
  <2>5. ASSUME NEW x \in S, NEW y \in S, NEW z \in Int, x <= z, z <= y PROVE z \in Hull(S)
    <3>1. Min(S) <= x /\ y <= Max(S) /\ x \in Int /\ y \in Int
      BY <2>1
    <3> QED
      BY <2>2, <2>3, <2>5, <3>1
  <2> QED
    BY <2>4, <2>5
<1> QED
  BY <1>1, <1>2

\* The minute of an instant.
LEMMA MinuteIs ==
    ASSUME NEW t \in Nat
    PROVE  /\ MinuteOf(t) \in Nat
           /\ MinuteOf(t) * TicksPerMinute <= t /\ t < (MinuteOf(t) + 1) * TicksPerMinute
           /\ MinuteOf(t) <= t
BY GoldAssumption DEF MinuteOf

\* Multiples of a minute are in the order of their factors.
LEMMA MinutesOrdered ==
    ASSUME NEW x \in Int, NEW y \in Int, x <= y
    PROVE  x * TicksPerMinute <= y * TicksPerMinute
BY GoldAssumption

LEMMA MinuteGrows ==
    ASSUME NEW s \in Nat, NEW t \in Nat, s <= t
    PROVE  MinuteOf(s) <= MinuteOf(t)
<1> SUFFICES ASSUME MinuteOf(t) + 1 <= MinuteOf(s) PROVE FALSE
  BY MinuteIs
<1> DEFINE a == MinuteOf(s)  b == MinuteOf(t)
<1>1. a \in Nat /\ b \in Nat /\ a * TicksPerMinute <= s /\ t < (b + 1) * TicksPerMinute
  BY MinuteIs
<1>2. (b + 1) * TicksPerMinute <= a * TicksPerMinute
  BY <1>1, MinutesOrdered
<1>3. a * TicksPerMinute \in Int /\ (b + 1) * TicksPerMinute \in Int
  BY <1>1, GoldAssumption
<1> HIDE DEF a, b
<1> QED
  BY <1>1, <1>2, <1>3

-----------------------------------------------------------------------------
(* What is counted.  While the clock goes forward, the windows of sessions  *)
(* only grow.  A refresh reaches every window that has grown since its row  *)
(* was written, so that what it leaves alone was right already.             *)

Holds(s, now, e) == s.start <= e.time /\ e.time < EffectiveEnd(s, now)
InRow(i, e) == rows[i].start <= e.time /\ e.time < rows[i].until
Window(s, now) == s.start..(EffectiveEnd(s, now) - 1)

Underway == refresh.phase \in {"minutes", "rows"}
\* Events of the batches whose tables are written, and of those that will be.
Finished == seen \cup (IF refresh.phase = "commit" THEN batch ELSE {})
Settling == seen \cup (IF refresh.by = "stream" THEN batch ELSE {})

Sane ==
    /\ \A i \in DOMAIN sessions : sessions[i].end <= clock
    /\ \A e \in arrived : e.time < clock
    /\ refresh.by = "stream" => batch # {}
    /\ refresh.phase = "commit" => refresh.by = "stream"
    /\ ~built => DOMAIN rows = {}

\* A row lies in the window of its session, and counts what lies in its own.
RowsFit ==
    \A i \in DOMAIN rows :
        /\ rows[i].start = sessions[i].start
        /\ rows[i].until \in Int /\ rows[i].until <= EffectiveEnd(sessions[i], clock)
        /\ rows[i].end # Open => rows[i].until = rows[i].end
        /\ \A e \in rows[i].events : InRow(i, e)
        /\ rows[i].events \ Counted(i) \subseteq deleted

MinutesFit ==
    \A m \in minutes :
        m.session # NoSession =>
            m.session \in DOMAIN sessions /\ Holds(sessions[m.session], clock, m.event)

\* The sessions that a refresh has read are those of SQLite at its time.
ReadSessions ==
    /\ refresh.sessions \in Seq(Session) /\ refresh.now \in 0..clock
    /\ DOMAIN refresh.sessions \subseteq DOMAIN sessions
    /\ refresh.refreshed \subseteq DOMAIN refresh.sessions
    /\ \A i \in DOMAIN refresh.sessions :
          /\ refresh.sessions[i].start = sessions[i].start
          /\ EffectiveEnd(refresh.sessions[i], refresh.now) <= EffectiveEnd(sessions[i], clock)

\* Nothing in the tables is newer than what it has read.
ReadAll ==
    /\ \A i \in DOMAIN rows :
          /\ i \in DOMAIN refresh.sessions
          /\ rows[i].until <= EffectiveEnd(refresh.sessions[i], refresh.now)
    /\ \A m \in minutes :
          m.session # NoSession =>
              /\ m.session \in DOMAIN refresh.sessions
              /\ Holds(refresh.sessions[m.session], refresh.now, m.event)
    /\ \A e \in Settling : e.time < refresh.now

\* A recomputation.  Unless the operator asked for it, there is no table yet.
RefreshAll ==
    refresh.whole =>
        /\ refresh.refreshed = DOMAIN refresh.sessions
        /\ refresh.by # "operator" => DOMAIN rows = {}
        /\ refresh.phase = "minutes" =>
              /\ Settling \ deleted \subseteq refresh.pinned
              /\ refresh.by = "operator" => refresh.pinned = silver

\* A range holds the batch and the windows of all changed sessions, and meets
\* no window of a session that is left alone.
RefreshRange ==
    ~refresh.whole =>
        /\ refresh.by = "stream" => \A e \in batch : MinuteOf(e.time) \in refresh.range
        /\ \A i \in Changed(refresh.sessions) :
              \A t \in Window(refresh.sessions[i], refresh.now) : MinuteOf(t) \in refresh.range
        /\ \A i \in DOMAIN refresh.sessions \ refresh.refreshed :
              /\ i \notin Changed(refresh.sessions) /\ refresh.sessions[i].end # Open
              /\ \A t \in Window(refresh.sessions[i], refresh.now) : MinuteOf(t) \notin refresh.range

ReadFits == Underway => ReadSessions /\ ReadAll /\ RefreshAll /\ RefreshRange

\* The events of a finished batch are counted, or deleted, and the rows
\* count those in their windows that the minutes count or Silver still holds.
Complete ==
    \A e \in Finished :
        /\ e \in deleted \/ \E m \in minutes : m.event = e
        /\ \A i \in DOMAIN rows :
              /\ rows[i].end = Open => e.time < rows[i].until
              /\ InRow(i, e) /\ (e \notin deleted \/ e \in Counted(i)) => e \in rows[i].events

\* Between the two writes the minutes count what the rows are going to count.
Written ==
    refresh.phase = "rows" =>
        \A e \in Settling \ deleted :
            /\ \E m \in minutes : m.event = e
            /\ \A i \in refresh.refreshed :
                  Holds(refresh.sessions[i], refresh.now, e) => e \in Counted(i)

ExactInv == ~stepped => Sane /\ RowsFit /\ MinutesFit /\ ReadFits /\ Complete /\ Written

-----------------------------------------------------------------------------
\* Numbers.
LEMMA SessionNumbers ==
    ASSUME NEW ss \in Seq(Session), NEW now \in Int, NEW i \in DOMAIN ss
    PROVE  /\ ss[i].start \in 0..MaxTime /\ ss[i].end \in Int
           /\ ss[i].end # Open => ss[i].end \in 0..MaxTime
           /\ EffectiveEnd(ss[i], now) \in Int
           /\ i \in Nat \ {0}
<1>1. ss[i] \in Session
  OBVIOUS
<1> QED
  BY <1>1, BoundsAre DEF Session, Open, EffectiveEnd

LEMMA EventTimes == TypeInv => \A e \in arrived : e.time \in 0..MaxTime /\ e.time \in Int
BY DEF TypeInv, TypeOK, Event

\* What the row of an unchanged session covers, its record covers, and back.
LEMMA RowCovers ==
    ASSUME NEW ss \in Seq(Session), NEW now \in Int, NEW i \in DOMAIN ss, i \notin Changed(ss),
           NEW e, e.time \in Int, Holds(ss[i], now, e),
           rows[i].end # Open => rows[i].until = rows[i].end,
           rows[i].end = Open => e.time < rows[i].until
    PROVE  i \in DOMAIN rows /\ InRow(i, e)
<1>1. i \in DOMAIN rows /\ rows[i].start = ss[i].start /\ rows[i].end = ss[i].end
  BY DEF Changed, Recorded
<1> QED
  BY <1>1 DEF Holds, InRow, EffectiveEnd

LEMMA ExactMinutes == TypeInv /\ ExactInv => MinutesAreExact
<1> SUFFICES ASSUME TypeInv, ~stepped, Sane, RowsFit, MinutesFit, Complete,
                    NEW e \in seen \ deleted
             PROVE  \E m \in minutes :
                       /\ m.event = e
                       /\ \/ m.session \in SessionsOf(e, sessions, clock)
                          \/ Holding(e, sessions, clock) \cap Changed(sessions) # {}
  BY DEF ExactInv, MinutesAreExact
<1>1. sessions \in Seq(Session) /\ clock \in Int /\ e.time \in Int
  BY EventTimes DEF TypeInv, TypeOK
<1>2. PICK m \in minutes : m.event = e
  BY DEF Complete, Finished
<1>3. CASE Holding(e, sessions, clock) = {}
  <2>1. m.session = NoSession
    BY <1>2, <1>3 DEF MinutesFit, Holding, Holds
  <2> QED
    BY <1>2, <1>3, <2>1 DEF SessionsOf
<1>4. ASSUME NEW i \in Holding(e, sessions, clock), i \notin Changed(sessions)
      PROVE  \E n \in minutes : n.event = e /\ n.session \in SessionsOf(e, sessions, clock)
  <2>1. i \in DOMAIN sessions /\ Holds(sessions[i], clock, e)
    BY <1>4 DEF Holding, Holds
  <2>2. i \in DOMAIN rows
    BY <1>4, <2>1 DEF Changed, Recorded
  <2>3. /\ rows[i].end # Open => rows[i].until = rows[i].end
        /\ rows[i].end = Open => e.time < rows[i].until
    BY <2>2 DEF RowsFit, Complete, Finished
  <2>4. InRow(i, e)
    BY <1>1, <1>4, <2>1, <2>3, RowCovers
  <2>5. e \in rows[i].events
    BY <2>2, <2>4 DEF Complete, Finished
  <2>6. e \in Counted(i)
    BY <2>2, <2>5 DEF RowsFit
  <2>7. i \in SessionsOf(e, sessions, clock)
    BY <1>4 DEF SessionsOf
  <2> QED
    BY <2>6, <2>7 DEF Counted
<1> QED
  BY <1>2, <1>3, <1>4

LEMMA RowsFollow == TypeInv /\ ExactInv => RowsFollowMinutes
<1> SUFFICES ASSUME TypeInv, ~stepped, Sane, RowsFit, MinutesFit, Complete,
                    NEW i \in DOMAIN rows
             PROVE  /\ rows[i].events \ Counted(i) \subseteq deleted
                    /\ i \in Changed(sessions) \/ Counted(i) \ rows[i].events \subseteq arrived \ seen
  BY DEF ExactInv, RowsFollowMinutes
<1>1. sessions \in Seq(Session) /\ clock \in Int /\ i \in DOMAIN sessions
  BY DEF TypeInv, TypeOK
<1>2. rows[i].events \ Counted(i) \subseteq deleted
  BY DEF RowsFit
<1>3. ASSUME i \notin Changed(sessions), NEW e \in Counted(i), e \notin rows[i].events, e \in seen
      PROVE  FALSE
  <2>1. PICK m \in minutes : m.event = e /\ m.session = i
    BY <1>3 DEF Counted
  <2>2. Holds(sessions[i], clock, e)
    BY <1>1, <2>1, SessionNumbers DEF MinutesFit, NoSession
  <2>3. e.time \in Int
    BY <1>3, EventTimes DEF TypeInv, TypeOK
  <2>4. /\ rows[i].end # Open => rows[i].until = rows[i].end
        /\ rows[i].end = Open => e.time < rows[i].until
    BY <1>3 DEF RowsFit, Complete, Finished
  <2>5. InRow(i, e)
    BY <1>1, <1>3, <2>2, <2>3, <2>4, RowCovers
  <2> QED
    BY <1>3, <2>5 DEF Complete, Finished
<1>4. Counted(i) \subseteq arrived
  BY DEF Counted, TypeInv, TypeOK
<1> QED
  BY <1>2, <1>3, <1>4

-----------------------------------------------------------------------------
LEMMA InitExact == Init => ExactInv
<1> SUFFICES ASSUME Init PROVE ExactInv
  OBVIOUS
<1>1. refresh.phase = "idle" /\ refresh.by = "nobody"
  BY DEF Init, Idle
<1>2. DOMAIN sessions = {} /\ DOMAIN rows = {} /\ arrived = {} /\ minutes = {} /\ seen = {}
  BY DEF Init
<1>3. Sane /\ RowsFit /\ MinutesFit
  BY <1>1, <1>2 DEF Sane, RowsFit, MinutesFit
<1>4. ReadFits /\ Written
  BY <1>1 DEF ReadFits, Underway, Written
<1>5. Complete
  BY <1>1, <1>2 DEF Complete, Finished
<1> QED
  BY <1>3, <1>4, <1>5 DEF ExactInv

\* The world moves forward, and the windows of sessions grow.
LEMMA WorldExact ==
    ASSUME TypeInv, Sane, RowsFit, MinutesFit, ReadFits, Complete, Written,
           UNCHANGED <<gold, refresh, seen>>,
           batch' = batch \/ batch = {},
           deleted \subseteq deleted', refresh.by = "operator" => silver' = silver,
           clock \in Int, clock' \in Int, clock <= clock',
           sessions \in Seq(Session), sessions' \in Seq(Session),
           DOMAIN sessions \subseteq DOMAIN sessions',
           \A i \in DOMAIN sessions :
              /\ sessions'[i].start = sessions[i].start
              /\ EffectiveEnd(sessions[i], clock) <= EffectiveEnd(sessions'[i], clock'),
           Sane'
    PROVE  ExactInv'
<1>1. \A i \in DOMAIN sessions :
         /\ i \in DOMAIN sessions' /\ sessions'[i].start = sessions[i].start
         /\ EffectiveEnd(sessions[i], clock) \in Int
         /\ EffectiveEnd(sessions'[i], clock') \in Int
         /\ EffectiveEnd(sessions[i], clock) <= EffectiveEnd(sessions'[i], clock')
  <2> TAKE i \in DOMAIN sessions
  <2>1. i \in DOMAIN sessions'
    OBVIOUS
  <2>2. EffectiveEnd(sessions[i], clock) \in Int
    BY SessionNumbers
  <2>3. EffectiveEnd(sessions'[i], clock') \in Int
    BY <2>1, SessionNumbers
  <2> QED
    BY <2>1, <2>2, <2>3
<1>2. minutes' = minutes /\ rows' = rows /\ built' = built /\ refresh' = refresh /\ seen' = seen
  BY DEF gold
<1>3. Finished' = Finished /\ Settling' = Settling
  <2>1. refresh.by = "stream" => batch' = batch
    BY DEF Sane
  <2>2. refresh.phase = "commit" => batch' = batch
    BY <2>1 DEF Sane
  <2> QED
    BY <1>2, <2>1, <2>2 DEF Finished, Settling
<1>4. \A i : Counted(i)' = Counted(i)
  BY <1>2 DEF Counted
<1>5. DOMAIN rows \subseteq DOMAIN sessions
  BY DEF TypeInv, TypeOK
<1>6. RowsFit'
  <2> SUFFICES ASSUME NEW i \in DOMAIN rows
      PROVE /\ rows[i].start = sessions'[i].start
            /\ rows[i].until \in Int /\ rows[i].until <= EffectiveEnd(sessions'[i], clock')
            /\ rows[i].end # Open => rows[i].until = rows[i].end
            /\ \A e \in rows[i].events : InRow(i, e)'
            /\ rows[i].events \ Counted(i) \subseteq deleted'
    BY <1>2, <1>4 DEF RowsFit
  <2>1. /\ rows[i].start = sessions[i].start
        /\ rows[i].until \in Int /\ rows[i].until <= EffectiveEnd(sessions[i], clock)
        /\ rows[i].end # Open => rows[i].until = rows[i].end
        /\ \A e \in rows[i].events : InRow(i, e)
        /\ rows[i].events \ Counted(i) \subseteq deleted
    BY DEF RowsFit
  <2>2. rows[i].until <= EffectiveEnd(sessions'[i], clock')
    <3>1. i \in DOMAIN sessions
      BY <1>5
    <3> QED
      BY <1>1, <2>1, <3>1
  <2>3. \A e \in rows[i].events : InRow(i, e)'
    BY <1>2, <2>1 DEF InRow
  <2> QED
    BY <1>1, <1>5, <2>1, <2>2, <2>3
<1>7. MinutesFit'
  <2> SUFFICES ASSUME NEW m \in minutes, m.session # NoSession
      PROVE  m.session \in DOMAIN sessions' /\ Holds(sessions'[m.session], clock', m.event)
    BY <1>2 DEF MinutesFit
  <2>1. m.session \in DOMAIN sessions /\ Holds(sessions[m.session], clock, m.event)
    BY DEF MinutesFit
  <2>2. m.event \in arrived
    BY DEF TypeInv, TypeOK
  <2>3. m.event.time \in Int
    BY <2>2, EventTimes
  <2>4. m.event.time < EffectiveEnd(sessions'[m.session], clock')
    BY <1>1, <2>1, <2>3 DEF Holds
  <2> QED
    BY <1>1, <2>1, <2>4 DEF Holds
<1>8. ReadFits'
  <2> SUFFICES ASSUME Underway
               PROVE  ReadSessions' /\ ReadAll' /\ RefreshAll' /\ RefreshRange'
    BY <1>2 DEF ReadFits, Underway
  <2>1. ReadSessions /\ ReadAll /\ RefreshAll /\ RefreshRange
    BY DEF ReadFits
  <2>2. ReadSessions'
    <3>1. refresh.now \in 0..clock'
      BY <2>1 DEF ReadSessions
    <3>2. ASSUME NEW i \in DOMAIN refresh.sessions
          PROVE  /\ i \in DOMAIN sessions'
                 /\ refresh.sessions[i].start = sessions'[i].start
                 /\ EffectiveEnd(refresh.sessions[i], refresh.now)
                      <= EffectiveEnd(sessions'[i], clock')
      <4>1. /\ i \in DOMAIN sessions /\ refresh.sessions[i].start = sessions[i].start
            /\ EffectiveEnd(refresh.sessions[i], refresh.now) <= EffectiveEnd(sessions[i], clock)
        BY <2>1 DEF ReadSessions
      <4>2. EffectiveEnd(refresh.sessions[i], refresh.now) \in Int
        <5>1. refresh.sessions \in Seq(Session) /\ refresh.now \in Int
          BY <2>1 DEF ReadSessions
        <5> QED
          BY <5>1, SessionNumbers
      <4> QED
        BY <1>1, <4>1, <4>2
    <3> QED
      BY <1>2, <2>1, <3>1, <3>2 DEF ReadSessions
  <2>3. ReadAll'
    BY <1>2, <1>3, <2>1 DEF ReadAll
  <2>4. RefreshAll'
    <3>1. Settling \ deleted' \subseteq Settling \ deleted
      OBVIOUS
    <3> QED
      BY <1>2, <1>3, <2>1, <3>1 DEF RefreshAll
  <2>5. RefreshRange'
    <3>1. refresh.by = "stream" => batch' = batch
      BY DEF Sane
    <3>2. Changed(refresh.sessions)' = Changed(refresh.sessions)
      BY <1>2 DEF Changed, Recorded
    <3> QED
      BY <1>2, <2>1, <3>1, <3>2 DEF RefreshRange
  <2> QED
    BY <2>2, <2>3, <2>4, <2>5
<1>9. Complete'
  BY <1>2, <1>3, <1>4 DEF Complete, InRow
<1>10. Written'
  BY <1>2, <1>3, <1>4 DEF Written
<1> QED
  BY <1>6, <1>7, <1>8, <1>9, <1>10 DEF ExactInv

\* A batch is committed, or the process dies; the tables stand still.
LEMMA IdleExact ==
    ASSUME TypeInv, Sane, RowsFit, MinutesFit, Complete,
           CommitBatch \/ Crash
    PROVE  ExactInv'
<1>1. refresh' = Idle /\ UNCHANGED <<source, gold>>
  BY DEF CommitBatch, Crash
<1>2. refresh'.phase = "idle" /\ refresh'.by = "nobody"
  BY <1>1 DEF Idle
<1>3. Finished' \subseteq Finished
  <2>1. Finished' = seen'
    BY <1>2 DEF Finished
  <2> QED
    BY <2>1 DEF CommitBatch, Crash, Finished, stream
<1>4. /\ Sane' /\ RowsFit' /\ MinutesFit'
  BY <1>1, <1>2 DEF Sane, RowsFit, MinutesFit, source, gold, Counted, InRow
<1>5. ReadFits' /\ Written'
  BY <1>2 DEF ReadFits, Underway, Written
<1>6. Complete'
  BY <1>1, <1>3 DEF Complete, source, gold, Counted, InRow
<1> QED
  BY <1>4, <1>5, <1>6 DEF ExactInv

-----------------------------------------------------------------------------
(* What a refresh reads.                                                    *)

\* The instants that make a range.
Instances(events) ==
    {e.time : e \in events} \cup UNION {Span(i, sessions[i], clock) : i \in Changed(sessions)}

LEMMA RangeInstants ==
    ASSUME TypeInv, Sane, NEW events, events \subseteq arrived
    PROVE  Instances(events) \subseteq 0..MaxTime
<1>1. \A e \in arrived : e.time \in 0..MaxTime
  BY EventTimes
<1>2. ASSUME NEW i \in Changed(sessions) PROVE Span(i, sessions[i], clock) \subseteq 0..MaxTime
  <2>1. sessions \in Seq(Session) /\ clock \in 0..MaxTime /\ clock \in Int /\ MaxTime \in Nat
    BY BoundsAre DEF TypeInv, TypeOK
  <2>2. i \in DOMAIN sessions
    BY DEF Changed
  <2>3. sessions[i].start \in 0..MaxTime /\ EffectiveEnd(sessions[i], clock) \in -1..MaxTime
    <3>1. /\ sessions[i].start \in 0..MaxTime
          /\ sessions[i].end # Open => sessions[i].end \in 0..MaxTime
      BY <2>1, <2>2, SessionNumbers
    <3> QED
      BY <2>1, <3>1 DEF EffectiveEnd
  <2>4. \A e \in StoredEvents(i) : e.time \in 0..MaxTime
    BY <1>1 DEF StoredEvents, TypeInv, TypeOK
  <2>5. \A t \in {EffectiveEnd(sessions[i], clock) - 1} : t >= sessions[i].start => t \in 0..MaxTime
    BY <2>1, <2>3
  <2> QED
    BY <2>3, <2>4, <2>5 DEF Span
<1> QED
  BY <1>1, <1>2 DEF Instances

\* A range holds the minutes of its events and of the windows of all changed
\* sessions.
LEMMA RangeReaches ==
    ASSUME TypeInv, Sane, NEW events, events \subseteq arrived
    PROVE  LET range == Ranges(events, sessions, clock) IN
           /\ range \subseteq 0..MaxTime
           /\ \A e \in events : MinuteOf(e.time) \in range
           /\ \A i \in Changed(sessions) :
                 \A t \in Window(sessions[i], clock) : MinuteOf(t) \in range
<1> DEFINE S == Instances(events)
           M == {MinuteOf(t) : t \in S}
<1>1. Ranges(events, sessions, clock) = Hull(M)
  BY DEF Ranges, Instances
<1>2. S \subseteq 0..MaxTime /\ MaxTime \in Nat
  BY RangeInstants, BoundsAre
<1>3. M \subseteq 0..MaxTime
  <2> SUFFICES ASSUME NEW t \in S PROVE MinuteOf(t) \in 0..MaxTime
    OBVIOUS
  <2>1. t \in Nat /\ t <= MaxTime
    BY <1>2
  <2>2. MinuteOf(t) \in Nat /\ MinuteOf(t) <= t
    BY <2>1, MinuteIs
  <2> QED
    BY <1>2, <2>1, <2>2
<1>4. \A s, u \in S : \A t \in Nat : s <= t /\ t <= u => MinuteOf(t) \in Hull(M)
  <2> SUFFICES ASSUME NEW s \in S, NEW u \in S, NEW t \in Nat, s <= t, t <= u
      PROVE  MinuteOf(t) \in Hull(M)
    OBVIOUS
  <2>1. s \in Nat /\ u \in Nat
    BY <1>2
  <2>2. MinuteOf(s) <= MinuteOf(t) /\ MinuteOf(t) <= MinuteOf(u) /\ MinuteOf(t) \in Int
    BY <2>1, MinuteGrows, MinuteIs
  <2>3. MinuteOf(s) \in M /\ MinuteOf(u) \in M
    OBVIOUS
  <2> HIDE DEF M
  <2> QED
    BY <1>2, <1>3, <2>2, <2>3, HullHolds
<1>5. Hull(M) \subseteq 0..MaxTime
  <2> HIDE DEF M
  <2> QED
    BY <1>2, <1>3, HullHolds
<1>6. ASSUME NEW e \in events PROVE MinuteOf(e.time) \in Hull(M)
  <2>1. e.time \in S
    BY DEF Instances
  <2>2. e.time \in Nat /\ e.time <= e.time
    BY <1>2, <2>1
  <2> HIDE DEF S, M
  <2> QED
    BY <1>4, <2>1, <2>2
<1>7. ASSUME NEW i \in Changed(sessions), NEW t \in Window(sessions[i], clock)
      PROVE  MinuteOf(t) \in Hull(M)
  <2>1. /\ sessions[i].start \in Nat /\ EffectiveEnd(sessions[i], clock) \in Int
    <3>1. sessions \in Seq(Session) /\ clock \in Int /\ i \in DOMAIN sessions
      BY DEF TypeInv, TypeOK, Changed
    <3>2. /\ sessions[i].start \in 0..MaxTime /\ EffectiveEnd(sessions[i], clock) \in Int
      BY <3>1, SessionNumbers
    <3> QED
      BY <1>2, <3>2
  <2> DEFINE last == EffectiveEnd(sessions[i], clock) - 1
  <2>2. t \in Nat /\ sessions[i].start <= t /\ t <= last /\ last >= sessions[i].start
    BY <2>1 DEF Window
  <2>3. sessions[i].start \in Span(i, sessions[i], clock) /\ last \in Span(i, sessions[i], clock)
    BY <2>2 DEF Span
  <2>4. sessions[i].start \in S /\ last \in S
    BY <2>3 DEF Instances
  <2> HIDE DEF S, M
  <2> QED
    BY <1>4, <2>2, <2>4
<1> QED
  BY <1>1, <1>5, <1>6, <1>7

\* A window that has a minute in a range overlaps it.
LEMMA RangeMeets ==
    ASSUME NEW range, range \subseteq 0..MaxTime, NEW ss \in Seq(Session), NEW now \in Int,
           NEW i \in DOMAIN ss, NEW t \in Window(ss[i], now), MinuteOf(t) \in range
    PROVE  i \in Overlapping(range, ss, now)
<1>1. ss[i].start \in 0..MaxTime /\ EffectiveEnd(ss[i], now) \in Int
  BY SessionNumbers
<1>2. t \in Nat /\ ss[i].start <= t /\ t < EffectiveEnd(ss[i], now)
  BY <1>1, BoundsAre DEF Window
<1>3. /\ Min(range) \in range /\ Max(range) \in range
      /\ Min(range) <= MinuteOf(t) /\ MinuteOf(t) <= Max(range)
  BY MinMax, BoundsAre
<1>4. Min(range) \in Int /\ Max(range) \in Int /\ MinuteOf(t) \in Int
  <2>1. Min(range) \in 0..MaxTime /\ Max(range) \in 0..MaxTime /\ MinuteOf(t) \in 0..MaxTime
    BY <1>3
  <2> QED
    BY <2>1
<1>5. /\ MinuteOf(t) * TicksPerMinute <= t /\ t < (MinuteOf(t) + 1) * TicksPerMinute
  BY <1>2, MinuteIs
<1>6. /\ Min(range) * TicksPerMinute <= MinuteOf(t) * TicksPerMinute
      /\ (MinuteOf(t) + 1) * TicksPerMinute <= (Max(range) + 1) * TicksPerMinute
  <2>1. Min(range) * TicksPerMinute <= MinuteOf(t) * TicksPerMinute
    BY <1>3, <1>4, MinutesOrdered
  <2>2. /\ MinuteOf(t) + 1 \in Int /\ Max(range) + 1 \in Int
        /\ MinuteOf(t) + 1 <= Max(range) + 1
    BY <1>3, <1>4
  <2>3. (MinuteOf(t) + 1) * TicksPerMinute <= (Max(range) + 1) * TicksPerMinute
    BY <2>2, MinutesOrdered
  <2> QED
    BY <2>1, <2>3
<1>7. /\ Min(range) * TicksPerMinute \in Int /\ (Max(range) + 1) * TicksPerMinute \in Int
      /\ MinuteOf(t) * TicksPerMinute \in Int /\ (MinuteOf(t) + 1) * TicksPerMinute \in Int
  BY <1>4, GoldAssumption
<1>8. /\ ss[i].start < (Max(range) + 1) * TicksPerMinute
      /\ EffectiveEnd(ss[i], now) > Min(range) * TicksPerMinute
  <2>1. ss[i].start \in Int
    BY <1>1
  <2> QED
    BY <1>1, <1>2, <1>5, <1>6, <1>7, <2>1
<1>9. range # {}
  OBVIOUS
<1> QED
  BY <1>8, <1>9 DEF Overlapping

\* A refresh begins.
LEMMA BeginExact ==
    ASSUME TypeInv, Sane, RowsFit, MinutesFit, Complete,
           NEW by, NEW events, events \subseteq arrived, NEW whole \in BOOLEAN,
           Begin(by, events, whole),
           by = "stream" => events = batch /\ batch # {},
           by # "operator" => whole = ~built
    PROVE  ExactInv'
<1> DEFINE range == Ranges(events, sessions, clock)
<1>1. /\ UNCHANGED <<source, stream, gold>>
      /\ refresh' = [phase |-> "minutes", by |-> by, whole |-> whole, sessions |-> sessions,
                     now |-> clock, range |-> IF whole THEN {} ELSE range,
                     refreshed |-> IF whole THEN DOMAIN sessions
                                   ELSE Refreshed(range, sessions, clock),
                     pinned |-> IF whole THEN silver ELSE {}]
  BY DEF Begin
<1>2. /\ refresh'.phase = "minutes" /\ refresh'.by = by /\ refresh'.whole = whole
      /\ refresh'.sessions = sessions /\ refresh'.now = clock
      /\ whole => refresh'.refreshed = DOMAIN sessions /\ refresh'.pinned = silver
      /\ ~whole => /\ refresh'.range = range
                   /\ refresh'.refreshed = Refreshed(range, sessions, clock)
  BY <1>1
<1>3. /\ range \subseteq 0..MaxTime
      /\ \A e \in events : MinuteOf(e.time) \in range
      /\ \A i \in Changed(sessions) :
            \A t \in Window(sessions[i], clock) : MinuteOf(t) \in range
  BY RangeReaches
<1> HIDE DEF range
<1>4. /\ clock' = clock /\ sessions' = sessions /\ arrived' = arrived /\ deleted' = deleted
      /\ stepped' = stepped /\ seen' = seen /\ batch' = batch
      /\ minutes' = minutes /\ rows' = rows /\ built' = built
  BY <1>1 DEF source, stream, gold
<1>5. Sane' /\ RowsFit' /\ MinutesFit'
  BY <1>2, <1>4 DEF Sane, RowsFit, MinutesFit, Counted, InRow
<1>6. Complete'
  <2>1. Finished' \subseteq Finished
    BY <1>2, <1>4 DEF Finished
  <2> QED
    BY <1>4, <2>1 DEF Complete, Counted, InRow
<1>7. Written'
  BY <1>2 DEF Written
<1>8. sessions \in Seq(Session) /\ clock \in 0..MaxTime /\ clock \in Nat /\ clock \in Int
  BY BoundsAre DEF TypeInv, TypeOK
<1>9. Settling' \subseteq arrived
  BY <1>2, <1>4 DEF Settling, TypeInv, TypeOK
<1>10. ReadSessions'
  <2>1. \A i \in DOMAIN sessions :
           EffectiveEnd(sessions[i], clock) <= EffectiveEnd(sessions[i], clock)
    BY <1>8, SessionNumbers
  <2>2. clock \in 0..clock
    BY <1>8
  <2>3. refresh'.refreshed \subseteq DOMAIN sessions
    BY <1>2 DEF Refreshed, Changed, Overlapping
  <2> QED
    BY <1>2, <1>4, <1>8, <2>1, <2>2, <2>3 DEF ReadSessions
<1>11. ReadAll'
  <2>1. \A i \in DOMAIN rows : i \in DOMAIN sessions
                               /\ rows[i].until <= EffectiveEnd(sessions[i], clock)
    BY DEF RowsFit, TypeInv, TypeOK
  <2>2. \A e \in Settling' : e.time < clock
    BY <1>9 DEF Sane
  <2> QED
    BY <1>2, <1>4, <2>1, <2>2 DEF ReadAll, MinutesFit
<1>12. RefreshAll'
  <2>1. whole => Settling' \ deleted \subseteq silver
    BY <1>9 DEF silver
  <2>2. whole /\ by # "operator" => DOMAIN rows = {}
    BY DEF Sane
  <2>3. silver' = silver
    BY <1>4 DEF silver
  <2> QED
    BY <1>2, <1>4, <2>1, <2>2, <2>3 DEF RefreshAll
<1>13. RefreshRange'
  <2> SUFFICES ASSUME ~whole
      PROVE  /\ by = "stream" => \A e \in batch : MinuteOf(e.time) \in range
             /\ \A i \in Changed(sessions) :
                   \A t \in Window(sessions[i], clock) : MinuteOf(t) \in range
             /\ \A i \in DOMAIN sessions \ Refreshed(range, sessions, clock) :
                   /\ i \notin Changed(sessions) /\ sessions[i].end # Open
                   /\ \A t \in Window(sessions[i], clock) : MinuteOf(t) \notin range
    <3>1. Changed(sessions)' = Changed(sessions)
      BY <1>4 DEF Changed, Recorded
    <3>2. Changed(refresh.sessions)' = Changed(sessions)
      BY <1>2, <1>4 DEF Changed, Recorded
    <3> QED
      BY <1>2, <1>4, <3>2 DEF RefreshRange
  <2>1. ASSUME NEW i \in DOMAIN sessions \ Refreshed(range, sessions, clock),
               NEW t \in Window(sessions[i], clock), MinuteOf(t) \in range
        PROVE  FALSE
    <3>1. i \in Overlapping(range, sessions, clock)
      BY <1>3, <1>8, <2>1, RangeMeets
    <3> QED
      BY <2>1, <3>1 DEF Refreshed
  <2>2. ASSUME NEW i \in DOMAIN sessions \ Refreshed(range, sessions, clock)
        PROVE  i \notin Changed(sessions) /\ sessions[i].end # Open
    BY DEF Refreshed
  <2> QED
    BY <1>3, <2>1, <2>2
<1> QED
  BY <1>5, <1>6, <1>7, <1>10, <1>11, <1>12, <1>13 DEF ExactInv, ReadFits

-----------------------------------------------------------------------------
(* What a refresh writes.                                                   *)

\* What is assigned: every event once at least, and to all that hold it.
LEMMA AssignedAll ==
    ASSUME NEW ss, DOMAIN ss \subseteq Nat \ {0}, NEW now, NEW events
    PROVE  /\ \A m \in Assigned(events, ss, now) :
                 /\ m.event \in events
                 /\ m.session # NoSession =>
                       m.session \in DOMAIN ss /\ Holds(ss[m.session], now, m.event)
           /\ \A e \in events : \E m \in Assigned(events, ss, now) : m.event = e
           /\ \A e \in events : \A i \in DOMAIN ss :
                 Holds(ss[i], now, e) =>
                     \E m \in Assigned(events, ss, now) : m.event = e /\ m.session = i
<1>1. \A e \in events : \A i \in SessionsOf(e, ss, now) :
         [event |-> e, session |-> i] \in Assigned(events, ss, now)
  BY DEF Assigned
<1>2. ASSUME NEW m \in Assigned(events, ss, now)
      PROVE  /\ m.event \in events
             /\ m.session # NoSession =>
                   m.session \in DOMAIN ss /\ Holds(ss[m.session], now, m.event)
  <2>1. PICK e \in events : m \in {[event |-> e, session |-> i] : i \in SessionsOf(e, ss, now)}
    BY DEF Assigned
  <2>2. PICK i \in SessionsOf(e, ss, now) : m = [event |-> e, session |-> i]
    BY <2>1
  <2>3. i # NoSession => i \in Holding(e, ss, now)
    BY DEF SessionsOf
  <2> QED
    BY <2>2, <2>3 DEF Holding, Holds
<1>3. ASSUME NEW e \in events PROVE \E m \in Assigned(events, ss, now) : m.event = e
  <2>1. PICK i : i \in SessionsOf(e, ss, now)
    BY DEF SessionsOf
  <2>2. [event |-> e, session |-> i] \in Assigned(events, ss, now)
    BY <1>1, <2>1
  <2> QED
    BY <2>2
<1>4. ASSUME NEW e \in events, NEW i \in DOMAIN ss, Holds(ss[i], now, e)
      PROVE  \E m \in Assigned(events, ss, now) : m.event = e /\ m.session = i
  <2>1. i \in SessionsOf(e, ss, now)
    BY <1>4 DEF SessionsOf, Holding, Holds
  <2>2. [event |-> e, session |-> i] \in Assigned(events, ss, now)
    BY <1>1, <2>1
  <2> QED
    BY <2>2
<1> QED
  BY <1>2, <1>3, <1>4

\* The minutes are written.
LEMMA MinutesExact ==
    ASSUME TypeInv, Sane, RowsFit, MinutesFit, ReadFits, Complete, WriteMinutes
    PROVE  ExactInv'
<1> DEFINE ss == refresh.sessions
           now == refresh.now
           events == IF refresh.whole THEN refresh.pinned ELSE {e \in silver : InRange(e)}
           new == Assigned(events, ss, now)
<1>1. /\ refresh.phase = "minutes"
      /\ minutes' = {m \in minutes : ~InRange(m.event)} \cup new
      /\ refresh' = [refresh EXCEPT !.phase = "rows"]
      /\ UNCHANGED <<source, stream, rows, built>>
  BY DEF WriteMinutes
<1>2. /\ clock' = clock /\ sessions' = sessions /\ arrived' = arrived /\ deleted' = deleted
      /\ seen' = seen /\ batch' = batch /\ rows' = rows /\ built' = built
  BY <1>1 DEF source, stream
<1>3. refresh' = [phase |-> "rows", by |-> refresh.by, whole |-> refresh.whole,
                  sessions |-> refresh.sessions, now |-> refresh.now, range |-> refresh.range,
                  refreshed |-> refresh.refreshed, pinned |-> refresh.pinned]
  BY <1>1 DEF TypeInv, Reading
<1>4. /\ refresh'.phase = "rows" /\ refresh'.by = refresh.by /\ refresh'.whole = refresh.whole
      /\ refresh'.sessions = ss /\ refresh'.now = now /\ refresh'.range = refresh.range
      /\ refresh'.refreshed = refresh.refreshed
  BY <1>3
<1>5. ReadSessions /\ ReadAll /\ RefreshAll /\ RefreshRange
  BY <1>1 DEF ReadFits, Underway
<1>6. /\ ss \in Seq(Session) /\ now \in Int /\ clock \in Int /\ sessions \in Seq(Session)
      /\ DOMAIN ss \subseteq Nat \ {0}
  <2>1. ss \in Seq(Session) /\ now \in 0..clock
    BY <1>5 DEF ReadSessions
  <2>2. clock \in Int /\ sessions \in Seq(Session)
    BY DEF TypeInv, TypeOK
  <2> QED
    BY <2>1, <2>2
<1>7. /\ \A m \in new :
            /\ m.event \in events
            /\ m.session # NoSession =>
                  m.session \in DOMAIN ss /\ Holds(ss[m.session], now, m.event)
      /\ \A e \in events : \E m \in new : m.event = e
      /\ \A e \in events : \A i \in DOMAIN ss :
            Holds(ss[i], now, e) => \E m \in new : m.event = e /\ m.session = i
  <2> HIDE DEF events
  <2> QED
    BY <1>6, AssignedAll
\* What is written, what is kept, and what there was.
<1> HIDE DEF events, new
<1>8. /\ \A e \in events : \E m \in minutes' : m.event = e
      /\ \A e \in events : \A i \in DOMAIN ss : Holds(ss[i], now, e) => e \in Counted(i)'
  <2>1. \A e \in events : \E m \in minutes' : m.event = e
    BY <1>1, <1>7
  <2>2. ASSUME NEW e \in events, NEW i \in DOMAIN ss, Holds(ss[i], now, e)
        PROVE  e \in Counted(i)'
    <3>1. PICK m \in new : m.event = e /\ m.session = i
      BY <1>7, <2>2
    <3>2. m \in minutes'
      BY <1>1
    <3> QED
      BY <3>1, <3>2 DEF Counted
  <2> QED
    BY <2>1, <2>2
<1>9. /\ \A m \in minutes : ~InRange(m.event) => m \in minutes'
      /\ \A i : \A e \in Counted(i) : ~InRange(e) => e \in Counted(i)'
  BY <1>1 DEF Counted
<1>10. ASSUME NEW i, NEW e \in Counted(i)' PROVE e \in Counted(i) \/ e \in events
  <2>1. PICK m \in minutes' : m.event = e /\ m.session = i
    BY DEF Counted
  <2>2. m \in minutes => e \in Counted(i)
    BY <2>1 DEF Counted
  <2>3. m \in new => e \in events
    BY <1>7, <2>1
  <2> QED
    BY <1>1, <2>2, <2>3
\* What is in range and not deleted is written.
<1>11. /\ \A e \in Settling \ deleted : InRange(e) => e \in events
       /\ refresh.by = "operator" \/ ~refresh.whole =>
             \A e \in arrived \ deleted : InRange(e) => e \in events
       /\ refresh.by = "operator" \/ ~refresh.whole => \A e \in events : e \notin deleted
       /\ refresh.by # "operator" /\ refresh.whole => DOMAIN rows = {}
  <2>1. seen \subseteq arrived /\ batch \subseteq arrived
    BY DEF TypeInv, TypeOK
  <2>2. Settling \subseteq arrived
    BY <2>1 DEF Settling
  <2>3. CASE refresh.whole
    <3>1. /\ Settling \ deleted \subseteq refresh.pinned
          /\ refresh.by = "operator" => refresh.pinned = silver
          /\ refresh.by # "operator" => DOMAIN rows = {}
      BY <1>1, <1>5, <2>3 DEF RefreshAll
    <3> QED
      BY <2>3, <3>1 DEF silver, events
  <2>4. CASE ~refresh.whole
    BY <2>2, <2>4 DEF silver, events
  <2> QED
    BY <2>3, <2>4
<1>12. Sane'
  BY <1>2, <1>4 DEF Sane
<1>13. ASSUME NEW m \in minutes', m.session # NoSession
       PROVE  m.session \in DOMAIN ss /\ Holds(ss[m.session], now, m.event)
  <2>1. CASE m \in minutes
    BY <1>5, <1>13, <2>1 DEF ReadAll
  <2>2. CASE m \in new
    BY <1>7, <1>13, <2>2
  <2> QED
    BY <1>1, <2>1, <2>2
<1>14. MinutesFit'
  <2> SUFFICES ASSUME NEW m \in minutes', m.session # NoSession
      PROVE  m.session \in DOMAIN sessions /\ Holds(sessions[m.session], clock, m.event)
    BY <1>2 DEF MinutesFit
  <2> DEFINE i == m.session
  <2>1. i \in DOMAIN ss /\ Holds(ss[i], now, m.event)
    BY <1>13
  <2>2. /\ i \in DOMAIN sessions /\ ss[i].start = sessions[i].start
        /\ EffectiveEnd(ss[i], now) <= EffectiveEnd(sessions[i], clock)
    BY <1>5, <2>1 DEF ReadSessions
  <2>3. EffectiveEnd(ss[i], now) \in Int /\ EffectiveEnd(sessions[i], clock) \in Int
    BY <1>6, <2>1, <2>2, SessionNumbers
  <2>4. m.event.time \in Int
    <3>1. m.event \in arrived
      <4>1. m \in new => m.event \in events
        BY <1>7
      <4>2. events \subseteq arrived
        BY DEF events, silver, TypeInv, Reading
      <4>3. m \in minutes => m.event \in arrived
        BY DEF TypeInv, TypeOK
      <4> QED
        BY <1>1, <4>1, <4>2, <4>3
    <3> QED
      BY <3>1, EventTimes
  <2> QED
    BY <2>1, <2>2, <2>3, <2>4 DEF Holds
<1>15. RowsFit'
  <2> SUFFICES ASSUME NEW i \in DOMAIN rows, NEW e \in rows[i].events, e \notin Counted(i)',
                      e \notin deleted
      PROVE  FALSE
    BY <1>2 DEF RowsFit, InRow
  <2>1. e \in Counted(i) /\ InRow(i, e)
    BY DEF RowsFit
  <2>2. InRange(e)
    BY <1>9, <2>1
  <2>3. e \in arrived
    BY DEF TypeInv, TypeOK
  <2>4. e \in events
    BY <1>11, <2>2, <2>3
  <2>5. i \in DOMAIN ss /\ Holds(ss[i], now, e)
    <3>1. /\ i \in DOMAIN ss /\ rows[i].until <= EffectiveEnd(ss[i], now)
          /\ rows[i].until \in Int /\ rows[i].start = sessions[i].start
      BY <1>5 DEF ReadAll, RowsFit
    <3>2. ss[i].start = sessions[i].start
      BY <1>5, <3>1 DEF ReadSessions
    <3>3. EffectiveEnd(ss[i], now) \in Int /\ e.time \in Int
      BY <1>6, <2>3, <3>1, SessionNumbers, EventTimes
    <3> QED
      BY <2>1, <3>1, <3>2, <3>3 DEF InRow, Holds
  <2> QED
    BY <1>8, <2>4, <2>5
<1>16. ReadFits'
  <2>1. Settling' = Settling
    BY <1>2, <1>4 DEF Settling
  <2>2. ReadSessions'
    BY <1>2, <1>4, <1>5 DEF ReadSessions
  <2>3. ReadAll'
    BY <1>2, <1>4, <1>5, <1>13, <2>1 DEF ReadAll
  <2>4. RefreshAll'
    BY <1>2, <1>4, <1>5 DEF RefreshAll
  <2>5. RefreshRange'
    <3>1. Changed(refresh.sessions)' = Changed(ss)
      BY <1>2, <1>4 DEF Changed, Recorded
    <3> QED
      BY <1>2, <1>4, <1>5, <3>1 DEF RefreshRange
  <2> QED
    BY <2>2, <2>3, <2>4, <2>5 DEF ReadFits
<1>17. Complete'
  <2>1. Finished' = seen /\ Finished = seen
    BY <1>1, <1>2, <1>4 DEF Finished
  <2> SUFFICES ASSUME NEW e \in seen
      PROVE  /\ e \in deleted \/ \E m \in minutes' : m.event = e
             /\ \A i \in DOMAIN rows :
                   /\ rows[i].end = Open => e.time < rows[i].until
                   /\ InRow(i, e) /\ (e \notin deleted \/ e \in Counted(i)') => e \in rows[i].events
    BY <1>2, <2>1 DEF Complete, InRow
  <2>2. /\ e \in deleted \/ \E m \in minutes : m.event = e
        /\ \A i \in DOMAIN rows :
              /\ rows[i].end = Open => e.time < rows[i].until
              /\ InRow(i, e) /\ (e \notin deleted \/ e \in Counted(i)) => e \in rows[i].events
    BY <2>1 DEF Complete
  <2>3. e \in deleted \/ \E m \in minutes' : m.event = e
    <3>1. e \in Settling
      BY DEF Settling
    <3> QED
      BY <1>8, <1>9, <1>11, <2>2, <3>1
  <2>4. ASSUME NEW i \in DOMAIN rows, InRow(i, e), e \in deleted, e \in Counted(i)'
        PROVE  e \in Counted(i)
    BY <1>10, <1>11, <2>4
  <2> QED
    BY <2>2, <2>3, <2>4
<1>18. Written'
  <2>1. Settling' = Settling
    BY <1>2, <1>4 DEF Settling
  <2> SUFFICES ASSUME NEW e \in Settling \ deleted
      PROVE  /\ \E m \in minutes' : m.event = e
             /\ \A i \in refresh.refreshed : Holds(ss[i], now, e) => e \in Counted(i)'
    BY <1>2, <1>4, <2>1 DEF Written
  <2>2. refresh.refreshed \subseteq DOMAIN ss
    BY <1>5 DEF ReadSessions
  <2>3. CASE InRange(e)
    BY <1>8, <1>11, <2>2, <2>3
  <2>4. CASE ~InRange(e)
    <3>1. ~refresh.whole /\ MinuteOf(e.time) \notin refresh.range
      BY <2>4 DEF InRange
    <3>2. e \in seen
      BY <1>5, <3>1 DEF Settling, RefreshRange
    <3>3. e \in Finished
      BY <3>2 DEF Finished
    <3>4. \E m \in minutes' : m.event = e
      BY <1>9, <2>4, <3>3 DEF Complete
    <3>5. ASSUME NEW i \in refresh.refreshed, Holds(ss[i], now, e)
          PROVE  e \in Counted(i)'
      <4>1. e.time \in Int
        BY <3>2, EventTimes DEF TypeInv, TypeOK
      <4>2. ss[i].start \in Int /\ EffectiveEnd(ss[i], now) \in Int
        <5>1. i \in DOMAIN ss
          BY <2>2
        <5>2. ss[i].start \in 0..MaxTime
          BY <1>6, <5>1, SessionNumbers
        <5>3. EffectiveEnd(ss[i], now) \in Int
          BY <1>6, <5>1, SessionNumbers
        <5> QED
          BY <5>2, <5>3
      <4>3. i \notin Changed(ss)
        <5>1. e.time \in Window(ss[i], now)
          BY <3>5, <4>1, <4>2 DEF Holds, Window
        <5> QED
          BY <1>5, <3>1, <5>1 DEF RefreshRange
      <4>4. i \in DOMAIN rows
        BY <2>2, <4>3 DEF Changed, Recorded
      <4>5. /\ rows[i].end # Open => rows[i].until = rows[i].end
            /\ rows[i].end = Open => e.time < rows[i].until
        BY <3>3, <4>4 DEF RowsFit, Complete
      <4>6. InRow(i, e)
        BY <1>6, <2>2, <3>5, <4>1, <4>3, <4>5, RowCovers
      <4>7. e \in rows[i].events
        BY <3>3, <4>4, <4>6 DEF Complete
      <4>8. e \in Counted(i)
        BY <4>4, <4>7 DEF RowsFit
      <4> QED
        BY <1>9, <2>4, <4>8
    <3> QED
      BY <3>4, <3>5
  <2> QED
    BY <2>3, <2>4
<1> QED
  BY <1>12, <1>14, <1>15, <1>16, <1>17, <1>18 DEF ExactInv

\* The rows are written.
LEMMA RowsExact ==
    ASSUME TypeInv, Sane, RowsFit, MinutesFit, ReadFits, Complete, Written, WriteRows
    PROVE  ExactInv'
<1> DEFINE ss == refresh.sessions
           now == refresh.now
<1>1. /\ refresh.phase = "rows"
      /\ DOMAIN rows' = refresh.refreshed \cup (IF refresh.whole THEN {} ELSE DOMAIN rows)
      /\ \A i \in refresh.refreshed : rows'[i] = SessionRow(i, ss[i], now, minutes)
      /\ \A i \in DOMAIN rows' \ refresh.refreshed : rows'[i] = rows[i]
      /\ built' = TRUE
      /\ UNCHANGED <<source, stream, minutes>>
  BY DEF WriteRows
<1>2. /\ clock' = clock /\ sessions' = sessions /\ arrived' = arrived /\ deleted' = deleted
      /\ seen' = seen /\ batch' = batch /\ minutes' = minutes
  BY <1>1 DEF source, stream
<1>3. /\ refresh.by = "stream" => refresh'.phase = "commit" /\ refresh'.by = "stream"
      /\ refresh.by # "stream" => refresh'.phase = "idle" /\ refresh'.by = "nobody"
  BY DEF WriteRows, Idle
<1>4. ReadSessions /\ ReadAll /\ RefreshAll /\ RefreshRange
  BY <1>1 DEF ReadFits, Underway
<1>5. /\ ss \in Seq(Session) /\ now \in Int /\ clock \in Int /\ sessions \in Seq(Session)
      /\ DOMAIN ss \subseteq DOMAIN sessions /\ DOMAIN ss \subseteq Nat \ {0}
      /\ refresh.refreshed \subseteq DOMAIN ss
  <2>1. /\ ss \in Seq(Session) /\ now \in 0..clock /\ DOMAIN ss \subseteq DOMAIN sessions
        /\ refresh.refreshed \subseteq DOMAIN ss
    BY <1>4 DEF ReadSessions
  <2>2. clock \in Int /\ sessions \in Seq(Session)
    BY DEF TypeInv, TypeOK
  <2> QED
    BY <2>1, <2>2
<1>6. \A i : Counted(i)' = Counted(i)
  BY <1>2 DEF Counted
<1>7. /\ Finished = seen /\ Finished' = Settling
  BY <1>1, <1>2, <1>3 DEF Finished, Settling
<1>8. \A i \in refresh.refreshed :
         /\ rows'[i].start = ss[i].start /\ rows'[i].end = ss[i].end
         /\ rows'[i].until = EffectiveEnd(ss[i], now) /\ rows'[i].events = Counted(i)
  <2> TAKE i \in refresh.refreshed
  <2>1. rows'[i] = [start |-> ss[i].start, end |-> ss[i].end, until |-> EffectiveEnd(ss[i], now),
                    events |-> Counted(i)]
    <3>1. SessionRow(i, ss[i], now, minutes)
            = [start |-> ss[i].start, end |-> ss[i].end, until |-> EffectiveEnd(ss[i], now),
               events |-> Counted(i)]
      BY DEF SessionRow, Counted
    <3> QED
      BY <1>1, <3>1
  <2> QED
    BY <2>1
\* A row that is left alone is the row of an unchanged, closed session.
<1>9. ASSUME NEW i \in DOMAIN rows', i \notin refresh.refreshed
      PROVE  /\ ~refresh.whole /\ i \in DOMAIN rows /\ rows'[i] = rows[i]
             /\ i \in DOMAIN ss
             /\ rows[i].start = ss[i].start /\ rows[i].end = ss[i].end /\ rows[i].end # Open
             /\ rows[i].until = EffectiveEnd(ss[i], now)
             /\ \A t \in Window(ss[i], now) : MinuteOf(t) \notin refresh.range
  <2>1. ~refresh.whole /\ i \in DOMAIN rows /\ rows'[i] = rows[i]
    BY <1>1, <1>9
  <2>2. i \in DOMAIN ss
    BY <1>4, <2>1 DEF ReadAll
  <2>3. /\ i \notin Changed(ss) /\ ss[i].end # Open
        /\ \A t \in Window(ss[i], now) : MinuteOf(t) \notin refresh.range
    BY <1>4, <1>9, <2>1, <2>2 DEF RefreshRange
  <2>4. rows[i].start = ss[i].start /\ rows[i].end = ss[i].end
    BY <2>2, <2>3 DEF Changed, Recorded
  <2>5. rows[i].until = EffectiveEnd(ss[i], now)
    BY <2>1, <2>3, <2>4 DEF RowsFit, EffectiveEnd
  <2> QED
    BY <2>1, <2>2, <2>3, <2>4, <2>5
<1>10. Sane'
  BY <1>1, <1>2, <1>3 DEF Sane
<1>11. RowsFit'
  <2> SUFFICES ASSUME NEW i \in DOMAIN rows'
      PROVE  /\ rows'[i].start = sessions[i].start
             /\ rows'[i].until \in Int /\ rows'[i].until <= EffectiveEnd(sessions[i], clock)
             /\ rows'[i].end # Open => rows'[i].until = rows'[i].end
             /\ \A e \in rows'[i].events : InRow(i, e)'
             /\ rows'[i].events \ Counted(i) \subseteq deleted
    BY <1>2, <1>6 DEF RowsFit
  <2>1. CASE i \in refresh.refreshed
    <3>1. /\ i \in DOMAIN ss /\ ss[i].start = sessions[i].start
          /\ EffectiveEnd(ss[i], now) <= EffectiveEnd(sessions[i], clock)
      BY <1>4, <1>5, <2>1 DEF ReadSessions
    <3>2. EffectiveEnd(ss[i], now) \in Int
      BY <1>5, <3>1, SessionNumbers
    <3>3. ASSUME NEW e \in Counted(i) PROVE InRow(i, e)'
      <4>1. PICK m \in minutes : m.event = e /\ m.session = i
        BY DEF Counted
      <4>2. Holds(ss[i], now, e)
        BY <1>4, <1>5, <3>1, <4>1 DEF ReadAll, NoSession
      <4> QED
        BY <1>8, <2>1, <4>2 DEF Holds, InRow
    <3>4. rows'[i].end # Open => rows'[i].until = rows'[i].end
      BY <1>8, <2>1 DEF EffectiveEnd
    <3> QED
      BY <1>8, <2>1, <3>1, <3>2, <3>3, <3>4
  <2>2. CASE i \notin refresh.refreshed
    <3>1. i \in DOMAIN rows /\ rows'[i] = rows[i]
      BY <1>9, <2>2
    <3> QED
      BY <3>1 DEF RowsFit, InRow
  <2> QED
    BY <2>1, <2>2
<1>12. MinutesFit'
  BY <1>2 DEF MinutesFit
<1>13. ReadFits' /\ Written'
  BY <1>3 DEF ReadFits, Underway, Written
<1>14. Complete'
  <2> SUFFICES ASSUME NEW e \in Settling
      PROVE  /\ e \in deleted \/ \E m \in minutes : m.event = e
             /\ \A i \in DOMAIN rows' :
                   /\ rows'[i].end = Open => e.time < rows'[i].until
                   /\ InRow(i, e)' /\ (e \notin deleted \/ e \in Counted(i))
                      => e \in rows'[i].events
    BY <1>2, <1>6, <1>7 DEF Complete
  <2>1. e \in deleted \/ \E m \in minutes : m.event = e
    BY <1>1 DEF Written
  <2>2. ASSUME NEW i \in refresh.refreshed
        PROVE  /\ rows'[i].end = Open => e.time < rows'[i].until
               /\ InRow(i, e)' /\ (e \notin deleted \/ e \in Counted(i)) => e \in rows'[i].events
    <3>1. rows'[i].end = Open => e.time < rows'[i].until
      BY <1>4, <1>8 DEF ReadAll, EffectiveEnd
    <3>2. InRow(i, e)' => Holds(ss[i], now, e)
      BY <1>8 DEF InRow, Holds
    <3>3. e \notin deleted /\ Holds(ss[i], now, e) => e \in Counted(i)
      BY <1>1 DEF Written
    <3> QED
      BY <1>8, <3>1, <3>2, <3>3
  <2>3. ASSUME NEW i \in DOMAIN rows', i \notin refresh.refreshed
        PROVE  /\ rows'[i].end = Open => e.time < rows'[i].until
               /\ InRow(i, e)' /\ (e \notin deleted \/ e \in Counted(i)) => e \in rows'[i].events
    <3>1. i \in DOMAIN rows /\ rows'[i] = rows[i] /\ rows'[i].end # Open
      BY <1>9, <2>3
    <3>2. CASE e \in seen
      BY <1>7, <3>1, <3>2 DEF Complete, InRow
    <3>3. CASE e \notin seen
      <4>1. e \in batch /\ refresh.by = "stream"
        BY <3>3 DEF Settling
      <4>2. MinuteOf(e.time) \in refresh.range
        BY <1>4, <1>9, <2>3, <4>1 DEF RefreshRange
      <4>3. ~InRow(i, e)'
        <5> SUFFICES ASSUME InRow(i, e)' PROVE FALSE
          OBVIOUS
        <5>1. e.time \in Int
          BY <4>1, EventTimes DEF TypeInv, TypeOK
        <5>2. i \in DOMAIN ss
          BY <1>9, <2>3
        <5>3. ss[i].start \in 0..MaxTime /\ EffectiveEnd(ss[i], now) \in Int
          BY <1>5, <5>2, SessionNumbers
        <5>4. ss[i].start <= e.time /\ e.time < EffectiveEnd(ss[i], now)
          BY <1>9, <2>3, <3>1 DEF InRow
        <5>5. e.time \in Window(ss[i], now)
          <6>1. ss[i].start \in Int
            BY <5>3
          <6> QED
            BY <5>1, <5>3, <5>4, <6>1 DEF Window
        <5> QED
          BY <1>9, <2>3, <4>2, <5>5
      <4> QED
        BY <3>1, <4>3
    <3> QED
      BY <3>2, <3>3
  <2> QED
    BY <2>1, <2>2, <2>3
<1> QED
  BY <1>10, <1>11, <1>12, <1>13, <1>14 DEF ExactInv

-----------------------------------------------------------------------------
\* The Collector opens, closes or resumes a session: no window shrinks.
LEMMA SessionsExact ==
    ASSUME TypeInv, TypeInv', Sane, RowsFit, MinutesFit, ReadFits, Complete, Written,
           OpenSession \/ CloseSession \/ ResumeSession
    PROVE  ExactInv'
<1>1. UNCHANGED <<clock, arrived, deleted, stepped, stream, gold, refresh>>
  BY DEF OpenSession, CloseSession, ResumeSession
<1>2. /\ clock \in Nat /\ clock \in Int /\ sessions \in Seq(Session) /\ sessions' \in Seq(Session)
  BY BoundsAre DEF TypeInv, TypeOK
<1>3. \A i \in DOMAIN sessions : sessions[i].end <= clock
  BY DEF Sane
<1>4. /\ DOMAIN sessions \subseteq DOMAIN sessions'
      /\ \A i \in DOMAIN sessions' :
            \/ i \in DOMAIN sessions /\ sessions'[i] = sessions[i]
            \/ i \notin DOMAIN sessions /\ sessions'[i].end = Open
            \/ /\ i \in DOMAIN sessions /\ sessions'[i].start = sessions[i].start
               /\ sessions'[i].end \in {clock, Open}
  <2>1. CASE OpenSession
    <3>1. sessions' = Append(sessions, [start |-> clock, end |-> Open])
      BY <2>1 DEF OpenSession
    <3>2. [start |-> clock, end |-> Open].end = Open
      OBVIOUS
    <3> QED
      BY <1>2, <3>1, <3>2
  <2>2. CASE CloseSession \/ ResumeSession
    <3> DEFINE n == Len(sessions)
    <3>1. PICK x \in {clock, Open} : sessions' = [sessions EXCEPT ![n].end = x]
      BY <2>2 DEF CloseSession, ResumeSession
    <3>2. /\ DOMAIN sessions' = DOMAIN sessions
          /\ \A i \in DOMAIN sessions : i # n => sessions'[i] = sessions[i]
          /\ n \in DOMAIN sessions => sessions'[n] = [sessions[n] EXCEPT !.end = x]
      BY <1>2, <3>1
    <3>3. n \in DOMAIN sessions => sessions'[n].start = sessions[n].start /\ sessions'[n].end = x
      <4>1. n \in DOMAIN sessions => sessions[n] \in Session
        BY <1>2
      <4> QED
        BY <3>2, <4>1 DEF Session
    <3> QED
      BY <3>2, <3>3
  <2> QED
    BY <2>1, <2>2
<1>5. \A i \in DOMAIN sessions :
         /\ sessions'[i].start = sessions[i].start
         /\ EffectiveEnd(sessions[i], clock) <= EffectiveEnd(sessions'[i], clock')
  <2> TAKE i \in DOMAIN sessions
  <2>1. clock' = clock
    BY <1>1
  <2>2. EffectiveEnd(sessions[i], clock) <= clock /\ EffectiveEnd(sessions[i], clock) \in Int
    BY <1>2, <1>3, SessionNumbers DEF EffectiveEnd
  <2>3. CASE sessions'[i] = sessions[i]
    BY <2>1, <2>2, <2>3
  <2>4. CASE sessions'[i].start = sessions[i].start /\ sessions'[i].end \in {clock, Open}
    BY <2>1, <2>2, <2>4 DEF EffectiveEnd
  <2> QED
    BY <1>4, <2>3, <2>4
<1>6. Sane'
  <2>1. \A i \in DOMAIN sessions' : sessions'[i].end <= clock
    BY <1>2, <1>3, <1>4 DEF Open
  <2> QED
    BY <1>1, <2>1 DEF Sane, stream, gold
<1>7. UNCHANGED <<gold, refresh, seen>> /\ batch' = batch /\ deleted' = deleted /\ silver' = silver
  BY <1>1 DEF stream, silver
<1>8. clock' = clock /\ clock <= clock'
  BY <1>1, <1>2
<1> QED
  BY <1>2, <1>4, <1>5, <1>6, <1>7, <1>8, WorldExact

\* The other steps around Gold: the clock, Silver, and the plan of a batch.
LEMMA SourceExact ==
    ASSUME TypeInv, TypeInv', Sane, RowsFit, MinutesFit, ReadFits, Complete, Written,
           Tick \/ InsertEvent \/ DeleteEvent \/ PlanBatch
    PROVE  ExactInv'
<1>1. UNCHANGED <<sessions, gold, refresh, seen>>
  BY DEF Tick, InsertEvent, DeleteEvent, PlanBatch, stream, source
<1>2. /\ clock \in Nat /\ clock \in Int /\ clock' \in Int
      /\ sessions \in Seq(Session) /\ sessions' = sessions
  BY <1>1, BoundsAre DEF TypeInv, TypeOK
<1>3. clock <= clock' /\ (clock' = clock \/ Tick)
  BY <1>2 DEF Tick, InsertEvent, DeleteEvent, PlanBatch, source
<1>4. /\ batch' = batch \/ (batch = {} /\ PlanBatch)
      /\ deleted \subseteq deleted'
      /\ refresh.by = "operator" => silver' = silver
  BY DEF Tick, InsertEvent, DeleteEvent, PlanBatch, source, stream, silver, SilverRuns
<1>5. \A i \in DOMAIN sessions :
         EffectiveEnd(sessions[i], clock) <= EffectiveEnd(sessions[i], clock')
  <2> TAKE i \in DOMAIN sessions
  <2>1. sessions[i].end \in Int
    BY <1>2, SessionNumbers
  <2> QED
    BY <1>2, <1>3, <2>1 DEF EffectiveEnd
<1>6. Sane'
  <2>1. \A i \in DOMAIN sessions' : sessions'[i].end <= clock'
    <3> TAKE i \in DOMAIN sessions'
    <3>1. sessions[i].end \in Int /\ sessions[i].end <= clock
      BY <1>2, SessionNumbers DEF Sane
    <3> QED
      BY <1>2, <1>3, <3>1
  <2>2. \A e \in arrived' : e.time < clock'
    <3>1. \A e \in arrived : e.time \in Int /\ e.time < clock
      BY EventTimes DEF Sane
    <3>2. CASE InsertEvent
      <4>1. PICK t \in 0..(clock - 1) :
               arrived' = arrived \cup {[id |-> Cardinality(arrived) + 1, time |-> t]}
        BY <3>2 DEF InsertEvent
      <4>2. [id |-> Cardinality(arrived) + 1, time |-> t].time < clock
        BY <1>2
      <4>3. clock' = clock
        BY <3>2 DEF InsertEvent
      <4> QED
        BY <3>1, <4>1, <4>2, <4>3
    <3>3. CASE arrived' = arrived
      BY <1>2, <1>3, <3>1, <3>3
    <3> QED
      BY <3>2, <3>3 DEF Tick, DeleteEvent, PlanBatch, source
  <2>3. refresh.by = "stream" => batch' # {}
    BY <1>4 DEF Sane
  <2> QED
    BY <1>1, <2>1, <2>2, <2>3 DEF Sane, gold
<1> QED
  BY <1>1, <1>2, <1>3, <1>4, <1>5, <1>6, WorldExact

LEMMA StepExact == TypeInv /\ TypeInv' /\ ExactInv /\ [Next]_vars => ExactInv'
<1> SUFFICES ASSUME TypeInv, TypeInv', ExactInv, [Next]_vars, ~stepped' PROVE ExactInv'
  BY DEF ExactInv
<1>1. ~StepBack
  BY DEF StepBack
<1>2. ~stepped
  BY <1>1 DEF Next, Tick, OpenSession, CloseSession, ResumeSession, InsertEvent, DeleteEvent,
              PlanBatch, BeginBatch, BeginTimer, BeginFull, Begin, WriteMinutes, WriteRows,
              CommitBatch, Crash, source, vars
<1>3. Sane /\ RowsFit /\ MinutesFit /\ ReadFits /\ Complete /\ Written
  BY <1>2 DEF ExactInv
<1>4. batch \subseteq arrived
  BY DEF TypeInv, TypeOK
<1>5. CASE Tick \/ InsertEvent \/ DeleteEvent \/ PlanBatch
  BY <1>3, <1>5, SourceExact
<1>6. CASE OpenSession \/ CloseSession \/ ResumeSession
  BY <1>3, <1>6, SessionsExact
<1>7. CASE BeginBatch
  <2>1. batch # {} /\ Begin("stream", batch, ~built)
    BY <1>7 DEF BeginBatch
  <2> QED
    BY <1>3, <1>4, <2>1, BeginExact
<1>8. CASE BeginTimer
  <2>1. Begin("timer", {}, ~built)
    BY <1>8 DEF BeginTimer
  <2> QED
    BY <1>3, <2>1, BeginExact
<1>9. CASE BeginFull
  <2>1. Begin("operator", {}, TRUE)
    BY <1>9 DEF BeginFull
  <2> QED
    BY <1>3, <2>1, BeginExact
<1>10. CASE WriteMinutes
  BY <1>3, <1>10, MinutesExact
<1>11. CASE WriteRows
  BY <1>3, <1>11, RowsExact
<1>12. CASE CommitBatch \/ Crash
  BY <1>3, <1>12, IdleExact
<1>13. CASE UNCHANGED vars
  BY <1>13 DEF vars, source, stream, gold, ExactInv, Sane, RowsFit, MinutesFit, ReadFits,
               Complete, Written, Underway, ReadSessions, ReadAll, RefreshAll, RefreshRange,
               Finished, Settling, Counted, InRow, Changed, Recorded, silver
<1> QED
  BY <1>1, <1>5, <1>6, <1>7, <1>8, <1>9, <1>10, <1>11, <1>12, <1>13 DEF Next

LEMMA ExactHolds == Spec => [](TypeInv /\ ExactInv)
<1>1. TypeInv /\ ExactInv /\ [Next]_vars => (TypeInv /\ ExactInv)'
  BY StepTyped, StepExact
<1> QED
  BY InitTyped, InitExact, <1>1, PTL DEF Spec

(* The minute rows are those of a full recomputation, but for what is still *)
(* to come, for any number of events and sessions, whoever refreshes and    *)
(* whenever the process dies, while the clock goes forward (widen_ranges,   *)
(* refresh, changed_sessions).                                              *)
THEOREM MinutesFollowSilver == Spec => []MinutesAreExact
BY ExactHolds, ExactMinutes, PTL

(* A session row and the minute rows of its session count the same events,  *)
(* but for what Silver has deleted, what is not yet refreshed, and what     *)
(* belongs to a changed session (overlapping, refresh).                     *)
THEOREM SessionRowsFollow == Spec => []RowsFollowMinutes
BY ExactHolds, RowsFollow, PTL
=============================================================================
