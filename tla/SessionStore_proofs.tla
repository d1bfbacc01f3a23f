------------------------ MODULE SessionStore_proofs ------------------------
(***************************************************************************)
(* The timeline of every channel, for any number of rows, channels,        *)
(* broadcasts and clock values: the lemmas of MonitoringSessions_proofs    *)
(* lifted to the specification of the store.                               *)
(***************************************************************************)
EXTENDS SessionStore, MonitoringSessions_proofs

\* The invariant is Timeline for each channel.
LEMMA InvIsTimeline ==
    TimelineInv <=> /\ clock \in Nat
                    /\ sessions \in [Channels -> Seq(Session)]
                    /\ \A c \in Channels : Timeline(sessions[c], clock)
BY DEF TimelineInv, TypeOK, OnlyNewestOpen, NoOverlap, BroadcastNotSplit, Timeline

LEMMA InitInv == Init => TimelineInv
<1> SUFFICES ASSUME Init PROVE TimelineInv
  OBVIOUS
<1>1. Timeline(<<>>, clock)
  BY DEF Timeline, ClosedButNewest, InThePast, InOrder, NeighboursDiffer
<1> QED
  BY <1>1, InvIsTimeline DEF Init

\* A step that gives channel c new rows with a timeline keeps the invariant.
LEMMA UpdateInv ==
    ASSUME TimelineInv, NEW c \in Channels, NEW rows, Timeline(rows, clock),
           sessions' = [sessions EXCEPT ![c] = rows], clock' = clock
    PROVE  TimelineInv'
<1>1. sessions' \in [Channels -> Seq(Session)]
  BY DEF TimelineInv, TypeOK, Timeline
<1>2. \A d \in Channels : Timeline(sessions'[d], clock)
  BY InvIsTimeline
<1>3. /\ clock' \in Nat
      /\ sessions' \in [Channels -> Seq(Session)]
      /\ \A d \in Channels : Timeline(sessions'[d], clock')
  BY <1>1, <1>2, InvIsTimeline
<1> QED
  BY <1>3 DEF TimelineInv, TypeOK, OnlyNewestOpen, NoOverlap, BroadcastNotSplit, Timeline

LEMMA StepInv == TimelineInv /\ [Next]_vars => TimelineInv'
<1> SUFFICES ASSUME TimelineInv, [Next]_vars PROVE TimelineInv'
  OBVIOUS
<1>1. clock \in Nat /\ \A c \in Channels : Timeline(sessions[c], clock)
  BY InvIsTimeline
<1>2. ASSUME NEW c \in Channels, NEW live \in LiveIds \cup {NULL}, StartSession(c, live)
      PROVE  TimelineInv'
  BY <1>1, <1>2, StartKeepsTimeline, UpdateInv DEF StartSession
<1>3. ASSUME NEW c \in Channels, NEW why \in StopReasons, FinishSession(c, why)
      PROVE  TimelineInv'
  BY <1>1, <1>3, FinishKeepsTimeline, UpdateInv DEF FinishSession
<1>4. CASE Tick
  <2>1. clock' \in Nat /\ \A c \in Channels : Timeline(sessions'[c], clock')
    BY <1>1, <1>4, TimeKeepsTimeline DEF Tick
  <2> QED
    BY <1>4, <2>1 DEF Tick, TimelineInv, TypeOK, OnlyNewestOpen, NoOverlap,
                      BroadcastNotSplit, Timeline
<1>5. CASE UNCHANGED vars
  BY <1>5 DEF vars, TimelineInv, TypeOK, OnlyNewestOpen, NoOverlap, BroadcastNotSplit
<1> QED
  BY <1>2, <1>3, <1>4, <1>5 DEF Next

\* In every reachable state the rows of every channel are typed, closed but for the
\* newest, ordered without overlap, and never split a broadcast between neighbours.
THEOREM TimelineHolds == Spec => []TimelineInv
  BY InitInv, StepInv, PTL DEF Spec

\* The part Gold depends on: read_sessions never finds two overlapping sessions.
THEOREM SessionsDoNotOverlap == Spec => []NoOverlap
<1>1. TimelineInv => NoOverlap
  BY DEF TimelineInv
<1> QED
  BY <1>1, TimelineHolds, PTL

\* Rows and clock keep their types.
THEOREM StoreTypes == Spec => []TypeOK
<1>1. TimelineInv => TypeOK
  BY DEF TimelineInv
<1> QED
  BY <1>1, TimelineHolds, PTL

\* get_open_monitoring_session is never ambiguous: one open row at most, the newest.
THEOREM OpenSessionIsNewest == Spec => []OnlyNewestOpen
<1>1. TimelineInv => OnlyNewestOpen
  BY DEF TimelineInv
<1> QED
  BY <1>1, TimelineHolds, PTL

\* A known broadcast is never split over two neighbouring rows.
THEOREM BroadcastStaysWhole == Spec => []BroadcastNotSplit
<1>1. TimelineInv => BroadcastNotSplit
  BY DEF TimelineInv
<1> QED
  BY <1>1, TimelineHolds, PTL

\* No step rewrites the past: only the newest row changes, and it keeps its start and
\* its broadcast.
THEOREM HistoryIsKept == Spec => HistoryKept
<1> DEFINE Kept == \A c \in Channels : PastKept(sessions[c], sessions'[c])
<1>1. ASSUME TimelineInv, [Next]_vars PROVE Kept \/ UNCHANGED vars
  <2>1. clock \in Nat /\ sessions \in [Channels -> Seq(Session)]
        /\ \A c \in Channels : Timeline(sessions[c], clock)
    BY <1>1, InvIsTimeline
  <2>2. \A c \in Channels : PastKept(sessions[c], sessions[c])
    BY <2>1 DEF PastKept
  <2>3. ASSUME NEW c \in Channels, NEW live \in LiveIds \cup {NULL}, StartSession(c, live)
        PROVE  Kept
    BY <2>1, <2>2, <2>3, StartKeepsTimeline DEF StartSession
  <2>4. ASSUME NEW c \in Channels, NEW why \in StopReasons, FinishSession(c, why)
        PROVE  Kept
    BY <2>1, <2>2, <2>4, FinishKeepsTimeline DEF FinishSession
  <2>5. CASE Tick
    BY <2>2, <2>5 DEF Tick
  <2> QED
    BY <1>1, <2>3, <2>4, <2>5 DEF Next
<1>2. TimelineInv /\ [Next]_vars => [Kept]_vars
  BY <1>1
<1> QED
  BY <1>2, TimelineHolds, PTL DEF Spec, HistoryKept
=============================================================================
