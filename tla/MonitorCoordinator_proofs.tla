--------------------- MODULE MonitorCoordinator_proofs ---------------------
(***************************************************************************)
(* The invariants of the control plane, for any number of channels,        *)
(* requests, broadcasts, sessions and restarts.                            *)
(*                                                                         *)
(* CoordinatorInv is split in Core, about the variables that               *)
(* stop_monitoring and ensure_monitoring touch, and Rest.  There is one    *)
(* lemma for each of those two calls and for each smaller move an action   *)
(* can make; the actions are then instances of the lemmas.                 *)
(***************************************************************************)
EXTENDS MonitorCoordinator, MonitoringSessions_proofs, FiniteSetTheorems

RowStates == {"absent", "enabled", "disabled"}

CoreTypes ==
    /\ row \in [Channels -> RowStates]
    /\ sessions \in [Channels -> Seq(Session)]
    /\ tasks \in [Channels -> Slots \cup {NULL}]
    /\ phase \in [Channels -> [Slots -> Phases]]
    /\ explicit \in [Channels -> StopReasons \cup {NULL}]
    /\ actor \in [Actors -> ActorStates]

Timelines == \A c \in Channels : Timeline(sessions[c], 0)

Rest ==
    /\ finalizing \in [Channels -> Nat]
    /\ lock \in Actors \cup {NULL}
    /\ todo \in SUBSET Channels
    /\ broadcast \in [Channels -> LiveIds \cup {0}]
    /\ onair \in [Channels -> BOOLEAN]
    /\ boots \in Nat

Core ==
    /\ CoreTypes
    /\ Timelines
    /\ ActorsInPlace
    /\ NoOrphanTask
    /\ OneConnectionPerChannel
    /\ NoTaskForDisabledChannel

\* An actor that waits for no task.
Steady(q) == q.pc \notin {"stopping", "cancelled"}

\* ActorsInPlace for one actor.
InPlace(q) ==
    /\ q.pc \in {"fetch", "answered", "waiting", "stopping", "unlock", "cancelled"}
          => q.chan \in Channels
    /\ q.pc \in {"answered", "waiting"} => q.snap \in Statuses
    /\ q.pc \in {"stopping", "cancelled"} => q.slot \in Slots /\ q.why \in StopReasons
    /\ q.pc = "cancelled" => q.op = "shutdown"

-----------------------------------------------------------------------------
(* Sessions.                                                                *)

LEMMA FinishSessions ==
    ASSUME sessions \in [Channels -> Seq(Session)], Timelines,
           NEW c \in Channels, NEW why \in StopReasons,
           sessions' = [sessions EXCEPT ![c] = Finished(sessions[c], why, 0)]
    PROVE  sessions' \in [Channels -> Seq(Session)] /\ Timelines'
<1>1. Timeline(Finished(sessions[c], why, 0), 0)
  BY FinishKeepsTimeline DEF Timelines
<1>2. Finished(sessions[c], why, 0) \in Seq(Session)
  BY <1>1 DEF Timeline
<1>3. \A d \in Channels : Timeline(sessions'[d], 0)
  BY <1>1 DEF Timelines
<1> QED
  BY <1>2, <1>3 DEF Timelines

LEMMA StartSessions ==
    ASSUME sessions \in [Channels -> Seq(Session)], Timelines,
           NEW c \in Channels, NEW live \in LiveIds \cup {NULL},
           sessions' = [sessions EXCEPT ![c] = Started(sessions[c], live, 0)]
    PROVE  sessions' \in [Channels -> Seq(Session)] /\ Timelines'
<1>1. Timeline(Started(sessions[c], live, 0), 0)
  BY StartKeepsTimeline DEF Timelines
<1>2. Started(sessions[c], live, 0) \in Seq(Session)
  BY <1>1 DEF Timeline
<1>3. \A d \in Channels : Timeline(sessions'[d], 0)
  BY <1>1 DEF Timelines
<1> QED
  BY <1>2, <1>3 DEF Timelines

LEMMA SameSessions ==
    ASSUME sessions \in [Channels -> Seq(Session)], Timelines, UNCHANGED sessions
    PROVE  sessions' \in [Channels -> Seq(Session)] /\ Timelines'
BY DEF Timelines

-----------------------------------------------------------------------------
(* Actors.                                                                  *)

\* What other actors wait for stays awaited when a steady actor moves.
LEMMA AwaitedKept ==
    ASSUME actor \in [Actors -> ActorStates], NEW a \in Actors, NEW next,
           Steady(actor[a]), actor' = [actor EXCEPT ![a] = next],
           NEW c \in Channels, NEW k \in Slots, Awaited(c, k)
    PROVE  Awaited(c, k)'
<1>1. PICK b \in Actors : /\ actor[b].pc \in {"stopping", "cancelled"}
                          /\ actor[b].chan = c /\ actor[b].slot = k
  BY DEF Awaited
<1>2. b # a
  BY <1>1 DEF Steady
<1>3. actor'[b] = actor[b]
  BY <1>2
<1> QED
  BY <1>1, <1>3 DEF Awaited

LEMMA InPlaceKept ==
    ASSUME actor \in [Actors -> ActorStates], ActorsInPlace, NEW a \in Actors,
           NEW next \in ActorStates, InPlace(next), actor' = [actor EXCEPT ![a] = next]
    PROVE  actor' \in [Actors -> ActorStates] /\ ActorsInPlace'
<1>1. \A b \in Actors : InPlace(actor'[b])
  BY DEF ActorsInPlace, InPlace
<1> QED
  BY <1>1 DEF ActorsInPlace, InPlace

\* A steady actor moves on, and stays steady; a row may change with it.
LEMMA ActorMoves ==
    ASSUME Core, NEW a \in Actors, Steady(actor[a]),
           NEW next \in ActorStates, InPlace(next), actor' = [actor EXCEPT ![a] = next],
           row' \in [Channels -> RowStates],
           \A c \in Channels : tasks[c] # NULL => row'[c] # "disabled",
           sessions' \in [Channels -> Seq(Session)], Timelines',
           UNCHANGED <<tasks, phase, explicit>>
    PROVE  Core'
<1>1. actor' \in [Actors -> ActorStates] /\ ActorsInPlace'
  BY InPlaceKept DEF Core, CoreTypes
<1>2. NoOrphanTask'
  <2> SUFFICES ASSUME NEW c \in Channels, NEW k \in Slots, phase[c][k] # "free",
                      tasks[c] # k
               PROVE  Awaited(c, k)'
    BY DEF NoOrphanTask
  <2> QED
    BY AwaitedKept DEF Core, CoreTypes, NoOrphanTask
<1>3. OneConnectionPerChannel' /\ NoTaskForDisabledChannel'
  BY DEF Core, OneConnectionPerChannel, NoTaskForDisabledChannel
<1> QED
  BY <1>1, <1>2, <1>3 DEF Core, CoreTypes

\* With a channel's task unregistered, another can be started: every slot in use is
\* awaited by an actor other than this one, and there are as many slots as actors.
LEMMA SlotIsFree ==
    ASSUME Core, NEW a \in Actors, Steady(actor[a]), NEW c \in Channels, tasks[c] = NULL
    PROVE  \E s \in Slots : phase[c][s] = "free"
<1> SUFFICES ASSUME \A s \in Slots : phase[c][s] # "free" PROVE FALSE
  OBVIOUS
<1> DEFINE Waiting == {b \in Actors : /\ actor[b].pc \in {"stopping", "cancelled"}
                                      /\ actor[b].chan = c /\ actor[b].slot \in Slots}
           slotOf == [b \in Waiting |-> actor[b].slot]
<1>1. \A s \in Slots : \E b \in Waiting : slotOf[b] = s
  <2> SUFFICES ASSUME NEW s \in Slots PROVE \E b \in Waiting : slotOf[b] = s
    OBVIOUS
  <2>1. s # NULL
    BY CoordinatorAssumption
  <2>2. Awaited(c, s)
    BY <2>1 DEF Core, NoOrphanTask
  <2> QED
    BY <2>2 DEF Awaited
<1>2. slotOf \in Surjection(Waiting, Slots)
  BY <1>1 DEF Surjection
<1>3. IsFiniteSet(Actors) /\ IsFiniteSet(Slots) /\ Cardinality(Slots) >= Cardinality(Actors)
  BY CoordinatorAssumption
<1>4. Waiting \in SUBSET Actors /\ a \notin Waiting
  BY DEF Steady
<1>5. /\ IsFiniteSet(Waiting) /\ Cardinality(Waiting) <= Cardinality(Actors)
      /\ Cardinality(Actors) = Cardinality(Waiting) => Actors = Waiting
  BY <1>3, <1>4, FS_Subset
<1>6. Cardinality(Slots) <= Cardinality(Waiting)
  BY <1>2, <1>5, FS_Surjection
<1>7. /\ Cardinality(Slots) \in Nat /\ Cardinality(Waiting) \in Nat
      /\ Cardinality(Actors) \in Nat
  BY <1>3, <1>5, FS_CardinalityType
<1> HIDE DEF Waiting
<1>8. Cardinality(Actors) = Cardinality(Waiting)
  BY <1>3, <1>5, <1>6, <1>7
<1> QED
  BY <1>4, <1>5, <1>8

-----------------------------------------------------------------------------
(* Tasks.                                                                   *)

LEMMA CancelledPhase ==
    ASSUME NEW ph \in Phases
    PROVE  Cancelled(ph) \in Phases /\ Cancelled(ph) \notin Active
BY DEF Cancelled, Phases, Active

\* One task moves from a phase in use to another, active only if it was before.  It is
\* still registered or awaited as it was.
LEMMA PhaseMoves ==
    ASSUME Core, NEW c \in Channels, NEW k \in Slots, NEW ph \in Phases,
           phase[c][k] # "free", ph \in Active => phase[c][k] \in Active,
           phase' = [phase EXCEPT ![c] = [phase[c] EXCEPT ![k] = ph]],
           sessions' \in [Channels -> Seq(Session)], Timelines',
           UNCHANGED <<row, tasks, explicit, actor>>
    PROVE  Core'
<1>1. phase' \in [Channels -> [Slots -> Phases]]
  BY DEF Core, CoreTypes
<1>2. \A d \in Channels, j \in Slots :
         /\ phase'[d][j] # "free" => phase[d][j] # "free"
         /\ phase'[d][j] \in Active => phase[d][j] \in Active
  BY DEF Core, CoreTypes
<1>3. \A d \in Channels, j \in Slots : Awaited(d, j)' <=> Awaited(d, j)
  BY DEF Awaited
<1>4. NoOrphanTask'
  BY <1>2, <1>3 DEF Core, NoOrphanTask
<1>5. OneConnectionPerChannel'
  BY <1>2 DEF Core, OneConnectionPerChannel
<1>6. ActorsInPlace' /\ NoTaskForDisabledChannel'
  BY DEF Core, ActorsInPlace, NoTaskForDisabledChannel
<1> QED
  BY <1>1, <1>4, <1>5, <1>6 DEF Core, CoreTypes

\* stop_monitoring up to its await, or to its end when there is no task.
LEMMA StopKeepsCore ==
    ASSUME Core, NEW a \in Actors, Steady(actor[a]), NEW c \in Channels,
           NEW why \in StopReasons, NEW rowc \in RowStates,
           NEW rec \in ActorStates, NEW next \in ActorStates,
           Steady(next), InPlace(next), Stop(a, c, why, rowc, rec, next)
    PROVE  Core'
<1> DEFINE k == tasks[c]
<1>1. CASE k = NULL
  <2>1. /\ sessions' = [sessions EXCEPT ![c] = Finished(sessions[c], why, 0)]
        /\ row' = [row EXCEPT ![c] = RowAfterStop(rec.op, rowc)]
        /\ actor' = [actor EXCEPT ![a] = next]
        /\ UNCHANGED <<tasks, phase, explicit>>
    BY <1>1 DEF Stop
  <2>2. row' \in [Channels -> RowStates]
    BY <2>1 DEF Core, CoreTypes, RowAfterStop, RowStates
  <2>3. \A d \in Channels : tasks[d] # NULL => row'[d] # "disabled"
    BY <1>1, <2>1 DEF Core, CoreTypes, NoTaskForDisabledChannel
  <2>4. sessions' \in [Channels -> Seq(Session)] /\ Timelines'
    BY <2>1, FinishSessions DEF Core, CoreTypes
  <2> QED
    BY <2>1, <2>2, <2>3, <2>4, ActorMoves
<1>2. CASE k # NULL
  <2> DEFINE new == [rec EXCEPT !.pc = "stopping", !.chan = c, !.slot = k, !.why = why]
  <2>1. k \in Slots
    BY <1>2 DEF Core, CoreTypes
  <2>2. /\ tasks' = [tasks EXCEPT ![c] = NULL]
        /\ explicit' = [explicit EXCEPT ![c] = why]
        /\ phase' = [phase EXCEPT ![c] = [phase[c] EXCEPT ![k] = Cancelled(phase[c][k])]]
        /\ row' = [row EXCEPT ![c] = rowc]
        /\ actor' = [actor EXCEPT ![a] = new]
        /\ UNCHANGED sessions
    BY <1>2 DEF Stop
  <2>3. /\ new \in ActorStates /\ InPlace(new)
        /\ new.pc = "stopping" /\ new.chan = c /\ new.slot = k
    BY <2>1 DEF ActorStates, InPlace
  <2> HIDE DEF new, k
  <2>4. actor' \in [Actors -> ActorStates] /\ ActorsInPlace' /\ actor'[a] = new
    BY <2>2, <2>3, InPlaceKept DEF Core, CoreTypes
  <2>5. Cancelled(phase[c][k]) \in Phases /\ Cancelled(phase[c][k]) \notin Active
    BY <2>1, CancelledPhase DEF Core, CoreTypes
  <2>6. /\ phase' \in [Channels -> [Slots -> Phases]]
        /\ phase'[c][k] \notin Active
        /\ \A d \in Channels, j \in Slots :
              ~(d = c /\ j = k) => phase'[d][j] = phase[d][j]
    BY <2>1, <2>2, <2>5 DEF Core, CoreTypes
  <2>7. /\ row' \in [Channels -> RowStates]
        /\ tasks' \in [Channels -> Slots \cup {NULL}]
        /\ explicit' \in [Channels -> StopReasons \cup {NULL}]
        /\ tasks'[c] = NULL
        /\ \A d \in Channels : d # c => tasks'[d] = tasks[d] /\ row'[d] = row[d]
    BY <2>2 DEF Core, CoreTypes
  <2>8. sessions' \in [Channels -> Seq(Session)] /\ Timelines'
    BY <2>2, SameSessions DEF Core, CoreTypes
  <2>9. NoOrphanTask'
    <3> SUFFICES ASSUME NEW d \in Channels, NEW j \in Slots, phase'[d][j] # "free"
                 PROVE  tasks'[d] = j \/ Awaited(d, j)'
      BY DEF NoOrphanTask
    <3>1. CASE d = c /\ j = k
      BY <2>3, <2>4, <3>1 DEF Awaited
    <3>2. CASE ~(d = c /\ j = k)
      <4>1. tasks[d] = j \/ Awaited(d, j)
        BY <2>6, <3>2 DEF Core, NoOrphanTask
      <4>2. Awaited(d, j) => Awaited(d, j)'
        BY <2>2, AwaitedKept DEF Core, CoreTypes
      <4>3. tasks[d] = j => d # c
        BY <3>2 DEF k
      <4> QED
        BY <2>7, <4>1, <4>2, <4>3
    <3> QED
      BY <3>1, <3>2
  <2>10. OneConnectionPerChannel'
    <3> SUFFICES ASSUME NEW d \in Channels, NEW j \in Slots, phase'[d][j] \in Active
                 PROVE  tasks'[d] = j
      BY DEF OneConnectionPerChannel
    <3>1. ~(d = c /\ j = k)
      BY <2>6
    <3>2. tasks[d] = j
      BY <2>6, <3>1 DEF Core, OneConnectionPerChannel
    <3>3. d # c
      BY <3>1, <3>2 DEF k
    <3> QED
      BY <2>7, <3>2, <3>3
  <2>11. NoTaskForDisabledChannel'
    BY <2>7 DEF Core, NoTaskForDisabledChannel
  <2> QED
    BY <2>4, <2>6, <2>7, <2>8, <2>9, <2>10, <2>11 DEF Core, CoreTypes
<1> QED
  BY <1>1, <1>2

\* ensure_monitoring, for a channel whose row is enabled.
LEMMA EnsureKeepsCore ==
    ASSUME Core, NEW a \in Actors, Steady(actor[a]), NEW c \in Channels,
           NEW next \in ActorStates, InPlace(next), Ensure(a, c, "enabled", next)
    PROVE  Core'
<1>1. /\ row' = [row EXCEPT ![c] = "enabled"]
      /\ actor' = [actor EXCEPT ![a] = next]
      /\ UNCHANGED <<sessions, explicit>>
  BY DEF Ensure
<1>2. sessions' \in [Channels -> Seq(Session)] /\ Timelines'
  BY <1>1, SameSessions DEF Core, CoreTypes
<1>3. /\ row' \in [Channels -> RowStates] /\ row'[c] # "disabled"
      /\ \A d \in Channels : d # c => row'[d] = row[d]
  BY <1>1 DEF Core, CoreTypes, RowStates
<1>4. CASE Monitored(c)
  <2>1. UNCHANGED <<tasks, phase>>
    BY <1>4 DEF Ensure
  <2>2. \A d \in Channels : tasks[d] # NULL => row'[d] # "disabled"
    BY <1>3 DEF Core, NoTaskForDisabledChannel
  <2> QED
    BY <1>1, <1>2, <1>3, <2>1, <2>2, ActorMoves
<1>5. CASE ~Monitored(c)
  <2> DEFINE k == CHOOSE s \in Slots : phase[c][s] = "free"
  <2>1. tasks[c] = NULL
    BY <1>5 DEF Monitored
  <2>2. k \in Slots /\ phase[c][k] = "free"
    BY <2>1, SlotIsFree
  <2>3. /\ tasks' = [tasks EXCEPT ![c] = k]
        /\ phase' = [phase EXCEPT ![c] = [phase[c] EXCEPT ![k] = "connecting"]]
    BY <1>5 DEF Ensure
  <2> HIDE DEF k
  <2>4. /\ phase' \in [Channels -> [Slots -> Phases]]
        /\ \A d \in Channels, j \in Slots :
              ~(d = c /\ j = k) => phase'[d][j] = phase[d][j]
    BY <2>2, <2>3 DEF Core, CoreTypes, Phases, Active
  <2>5. /\ tasks' \in [Channels -> Slots \cup {NULL}] /\ tasks'[c] = k
        /\ \A d \in Channels : d # c => tasks'[d] = tasks[d]
    BY <2>2, <2>3 DEF Core, CoreTypes
  <2>6. actor' \in [Actors -> ActorStates] /\ ActorsInPlace'
    BY <1>1, InPlaceKept DEF Core, CoreTypes
  <2>7. NoOrphanTask'
    <3> SUFFICES ASSUME NEW d \in Channels, NEW j \in Slots, phase'[d][j] # "free",
                        ~(d = c /\ j = k)
                 PROVE  tasks'[d] = j \/ Awaited(d, j)'
      BY <2>5 DEF NoOrphanTask
    <3>1. tasks[d] = j \/ Awaited(d, j)
      BY <2>4 DEF Core, NoOrphanTask
    <3>2. Awaited(d, j) => Awaited(d, j)'
      BY <1>1, AwaitedKept DEF Core, CoreTypes
    <3>3. tasks[d] = j => d # c
      BY <2>1, CoordinatorAssumption
    <3> QED
      BY <2>5, <3>1, <3>2, <3>3
  <2>8. OneConnectionPerChannel'
    <3> SUFFICES ASSUME NEW d \in Channels, NEW j \in Slots, phase'[d][j] \in Active,
                        ~(d = c /\ j = k)
                 PROVE  tasks'[d] = j
      BY <2>5 DEF OneConnectionPerChannel
    <3>1. tasks[d] = j
      BY <2>4 DEF Core, OneConnectionPerChannel
    <3>2. d # c
      BY <2>1, <3>1, CoordinatorAssumption
    <3> QED
      BY <2>5, <3>1, <3>2
  <2>9. NoTaskForDisabledChannel'
    BY <1>3, <2>5 DEF Core, NoTaskForDisabledChannel
  <2> QED
    BY <1>1, <1>2, <1>3, <2>4, <2>5, <2>6, <2>7, <2>8, <2>9 DEF Core, CoreTypes
<1> QED
  BY <1>4, <1>5

\* _reconcile_channel
LEMMA ReconcileKeepsCore ==
    ASSUME Core, NEW a \in Actors, Steady(actor[a]), NEW c \in Channels,
           NEW s \in Statuses, NEW rowc \in RowStates,
           NEW rec \in ActorStates, NEW next \in ActorStates,
           Steady(next), InPlace(next), Reconcile(a, c, s, rowc, rec, next)
    PROVE  Core'
<1> DEFINE why == StopReason(rowc, s)
<1>1. why \in StopReasons \cup {NULL}
  BY DEF StopReason, StopReasons
<1>2. why = NULL => rowc = "enabled"
  <2>1. "UNKNOWN" # NULL /\ "MANUAL_STOP" # NULL
    BY NullAssumption DEF StopReasons
  <2> QED
    BY <2>1 DEF StopReason, RowStates
<1>3. CASE why # NULL /\ Stop(a, c, why, rowc, rec, next)
  BY <1>1, <1>3, StopKeepsCore
<1>4. CASE why = NULL /\ Ensure(a, c, rowc, next)
  BY <1>2, <1>4, EnsureKeepsCore
<1>5. CASE /\ why = NULL
           /\ row' = [row EXCEPT ![c] = rowc]
           /\ actor' = [actor EXCEPT ![a] = next]
           /\ UNCHANGED <<sessions, tasks, phase, explicit>>
  <2>1. /\ row' \in [Channels -> RowStates]
        /\ \A d \in Channels : tasks[d] # NULL => row'[d] # "disabled"
    BY <1>2, <1>5 DEF Core, CoreTypes, NoTaskForDisabledChannel
  <2>2. sessions' \in [Channels -> Seq(Session)] /\ Timelines'
    BY <1>5, SameSessions DEF Core, CoreTypes
  <2> QED
    BY <1>5, <2>1, <2>2, ActorMoves
<1> QED
  BY <1>3, <1>4, <1>5 DEF Reconcile

\* The end of a stop: an actor that waited for a task frees its slot and goes on.
LEMMA StopEndKeepsCore ==
    ASSUME Core, NEW a \in Actors, ~Steady(actor[a]),
           phase[actor[a].chan][actor[a].slot] = "done",
           NEW next \in ActorStates, InPlace(next), Steady(next),
           actor' = [actor EXCEPT ![a] = next],
           phase' = [phase EXCEPT ![actor[a].chan][actor[a].slot] = "free"],
           explicit' = [explicit EXCEPT ![actor[a].chan] = NULL],
           row' \in [Channels -> RowStates],
           \A c \in Channels : row'[c] = row[c] \/ row'[c] = "absent",
           sessions' \in [Channels -> Seq(Session)], Timelines',
           UNCHANGED tasks
    PROVE  Core'
<1> DEFINE c == actor[a].chan
           k == actor[a].slot
<1>1. c \in Channels /\ k \in Slots
  BY DEF Core, ActorsInPlace, Steady
<1>2. phase' = [phase EXCEPT ![c] = [phase[c] EXCEPT ![k] = "free"]]
      /\ explicit' = [explicit EXCEPT ![c] = NULL] /\ phase[c][k] = "done"
  OBVIOUS
<1>3. \A d \in Channels, j \in Slots : actor[a].chan = d /\ actor[a].slot = j => d = c /\ j = k
  OBVIOUS
<1> HIDE DEF c, k
<1>4. /\ phase' \in [Channels -> [Slots -> Phases]] /\ phase'[c][k] = "free"
      /\ explicit' \in [Channels -> StopReasons \cup {NULL}]
      /\ \A d \in Channels, j \in Slots : ~(d = c /\ j = k) => phase'[d][j] = phase[d][j]
  BY <1>1, <1>2 DEF Core, CoreTypes, Phases
<1>5. actor' \in [Actors -> ActorStates] /\ ActorsInPlace'
  BY InPlaceKept DEF Core, CoreTypes
<1>6. NoOrphanTask'
  <2> SUFFICES ASSUME NEW d \in Channels, NEW j \in Slots, phase'[d][j] # "free",
                      tasks[d] # j
               PROVE  Awaited(d, j)'
    BY DEF NoOrphanTask
  <2>1. ~(d = c /\ j = k)
    BY <1>4
  <2>2. Awaited(d, j)
    BY <1>4, <2>1 DEF Core, NoOrphanTask
  <2>3. PICK b \in Actors : /\ actor[b].pc \in {"stopping", "cancelled"}
                            /\ actor[b].chan = d /\ actor[b].slot = j
    BY <2>2 DEF Awaited
  <2>4. b # a
    BY <1>3, <2>1, <2>3
  <2>5. actor'[b] = actor[b]
    BY <2>4 DEF Core, CoreTypes
  <2> QED
    BY <2>3, <2>5 DEF Awaited
<1>7. OneConnectionPerChannel'
  <2> SUFFICES ASSUME NEW d \in Channels, NEW j \in Slots, phase'[d][j] \in Active
               PROVE  tasks[d] = j
    BY DEF OneConnectionPerChannel
  <2>1. phase[d][j] \in Active
    BY <1>4 DEF Active
  <2> QED
    BY <2>1 DEF Core, OneConnectionPerChannel
<1>8. NoTaskForDisabledChannel'
  BY DEF Core, NoTaskForDisabledChannel
<1> QED
  BY <1>4, <1>5, <1>6, <1>7, <1>8 DEF Core, CoreTypes

\* The end of a task: out of the registry, free unless somebody waits for it.
LEMMA TaskEndKeepsCore ==
    ASSUME Core, NEW c \in Channels, NEW k \in Slots, TaskEnds(c, k)
    PROVE  Core'
<1> DEFINE ph == IF Awaited(c, k) THEN "done" ELSE "free"
<1>1. /\ phase[c][k] = "closing"
      /\ tasks' = IF tasks[c] = k THEN [tasks EXCEPT ![c] = NULL] ELSE tasks
      /\ phase' = [phase EXCEPT ![c] = [phase[c] EXCEPT ![k] = ph]]
      /\ UNCHANGED <<row, sessions, explicit, actor>>
  BY DEF TaskEnds
<1>2. ph \in Phases /\ ph \notin Active /\ (ph # "free" => Awaited(c, k))
  BY DEF Phases, Active
<1> HIDE DEF ph
<1>3. /\ phase' \in [Channels -> [Slots -> Phases]] /\ phase'[c][k] = ph
      /\ \A d \in Channels, j \in Slots : ~(d = c /\ j = k) => phase'[d][j] = phase[d][j]
  BY <1>1, <1>2 DEF Core, CoreTypes
<1>4. /\ tasks' \in [Channels -> Slots \cup {NULL}]
      /\ \A d \in Channels : tasks'[d] # NULL => tasks'[d] = tasks[d]
      /\ \A d \in Channels, j \in Slots :
            ~(d = c /\ j = k) /\ tasks[d] = j => tasks'[d] = j
  BY <1>1 DEF Core, CoreTypes
<1>5. \A d \in Channels, j \in Slots : Awaited(d, j)' <=> Awaited(d, j)
  BY <1>1 DEF Awaited
<1>6. sessions' \in [Channels -> Seq(Session)] /\ Timelines'
  BY <1>1, SameSessions DEF Core, CoreTypes
<1>7. NoOrphanTask'
  <2> SUFFICES ASSUME NEW d \in Channels, NEW j \in Slots, phase'[d][j] # "free"
               PROVE  tasks'[d] = j \/ Awaited(d, j)
    BY <1>5 DEF NoOrphanTask
  <2>1. CASE d = c /\ j = k
    BY <1>2, <1>3, <2>1
  <2>2. CASE ~(d = c /\ j = k)
    BY <1>3, <1>4, <2>2 DEF Core, NoOrphanTask
  <2> QED
    BY <2>1, <2>2
<1>8. OneConnectionPerChannel'
  <2> SUFFICES ASSUME NEW d \in Channels, NEW j \in Slots, phase'[d][j] \in Active
               PROVE  tasks'[d] = j
    BY DEF OneConnectionPerChannel
  <2>1. ~(d = c /\ j = k)
    BY <1>2, <1>3
  <2> QED
    BY <1>3, <1>4, <2>1 DEF Core, OneConnectionPerChannel
<1>9. NoTaskForDisabledChannel'
  BY <1>1, <1>4 DEF Core, NoTaskForDisabledChannel
<1>10. ActorsInPlace'
  BY <1>1 DEF Core, ActorsInPlace
<1> QED
  BY <1>1, <1>3, <1>4, <1>6, <1>7, <1>8, <1>9, <1>10 DEF Core, CoreTypes

\* The end of the process: nothing is left but the database.
LEMMA ForgetKeepsCore ==
    ASSUME Core, Forget, UNCHANGED <<row, sessions>>
    PROVE  Core'
<1>1. /\ tasks' = NoTasks /\ phase' = FreeSlots /\ explicit' = NoReasons
      /\ actor' = Asleep
  BY DEF Forget
<1>2. \A a \in Actors : actor'[a] \in ActorStates /\ InPlace(actor'[a])
  BY <1>1 DEF Asleep, Down, Idle, ActorStates, InPlace
<1>3. actor' \in [Actors -> ActorStates] /\ ActorsInPlace'
  BY <1>1, <1>2 DEF Asleep, ActorsInPlace, InPlace
<1>4. CoreTypes'
  BY <1>1, <1>3 DEF Core, CoreTypes, NoTasks, FreeSlots, NoReasons, Phases
<1>5. NoOrphanTask' /\ OneConnectionPerChannel' /\ NoTaskForDisabledChannel'
  BY <1>1 DEF NoOrphanTask, OneConnectionPerChannel, NoTaskForDisabledChannel, NoTasks,
              FreeSlots, Active
<1>6. Timelines'
  BY SameSessions DEF Core, CoreTypes
<1> QED
  BY <1>3, <1>4, <1>5, <1>6 DEF Core

\* The parts of Core that no step touches when only the sessions change.
LEMMA SessionsMove ==
    ASSUME Core, sessions' \in [Channels -> Seq(Session)], Timelines',
           UNCHANGED <<row, tasks, phase, explicit, actor>>
    PROVE  Core'
BY DEF Core, CoreTypes, ActorsInPlace, NoOrphanTask, Awaited, OneConnectionPerChannel,
       NoTaskForDisabledChannel

-----------------------------------------------------------------------------
(* The actions.                                                             *)

LEMMA InPlaceOf ==
    ASSUME Core, NEW a \in Actors
    PROVE  actor[a] \in ActorStates /\ InPlace(actor[a])
BY DEF Core, CoreTypes, ActorsInPlace, InPlace

LEMMA IdleInPlace ==
    /\ Idle \in ActorStates /\ Steady(Idle) /\ InPlace(Idle)
    /\ \A op \in {"startup", "poll", "shutdown"}, pc \in {"round", "sleep"} :
          MainAt(pc, op) \in ActorStates /\ Steady(MainAt(pc, op)) /\ InPlace(MainAt(pc, op))
    /\ \A op \in AllOps, c \in Channels :
          /\ Request(op, c) \in ActorStates
          /\ [Request(op, c) EXCEPT !.pc = "fetch"] \in ActorStates
          /\ Steady([Request(op, c) EXCEPT !.pc = "fetch"])
          /\ InPlace([Request(op, c) EXCEPT !.pc = "fetch"])
<1>1. Idle \in ActorStates /\ Steady(Idle) /\ InPlace(Idle)
  BY DEF Idle, ActorStates, Steady, InPlace
<1>2. ASSUME NEW op \in {"startup", "poll", "shutdown"}, NEW pc \in {"round", "sleep"}
      PROVE  /\ MainAt(pc, op) \in ActorStates
             /\ Steady(MainAt(pc, op)) /\ InPlace(MainAt(pc, op))
  <2>1. MainAt(pc, op) \in ActorStates /\ MainAt(pc, op).pc = pc
    BY <1>1 DEF MainAt, ActorStates
  <2> QED
    BY <2>1 DEF Steady, InPlace
<1>3. ASSUME NEW op \in AllOps, NEW c \in Channels
      PROVE  /\ Request(op, c) \in ActorStates
             /\ [Request(op, c) EXCEPT !.pc = "fetch"] \in ActorStates
             /\ Steady([Request(op, c) EXCEPT !.pc = "fetch"])
             /\ InPlace([Request(op, c) EXCEPT !.pc = "fetch"])
  <2>1. Request(op, c) \in ActorStates /\ Request(op, c).chan = c
    BY <1>1 DEF Request, ActorStates
  <2> DEFINE q == [Request(op, c) EXCEPT !.pc = "fetch"]
  <2>2. q \in ActorStates /\ q.pc = "fetch" /\ q.chan = c
    BY <2>1 DEF ActorStates
  <2> HIDE DEF q
  <2>3. Steady(q) /\ InPlace(q)
    BY <2>2 DEF Steady, InPlace
  <2> QED
    BY <2>1, <2>2, <2>3 DEF q
<1> QED
  BY <1>1, <1>2, <1>3

LEMMA MainIsActor == Main \in Actors /\ Requests \subseteq Actors
BY DEF Actors

\* reconcile_single_channel once it has the lock.
LEMMA LockedKeepsCore ==
    ASSUME Core, NEW r \in Requests, actor[r].pc \in {"answered", "waiting"},
           NEW rowc \in RowStates, Locked(r, rowc)
    PROVE  Core'
<1> DEFINE q == [actor[r] EXCEPT !.snap = NULL]
           next == [q EXCEPT !.pc = "unlock"]
<1>1. /\ r \in Actors /\ actor[r] \in ActorStates /\ actor[r].chan \in Channels
      /\ actor[r].snap \in Statuses /\ Steady(actor[r])
  BY MainIsActor, InPlaceOf DEF InPlace, Steady
<1>2. /\ q \in ActorStates /\ q.chan = actor[r].chan
      /\ next \in ActorStates /\ Steady(next) /\ InPlace(next)
  BY <1>1 DEF ActorStates, Steady, InPlace
<1>3. CASE rowc = "absent"
  <2>1. actor' = [actor EXCEPT ![r] = next] /\ UNCHANGED <<row, sessions, tasks, phase, explicit>>
    BY <1>3 DEF Locked
  <2>2. row' \in [Channels -> RowStates] /\ sessions' \in [Channels -> Seq(Session)] /\ Timelines'
        /\ \A c \in Channels : tasks[c] # NULL => row'[c] # "disabled"
    BY <2>1, SameSessions DEF Core, CoreTypes, NoTaskForDisabledChannel
  <2> QED
    BY <1>1, <1>2, <2>1, <2>2, ActorMoves
<1>4. CASE rowc # "absent"
  <2>1. Reconcile(r, q.chan, actor[r].snap, rowc, q, next)
    BY <1>4 DEF Locked
  <2> HIDE DEF q, next
  <2> QED
    BY <1>1, <1>2, <2>1, ReconcileKeepsCore
<1> QED
  BY <1>3, <1>4

LEMMA ProcessKeepsCore ==
    ASSUME Core, Rest, Process
    PROVE  Core'
<1> USE MainIsActor
<1>1. actor[Main] \in ActorStates /\ InPlace(actor[Main])
  BY InPlaceOf
<1>2. /\ row \in [Channels -> RowStates]
      /\ \A c \in Channels : tasks[c] # NULL => row[c] # "disabled"
  BY DEF Core, CoreTypes, NoTaskForDisabledChannel
<1>3. UNCHANGED sessions => sessions' \in [Channels -> Seq(Session)] /\ Timelines'
  BY SameSessions DEF Core, CoreTypes
<1>4. CASE Boot
  BY <1>2, <1>3, <1>4, IdleInPlace, ActorMoves DEF Boot, Steady
<1>5. CASE \E due \in SUBSET Channels : PollBegin(due)
  BY <1>2, <1>3, <1>5, IdleInPlace, ActorMoves DEF PollBegin, Steady
<1>6. ASSUME NEW c \in Channels, NEW s \in Statuses, SyncChannel(c, s)
      PROVE  Core'
  BY <1>1, <1>2, <1>6, ReconcileKeepsCore DEF SyncChannel, Steady
<1>7. CASE RoundDone
  BY <1>2, <1>3, <1>7, IdleInPlace, ActorMoves DEF RoundDone, Steady
<1>8. CASE ShutdownBegin
  <2>1. CASE actor[Main].pc = "stopping"
    <3> DEFINE new == [actor[Main] EXCEPT !.pc = "cancelled", !.op = "shutdown"]
    <3>1. /\ actor' = [actor EXCEPT ![Main] = new]
          /\ UNCHANGED <<row, sessions, tasks, phase, explicit>>
      BY <1>8, <2>1 DEF ShutdownBegin, Core, CoreTypes
    <3>2. /\ new \in ActorStates /\ InPlace(new) /\ new.pc = "cancelled"
          /\ new.chan = actor[Main].chan /\ new.slot = actor[Main].slot
      BY <1>1, <2>1 DEF ActorStates, InPlace
    <3> HIDE DEF new
    <3>3. actor' \in [Actors -> ActorStates] /\ ActorsInPlace'
      BY <3>1, <3>2, InPlaceKept DEF Core, CoreTypes
    <3>4. \A c \in Channels, k \in Slots : Awaited(c, k) => Awaited(c, k)'
      BY <3>1, <3>2 DEF Awaited, Core, CoreTypes
    <3>5. NoOrphanTask' /\ OneConnectionPerChannel' /\ NoTaskForDisabledChannel'
      BY <3>1, <3>4 DEF Core, NoOrphanTask, OneConnectionPerChannel, NoTaskForDisabledChannel
    <3> QED
      BY <1>3, <3>1, <3>3, <3>5 DEF Core, CoreTypes
  <2>2. CASE actor[Main].pc # "stopping"
    <3>1. Steady(actor[Main])
      BY <1>1, <1>8, <2>2 DEF ShutdownBegin, Steady, InPlace
    <3> QED
      BY <1>2, <1>3, <1>8, <2>2, <3>1, IdleInPlace, ActorMoves DEF ShutdownBegin
  <2> QED
    BY <2>1, <2>2
<1>9. CASE CancelledStopEnd
  <2>1. /\ ~Steady(actor[Main]) /\ phase[actor[Main].chan][actor[Main].slot] = "done"
        /\ phase' = [phase EXCEPT ![actor[Main].chan][actor[Main].slot] = "free"]
        /\ explicit' = [explicit EXCEPT ![actor[Main].chan] = NULL]
        /\ actor' = [actor EXCEPT ![Main] = MainAt("round", "shutdown")]
        /\ UNCHANGED <<row, sessions, tasks>>
    BY <1>9 DEF CancelledStopEnd, Steady
  <2> QED
    BY <1>2, <1>3, <2>1, IdleInPlace, StopEndKeepsCore
<1>10. ASSUME NEW c \in Channels, ShutdownStop(c)
       PROVE  Core'
  <2>1. row[c] \in RowStates /\ "SERVER_SHUTDOWN" \in StopReasons /\ Steady(actor[Main])
    BY <1>2, <1>10 DEF ShutdownStop, Steady, StopReasons
  <2>2. Stop(Main, c, "SERVER_SHUTDOWN", row[c], actor[Main], actor[Main])
    BY <1>10 DEF ShutdownStop
  <2> QED
    BY <1>1, <2>1, <2>2, StopKeepsCore
<1>11. CASE ShutdownDone \/ Crash
  BY <1>11, ForgetKeepsCore DEF ShutdownDone, Crash
<1> QED
  BY <1>4, <1>5, <1>6, <1>7, <1>8, <1>9, <1>10, <1>11 DEF Process

LEMMA HandlerKeepsCore ==
    ASSUME Core, Rest, NEW r \in Requests, Handler(r)
    PROVE  Core'
<1>1. r \in Actors /\ actor[r] \in ActorStates /\ InPlace(actor[r])
  BY MainIsActor, InPlaceOf
<1>2. /\ row \in [Channels -> RowStates]
      /\ \A c \in Channels : tasks[c] # NULL => row[c] # "disabled"
  BY DEF Core, CoreTypes, NoTaskForDisabledChannel
<1>3. UNCHANGED sessions => sessions' \in [Channels -> Seq(Session)] /\ Timelines'
  BY SameSessions DEF Core, CoreTypes
<1>4. \A op : Arrives(r, op) => Steady(actor[r])
  BY IdleInPlace DEF Arrives
<1>5. ASSUME NEW c \in Channels, NEW op \in {"add", "add_disabled"}, SubmitAdd(r, op, c)
      PROVE  Core'
  BY <1>1, <1>2, <1>3, <1>4, <1>5, IdleInPlace, ActorMoves DEF SubmitAdd, AllOps
<1>6. ASSUME NEW c \in Channels, SubmitEnable(r, c)
      PROVE  Core'
  <2>1. /\ row' \in [Channels -> RowStates]
        /\ \A d \in Channels : tasks[d] # NULL => row'[d] # "disabled"
    BY <1>2, <1>6 DEF SubmitEnable, RowStates
  <2> QED
    BY <1>1, <1>3, <1>4, <1>6, <2>1, IdleInPlace, ActorMoves DEF SubmitEnable, AllOps
<1>7. ASSUME NEW c \in Channels, SubmitDisable(r, c)
      PROVE  Core'
  <2>1. Stop(r, c, "MANUAL_STOP", "disabled", Request("disable", c), Idle) /\ Steady(actor[r])
    BY <1>4, <1>7 DEF SubmitDisable
  <2>2. "MANUAL_STOP" \in StopReasons /\ "disabled" \in RowStates /\ "disable" \in AllOps
    BY DEF StopReasons, RowStates, AllOps
  <2> QED
    BY <1>1, <2>1, <2>2, IdleInPlace, StopKeepsCore
<1>8. ASSUME NEW c \in Channels, SubmitDelete(r, c)
      PROVE  Core'
  <2>1. Stop(r, c, "CHANNEL_REMOVED", row[c], Request("delete", c), Idle) /\ Steady(actor[r])
    BY <1>4, <1>8 DEF SubmitDelete
  <2>2. "CHANNEL_REMOVED" \in StopReasons /\ row[c] \in RowStates /\ "delete" \in AllOps
    BY <1>2 DEF StopReasons, AllOps
  <2> QED
    BY <1>1, <2>1, <2>2, IdleInPlace, StopKeepsCore
<1>9. ASSUME NEW s \in Statuses, Answer(r, s)
      PROVE  Core'
  <2> DEFINE q == actor[r]
             next == IF q.op \in {"add", "add_disabled"} /\ s \in {"NOT_FOUND", "ERROR"}
                     THEN Idle
                     ELSE [q EXCEPT !.pc = "answered", !.snap = s]
  <2>1. q.pc = "fetch" /\ actor' = [actor EXCEPT ![r] = next]
    BY <1>9 DEF Answer
  <2>2. next \in ActorStates /\ InPlace(next)
    <3>1. s \in Statuses \cup {NULL} /\ q.chan \in Channels
      BY <1>1, <2>1 DEF InPlace
    <3> DEFINE new == [q EXCEPT !.pc = "answered", !.snap = s]
    <3>2. /\ new \in ActorStates /\ new.pc = "answered" /\ new.snap = s
          /\ new.chan = q.chan
      BY <1>1, <3>1 DEF ActorStates
    <3> HIDE DEF new
    <3>3. InPlace(new)
      BY <3>1, <3>2 DEF InPlace
    <3> QED
      BY <3>2, <3>3, IdleInPlace DEF new
  <2>3. Steady(q)
    BY <2>1 DEF Steady
  <2> QED
    BY <1>1, <1>2, <1>3, <1>9, <2>1, <2>2, <2>3, ActorMoves DEF Answer
<1>10. CASE Apply(r)
  <2>1. /\ actor[r].pc = "answered" /\ actor[r].chan \in Channels /\ Steady(actor[r])
        /\ RowOnApply(actor[r]) \in RowStates
        /\ tasks[actor[r].chan] # NULL => RowOnApply(actor[r]) # "disabled"
    BY <1>1, <1>2, <1>10 DEF Apply, InPlace, Steady, RowOnApply, RowStates
  <2>2. CASE Locked(r, RowOnApply(actor[r]))
    BY <2>1, <2>2, LockedKeepsCore
  <2>3. CASE /\ row' = [row EXCEPT ![actor[r].chan] = RowOnApply(actor[r])]
             /\ actor' = [actor EXCEPT ![r].pc = "waiting"]
             /\ UNCHANGED <<sessions, tasks, phase, explicit>>
    <3> DEFINE next == [actor[r] EXCEPT !.pc = "waiting"]
    <3>1. actor' = [actor EXCEPT ![r] = next]
      BY <1>1, <2>3 DEF Core, CoreTypes
    <3>2. next \in ActorStates /\ InPlace(next)
      BY <1>1, <2>1 DEF ActorStates, InPlace
    <3>3. /\ row' \in [Channels -> RowStates]
          /\ \A d \in Channels : tasks[d] # NULL => row'[d] # "disabled"
      BY <1>2, <2>1, <2>3
    <3> QED
      BY <1>1, <1>3, <2>1, <2>3, <3>1, <3>2, <3>3, ActorMoves
  <2> QED
    BY <1>10, <2>2, <2>3 DEF Apply
<1>11. CASE Acquire(r)
  <2>1. actor[r].pc = "waiting" /\ row[actor[r].chan] \in RowStates
    BY <1>1, <1>2, <1>11 DEF Acquire, InPlace
  <2> QED
    BY <1>11, <2>1, LockedKeepsCore DEF Acquire
<1>12. CASE Unlock(r)
  <2>1. actor[r].pc = "unlock" /\ actor[r].chan \in Channels /\ Steady(actor[r])
    BY <1>1, <1>12 DEF Unlock, InPlace, Steady
  <2>2. CASE actor[r].op = "add_disabled"
    <3> DEFINE c == actor[r].chan
               rowc == IF row[c] = "absent" THEN "absent" ELSE "disabled"
    <3>1. Stop(r, c, "MANUAL_STOP", rowc, Request("disable", c), Idle)
      BY <1>12, <2>2 DEF Unlock
    <3>2. "MANUAL_STOP" \in StopReasons /\ rowc \in RowStates /\ "disable" \in AllOps
      BY DEF StopReasons, RowStates, AllOps
    <3> HIDE DEF rowc
    <3> QED
      BY <1>1, <2>1, <3>1, <3>2, IdleInPlace, StopKeepsCore
  <2>3. CASE actor[r].op # "add_disabled"
    BY <1>1, <1>2, <1>3, <1>12, <2>1, <2>3, IdleInPlace, ActorMoves DEF Unlock
  <2> QED
    BY <2>2, <2>3
<1> QED
  BY <1>5, <1>6, <1>7, <1>8, <1>9, <1>10, <1>11, <1>12 DEF Handler

LEMMA StopReturnKeepsCore ==
    ASSUME Core, NEW a \in Actors, StopEnd(a)
    PROVE  Core'
<1> DEFINE q == actor[a]
           next == AfterStop(a, q)
<1>1. /\ q \in ActorStates /\ q.pc = "stopping" /\ ~Steady(q)
      /\ q.chan \in Channels /\ q.why \in StopReasons
  BY InPlaceOf DEF StopEnd, Steady, InPlace
<1>2. next \in ActorStates /\ InPlace(next) /\ Steady(next)
  <2>1. MainAt("round", q.op) \in ActorStates /\ MainAt("round", q.op).pc = "round"
    BY <1>1 DEF MainAt, Idle, ActorStates
  <2> DEFINE new == [q EXCEPT !.pc = "unlock", !.slot = NULL, !.why = NULL]
  <2>2. new \in ActorStates /\ new.pc = "unlock" /\ new.chan = q.chan
    BY <1>1 DEF ActorStates
  <2> HIDE DEF new
  <2>3. InPlace(new) /\ Steady(new) /\ InPlace(MainAt("round", q.op))
        /\ Steady(MainAt("round", q.op))
    BY <1>1, <2>1, <2>2 DEF InPlace, Steady
  <2> QED
    BY <2>1, <2>2, <2>3, IdleInPlace DEF AfterStop, new
<1>3. sessions' = [sessions EXCEPT ![q.chan] = Finished(sessions[q.chan], q.why, 0)]
  BY DEF StopEnd, ClosedByStop
<1>4. sessions' \in [Channels -> Seq(Session)] /\ Timelines'
  BY <1>1, <1>3, FinishSessions DEF Core, CoreTypes
<1>5. /\ row' \in [Channels -> RowStates]
      /\ \A c \in Channels : row'[c] = row[c] \/ row'[c] = "absent"
  <2>1. row' = [row EXCEPT ![q.chan] = RowAfterStop(q.op, row[q.chan])]
    BY DEF StopEnd
  <2> QED
    BY <1>1, <2>1 DEF Core, CoreTypes, RowAfterStop, RowStates
<1>6. /\ phase[q.chan][q.slot] = "done"
      /\ phase' = [phase EXCEPT ![q.chan][q.slot] = "free"]
      /\ explicit' = [explicit EXCEPT ![q.chan] = NULL]
      /\ actor' = [actor EXCEPT ![a] = next]
      /\ UNCHANGED tasks
  BY DEF StopEnd, ReasonsAfterStop
<1> HIDE DEF next
<1> QED
  BY <1>1, <1>2, <1>4, <1>5, <1>6, StopEndKeepsCore

LEMMA MonitorTaskKeepsCore ==
    ASSUME Core, NEW c \in Channels, NEW k \in Slots, MonitorTask(c, k)
    PROVE  Core'
<1> USE DEF Phases, Active
<1>1. UNCHANGED sessions => sessions' \in [Channels -> Seq(Session)] /\ Timelines'
  BY SameSessions DEF Core, CoreTypes
<1>2. CASE Connected(c, k)
  BY <1>1, <1>2, PhaseMoves DEF Connected
<1>3. ASSUME NEW live \in LiveIds \cup {NULL}, LookedUp(c, k, live)
      PROVE  Core'
  <2> DEFINE ph == IF phase[c][k] = "lookup" THEN "receiving" ELSE "closing"
  <2>1. /\ sessions' = [sessions EXCEPT ![c] = Started(sessions[c], live, 0)]
        /\ phase' = [phase EXCEPT ![c] = [phase[c] EXCEPT ![k] = ph]]
        /\ phase[c][k] \in {"lookup", "late"}
        /\ UNCHANGED <<row, tasks, explicit, actor>>
    BY <1>3 DEF LookedUp
  <2>2. sessions' \in [Channels -> Seq(Session)] /\ Timelines'
    BY <2>1, StartSessions DEF Core, CoreTypes
  <2>3. ph \in Phases /\ (ph \in Active => phase[c][k] \in Active) /\ phase[c][k] # "free"
    BY <2>1
  <2> HIDE DEF ph
  <2> QED
    BY <2>1, <2>2, <2>3, PhaseMoves
<1>4. CASE ConnectionLost(c, k)
  BY <1>1, <1>4, PhaseMoves DEF ConnectionLost
<1>5. CASE Inactive(c, k)
  <2>1. Cancelled(phase[c][k]) \in Phases /\ Cancelled(phase[c][k]) \notin Active
    BY CancelledPhase DEF Core, CoreTypes
  <2>2. /\ phase' = [phase EXCEPT ![c] = [phase[c] EXCEPT ![k] = Cancelled(phase[c][k])]]
        /\ phase[c][k] # "free"
        /\ UNCHANGED <<row, sessions, tasks, explicit, actor>>
    BY <1>5 DEF Inactive
  <2> QED
    BY <1>1, <2>1, <2>2, PhaseMoves
<1>6. CASE Unwound(c, k)
  BY <1>1, <1>6, PhaseMoves DEF Unwound
<1>7. CASE TaskEnds(c, k)
  BY <1>7, TaskEndKeepsCore
<1> QED
  BY <1>2, <1>3, <1>4, <1>5, <1>6, <1>7 DEF MonitorTask

LEMMA StepKeepsCore ==
    ASSUME Core, Rest, [Next]_vars
    PROVE  Core'
<1>1. UNCHANGED sessions => sessions' \in [Channels -> Seq(Session)] /\ Timelines'
  BY SameSessions DEF Core, CoreTypes
<1>2. ASSUME NEW c \in Channels, Finalize(c)
      PROVE  Core'
  <2>1. sessions' = [sessions EXCEPT ![c] = Finished(sessions[c], "UNKNOWN", 0)]
        /\ "UNKNOWN" \in StopReasons
    BY <1>2 DEF Finalize, StopReasons
  <2>2. sessions' \in [Channels -> Seq(Session)] /\ Timelines'
    BY <2>1, FinishSessions DEF Core, CoreTypes
  <2> QED
    BY <1>2, <2>2, SessionsMove DEF Finalize
<1>3. CASE Environment
  <2>1. UNCHANGED <<row, sessions, tasks, phase, explicit, actor>>
    BY <1>3 DEF Environment, GoLive, GoOffline, memory
  <2> QED
    BY <1>1, <2>1, SessionsMove
<1>4. CASE UNCHANGED vars
  <2>1. UNCHANGED <<row, sessions, tasks, phase, explicit, actor>>
    BY <1>4 DEF vars, memory
  <2> QED
    BY <1>1, <2>1, SessionsMove
<1> QED
  BY <1>2, <1>3, <1>4, ProcessKeepsCore, HandlerKeepsCore, StopReturnKeepsCore,
     MonitorTaskKeepsCore DEF Next

LEMMA StepKeepsRest ==
    ASSUME Rest, [Next]_vars
    PROVE  Rest'
<1> USE MainIsActor DEF Rest
<1>1. CASE Process
  <2>1. Registered \subseteq Channels /\ {c \in Channels : tasks[c] # NULL} \subseteq Channels
    BY DEF Registered
  <2>2. CASE Boot
    BY <2>1, <2>2 DEF Boot, world
  <2>3. CASE \E due \in SUBSET Channels : PollBegin(due)
    BY <2>3 DEF PollBegin, world
  <2>4. CASE \E c \in Channels, s \in Statuses : SyncChannel(c, s)
    BY <2>4 DEF SyncChannel, world
  <2>5. CASE RoundDone
    BY <2>5 DEF RoundDone, world
  <2>6. CASE ShutdownBegin
    BY <2>1, <2>6 DEF ShutdownBegin, world
  <2>7. CASE CancelledStopEnd
    BY <2>1, <2>7 DEF CancelledStopEnd, world
  <2>8. CASE \E c \in Channels : ShutdownStop(c)
    BY <2>8 DEF ShutdownStop, world
  <2>9. CASE ShutdownDone \/ Crash
    BY <2>9 DEF ShutdownDone, Crash, Forget, NoFinalizers, world
  <2> QED
    BY <1>1, <2>2, <2>3, <2>4, <2>5, <2>6, <2>7, <2>8, <2>9 DEF Process
<1>2. ASSUME NEW r \in Requests, Handler(r)
      PROVE  Rest'
  <2>1. UNCHANGED <<finalizing, todo, broadcast, onair, boots>>
    BY <1>2 DEF Handler, SubmitAdd, SubmitEnable, SubmitDisable, SubmitDelete, Answer,
                Apply, Acquire, Unlock, world
  <2>2. lock' \in {lock, r, NULL}
    BY <1>2 DEF Handler, SubmitAdd, SubmitEnable, SubmitDisable, SubmitDelete, Answer,
                Apply, Acquire, Unlock, Locked
  <2> QED
    BY <2>1, <2>2
<1>3. CASE \E a \in Actors : StopEnd(a)
  BY <1>3 DEF StopEnd, world
<1>4. ASSUME NEW c \in Channels, Finalize(c)
      PROVE  Rest'
  BY <1>4 DEF Finalize, world
<1>5. ASSUME NEW c \in Channels, NEW k \in Slots, MonitorTask(c, k)
      PROVE  Rest'
  <2>1. UNCHANGED <<lock, todo, broadcast, onair, boots>>
    BY <1>5 DEF MonitorTask, Connected, LookedUp, ConnectionLost, Inactive, Unwound,
                TaskEnds, world
  <2>2. finalizing' \in [Channels -> Nat]
    BY <1>5 DEF MonitorTask, Connected, LookedUp, ConnectionLost, Inactive, Unwound, TaskEnds
  <2> QED
    BY <2>1, <2>2
<1>6. CASE Environment
  <2>1. UNCHANGED <<finalizing, lock, todo, boots>>
    BY <1>6 DEF Environment, GoLive, GoOffline, memory
  <2>2. broadcast' \in [Channels -> LiveIds \cup {0}] /\ onair' \in [Channels -> BOOLEAN]
    BY <1>6 DEF Environment, GoLive, GoOffline
  <2> QED
    BY <2>1, <2>2
<1>7. CASE UNCHANGED vars
  BY <1>7 DEF vars, memory, world
<1> QED
  BY <1>1, <1>2, <1>3, <1>4, <1>5, <1>6, <1>7 DEF Next

LEMMA InitCoordinator == Init => Core /\ Rest
<1> SUFFICES ASSUME Init PROVE Core /\ Rest
  OBVIOUS
<1>1. \A a \in Actors : actor[a] \in ActorStates /\ InPlace(actor[a])
  BY DEF Init, Asleep, Down, Idle, ActorStates, InPlace
<1>2. actor \in [Actors -> ActorStates] /\ ActorsInPlace
  BY <1>1 DEF Init, Asleep, ActorsInPlace, InPlace
<1>3. CoreTypes
  BY <1>2 DEF Init, CoreTypes, RowStates, NoTasks, FreeSlots, NoReasons, Phases
<1>4. Timelines
  <2>1. Timeline(<<>>, 0)
    BY DEF Timeline, ClosedButNewest, InThePast, InOrder, NeighboursDiffer
  <2> QED
    BY <2>1 DEF Init, Timelines
<1>5. NoOrphanTask /\ OneConnectionPerChannel /\ NoTaskForDisabledChannel
  BY DEF Init, NoOrphanTask, OneConnectionPerChannel, NoTaskForDisabledChannel, NoTasks,
         FreeSlots, Active
<1>6. Rest
  BY DEF Init, Rest, NoFinalizers
<1> QED
  BY <1>2, <1>3, <1>4, <1>5, <1>6 DEF Core

LEMMA InvHolds == Spec => [](Core /\ Rest)
<1>1. Core /\ Rest /\ [Next]_vars => (Core /\ Rest)'
  BY StepKeepsCore, StepKeepsRest
<1> QED
  BY <1>1, InitCoordinator, PTL DEF Spec

\* Every variable of the control plane keeps its type, in particular a task is only ever
\* registered under a free slot.
THEOREM CoordinatorTypes == Spec => []TypeOK
<1>1. Core /\ Rest => TypeOK
  BY DEF Core, CoreTypes, Rest, TypeOK, RowStates
<1> QED
  BY <1>1, InvHolds, PTL

\* A disabled channel never has a registered monitor task: set_enabled and the pop of the
\* task are one step, and ensure_monitoring follows the re-read of the row at once.
THEOREM DisabledHasNoTask == Spec => []NoTaskForDisabledChannel
<1>1. Core => NoTaskForDisabledChannel
  BY DEF Core
<1> QED
  BY <1>1, InvHolds, PTL

\* However many requests, polls and cancelled tasks overlap, a channel never has two
\* chat connections.
THEOREM OneConnection == Spec => []OneConnectionPerChannel
<1>1. Core => OneConnectionPerChannel
  BY DEF Core
<1> QED
  BY <1>1, InvHolds, PTL

\* No monitor task runs on without being registered or awaited.
THEOREM TasksHaveOwners == Spec => []NoOrphanTask
<1>1. Core => NoOrphanTask
  BY DEF Core
<1> QED
  BY <1>1, InvHolds, PTL

-----------------------------------------------------------------------------
(* The control plane implements SessionStore.                               *)

\* What a step may do to the sessions: one call of the store, or nothing.
StoreCall ==
    \/ UNCHANGED sessions
    \/ \E c \in Channels, why \in StopReasons :
          sessions' = [sessions EXCEPT ![c] = Finished(sessions[c], why, 0)]
    \/ \E c \in Channels, live \in LiveIds \cup {NULL} :
          /\ Len(Started(sessions[c], live, 0)) <= MaxSessions
          /\ sessions' = [sessions EXCEPT ![c] = Started(sessions[c], live, 0)]

LEMMA StopCalls ==
    ASSUME NEW a, NEW c \in Channels, NEW why \in StopReasons, NEW rowc, NEW rec, NEW next,
           Stop(a, c, why, rowc, rec, next)
    PROVE  StoreCall
BY DEF Stop, StoreCall

LEMMA ReconcileCalls ==
    ASSUME NEW a, NEW c \in Channels, NEW s, NEW rowc, NEW rec, NEW next,
           Reconcile(a, c, s, rowc, rec, next)
    PROVE  StoreCall
<1>1. StopReason(rowc, s) \in StopReasons \cup {NULL}
  BY DEF StopReason, StopReasons
<1>2. ASSUME Ensure(a, c, rowc, next) PROVE UNCHANGED sessions
  BY <1>2 DEF Ensure
<1>3. CASE StopReason(rowc, s) # NULL /\ Stop(a, c, StopReason(rowc, s), rowc, rec, next)
  BY <1>1, <1>3, StopCalls
<1>4. CASE UNCHANGED sessions
  BY <1>4 DEF StoreCall
<1> QED
  BY <1>2, <1>3, <1>4 DEF Reconcile

LEMMA HandlerCalls ==
    ASSUME Core, NEW r \in Requests, Handler(r)
    PROVE  StoreCall
<1>1. r \in Actors /\ InPlace(actor[r])
  BY MainIsActor, InPlaceOf
<1>2. {"MANUAL_STOP", "CHANNEL_REMOVED"} \subseteq StopReasons
  BY DEF StopReasons
<1>3. ASSUME NEW rowc, Locked(r, rowc), actor[r].pc \in {"answered", "waiting"}
      PROVE  StoreCall
  <2>1. CASE rowc = "absent"
    BY <1>3, <2>1 DEF Locked, StoreCall
  <2>2. CASE rowc # "absent"
    <3> DEFINE q == [actor[r] EXCEPT !.snap = NULL]
    <3>1. actor[r].chan \in Channels /\ q.chan = actor[r].chan
      BY <1>1, <1>3, InPlaceOf DEF InPlace, ActorStates
    <3>2. Reconcile(r, q.chan, actor[r].snap, rowc, q, [q EXCEPT !.pc = "unlock"])
      BY <1>3, <2>2 DEF Locked
    <3> QED
      BY <3>1, <3>2, ReconcileCalls
  <2> QED
    BY <2>1, <2>2
<1>4. CASE Apply(r)
  BY <1>3, <1>4 DEF Apply, StoreCall
<1>5. CASE Acquire(r)
  BY <1>3, <1>5 DEF Acquire
<1>6. CASE Unlock(r)
  <2>1. actor[r].chan \in Channels
    BY <1>1, <1>6 DEF Unlock, InPlace
  <2> QED
    BY <1>2, <1>6, <2>1, StopCalls DEF Unlock, StoreCall
<1>7. ASSUME NEW c \in Channels, SubmitDisable(r, c) \/ SubmitDelete(r, c)
      PROVE  StoreCall
  BY <1>2, <1>7, StopCalls DEF SubmitDisable, SubmitDelete
<1>8. ASSUME NEW c \in Channels,
             SubmitEnable(r, c) \/ \E op \in {"add", "add_disabled"} : SubmitAdd(r, op, c)
      PROVE  UNCHANGED sessions
  BY <1>8 DEF SubmitEnable, SubmitAdd
<1>9. ASSUME NEW s \in Statuses, Answer(r, s)
      PROVE  UNCHANGED sessions
  BY <1>9 DEF Answer
<1>10. UNCHANGED sessions => StoreCall
  BY DEF StoreCall
<1> QED
  BY <1>4, <1>5, <1>6, <1>7, <1>8, <1>9, <1>10 DEF Handler

LEMMA StepCalls ==
    ASSUME Core, Rest, [Next]_vars
    PROVE  StoreCall
<1> USE MainIsActor
<1>1. UNCHANGED sessions => StoreCall
  BY DEF StoreCall
<1>2. CASE Process
  <2>1. ASSUME NEW c \in Channels, NEW s \in Statuses, SyncChannel(c, s)
        PROVE  StoreCall
    BY <2>1, ReconcileCalls DEF SyncChannel
  <2>2. ASSUME NEW c \in Channels, ShutdownStop(c)
        PROVE  StoreCall
    <3>1. "SERVER_SHUTDOWN" \in StopReasons
      BY DEF StopReasons
    <3> QED
      BY <2>2, <3>1, StopCalls DEF ShutdownStop
  <2>3. CASE \/ Boot \/ RoundDone \/ ShutdownBegin \/ CancelledStopEnd \/ ShutdownDone \/ Crash
             \/ \E due \in SUBSET Channels : PollBegin(due)
    BY <1>1, <2>3 DEF Boot, PollBegin, RoundDone, ShutdownBegin, CancelledStopEnd,
                      ShutdownDone, Crash
  <2> QED
    BY <1>2, <2>1, <2>2, <2>3 DEF Process
<1>3. ASSUME NEW a \in Actors, StopEnd(a)
      PROVE  StoreCall
  <2>1. actor[a].chan \in Channels /\ actor[a].why \in StopReasons
    BY <1>3, InPlaceOf DEF StopEnd, InPlace
  <2> QED
    BY <1>3, <2>1 DEF StopEnd, ClosedByStop, StoreCall
<1>4. ASSUME NEW c \in Channels, Finalize(c)
      PROVE  StoreCall
  BY <1>4 DEF Finalize, StoreCall, StopReasons
<1>5. ASSUME NEW c \in Channels, NEW k \in Slots, MonitorTask(c, k)
      PROVE  StoreCall
  <2>1. ASSUME NEW live \in LiveIds \cup {NULL}, LookedUp(c, k, live)
        PROVE  StoreCall
    BY <2>1 DEF LookedUp, StoreCall
  <2> QED
    BY <1>1, <1>5, <2>1 DEF MonitorTask, Connected, ConnectionLost, Inactive, Unwound, TaskEnds
<1>6. CASE Environment
  BY <1>1, <1>6 DEF Environment, GoLive, GoOffline
<1>7. CASE UNCHANGED vars
  BY <1>1, <1>7 DEF vars
<1> QED
  BY <1>2, <1>3, <1>4, <1>5, <1>6, <1>7, HandlerCalls DEF Next

LEMMA StoreOperators ==
    /\ \A rows, why, now : Store!Finished(rows, why, now) = Finished(rows, why, now)
    /\ \A rows, live, now : Store!Started(rows, live, now) = Started(rows, live, now)
BY DEF Store!Finished, Finished, Store!Started, Started, Store!HasOpen, HasOpen,
       Store!OpenRows, OpenRows, Store!OpenRow, OpenRow, Store!Opened, Opened,
       Store!NewSession, NewSession, Store!Continues, Continues,
       Store!ReplacedReason, ReplacedReason

LEMMA CallIsStoreStep == StoreCall => [Store!Next]_(Store!vars)
<1>1. ASSUME NEW c \in Channels, NEW why \in StopReasons,
             sessions' = [sessions EXCEPT ![c] = Finished(sessions[c], why, 0)]
      PROVE  Store!Next
  <2>1. Store!FinishSession(c, why)
    BY <1>1, StoreOperators DEF Store!FinishSession
  <2>2. why \in Store!StopReasons
    BY DEF StopReasons, Store!StopReasons
  <2> QED
    BY <2>1, <2>2 DEF Store!Next
<1>2. ASSUME NEW c \in Channels, NEW live \in LiveIds \cup {NULL},
             Len(Started(sessions[c], live, 0)) <= MaxSessions,
             sessions' = [sessions EXCEPT ![c] = Started(sessions[c], live, 0)]
      PROVE  Store!Next
  <2>1. Store!StartSession(c, live)
    BY <1>2, StoreOperators DEF Store!StartSession
  <2> QED
    BY <2>1 DEF Store!Next
<1>3. CASE UNCHANGED sessions
  BY <1>3 DEF Store!vars
<1> QED
  BY <1>1, <1>2, <1>3 DEF StoreCall

\* The refinement: whatever the requests, the poll loop, the monitor tasks, shutdown and
\* crashes do, the sessions of a channel change as SessionStore says.
THEOREM ImplementsStore == Spec => StoreSpec
<1>1. Init => Store!Init
  BY DEF Init, Store!Init
<1>2. Core /\ Rest /\ [Next]_vars => [Store!Next]_(Store!vars)
  BY StepCalls, CallIsStoreStep
<1> QED
  BY <1>1, <1>2, InvHolds, PTL DEF Spec, StoreSpec, Store!Spec

\* Hence the sessions the control plane leaves behind are the timeline Gold reads.
THEOREM CoordinatorTimelines == Spec => []Timelines
<1>1. Core => Timelines
  BY DEF Core
<1> QED
  BY <1>1, InvHolds, PTL
=============================================================================
