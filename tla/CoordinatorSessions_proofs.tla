--------------------- MODULE CoordinatorSessions_proofs ---------------------
(***************************************************************************)
(* Who looks after the open session of a channel, for any number of        *)
(* channels, requests, broadcasts and restarts: a disabled channel has no  *)
(* open session once its stops have returned, and in the first life of the *)
(* process no open session is forgotten.  The invariant ties the explicit  *)
(* stop reasons, the stops under way, the scheduled finalizers and the     *)
(* visits of the startup round together; it builds on Core and Rest of     *)
(* MonitorCoordinator_proofs.                                              *)
(***************************************************************************)
EXTENDS MonitorCoordinator_proofs

\* Startup or the poll loop is on, and has looked at c since the process started.
Serving == actor[Main].op \in {"startup", "poll"}
Visited(c) == actor[Main].op = "poll" \/ (actor[Main].op = "startup" /\ c \notin todo)

\* Some stop_monitoring call for c, cancelled or not, waits for a task's end.
WaitedFor(c) == \E a \in Actors : actor[a].pc \in {"stopping", "cancelled"} /\ actor[a].chan = c

\* Somebody is left who will close an open session of c.
Owned(c) == (\E k \in Slots : phase[c][k] # "free") \/ StopPending(c) \/ finalizing[c] > 0

OnlyMainIsCancelled == \A r \in Requests : actor[r].pc # "cancelled"

ReasonsAreFresh == \A c \in Channels : explicit[c] # NULL => WaitedFor(c)

DisabledIsClosed ==
    \A c \in Channels :
        Visited(c) /\ row[c] = "disabled" /\ ~StopPending(c) => ~HasOpen(sessions[c])

OpenIsOwned ==
    \A c \in Channels : boots = 1 /\ Serving /\ HasOpen(sessions[c]) => Owned(c)

Unbooted ==
    /\ actor = Asleep /\ tasks = NoTasks /\ phase = FreeSlots /\ finalizing = NoFinalizers
    /\ \A c \in Channels : ~HasOpen(sessions[c])

SleepsWhilePolling == actor[Main].pc = "sleep" => actor[Main].op = "poll"

Duties ==
    /\ OnlyMainIsCancelled
    /\ SleepsWhilePolling
    /\ ReasonsAreFresh
    /\ DisabledIsClosed
    /\ OpenIsOwned
    /\ boots = 0 => Unbooted

-----------------------------------------------------------------------------
(* A step that keeps the duties.                                            *)

\* The channels outside of touched keep their rows; sessions are closed or left alone;
\* whoever owned an open session still does.
Keeps(touched) ==
    /\ \A c \in Channels : sessions'[c] = sessions[c] \/ ~HasOpen(sessions'[c])
    /\ \A c \in Channels : StopPending(c) => StopPending(c)' \/ ~HasOpen(sessions'[c])
    /\ \A c \in Channels : Serving /\ Owned(c) => Owned(c)' \/ ~HasOpen(sessions'[c])
    /\ \A c \in Channels : explicit'[c] # NULL => WaitedFor(c)'
    /\ \A c \in touched : StopPending(c)' \/ ~HasOpen(sessions'[c]) \/ row'[c] # "disabled"
    /\ \A c \in Channels \ touched : row'[c] = row[c]
    /\ OnlyMainIsCancelled'

LEMMA KeptDuties ==
    ASSUME Duties, boots # 0, NEW touched \in SUBSET Channels, Keeps(touched),
           boots' = boots, SleepsWhilePolling', Serving' => Serving,
           \A c \in Channels \ touched : Visited(c)' => Visited(c)
    PROVE  Duties'
<1>1. ReasonsAreFresh' /\ OnlyMainIsCancelled'
  BY DEF Keeps, ReasonsAreFresh
<1>2. ASSUME NEW c \in Channels, Visited(c)', row'[c] = "disabled", ~StopPending(c)',
             HasOpen(sessions'[c])
      PROVE  FALSE
  <2>1. c \notin touched
    BY <1>2 DEF Keeps
  <2>2. Visited(c) /\ row[c] = "disabled" /\ ~StopPending(c) /\ HasOpen(sessions[c])
    BY <1>2, <2>1 DEF Keeps
  <2> QED
    BY <2>2 DEF Duties, DisabledIsClosed
<1>3. ASSUME NEW c \in Channels, boots' = 1, Serving', HasOpen(sessions'[c])
      PROVE  Owned(c)'
  <2>1. Serving /\ boots = 1 /\ HasOpen(sessions[c])
    BY <1>3 DEF Keeps
  <2>2. Owned(c)
    BY <2>1 DEF Duties, OpenIsOwned
  <2> QED
    BY <1>3, <2>1, <2>2 DEF Keeps
<1>4. DisabledIsClosed' /\ OpenIsOwned'
  BY <1>2, <1>3 DEF DisabledIsClosed, OpenIsOwned
<1> QED
  BY <1>1, <1>4 DEF Duties

\* An actor that waits for nothing moves: what others wait for stays waited for.
LEMMA PendingKept ==
    ASSUME actor \in [Actors -> ActorStates], NEW a \in Actors, Steady(actor[a]),
           NEW next, actor' = [actor EXCEPT ![a] = next]
    PROVE  \A c \in Channels : /\ StopPending(c) => StopPending(c)'
                               /\ WaitedFor(c) => WaitedFor(c)'
<1> SUFFICES ASSUME NEW c \in Channels, NEW b \in Actors,
                    actor[b].pc \in {"stopping", "cancelled"}, actor[b].chan = c
             PROVE  actor'[b] = actor[b]
  BY DEF StopPending, WaitedFor
<1> QED
  BY DEF Steady

LEMMA CancelledKept ==
    ASSUME actor \in [Actors -> ActorStates], OnlyMainIsCancelled, NEW a \in Actors,
           NEW next, a = Main \/ next.pc # "cancelled", actor' = [actor EXCEPT ![a] = next]
    PROVE  OnlyMainIsCancelled'
BY CoordinatorAssumption DEF OnlyMainIsCancelled, Actors

\* Such a move alone.
LEMMA MoveKeeps ==
    ASSUME Core, Duties, NEW a \in Actors, Steady(actor[a]), NEW next,
           a = Main \/ next.pc # "cancelled", actor' = [actor EXCEPT ![a] = next],
           NEW touched \in SUBSET Channels, \A c \in Channels \ touched : row'[c] = row[c],
           \A c \in touched : row'[c] # "disabled",
           UNCHANGED <<sessions, phase, explicit, finalizing>>
    PROVE  Keeps(touched)
<1>1. actor \in [Actors -> ActorStates]
  BY DEF Core, CoreTypes
<1>2. OnlyMainIsCancelled'
  BY <1>1, CancelledKept DEF Duties
<1>3. \A c \in Channels : /\ StopPending(c) => StopPending(c)'
                          /\ WaitedFor(c) => WaitedFor(c)'
  BY <1>1, PendingKept
<1>4. \A c \in Channels : Owned(c) => Owned(c)'
  BY <1>3 DEF Owned
<1> QED
  BY <1>2, <1>3, <1>4 DEF Keeps, Duties, ReasonsAreFresh

LEMMA CancelledIsInUse ==
    ASSUME NEW ph \in Phases
    PROVE  Cancelled(ph) # "free" <=> ph # "free"
BY DEF Cancelled, Active, Phases

\* stop_monitoring closes the session, or leaves behind a stop that will.
LEMMA StopKeeps ==
    ASSUME Core, Duties, NEW a \in Actors, Steady(actor[a]), NEW c \in Channels,
           NEW why \in StopReasons, NEW rowc, NEW rec \in ActorStates, NEW next,
           a = Main \/ next.pc # "cancelled",
           Stop(a, c, why, rowc, rec, next), UNCHANGED finalizing
    PROVE  Keeps({c})
<1>1. actor \in [Actors -> ActorStates] /\ OnlyMainIsCancelled /\ ReasonsAreFresh
  BY DEF Core, CoreTypes, Duties
<1>2. CASE tasks[c] = NULL
  <2>1. /\ sessions' = [sessions EXCEPT ![c] = Finished(sessions[c], why, 0)]
        /\ actor' = [actor EXCEPT ![a] = next]
        /\ \A d \in Channels \ {c} : row'[d] = row[d]
        /\ UNCHANGED <<phase, explicit>>
    BY <1>2 DEF Stop, Core, CoreTypes
  <2>2. ~HasOpen(sessions'[c])
    <3>1. ~HasOpen(Finished(sessions[c], why, 0))
      BY FinishKeepsTimeline DEF Core, Timelines
    <3> QED
      BY <2>1, <3>1 DEF Core, CoreTypes
  <2>3. \A d \in Channels \ {c} : sessions'[d] = sessions[d]
    BY <2>1 DEF Core, CoreTypes
  <2>4. \A d \in Channels : /\ StopPending(d) => StopPending(d)'
                            /\ WaitedFor(d) => WaitedFor(d)'
    BY <1>1, <2>1, PendingKept
  <2>5. OnlyMainIsCancelled'
    BY <1>1, <2>1, CancelledKept
  <2>6. \A d \in Channels : Owned(d) => Owned(d)'
    BY <2>1, <2>4 DEF Owned
  <2> QED
    BY <1>1, <2>1, <2>2, <2>3, <2>4, <2>5, <2>6 DEF Keeps, ReasonsAreFresh
<1>3. CASE tasks[c] # NULL
  <2> DEFINE k == tasks[c]
             new == [rec EXCEPT !.pc = "stopping", !.chan = c, !.slot = k, !.why = why]
  <2>1. /\ explicit' = [explicit EXCEPT ![c] = why]
        /\ phase' = [phase EXCEPT ![c][k] = Cancelled(@)]
        /\ \A d \in Channels \ {c} : row'[d] = row[d]
        /\ actor' = [actor EXCEPT ![a] = new]
        /\ UNCHANGED sessions
    BY <1>3 DEF Stop, Core, CoreTypes
  <2>2. new.pc = "stopping" /\ new.chan = c
    BY DEF ActorStates
  <2>3. k \in Slots
    BY <1>3 DEF Core, CoreTypes
  <2> HIDE DEF new, k
  <2>4. \A d \in Channels : /\ StopPending(d) => StopPending(d)'
                            /\ WaitedFor(d) => WaitedFor(d)'
    BY <1>1, <2>1, PendingKept
  <2>5. OnlyMainIsCancelled'
    BY <1>1, <2>1, <2>2, CancelledKept
  <2>6. StopPending(c)' /\ WaitedFor(c)'
    BY <1>1, <2>1, <2>2 DEF StopPending, WaitedFor
  <2>7. \A d \in Channels, j \in Slots : phase[d][j] # "free" => phase'[d][j] # "free"
    <3> SUFFICES ASSUME NEW d \in Channels, NEW j \in Slots, phase[d][j] # "free"
                 PROVE  phase'[d][j] # "free"
      OBVIOUS
    <3>1. phase[d][j] \in Phases /\ Cancelled(phase[d][j]) # "free"
      BY CancelledIsInUse DEF Core, CoreTypes
    <3>2. phase'[d][j] = phase[d][j] \/ phase'[d][j] = Cancelled(phase[d][j])
      BY <2>1, <2>3 DEF Core, CoreTypes
    <3> QED
      BY <3>1, <3>2
  <2>8. \A d \in Channels : Owned(d) => Owned(d)'
    BY <2>4, <2>7 DEF Owned
  <2>9. \A d \in Channels : explicit'[d] # NULL => WaitedFor(d)'
    BY <1>1, <2>1, <2>4, <2>6 DEF ReasonsAreFresh, Core, CoreTypes
  <2> QED
    BY <1>1, <2>1, <2>4, <2>5, <2>6, <2>8, <2>9 DEF Keeps
<1> QED
  BY <1>2, <1>3

\* ensure_monitoring is only called for a channel that is not disabled.
LEMMA EnsureKeeps ==
    ASSUME Core, Duties, NEW a \in Actors, Steady(actor[a]), NEW c \in Channels,
           NEW rowc, rowc # "disabled", NEW next, a = Main \/ next.pc # "cancelled",
           Ensure(a, c, rowc, next), UNCHANGED finalizing
    PROVE  Keeps({c})
<1>1. actor \in [Actors -> ActorStates] /\ OnlyMainIsCancelled /\ ReasonsAreFresh
  BY DEF Core, CoreTypes, Duties
<1>2. /\ actor' = [actor EXCEPT ![a] = next] /\ UNCHANGED <<sessions, explicit>>
      /\ row' = [row EXCEPT ![c] = rowc]
  BY DEF Ensure
<1>3. \A d \in Channels, j \in Slots : phase[d][j] # "free" => phase'[d][j] # "free"
  <2>1. CASE Monitored(c)
    BY <2>1 DEF Ensure
  <2>2. CASE ~Monitored(c)
    <3>1. \E k : phase' = [phase EXCEPT ![c][k] = "connecting"]
      BY <2>2 DEF Ensure
    <3> QED
      BY <3>1 DEF Core, CoreTypes
  <2> QED
    BY <2>1, <2>2
<1>4. \A d \in Channels : /\ StopPending(d) => StopPending(d)'
                          /\ WaitedFor(d) => WaitedFor(d)'
  BY <1>1, <1>2, PendingKept
<1>5. OnlyMainIsCancelled'
  BY <1>1, <1>2, CancelledKept
<1>6. \A d \in Channels : Owned(d) => Owned(d)'
  BY <1>3, <1>4 DEF Owned
<1>7. row'[c] # "disabled" /\ \A d \in Channels \ {c} : row'[d] = row[d]
  BY <1>2 DEF Core, CoreTypes
<1> QED
  BY <1>1, <1>2, <1>4, <1>5, <1>6, <1>7 DEF Keeps, ReasonsAreFresh

LEMMA ReconcileKeeps ==
    ASSUME Core, Duties, NEW a \in Actors, Steady(actor[a]), NEW c \in Channels,
           NEW s, NEW rowc \in RowStates, NEW rec \in ActorStates, NEW next,
           a = Main \/ next.pc # "cancelled",
           Reconcile(a, c, s, rowc, rec, next), UNCHANGED finalizing
    PROVE  Keeps({c})
<1> DEFINE why == StopReason(rowc, s)
<1>1. why \in StopReasons \cup {NULL} /\ (why = NULL => rowc # "disabled")
  BY NullAssumption DEF StopReason, StopReasons, RowStates
<1>2. CASE why # NULL /\ Stop(a, c, why, rowc, rec, next)
  BY <1>1, <1>2, StopKeeps
<1>3. CASE why = NULL /\ Ensure(a, c, rowc, next)
  BY <1>1, <1>3, EnsureKeeps
<1>4. CASE /\ why = NULL /\ row' = [row EXCEPT ![c] = rowc]
           /\ actor' = [actor EXCEPT ![a] = next]
           /\ UNCHANGED <<sessions, tasks, phase, explicit>>
  <2>1. row'[c] # "disabled" /\ \A d \in Channels \ {c} : row'[d] = row[d]
    BY <1>1, <1>4 DEF Core, CoreTypes
  <2> QED
    BY <1>4, <2>1, MoveKeeps
<1> QED
  BY <1>2, <1>3, <1>4 DEF Reconcile

\* A stop that returns has closed the session, whatever else happened meanwhile.
LEMMA StopEndKeeps ==
    ASSUME Core, Duties, NEW a \in Actors, StopEnd(a)
    PROVE  /\ Keeps({actor[a].chan}) /\ actor[a].chan \in Channels
           /\ actor'[Main].op = actor[Main].op
<1> DEFINE q == actor[a]
           c == q.chan
<1>1. actor \in [Actors -> ActorStates] /\ OnlyMainIsCancelled /\ ReasonsAreFresh
  BY DEF Core, CoreTypes, Duties
<1>2. /\ q.pc = "stopping" /\ c \in Channels /\ q.slot \in Slots /\ q.why \in StopReasons
      /\ q \in ActorStates
  BY InPlaceOf DEF StopEnd, InPlace
<1>3. /\ phase' = [phase EXCEPT ![c][q.slot] = "free"]
      /\ explicit' = [explicit EXCEPT ![c] = NULL]
      /\ sessions' = [sessions EXCEPT ![c] = Finished(sessions[c], q.why, 0)]
      /\ \A d \in Channels \ {c} : row'[d] = row[d]
      /\ actor' = [actor EXCEPT ![a] = AfterStop(a, q)]
      /\ finalizing' = finalizing
  BY DEF StopEnd, ReasonsAfterStop, ClosedByStop, Core, CoreTypes
<1>4. ~HasOpen(sessions'[c]) /\ \A d \in Channels \ {c} : sessions'[d] = sessions[d]
  <2>1. ~HasOpen(Finished(sessions[c], q.why, 0))
    BY <1>2, FinishKeepsTimeline DEF Core, Timelines
  <2> QED
    BY <1>2, <1>3, <2>1 DEF Core, CoreTypes
<1>5. \A d \in Channels \ {c} : /\ StopPending(d) => StopPending(d)'
                                /\ WaitedFor(d) => WaitedFor(d)'
  <2> SUFFICES ASSUME NEW d \in Channels \ {c}, NEW b \in Actors, actor[b].chan = d
               PROVE  actor'[b] = actor[b]
    BY DEF StopPending, WaitedFor
  <2> QED
    BY <1>1, <1>3
<1>6. \A d \in Channels \ {c} : Owned(d) => Owned(d)'
  <2>1. \A d \in Channels \ {c} : phase'[d] = phase[d]
    BY <1>3 DEF Core, CoreTypes
  <2> QED
    BY <1>3, <1>5, <2>1 DEF Owned
<1>7. /\ AfterStop(a, q).pc # "cancelled"
      /\ a = Main => AfterStop(a, q).op = q.op
  BY <1>2 DEF AfterStop, MainAt, Idle, ActorStates
<1>8. OnlyMainIsCancelled'
  BY <1>1, <1>3, <1>7, CancelledKept
<1>9. \A d \in Channels : explicit'[d] # NULL => WaitedFor(d)'
  BY <1>1, <1>2, <1>3, <1>5 DEF ReasonsAreFresh, Core, CoreTypes
<1>10. actor'[Main].op = actor[Main].op
  BY <1>1, <1>3, <1>7, MainIsActor
<1> QED
  BY <1>2, <1>3, <1>4, <1>5, <1>6, <1>8, <1>9, <1>10 DEF Keeps

-----------------------------------------------------------------------------
(* The actions.                                                             *)

\* Once Main has left the poll loop for good, little is asked of it.
LEMMA OffDuty ==
    ASSUME ~Serving', boots' # 0, ReasonsAreFresh', OnlyMainIsCancelled', SleepsWhilePolling'
    PROVE  Duties'
BY DEF Duties, DisabledIsClosed, OpenIsOwned, Visited, Serving

\* Nobody runs in the channel of a disabled row but a task whose stop is under way.
LEMMA QuietPhases ==
    ASSUME Core, OnlyMainIsCancelled, NEW c \in Channels, row[c] = "disabled",
           ~StopPending(c), actor[Main].op # "shutdown"
    PROVE  \A k \in Slots : phase[c][k] = "free"
<1> SUFFICES ASSUME NEW k \in Slots, phase[c][k] # "free" PROVE FALSE
  OBVIOUS
<1>1. tasks[c] # k
  BY CoordinatorAssumption DEF Core, NoTaskForDisabledChannel
<1>2. PICK a \in Actors : actor[a].pc \in {"stopping", "cancelled"} /\ actor[a].chan = c
  BY <1>1 DEF Core, NoOrphanTask, Awaited
<1>3. actor[a].pc = "cancelled"
  BY <1>2 DEF StopPending
<1>4. a = Main
  BY <1>3 DEF OnlyMainIsCancelled, Actors
<1> QED
  BY <1>3, <1>4 DEF Core, ActorsInPlace

\* Before the first start nothing happens but CHZZK's broadcasts.
LEMMA OnlyBoots ==
    ASSUME Unbooted, Next
    PROVE  Boot \/ Environment
<1>1. actor[Main].pc = "down" /\ actor[Main].op = NULL /\ \A r \in Requests : actor[r].pc = "idle"
  BY CoordinatorAssumption DEF Unbooted, Asleep, Down, Idle, Actors
<1>0. actor[Main].op # "poll"
  BY <1>1, CoordinatorAssumption
<1>2. \A a \in Actors : actor[a].pc \in {"idle", "down"}
  BY <1>1 DEF Actors
<1>3. Process => Boot
  BY <1>0, <1>1 DEF Process, PollBegin, SyncChannel, RoundDone, ShutdownBegin,
     CancelledStopEnd, ShutdownStop, ShutdownDone, Crash
<1>4. \A r \in Requests : ~Handler(r)
  BY <1>0, <1>1 DEF Handler, SubmitAdd, SubmitEnable, SubmitDisable, SubmitDelete,
     Arrives, Answer, Apply, Acquire, Unlock
<1>5. \A a \in Actors : ~StopEnd(a)
  BY <1>2 DEF StopEnd
<1>6. \A c \in Channels : ~Finalize(c)
  BY DEF Unbooted, NoFinalizers, Finalize
<1>7. \A c \in Channels, k \in Slots : ~MonitorTask(c, k)
  BY DEF Unbooted, FreeSlots, MonitorTask, Connected, LookedUp, ConnectionLost, Inactive,
         Unwound, TaskEnds, Active
<1> QED
  BY <1>3, <1>4, <1>5, <1>6, <1>7 DEF Next

LEMMA HandlerMoves ==
    ASSUME NEW r \in Requests, Handler(r)
    PROVE  /\ \E x : actor' = [actor EXCEPT ![r] = x]
           /\ UNCHANGED <<finalizing, todo, boots>>
<1>1. ASSUME NEW c, NEW why, NEW rowc, NEW rec, NEW next, Stop(r, c, why, rowc, rec, next)
      PROVE  \E x : actor' = [actor EXCEPT ![r] = x]
  BY <1>1 DEF Stop
<1>2. ASSUME NEW c, NEW s, NEW rowc, NEW rec, NEW next, Reconcile(r, c, s, rowc, rec, next)
      PROVE  \E x : actor' = [actor EXCEPT ![r] = x]
  BY <1>1, <1>2 DEF Reconcile, Ensure
<1>3. ASSUME NEW rowc, Locked(r, rowc)
      PROVE  \E x : actor' = [actor EXCEPT ![r] = x]
  BY <1>2, <1>3 DEF Locked
<1>4. ASSUME NEW c \in Channels
      PROVE  /\ \A op : SubmitAdd(r, op, c) => \E x : actor' = [actor EXCEPT ![r] = x]
             /\ SubmitEnable(r, c) => \E x : actor' = [actor EXCEPT ![r] = x]
             /\ SubmitDisable(r, c) => \E x : actor' = [actor EXCEPT ![r] = x]
             /\ SubmitDelete(r, c) => \E x : actor' = [actor EXCEPT ![r] = x]
  BY <1>1 DEF SubmitAdd, SubmitEnable, SubmitDisable, SubmitDelete
<1>5. /\ \A s : Answer(r, s) => \E x : actor' = [actor EXCEPT ![r] = x]
      /\ Acquire(r) => \E x : actor' = [actor EXCEPT ![r] = x]
  BY <1>3 DEF Answer, Acquire
<1>6. Apply(r) => \E x : actor' = [actor EXCEPT ![r] = x]
  <2>1. ASSUME actor' = [actor EXCEPT ![r].pc = "waiting"]
        PROVE  \E x : actor' = [actor EXCEPT ![r] = x]
    <3>1. actor' = [actor EXCEPT ![r] = [actor[r] EXCEPT !.pc = "waiting"]]
      BY <2>1
    <3> QED
      BY <3>1
  <2> QED
    BY <1>3, <2>1 DEF Apply
<1>7. Unlock(r) => \E x : actor' = [actor EXCEPT ![r] = x]
  BY <1>1 DEF Unlock
<1>8. UNCHANGED <<finalizing, todo, boots>>
  BY DEF Handler, SubmitAdd, SubmitEnable, SubmitDisable, SubmitDelete, Answer, Apply,
         Acquire, Unlock
<1> QED
  BY <1>4, <1>5, <1>6, <1>7, <1>8 DEF Handler

\* A step of a request that keeps what Keeps asks for keeps the duties.
LEMMA HandlerDuties ==
    ASSUME Core, Duties, boots # 0, NEW r \in Requests, Handler(r),
           NEW touched \in SUBSET Channels, Keeps(touched)
    PROVE  Duties'
<1>1. PICK x : actor' = [actor EXCEPT ![r] = x]
  BY HandlerMoves
<1>2. actor'[Main] = actor[Main]
  BY <1>1, MainIsActor, CoordinatorAssumption DEF Core, CoreTypes
<1>3. /\ SleepsWhilePolling' /\ (Serving' => Serving)
      /\ \A c \in Channels : Visited(c)' => Visited(c)
  BY <1>2, HandlerMoves DEF Duties, SleepsWhilePolling, Serving, Visited
<1>4. boots' = boots
  BY HandlerMoves
<1> QED
  BY <1>3, <1>4, KeptDuties

LEMMA LockedKeeps ==
    ASSUME Core, Duties, NEW r \in Requests, actor[r].pc \in {"answered", "waiting"},
           NEW rowc \in RowStates, Locked(r, rowc), UNCHANGED finalizing
    PROVE  \E touched \in SUBSET Channels : Keeps(touched)
<1> DEFINE q == [actor[r] EXCEPT !.snap = NULL]
           next == [q EXCEPT !.pc = "unlock"]
<1>1. /\ r \in Actors /\ actor[r] \in ActorStates /\ actor[r].chan \in Channels
      /\ Steady(actor[r])
  BY MainIsActor, InPlaceOf DEF InPlace, Steady
<1>2. q \in ActorStates /\ q.chan = actor[r].chan /\ next.pc # "cancelled"
  BY <1>1 DEF ActorStates
<1>3. CASE rowc = "absent"
  <2>1. actor' = [actor EXCEPT ![r] = next] /\ UNCHANGED <<row, sessions, phase, explicit>>
    BY <1>3 DEF Locked
  <2> HIDE DEF q, next
  <2>2. Keeps({})
    BY <1>1, <1>2, <2>1, MoveKeeps
  <2> QED
    BY <2>2
<1>4. CASE rowc # "absent"
  <2>1. Reconcile(r, q.chan, actor[r].snap, rowc, q, next)
    BY <1>4 DEF Locked
  <2> HIDE DEF q, next
  <2>2. Keeps({q.chan})
    BY <1>1, <1>2, <2>1, ReconcileKeeps
  <2> QED
    BY <1>1, <1>2, <2>2
<1> QED
  BY <1>3, <1>4

LEMMA HandlerKeepsDuties ==
    ASSUME Core, Duties, boots # 0, NEW r \in Requests, Handler(r)
    PROVE  Duties'
<1> SUFFICES \E touched \in SUBSET Channels : Keeps(touched)
  BY HandlerDuties
<1> DEFINE Kept == \E touched \in SUBSET Channels : Keeps(touched)
<1>1. r \in Actors /\ actor[r] \in ActorStates /\ InPlace(actor[r])
  BY MainIsActor, InPlaceOf
<1>2. row \in [Channels -> RowStates] /\ UNCHANGED finalizing
  BY HandlerMoves DEF Core, CoreTypes
<1>3. \A op : Arrives(r, op) => Steady(actor[r])
  BY IdleInPlace DEF Arrives
<1>4. Idle.pc # "cancelled"
  BY DEF Idle
<1>5. ASSUME NEW c \in Channels, NEW op \in {"add", "add_disabled"}, SubmitAdd(r, op, c)
      PROVE  Kept
  <2> DEFINE next == [Request(op, c) EXCEPT !.pc = "fetch"]
  <2>1. next.pc # "cancelled"
    BY DEF Request, Idle
  <2>2. actor' = [actor EXCEPT ![r] = next] /\ Steady(actor[r])
        /\ UNCHANGED <<row, sessions, phase, explicit, finalizing>>
    BY <1>3, <1>5 DEF SubmitAdd
  <2> HIDE DEF next
  <2>3. Keeps({})
    BY <1>1, <2>1, <2>2, MoveKeeps
  <2> QED
    BY <2>3
<1>6. ASSUME NEW c \in Channels, SubmitEnable(r, c)
      PROVE  Kept
  <2> DEFINE next == [Request("enable", c) EXCEPT !.pc = "fetch"]
  <2>1. next.pc # "cancelled"
    BY DEF Request, Idle
  <2>2. actor' = [actor EXCEPT ![r] = next] /\ Steady(actor[r])
        /\ row' = [row EXCEPT ![c] = "enabled"]
        /\ UNCHANGED <<sessions, phase, explicit, finalizing>>
    BY <1>3, <1>6 DEF SubmitEnable
  <2> HIDE DEF next
  <2>3. row'[c] # "disabled" /\ \A d \in Channels \ {c} : row'[d] = row[d]
    BY <1>2, <2>2
  <2>4. Keeps({c})
    BY <1>1, <2>1, <2>2, <2>3, MoveKeeps
  <2> QED
    BY <2>4
<1>7. ASSUME NEW c \in Channels, SubmitDisable(r, c) \/ SubmitDelete(r, c)
      PROVE  Kept
  <2>1. PICK why \in StopReasons, rowc \in RowStates, op \in AllOps :
            Stop(r, c, why, rowc, Request(op, c), Idle) /\ Steady(actor[r])
    BY <1>2, <1>3, <1>7 DEF SubmitDisable, SubmitDelete, StopReasons, RowStates, AllOps
  <2>2. Keeps({c})
    BY <1>1, <1>2, <1>4, <2>1, IdleInPlace, StopKeeps
  <2> QED
    BY <2>2
<1>8. ASSUME NEW s \in Statuses, Answer(r, s)
      PROVE  Kept
  <2> DEFINE next == IF actor[r].op \in {"add", "add_disabled"} /\ s \in {"NOT_FOUND", "ERROR"}
                     THEN Idle
                     ELSE [actor[r] EXCEPT !.pc = "answered", !.snap = s]
  <2>1. next.pc # "cancelled"
    BY <1>1, <1>4 DEF ActorStates
  <2>2. actor' = [actor EXCEPT ![r] = next] /\ Steady(actor[r])
        /\ UNCHANGED <<row, sessions, phase, explicit, finalizing>>
    BY <1>8 DEF Answer, Steady
  <2> HIDE DEF next
  <2>3. Keeps({})
    BY <1>1, <2>1, <2>2, MoveKeeps
  <2> QED
    BY <2>3
<1>9. CASE Apply(r)
  <2>1. /\ actor[r].pc = "answered" /\ actor[r].chan \in Channels /\ Steady(actor[r])
        /\ RowOnApply(actor[r]) \in RowStates
    BY <1>1, <1>2, <1>9 DEF Apply, InPlace, Steady, RowOnApply, RowStates
  <2>2. CASE Locked(r, RowOnApply(actor[r]))
    BY <1>2, <2>1, <2>2, LockedKeeps
  <2>3. CASE /\ row' = [row EXCEPT ![actor[r].chan] = RowOnApply(actor[r])]
             /\ actor' = [actor EXCEPT ![r].pc = "waiting"]
             /\ UNCHANGED <<sessions, tasks, phase, explicit>>
    <3> DEFINE next == [actor[r] EXCEPT !.pc = "waiting"]
               c == actor[r].chan
               touched == IF row'[c] = "enabled" THEN {c} ELSE {}
    <3>1. actor' = [actor EXCEPT ![r] = next] /\ next.pc # "cancelled"
      BY <1>1, <2>3 DEF Core, CoreTypes, ActorStates
    <3>2. \A d \in Channels \ touched : row'[d] = row[d]
      BY <1>2, <2>1, <2>3 DEF RowOnApply
    <3>3. touched \in SUBSET Channels /\ \A d \in touched : row'[d] # "disabled"
      BY <2>1
    <3> HIDE DEF next, touched
    <3>4. Keeps(touched)
      BY <1>1, <1>2, <2>1, <2>3, <3>1, <3>2, <3>3, MoveKeeps
    <3> QED
      BY <3>3, <3>4
  <2> QED
    BY <1>9, <2>2, <2>3 DEF Apply
<1>10. CASE Acquire(r)
  <2>1. actor[r].pc = "waiting" /\ row[actor[r].chan] \in RowStates
    BY <1>1, <1>2, <1>10 DEF Acquire, InPlace
  <2> QED
    BY <1>2, <1>10, <2>1, LockedKeeps DEF Acquire
<1>11. CASE Unlock(r)
  <2>1. actor[r].chan \in Channels /\ Steady(actor[r])
    BY <1>1, <1>11 DEF Unlock, InPlace, Steady
  <2>2. CASE actor[r].op = "add_disabled"
    <3> DEFINE c == actor[r].chan
               rowc == IF row[c] = "absent" THEN "absent" ELSE "disabled"
    <3>1. Stop(r, c, "MANUAL_STOP", rowc, Request("disable", c), Idle)
      BY <1>11, <2>2 DEF Unlock
    <3>2. "MANUAL_STOP" \in StopReasons /\ rowc \in RowStates /\ "disable" \in AllOps
      BY DEF StopReasons, RowStates, AllOps
    <3>3. Request("disable", c) \in ActorStates
      BY <2>1, <3>2, IdleInPlace
    <3> HIDE DEF c, rowc
    <3>4. Keeps({c})
      BY <1>1, <1>2, <1>4, <2>1, <3>1, <3>2, <3>3, StopKeeps DEF c
    <3> QED
      BY <2>1, <3>4 DEF c
  <2>3. CASE actor[r].op # "add_disabled"
    <3>1. Keeps({})
      BY <1>1, <1>2, <1>4, <1>11, <2>1, <2>3, MoveKeeps DEF Unlock
    <3> QED
      BY <3>1
  <2> QED
    BY <2>2, <2>3
<1> QED
  BY <1>5, <1>6, <1>7, <1>8, <1>9, <1>10, <1>11 DEF Handler

\* A step of Main's that keeps what Keeps asks for and what Main is about.
LEMMA MainDuties ==
    ASSUME Duties, boots # 0, boots' = boots, NEW c \in Channels, Keeps({c}),
           actor'[Main].op = actor[Main].op, actor'[Main].pc # "sleep",
           todo' \in {todo, todo \ {c}}
    PROVE  Duties'
<1>1. SleepsWhilePolling' /\ (Serving' => Serving)
  BY DEF SleepsWhilePolling, Serving
<1>2. \A d \in Channels \ {c} : Visited(d)' => Visited(d)
  BY DEF Visited
<1> QED
  BY <1>1, <1>2, KeptDuties

LEMMA BootDuties ==
    ASSUME Core, Rest, Duties, Boot
    PROVE  Duties'
<1>1. /\ Steady(actor[Main]) /\ Main \in Actors
      /\ actor' = [actor EXCEPT ![Main] = MainAt("round", "startup")]
      /\ todo' = Registered /\ boots' = boots + 1 /\ boots \in Nat
      /\ UNCHANGED <<row, sessions, phase, explicit, finalizing>>
  BY MainIsActor DEF Boot, Steady, Rest
<1>2. /\ actor'[Main].op = "startup" /\ actor'[Main].pc = "round"
      /\ MainAt("round", "startup").pc # "cancelled"
  BY <1>1 DEF MainAt, Idle, Core, CoreTypes
<1>3. SleepsWhilePolling' /\ OnlyMainIsCancelled'
  BY <1>1, <1>2, CancelledKept DEF SleepsWhilePolling, Duties, Core, CoreTypes
<1>4. ReasonsAreFresh'
  BY <1>1, PendingKept DEF ReasonsAreFresh, Duties, Core, CoreTypes
<1>5. DisabledIsClosed'
  BY <1>1, <1>2 DEF DisabledIsClosed, Visited, Registered
<1>6. OpenIsOwned'
  BY <1>1 DEF OpenIsOwned, Duties, Unbooted
<1> QED
  BY <1>1, <1>3, <1>4, <1>5, <1>6 DEF Duties

LEMMA ShutdownBeginDuties ==
    ASSUME Core, Duties, boots # 0, ShutdownBegin
    PROVE  Duties'
<1>1. /\ actor \in [Actors -> ActorStates] /\ actor[Main] \in ActorStates
      /\ InPlace(actor[Main]) /\ Main \in Actors
  BY MainIsActor, InPlaceOf DEF Core, CoreTypes
<1>2. PICK next : /\ actor' = [actor EXCEPT ![Main] = next]
                  /\ next.op = "shutdown" /\ next.pc # "sleep"
                  /\ Steady(actor[Main]) \/ (next.pc = "cancelled"
                                             /\ next.chan = actor[Main].chan)
  <2>1. CASE actor[Main].pc = "stopping"
    <3> DEFINE new == [actor[Main] EXCEPT !.pc = "cancelled", !.op = "shutdown"]
    <3>1. actor' = [actor EXCEPT ![Main] = new]
      BY <1>1, <2>1 DEF ShutdownBegin
    <3>2. new.op = "shutdown" /\ new.pc = "cancelled" /\ new.chan = actor[Main].chan
      BY <1>1 DEF ActorStates
    <3> HIDE DEF new
    <3> QED
      BY <3>1, <3>2
  <2>2. CASE actor[Main].pc # "stopping"
    <3>1. actor' = [actor EXCEPT ![Main] = MainAt("round", "shutdown")]
      BY <2>2 DEF ShutdownBegin
    <3>2. MainAt("round", "shutdown").op = "shutdown" /\ MainAt("round", "shutdown").pc = "round"
      BY DEF MainAt, Idle
    <3>3. actor[Main].op = "poll"
      BY DEF ShutdownBegin
    <3>4. Steady(actor[Main])
      BY <1>1, <2>2, <3>3 DEF Steady, InPlace
    <3> QED
      BY <3>1, <3>2, <3>4
  <2> QED
    BY <2>1, <2>2
<1>3. actor'[Main].op = "shutdown" /\ actor'[Main].pc # "sleep"
  BY <1>1, <1>2
<1>4. ~Serving' /\ SleepsWhilePolling'
  BY <1>3 DEF Serving, SleepsWhilePolling
<1>5. OnlyMainIsCancelled'
  BY <1>1, <1>2, CancelledKept DEF Duties
<1>6. \A c \in Channels : WaitedFor(c) => WaitedFor(c)'
  <2> SUFFICES ASSUME NEW c \in Channels, NEW a \in Actors,
                      actor[a].pc \in {"stopping", "cancelled"}, actor[a].chan = c
               PROVE  WaitedFor(c)'
    BY DEF WaitedFor
  <2>1. actor'[a].pc \in {"stopping", "cancelled"} /\ actor'[a].chan = c
    BY <1>1, <1>2 DEF Steady
  <2> QED
    BY <2>1 DEF WaitedFor
<1>7. ReasonsAreFresh'
  BY <1>6 DEF ReasonsAreFresh, Duties, ShutdownBegin
<1>8. boots' # 0
  BY DEF ShutdownBegin
<1> QED
  BY <1>4, <1>5, <1>7, <1>8, OffDuty

\* The stop a shutdown interrupted: the reason goes, the session stays.
LEMMA CancelledEndDuties ==
    ASSUME Core, Duties, boots # 0, CancelledStopEnd
    PROVE  Duties'
<1> DEFINE d == actor[Main].chan
<1>1. /\ actor \in [Actors -> ActorStates] /\ InPlace(actor[Main]) /\ Main \in Actors
      /\ explicit \in [Channels -> StopReasons \cup {NULL}]
  BY MainIsActor, InPlaceOf DEF Core, CoreTypes
<1>2. /\ d \in Channels /\ boots' = boots
      /\ explicit' = [explicit EXCEPT ![d] = NULL]
      /\ actor' = [actor EXCEPT ![Main] = MainAt("round", "shutdown")]
  BY <1>1 DEF CancelledStopEnd, InPlace
<1>3. /\ actor'[Main] = MainAt("round", "shutdown")
      /\ MainAt("round", "shutdown").op = "shutdown" /\ MainAt("round", "shutdown").pc = "round"
  BY <1>1, <1>2 DEF MainAt, Idle
<1>4. ~Serving' /\ SleepsWhilePolling'
  BY <1>3 DEF Serving, SleepsWhilePolling
<1>5. OnlyMainIsCancelled'
  BY <1>1, <1>2, CancelledKept DEF Duties
<1>6. ASSUME NEW c \in Channels, explicit'[c] # NULL
      PROVE  WaitedFor(c)'
  <2>1. c # d /\ explicit[c] # NULL
    BY <1>1, <1>2, <1>6
  <2>2. PICK a \in Actors : actor[a].pc \in {"stopping", "cancelled"} /\ actor[a].chan = c
    BY <2>1 DEF Duties, ReasonsAreFresh, WaitedFor
  <2>3. actor'[a] = actor[a]
    BY <1>1, <1>2, <2>1, <2>2
  <2> QED
    BY <2>2, <2>3 DEF WaitedFor
<1> QED
  BY <1>2, <1>4, <1>5, <1>6, OffDuty DEF ReasonsAreFresh

LEMMA ForgetDuties ==
    ASSUME Forget, boots # 0, UNCHANGED boots
    PROVE  Duties'
<1>1. actor' = Asleep /\ explicit' = NoReasons
  BY DEF Forget
<1>2. actor'[Main].op = NULL /\ actor'[Main].pc = "down" /\ \A r \in Requests : actor'[r].pc = "idle"
  BY <1>1, MainIsActor, CoordinatorAssumption DEF Asleep, Down, Idle
<1>3. ~Serving' /\ SleepsWhilePolling' /\ OnlyMainIsCancelled'
  BY <1>2, CoordinatorAssumption DEF Serving, SleepsWhilePolling, OnlyMainIsCancelled
<1>4. ReasonsAreFresh'
  BY <1>1 DEF ReasonsAreFresh, NoReasons
<1> QED
  BY <1>3, <1>4, OffDuty

LEMMA ProcessKeepsDuties ==
    ASSUME Core, Rest, Duties, boots # 0, Process
    PROVE  Duties'
<1>1. /\ Main \in Actors /\ actor[Main] \in ActorStates /\ actor \in [Actors -> ActorStates]
      /\ row \in [Channels -> RowStates]
  BY MainIsActor, InPlaceOf DEF Core, CoreTypes
<1>2. ASSUME NEW c \in Channels, NEW why, NEW rowc,
             Stop(Main, c, why, rowc, actor[Main], actor[Main]), actor[Main].pc = "round"
      PROVE  actor'[Main].op = actor[Main].op /\ actor'[Main].pc # "sleep"
  <2> DEFINE new == [actor[Main] EXCEPT !.pc = "stopping", !.chan = c, !.slot = tasks[c],
                                        !.why = why]
  <2>1. \/ actor' = [actor EXCEPT ![Main] = actor[Main]]
        \/ actor' = [actor EXCEPT ![Main] = new]
    BY <1>2 DEF Stop
  <2>2. new.op = actor[Main].op /\ new.pc = "stopping"
    BY <1>1 DEF ActorStates
  <2> HIDE DEF new
  <2> QED
    BY <1>1, <1>2, <2>1, <2>2
<1>3. ASSUME NEW pc \in {"round", "sleep"}, Steady(actor[Main]), Serving,
             actor' = [actor EXCEPT ![Main] = MainAt(pc, "poll")],
             actor[Main].op = "poll" \/ todo = {},
             UNCHANGED <<row, sessions, phase, explicit, finalizing, boots>>
      PROVE  Duties'
  <2>1. MainAt(pc, "poll").pc # "cancelled" /\ actor'[Main].op = "poll"
    BY <1>1, <1>3 DEF MainAt, Idle
  <2>2. Keeps({})
    BY <1>1, <1>3, <2>1, MoveKeeps
  <2>3. SleepsWhilePolling' /\ \A c \in Channels : Visited(c)' => Visited(c)
    BY <1>3, <2>1 DEF SleepsWhilePolling, Visited, Serving
  <2> QED
    BY <1>3, <2>2, <2>3, KeptDuties
<1>4. CASE \E due \in SUBSET Channels : PollBegin(due)
  BY <1>3, <1>4 DEF PollBegin, Steady, Duties, SleepsWhilePolling, Serving
<1>5. ASSUME NEW c \in Channels, NEW s \in Statuses, SyncChannel(c, s)
      PROVE  Duties'
  <2>1. /\ Steady(actor[Main]) /\ actor[Main].pc = "round" /\ row[c] \in RowStates
        /\ Reconcile(Main, c, s, row[c], actor[Main], actor[Main])
        /\ todo' = todo \ {c} /\ UNCHANGED <<finalizing, boots>>
    BY <1>1, <1>5 DEF SyncChannel, Steady
  <2>2. Keeps({c})
    BY <1>1, <2>1, ReconcileKeeps
  <2>3. actor'[Main].op = actor[Main].op /\ actor'[Main].pc # "sleep"
    BY <1>1, <1>2, <2>1 DEF Reconcile, Ensure
  <2> QED
    BY <2>1, <2>2, <2>3, MainDuties
<1>6. CASE RoundDone
  BY <1>3, <1>6 DEF RoundDone, Steady, Serving
<1>7. ASSUME NEW c \in Channels, ShutdownStop(c)
      PROVE  Duties'
  <2>1. /\ Steady(actor[Main]) /\ actor[Main].pc = "round" /\ "SERVER_SHUTDOWN" \in StopReasons
        /\ Stop(Main, c, "SERVER_SHUTDOWN", row[c], actor[Main], actor[Main])
        /\ todo' = todo \ {c} /\ UNCHANGED <<finalizing, boots>>
    BY <1>7 DEF ShutdownStop, Steady, StopReasons
  <2>2. Keeps({c})
    BY <1>1, <2>1, StopKeeps
  <2>3. actor'[Main].op = actor[Main].op /\ actor'[Main].pc # "sleep"
    BY <1>2, <2>1
  <2> QED
    BY <2>1, <2>2, <2>3, MainDuties
<1>8. CASE ShutdownDone \/ Crash
  BY <1>8, ForgetDuties DEF ShutdownDone, Crash
<1> QED
  BY <1>4, <1>5, <1>6, <1>7, <1>8, BootDuties, ShutdownBeginDuties, CancelledEndDuties
  DEF Process

\* on_connected opens a session: some task of the channel is there to own it, and the
\* channel is not a disabled one whose stops have returned.
LEMMA LookedUpDuties ==
    ASSUME Core, Duties, boots # 0, NEW c \in Channels, NEW k \in Slots, NEW live,
           LookedUp(c, k, live)
    PROVE  Duties'
<1>1. /\ phase \in [Channels -> [Slots -> Phases]] /\ sessions \in [Channels -> Seq(Session)]
      /\ phase[c][k] # "free"
      /\ \E ph \in {"receiving", "closing"} : phase' = [phase EXCEPT ![c][k] = ph]
      /\ \A d \in Channels \ {c} : sessions'[d] = sessions[d]
      /\ UNCHANGED <<row, explicit, finalizing, actor, todo, boots>>
  BY DEF LookedUp, Core, CoreTypes
<1>2. phase'[c][k] # "free" /\ \A d \in Channels \ {c} : phase'[d] = phase[d]
  BY <1>1
<1>3. ReasonsAreFresh' /\ OnlyMainIsCancelled' /\ SleepsWhilePolling'
  BY <1>1 DEF Duties, ReasonsAreFresh, WaitedFor, OnlyMainIsCancelled, SleepsWhilePolling
<1>4. ASSUME NEW d \in Channels, Visited(d)', row'[d] = "disabled", ~StopPending(d)'
      PROVE  ~HasOpen(sessions'[d])
  <2>1. /\ Visited(d) /\ row[d] = "disabled" /\ ~StopPending(d)
        /\ actor[Main].op # "shutdown"
    BY <1>1, <1>4 DEF Visited, StopPending
  <2>2. d # c
    BY <1>1, <2>1, QuietPhases DEF Duties
  <2> QED
    BY <1>1, <2>1, <2>2 DEF Duties, DisabledIsClosed
<1>5. ASSUME NEW d \in Channels, boots' = 1, Serving', HasOpen(sessions'[d])
      PROVE  Owned(d)'
  <2>1. CASE d = c
    BY <1>2, <2>1 DEF Owned
  <2>2. CASE d # c
    <3>1. Owned(d)
      BY <1>1, <1>5, <2>2 DEF Duties, OpenIsOwned, Serving
    <3> QED
      BY <1>1, <1>2, <2>2, <3>1 DEF Owned, StopPending
  <2> QED
    BY <2>1, <2>2
<1> QED
  BY <1>1, <1>3, <1>4, <1>5 DEF Duties, DisabledIsClosed, OpenIsOwned

\* Nothing but the phases and the finalizers moves, and no owner goes.
LEMMA QuietMoveDuties ==
    ASSUME Duties, boots # 0, UNCHANGED <<row, sessions, explicit, actor, todo, boots>>,
           \A c \in Channels :
               Serving /\ Owned(c) => Owned(c)' \/ ~HasOpen(sessions[c])
    PROVE  Duties'
<1>1. Keeps({})
  BY DEF Keeps, Duties, StopPending, WaitedFor, ReasonsAreFresh, OnlyMainIsCancelled
<1>2. SleepsWhilePolling' /\ (Serving' => Serving) /\ \A c \in Channels : Visited(c)' => Visited(c)
  BY DEF Duties, SleepsWhilePolling, Serving, Visited
<1> QED
  BY <1>1, <1>2, KeptDuties

LEMMA TaskEndDuties ==
    ASSUME Core, Rest, Duties, boots # 0, NEW c \in Channels, NEW k \in Slots, TaskEnds(c, k)
    PROVE  Duties'
<1>1. /\ \A d \in Channels \ {c} : phase'[d] = phase[d] /\ finalizing'[d] = finalizing[d]
      /\ finalizing'[c] = IF Unexpected(c) THEN finalizing[c] + 1 ELSE finalizing[c]
      /\ finalizing[c] \in Nat
      /\ UNCHANGED <<row, sessions, explicit, actor, todo, boots>>
  BY DEF TaskEnds, Core, CoreTypes, Rest
<1>2. ASSUME NEW d \in Channels, d # c, Owned(d)
      PROVE  Owned(d)'
  BY <1>1, <1>2 DEF Owned, StopPending
<1>3. ASSUME Serving, HasOpen(sessions[c])
      PROVE  Owned(c)'
  <2>1. CASE explicit[c] = NULL
    <3>1. finalizing'[c] > 0
      BY <1>1, <1>3, <2>1 DEF Unexpected
    <3> QED
      BY <3>1 DEF Owned
  <2>2. CASE explicit[c] # NULL
    <3>1. PICK a \in Actors : actor[a].pc \in {"stopping", "cancelled"} /\ actor[a].chan = c
      BY <2>2 DEF Duties, ReasonsAreFresh, WaitedFor
    <3>2. CASE actor[a].pc = "cancelled"
      <4>1. actor[Main].op = "shutdown"
        BY <3>2 DEF Duties, OnlyMainIsCancelled, Actors, Core, ActorsInPlace
      <4> QED
        BY <1>3, <4>1 DEF Serving
    <3>3. CASE actor[a].pc = "stopping"
      <4>1. StopPending(c)'
        BY <1>1, <3>1, <3>3 DEF StopPending
      <4> QED
        BY <4>1 DEF Owned
    <3> QED
      BY <3>1, <3>2, <3>3
  <2> QED
    BY <2>1, <2>2
<1> QED
  BY <1>1, <1>2, <1>3, QuietMoveDuties

LEMMA MonitorTaskKeepsDuties ==
    ASSUME Core, Rest, Duties, boots # 0, NEW c \in Channels, NEW k \in Slots,
           MonitorTask(c, k)
    PROVE  Duties'
<1>1. ASSUME NEW ph, ph # "free", phase' = [phase EXCEPT ![c][k] = ph],
             UNCHANGED <<row, sessions, explicit, finalizing, actor, todo, boots>>
      PROVE  Duties'
  <2>1. \A d \in Channels, j \in Slots : phase[d][j] # "free" => phase'[d][j] # "free"
    BY <1>1 DEF Core, CoreTypes
  <2>2. \A d \in Channels : Owned(d) => Owned(d)'
    BY <1>1, <2>1 DEF Owned, StopPending
  <2> QED
    BY <1>1, <2>2, QuietMoveDuties
<1>2. CASE Connected(c, k)
  BY <1>1, <1>2 DEF Connected
<1>3. CASE \E live \in LiveIds \cup {NULL} : LookedUp(c, k, live)
  BY <1>3, LookedUpDuties
<1>4. CASE ConnectionLost(c, k)
  BY <1>1, <1>4 DEF ConnectionLost
<1>5. CASE Inactive(c, k)
  <2>1. /\ Cancelled(phase[c][k]) # "free"
        /\ phase' = [phase EXCEPT ![c][k] = Cancelled(phase[c][k])]
    BY <1>5, CancelledIsInUse DEF Inactive, Active, Core, CoreTypes
  <2> QED
    BY <1>1, <1>5, <2>1 DEF Inactive
<1>6. CASE Unwound(c, k)
  BY <1>1, <1>6 DEF Unwound
<1>7. CASE TaskEnds(c, k)
  BY <1>7, TaskEndDuties
<1> QED
  BY <1>2, <1>3, <1>4, <1>5, <1>6, <1>7 DEF MonitorTask

LEMMA FinalizeDuties ==
    ASSUME Core, Duties, boots # 0, NEW c \in Channels, Finalize(c)
    PROVE  Duties'
<1>1. /\ sessions' = [sessions EXCEPT ![c] = Finished(sessions[c], "UNKNOWN", 0)]
      /\ \A d \in Channels \ {c} : finalizing'[d] = finalizing[d]
      /\ "UNKNOWN" \in StopReasons
      /\ UNCHANGED <<row, phase, explicit, actor, todo, boots>>
  BY DEF Finalize, StopReasons
<1>2. ~HasOpen(Finished(sessions[c], "UNKNOWN", 0))
  BY <1>1, FinishKeepsTimeline DEF Core, Timelines
<1>3. ~HasOpen(sessions'[c]) /\ \A d \in Channels \ {c} : sessions'[d] = sessions[d]
  BY <1>1, <1>2 DEF Core, CoreTypes
<1>4. \A d \in Channels \ {c} : Owned(d) => Owned(d)'
  BY <1>1 DEF Owned, StopPending
<1>5. Keeps({c})
  BY <1>1, <1>3, <1>4
  DEF Keeps, Duties, StopPending, WaitedFor, ReasonsAreFresh, OnlyMainIsCancelled
<1>6. SleepsWhilePolling' /\ (Serving' => Serving) /\ \A d \in Channels : Visited(d)' => Visited(d)
  BY <1>1 DEF Duties, SleepsWhilePolling, Serving, Visited
<1> QED
  BY <1>1, <1>5, <1>6, KeptDuties

LEMMA WorldDuties ==
    ASSUME Duties, Environment \/ UNCHANGED vars
    PROVE  Duties'
<1>1. UNCHANGED <<row, sessions, tasks, phase, explicit, finalizing, actor, todo, boots>>
  BY DEF Environment, GoLive, GoOffline, memory, vars
<1> QED
  BY <1>1 DEF Duties, OnlyMainIsCancelled, SleepsWhilePolling, ReasonsAreFresh, WaitedFor,
     DisabledIsClosed, OpenIsOwned, Visited, Serving, Owned, StopPending, Unbooted

LEMMA StepKeepsDuties ==
    ASSUME Core, Rest, Duties, [Next]_vars
    PROVE  Duties'
<1>1. CASE Environment \/ UNCHANGED vars
  BY <1>1, WorldDuties
<1>2. CASE boots = 0 /\ Next
  BY <1>1, <1>2, OnlyBoots, BootDuties DEF Duties
<1>3. CASE boots # 0 /\ Next
  <2>1. ASSUME NEW a \in Actors, StopEnd(a)
        PROVE  Duties'
    <3>1. /\ Keeps({actor[a].chan}) /\ actor[a].chan \in Channels
          /\ actor'[Main].op = actor[Main].op /\ UNCHANGED <<todo, boots>>
      BY <2>1, StopEndKeeps DEF StopEnd
    <3>2. SleepsWhilePolling'
      <4>1. CASE a = Main
        <5>1. actor' = [actor EXCEPT ![Main] = MainAt("round", actor[Main].op)]
          BY <2>1, <4>1 DEF StopEnd, AfterStop
        <5> QED
          BY <5>1, MainIsActor DEF Core, CoreTypes, MainAt, Idle, SleepsWhilePolling
      <4>2. CASE a # Main
        <5>1. actor'[Main] = actor[Main]
          BY <2>1, <4>2, MainIsActor DEF StopEnd, Core, CoreTypes
        <5> QED
          BY <5>1 DEF Duties, SleepsWhilePolling
      <4> QED
        BY <4>1, <4>2
    <3>3. (Serving' => Serving) /\ \A c \in Channels : Visited(c)' => Visited(c)
      BY <3>1 DEF Serving, Visited
    <3> QED
      BY <1>3, <3>1, <3>2, <3>3, KeptDuties
  <2> QED
    BY <1>1, <1>3, <2>1, ProcessKeepsDuties, HandlerKeepsDuties, MonitorTaskKeepsDuties,
       FinalizeDuties DEF Next
<1> QED
  BY <1>1, <1>2, <1>3

LEMMA InitDuties == Init => Duties
<1> SUFFICES ASSUME Init PROVE Duties
  OBVIOUS
<1>1. /\ actor[Main].pc = "down" /\ actor[Main].op = NULL
      /\ \A r \in Requests : actor[r].pc = "idle"
  BY MainIsActor, CoordinatorAssumption DEF Init, Asleep, Down, Idle
<1>2. \A c \in Channels : ~HasOpen(sessions[c])
  BY DEF Init, HasOpen, OpenRows
<1> QED
  BY <1>1, <1>2, CoordinatorAssumption
  DEF Init, Duties, OnlyMainIsCancelled, SleepsWhilePolling, ReasonsAreFresh, NoReasons,
      DisabledIsClosed, OpenIsOwned, Unbooted

LEMMA DutiesHold == Spec => [](Core /\ Rest /\ Duties)
<1>1. Core /\ Rest /\ Duties /\ [Next]_vars => (Core /\ Rest /\ Duties)'
  BY StepKeepsCore, StepKeepsRest, StepKeepsDuties
<1> QED
  BY <1>1, InitCoordinator, InitDuties, PTL DEF Spec

\* While the server runs, a disabled channel has no open session and no monitor task, in
\* whatever phase, once the stops of it have returned: _reconcile_channel reads the row
\* again after its await, and stop_monitoring closes the session whoever opened it, even
\* an on_connected that was answered after the cancellation (control.py 878-943).
THEOREM DisabledGoesDark == Spec => []DisabledIsQuiet
<1>1. Core /\ Rest /\ Duties => DisabledIsQuiet
  <2> SUFFICES ASSUME Core, Duties, NEW c \in Channels, actor[Main].op = "poll",
                      row[c] = "disabled", ~StopPending(c)
               PROVE  ~HasOpen(sessions[c]) /\ \A k \in Slots : phase[c][k] = "free"
    BY DEF DisabledIsQuiet
  <2> QED
    BY QuietPhases DEF Duties, DisabledIsClosed, Visited
<1> QED
  BY <1>1, DutiesHold, PTL

\* In the first life of the process no open session is forgotten while the server runs:
\* a task of the channel lives, a stop that will close the session is under way, or
\* _task_done_callback has scheduled a finalizer (control.py 774-792, 932-943).
THEOREM OpenSessionsAreOwned == Spec => []OpenSessionHasOwner
<1>1. Core /\ Rest /\ Duties => OpenSessionHasOwner
  BY DEF Duties, OpenIsOwned, Serving, Owned, OpenSessionHasOwner
<1> QED
  BY <1>1, DutiesHold, PTL
=============================================================================
