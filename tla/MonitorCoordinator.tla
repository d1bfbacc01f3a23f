------------------------- MODULE MonitorCoordinator -------------------------
(***************************************************************************)
(* The Collector's control plane: MonitorCoordinator of                    *)
(* collector/control.py, the HTTP handlers of collector/app.py that call   *)
(* it, and the monitor tasks it owns (collector/runtime.py, seen here only *)
(* through their connection phases).                                       *)
(*                                                                         *)
(* Everything runs on one event loop, so a step of the model is what the   *)
(* code does between two awaits that really suspend: an await of a CHZZK   *)
(* request, of the coordinator's lock, or of a cancelled task's end.  What *)
(* is in the database (row, sessions) survives a crash; the rest does not. *)
(*                                                                         *)
(* Timestamps are left to SessionStore, which this module implements with  *)
(* its clock standing still; channel names, metadata and the due times of  *)
(* the poll (which channels a round visits) are abstracted.                *)
(***************************************************************************)
EXTENDS MonitoringSessions, FiniteSets

CONSTANTS
    Channels,
    Requests,       \* slots for HTTP requests in flight at one time
    Main,           \* the application's own task: startup, poll loop, shutdown
    Slots,          \* names for the monitor tasks of a channel that coexist
    Ops,            \* the kinds of HTTP requests that arrive
    Faults,         \* the answers besides OPEN and NOT_LIVE that CHZZK gives
    MaxSessions,    \* bound on the rows of a channel
    MaxBoots        \* bound on the starts of the process

Actors == Requests \cup {Main}
AllOps == {"add", "add_disabled", "enable", "disable", "delete"}
Statuses == {"OPEN", "NOT_LIVE", "NOT_FOUND", "ERROR"}

ASSUME CoordinatorAssumption ==
    /\ Main \notin Requests /\ NULL \notin Actors
    /\ NULL \notin Slots /\ IsFiniteSet(Slots)
    /\ IsFiniteSet(Actors) /\ Cardinality(Slots) >= Cardinality(Actors)
    /\ NULL \notin Channels /\ NULL \notin Statuses
    /\ NULL \notin AllOps \cup {"startup", "poll", "shutdown"}
    /\ LiveIds \subseteq Nat \ {0}
    /\ Ops \subseteq AllOps /\ Faults \subseteq {"NOT_FOUND", "ERROR"}
    /\ MaxSessions \in Nat /\ MaxBoots \in Nat

VARIABLES
    row,        \* monitored_channels: "absent", "enabled" or "disabled"
    sessions,   \* monitoring_sessions: the rows of each channel, oldest first
    tasks,      \* MonitorCoordinator.tasks: the slot registered for a channel
    phase,      \* where each monitor task is
    explicit,   \* MonitorCoordinator._explicit_stop_reasons
    finalizing, \* _finalize_unexpected_task_stop tasks not yet run
    lock,       \* who holds MonitorCoordinator._lock
    actor,      \* control state of the requests and of Main
    todo,       \* the channels Main's current round has still to visit
    broadcast,  \* the newest broadcast of a channel, 0 before the first
    onair,      \* whether that broadcast is on air
    boots       \* starts of the process so far

memory == <<tasks, phase, explicit, finalizing, lock, actor, todo>>
world == <<broadcast, onair>>
vars == <<row, sessions, memory, world, boots>>

-----------------------------------------------------------------------------
(* Monitor tasks.  A task is connecting (looking the chat server up,        *)
(* opening the socket, waiting for the accepted connection response, or     *)
(* sleeping before a retry), in the live id lookup of on_connected,         *)
(* receiving, or closing its socket after a cancellation or an inactivity   *)
(* timeout.  "late" is a cancelled task whose lookup may still be answered: *)
(* its receive loop can already be scheduled to resume when the             *)
(* cancellation reaches the outer task.  "done" is a finished task some     *)
(* stop_monitoring call still waits for.                                    *)

Active == {"connecting", "lookup", "receiving"}
Phases == Active \cup {"free", "late", "closing", "done"}

\* Defect: stop_monitoring waits for a task it has not cancelled.
NotCancelled(ph) == ph

\* What a cancellation makes of a task's phase.
Cancelled(ph) == IF ph = "lookup" THEN "late"
                 ELSE IF ph \in Active THEN "closing" ELSE ph

ActorStates ==
    [pc   : {"idle", "fetch", "answered", "waiting", "stopping", "unlock",
             "down", "sleep", "round", "cancelled"},
     op   : AllOps \cup {"startup", "poll", "shutdown", NULL},
     chan : Channels \cup {NULL},
     slot : Slots \cup {NULL},
     why  : StopReasons \cup {NULL},
     snap : Statuses \cup {NULL}]

Idle == [pc |-> "idle", op |-> NULL, chan |-> NULL, slot |-> NULL,
         why |-> NULL, snap |-> NULL]
Down == [Idle EXCEPT !.pc = "down"]
MainAt(pc, op) == [Idle EXCEPT !.pc = pc, !.op = op]

\* Somebody awaits the end of task k of channel c.
Awaited(c, k) ==
    \E a \in Actors : /\ actor[a].pc \in {"stopping", "cancelled"}
                      /\ actor[a].chan = c /\ actor[a].slot = k

-----------------------------------------------------------------------------
(* stop_monitoring, ensure_monitoring and _reconcile_channel, as what an    *)
(* actor a does from its record rec on.  rowc is the row of c at that point *)
(* of the same step; next is the actor's record when nothing is awaited.    *)

\* The row of c once the operation op has stopped c: DELETE removes it last.
RowAfterStop(op, rowc) == IF op = "delete" THEN "absent" ELSE rowc

Stop(a, c, why, rowc, rec, next) ==
    LET k == tasks[c] IN
    IF k = NULL
    THEN /\ sessions' = [sessions EXCEPT ![c] = Finished(@, why, 0)]
         /\ row' = [row EXCEPT ![c] = RowAfterStop(rec.op, rowc)]
         /\ actor' = [actor EXCEPT ![a] = next]
         /\ UNCHANGED <<tasks, phase, explicit>>
    ELSE /\ tasks' = [tasks EXCEPT ![c] = NULL]
         /\ explicit' = [explicit EXCEPT ![c] = why]
         /\ phase' = [phase EXCEPT ![c][k] = Cancelled(@)]
         /\ row' = [row EXCEPT ![c] = rowc]
         /\ actor' = [actor EXCEPT ![a] =
                         [rec EXCEPT !.pc = "stopping", !.chan = c, !.slot = k,
                                     !.why = why]]
         /\ UNCHANGED sessions

\* Defect: a task is not looked up before another one is started.
NeverMonitored(c) == FALSE

\* Defect: an open session in the database counts as a running task.
MonitoredBySession(c) == tasks[c] # NULL \/ HasOpen(sessions[c])

\* is_monitoring.  A task leaves the registry in the step in which it is done.
Monitored(c) == tasks[c] # NULL

\* A new task is registered unless one is.  Some slot is free then: the others are of
\* tasks that other actors await.
Ensure(a, c, rowc, next) ==
    /\ IF Monitored(c)
       THEN UNCHANGED <<tasks, phase>>
       ELSE LET k == CHOOSE s \in Slots : phase[c][s] = "free" IN
            /\ tasks' = [tasks EXCEPT ![c] = k]
            /\ phase' = [phase EXCEPT ![c][k] = "connecting"]
    /\ row' = [row EXCEPT ![c] = rowc]
    /\ actor' = [actor EXCEPT ![a] = next]
    /\ UNCHANGED <<sessions, explicit>>

\* Defect: whether the channel is enabled is not looked at.
StopReasonUnchecked(rowc, s) ==
    CASE rowc = "absent"  -> "UNKNOWN"
      [] s = "NOT_LIVE"   -> "BROADCAST_ENDED"
      [] s = "NOT_FOUND"  -> "UNKNOWN"
      [] OTHER            -> NULL

\* Defect: the status CHZZK gave is passed on in place of a stop reason.
StopReasonIsStatus(rowc, s) ==
    CASE rowc = "absent"   -> "UNKNOWN"
      [] rowc = "disabled" -> "MANUAL_STOP"
      [] OTHER             -> IF s \in {"NOT_LIVE", "NOT_FOUND"} THEN s ELSE NULL

\* Why _reconcile_channel stops c, NULL when it does not.
StopReason(rowc, s) ==
    CASE rowc = "absent"   -> "UNKNOWN"
      [] rowc = "disabled" -> "MANUAL_STOP"
      [] rowc = "enabled" /\ s = "NOT_LIVE"  -> "BROADCAST_ENDED"
      [] rowc = "enabled" /\ s = "NOT_FOUND" -> "UNKNOWN"
      [] OTHER -> NULL

Reconcile(a, c, s, rowc, rec, next) ==
    LET why == StopReason(rowc, s) IN
    \/ /\ why # NULL
       /\ Stop(a, c, why, rowc, rec, next)
    \/ /\ why = NULL /\ s = "OPEN"
       /\ Ensure(a, c, rowc, next)
    \/ /\ why = NULL /\ s = "ERROR"
       /\ row' = [row EXCEPT ![c] = rowc]
       /\ actor' = [actor EXCEPT ![a] = next]
       /\ UNCHANGED <<sessions, tasks, phase, explicit>>

\* What live-status may answer about c now.
Answers(c) == {IF onair[c] THEN "OPEN" ELSE "NOT_LIVE"} \cup Faults

\* Defect: only the enabled channels are listed.
EnabledOnly == {c \in Channels : row[c] = "enabled"}

\* list_channels
Registered == {c \in Channels : row[c] # "absent"}

\* The loop's ready queue holds no finalizer and no stop whose task is done.  Those run
\* within a turn or two of the loop, before a task started meanwhile can be accepted by
\* the chat server or time out; what another task does in the same turn commutes with the
\* end of the first, and is modelled as happening before it.
Settled ==
    \A c \in Channels : finalizing[c] = 0 /\ \A k \in Slots : phase[c][k] # "done"

-----------------------------------------------------------------------------
(* The process: startup, the poll loop, shutdown, a crash.                  *)

NoTasks == [c \in Channels |-> NULL]
FreeSlots == [c \in Channels |-> [k \in Slots |-> "free"]]
NoReasons == [c \in Channels |-> NULL]
NoFinalizers == [c \in Channels |-> 0]
Asleep == [a \in Actors |-> IF a = Main THEN Down ELSE Idle]

\* The process is gone, and with it everything but the database.
Forget ==
    /\ tasks' = NoTasks /\ phase' = FreeSlots /\ explicit' = NoReasons
    /\ finalizing' = NoFinalizers /\ lock' = NULL /\ actor' = Asleep /\ todo' = {}

Init ==
    /\ row = [c \in Channels |-> "absent"]
    /\ sessions = [c \in Channels |-> <<>>]
    /\ tasks = NoTasks /\ phase = FreeSlots /\ explicit = NoReasons
    /\ finalizing = NoFinalizers /\ lock = NULL /\ actor = Asleep /\ todo = {}
    /\ broadcast = [c \in Channels |-> 0]
    /\ onair = [c \in Channels |-> FALSE]
    /\ boots = 0

\* startup: a sync of every registered channel, before any request is served.
Boot ==
    /\ actor[Main].pc = "down" /\ boots < MaxBoots
    /\ actor' = [actor EXCEPT ![Main] = MainAt("round", "startup")]
    /\ lock' = Main
    /\ todo' = Registered
    /\ boots' = boots + 1
    /\ UNCHANGED <<row, sessions, tasks, phase, explicit, finalizing, world>>

\* _poll_loop wakes up and sync_all_channels takes the lock; the channels it has to
\* visit are some of those registered now (_should_poll_channel).
PollBegin(due) ==
    /\ actor[Main].pc = "sleep" /\ lock = NULL
    /\ due \subseteq Registered
    /\ actor' = [actor EXCEPT ![Main] = MainAt("round", "poll")]
    /\ lock' = Main
    /\ todo' = due
    /\ UNCHANGED <<row, sessions, tasks, phase, explicit, finalizing, world, boots>>

\* One channel of a round, from the answer of its live-status request on.  The row is
\* read again after the await, so nothing of an earlier step is used but the listing.
SyncChannel(c, s) ==
    /\ actor[Main].pc = "round" /\ actor[Main].op \in {"startup", "poll"}
    /\ c \in todo /\ s \in Answers(c)
    /\ todo' = todo \ {c}
    /\ Reconcile(Main, c, s, row[c], actor[Main], actor[Main])
    /\ UNCHANGED <<finalizing, lock, world, boots>>

RoundDone ==
    /\ actor[Main].pc = "round" /\ actor[Main].op \in {"startup", "poll"}
    /\ todo = {}
    /\ actor' = [actor EXCEPT ![Main] = MainAt("sleep", "poll")]
    /\ lock' = NULL
    /\ UNCHANGED <<row, sessions, tasks, phase, explicit, finalizing, todo, world, boots>>

\* shutdown cancels the poll task.  The server has answered its requests by then.  A
\* poll that waits in stop_monitoring goes on waiting for the task it cancelled, any
\* other ends here, which releases the lock.
ShutdownBegin ==
    /\ actor[Main].op = "poll" /\ boots < MaxBoots
    /\ \A r \in Requests : actor[r] = Idle
    /\ IF actor[Main].pc = "stopping"
       THEN /\ actor' = [actor EXCEPT ![Main].pc = "cancelled", ![Main].op = "shutdown"]
            /\ UNCHANGED <<lock, todo>>
       ELSE /\ actor' = [actor EXCEPT ![Main] = MainAt("round", "shutdown")]
            /\ lock' = NULL
            /\ todo' = {c \in Channels : tasks[c] # NULL}
    /\ UNCHANGED <<row, sessions, tasks, phase, explicit, finalizing, world, boots>>

\* The cancelled poll's gather ends with a CancelledError: the finally clause runs, the
\* finish_monitoring_session after it does not.
CancelledStopEnd ==
    LET m == actor[Main] IN
    /\ m.pc = "cancelled" /\ phase[m.chan][m.slot] = "done"
    /\ phase' = [phase EXCEPT ![m.chan][m.slot] = "free"]
    /\ explicit' = [explicit EXCEPT ![m.chan] = NULL]
    /\ actor' = [actor EXCEPT ![Main] = MainAt("round", "shutdown")]
    /\ lock' = NULL
    /\ todo' = {c \in Channels : tasks[c] # NULL}
    /\ UNCHANGED <<row, sessions, tasks, finalizing, world, boots>>

ShutdownStop(c) ==
    /\ actor[Main].pc = "round" /\ actor[Main].op = "shutdown" /\ c \in todo
    /\ todo' = todo \ {c}
    /\ Stop(Main, c, "SERVER_SHUTDOWN", row[c], actor[Main], actor[Main])
    /\ UNCHANGED <<finalizing, lock, world, boots>>

ShutdownDone ==
    /\ actor[Main].pc = "round" /\ actor[Main].op = "shutdown" /\ todo = {}
    /\ Settled
    /\ Forget
    /\ UNCHANGED <<row, sessions, world, boots>>

Crash ==
    /\ actor[Main].pc # "down" /\ boots < MaxBoots
    /\ Forget
    /\ UNCHANGED <<row, sessions, world, boots>>

-----------------------------------------------------------------------------
(* HTTP requests.                                                           *)

\* Where actor a goes on after its stop_monitoring call returned.
AfterStop(a, rec) ==
    IF a = Main THEN MainAt("round", rec.op)
    ELSE IF rec.op \in {"disable", "delete"} THEN Idle
    ELSE [rec EXCEPT !.pc = "unlock", !.slot = NULL, !.why = NULL]

Request(op, c) == [Idle EXCEPT !.op = op, !.chan = c]

\* The server takes a request of kind op on channel c into slot r.
Arrives(r, op) ==
    /\ actor[Main].op = "poll"
    /\ actor[r] = Idle /\ op \in Ops

\* POST /channels; nothing is stored before CHZZK has confirmed the channel.
SubmitAdd(r, op, c) ==
    /\ Arrives(r, op) /\ op \in {"add", "add_disabled"}
    /\ actor' = [actor EXCEPT ![r] = [Request(op, c) EXCEPT !.pc = "fetch"]]
    /\ UNCHANGED <<row, sessions, tasks, phase, explicit, finalizing, lock, todo, world,
                   boots>>

\* PATCH /channels/c/enabled with true: enabled at once, live status asked for next.
SubmitEnable(r, c) ==
    /\ Arrives(r, "enable") /\ row[c] # "absent"
    /\ row' = [row EXCEPT ![c] = "enabled"]
    /\ actor' = [actor EXCEPT ![r] = [Request("enable", c) EXCEPT !.pc = "fetch"]]
    /\ UNCHANGED <<sessions, tasks, phase, explicit, finalizing, lock, todo, world, boots>>

\* PATCH with false, and the control command "remove": no await before the stop.
SubmitDisable(r, c) ==
    /\ Arrives(r, "disable") /\ row[c] # "absent"
    /\ Stop(r, c, "MANUAL_STOP", "disabled", Request("disable", c), Idle)
    /\ UNCHANGED <<finalizing, lock, todo, world, boots>>

\* DELETE /channels: stop_monitoring is awaited, then the row is deleted.
SubmitDelete(r, c) ==
    /\ Arrives(r, "delete") /\ row[c] # "absent"
    /\ Stop(r, c, "CHANNEL_REMOVED", row[c], Request("delete", c), Idle)
    /\ UNCHANGED <<finalizing, lock, todo, world, boots>>

\* CHZZK answers the request's live-status lookup.  _resolve_control_channels refuses
\* to add a channel that does not exist or could not be looked up.
Answer(r, s) ==
    LET q == actor[r] IN
    /\ q.pc = "fetch" /\ s \in Answers(q.chan)
    /\ actor' = [actor EXCEPT ![r] =
           IF q.op \in {"add", "add_disabled"} /\ s \in {"NOT_FOUND", "ERROR"}
           THEN Idle
           ELSE [q EXCEPT !.pc = "answered", !.snap = s]]
    /\ UNCHANGED <<row, sessions, tasks, phase, explicit, finalizing, lock, todo, world,
                   boots>>

\* reconcile_single_channel once it has the lock, with the answer fetched before it: the
\* row is read now, and without one there is nothing to do.
Locked(r, rowc) ==
    LET q == [actor[r] EXCEPT !.snap = NULL]
        next == [q EXCEPT !.pc = "unlock"]
    IN  /\ lock = NULL /\ lock' = r
        /\ IF rowc = "absent"
           THEN /\ actor' = [actor EXCEPT ![r] = next]
                /\ UNCHANGED <<row, sessions, tasks, phase, explicit>>
           ELSE Reconcile(r, q.chan, actor[r].snap, rowc, q, next)

\* The row a request leaves before it asks for the lock: upsert_channel for an addition.
RowOnApply(q) == IF q.op = "enable" THEN row[q.chan] ELSE "enabled"

\* The handler resumes with its answer: it stores the row, then takes the lock, at once
\* when it is free.
Apply(r) ==
    LET q == actor[r] IN
    /\ q.pc = "answered"
    /\ \/ Locked(r, RowOnApply(q))
       \/ /\ lock # NULL
          /\ row' = [row EXCEPT ![q.chan] = RowOnApply(q)]
          /\ actor' = [actor EXCEPT ![r].pc = "waiting"]
          /\ UNCHANGED <<sessions, tasks, phase, explicit, lock>>
    /\ UNCHANGED <<finalizing, todo, world, boots>>

Acquire(r) ==
    /\ actor[r].pc = "waiting"
    /\ Locked(r, row[actor[r].chan])
    /\ UNCHANGED <<finalizing, todo, world, boots>>

\* The request releases the lock.  POST with enabled=false disables the channel it has
\* just added and stops it, without the lock.
Unlock(r) ==
    LET q == actor[r] IN
    /\ q.pc = "unlock"
    /\ lock' = NULL
    /\ IF q.op = "add_disabled"
       THEN Stop(r, q.chan, "MANUAL_STOP",
                 IF row[q.chan] = "absent" THEN "absent" ELSE "disabled",
                 Request("disable", q.chan), Idle)
       ELSE /\ actor' = [actor EXCEPT ![r] = Idle]
            /\ UNCHANGED <<row, sessions, tasks, phase, explicit>>
    /\ UNCHANGED <<finalizing, todo, world, boots>>

\* Defect: the reason of a stop stays behind.
ReasonsKept(c) == explicit

\* The finally clause of stop_monitoring.
ReasonsAfterStop(c) == [explicit EXCEPT ![c] = NULL]

\* Defect: a stop whose reason was replaced by another stop's leaves the session to it.
ClosedIfStillMine(c, why) ==
    IF explicit[c] = why THEN Finished(sessions[c], why, 0) ELSE sessions[c]

\* Defect: the newest session is closed without a look whether it is open.
ClosedNewest(c, why) ==
    IF sessions[c] = <<>> THEN <<>>
    ELSE [sessions[c] EXCEPT ![Len(sessions[c])].ended_at = 0,
                             ![Len(sessions[c])].stop_reason = why]

\* The last statement of stop_monitoring.
ClosedByStop(c, why) == Finished(sessions[c], why, 0)

\* The task a stop_monitoring call waits for has ended: the explicit reason is dropped,
\* the newest open session closed, whoever opened it, and the caller goes on.
StopEnd(a) ==
    LET q == actor[a] IN
    /\ q.pc = "stopping" /\ phase[q.chan][q.slot] = "done"
    /\ phase' = [phase EXCEPT ![q.chan][q.slot] = "free"]
    /\ explicit' = ReasonsAfterStop(q.chan)
    /\ sessions' = [sessions EXCEPT ![q.chan] = ClosedByStop(q.chan, q.why)]
    /\ row' = [row EXCEPT ![q.chan] = RowAfterStop(q.op, @)]
    /\ actor' = [actor EXCEPT ![a] = AfterStop(a, q)]
    /\ UNCHANGED <<tasks, finalizing, lock, todo, world, boots>>

-----------------------------------------------------------------------------
(* Monitor tasks and the finalizers their ends schedule.                    *)

\* The chat server accepts the connection (cmd 10100, retCode 0): on_connected asks
\* live-detail for the broadcast's id.
Connected(c, k) ==
    /\ phase[c][k] = "connecting" /\ Settled
    /\ phase' = [phase EXCEPT ![c][k] = "lookup"]
    /\ UNCHANGED <<row, sessions, tasks, explicit, finalizing, lock, actor, todo, world,
                   boots>>

\* The lookup answers, with the newest broadcast or, after its attempts, with nothing,
\* and on_connected starts the session.
LookedUp(c, k, live) ==
    /\ phase[c][k] \in {"lookup", "late"}
    /\ live \in {NULL, broadcast[c]} \ {0}
    /\ Len(Started(sessions[c], live, 0)) <= MaxSessions
    /\ sessions' = [sessions EXCEPT ![c] = Started(@, live, 0)]
    /\ phase' = [phase EXCEPT ![c][k] = IF @ = "lookup" THEN "receiving" ELSE "closing"]
    /\ UNCHANGED <<row, tasks, explicit, finalizing, lock, actor, todo, world, boots>>

\* The connection is lost, or publishing a frame failed: the task reconnects and its
\* session stays open.
ConnectionLost(c, k) ==
    /\ phase[c][k] \in {"lookup", "receiving"}
    /\ phase' = [phase EXCEPT ![c][k] = "connecting"]
    /\ UNCHANGED <<row, sessions, tasks, explicit, finalizing, lock, actor, todo, world,
                   boots>>

\* Nine minutes without a chat message end the task by itself: check_inactivity raises,
\* and the receive loop is cancelled where it is.
Inactive(c, k) ==
    /\ phase[c][k] \in Active /\ Settled
    /\ phase' = [phase EXCEPT ![c][k] = Cancelled(@)]
    /\ UNCHANGED <<row, sessions, tasks, explicit, finalizing, lock, actor, todo, world,
                   boots>>

\* The cancellation reaches the receive loop of a task cancelled in its lookup.
Unwound(c, k) ==
    /\ phase[c][k] = "late"
    /\ phase' = [phase EXCEPT ![c][k] = "closing"]
    /\ UNCHANGED <<row, sessions, tasks, explicit, finalizing, lock, actor, todo, world,
                   boots>>

\* Whether the end of a task of c is unexpected: _task_done_callback schedules a
\* finalizer unless a stop of c is under way or no session of c is open.
Unexpected(c) == explicit[c] = NULL /\ HasOpen(sessions[c])

\* The task is done and _task_done_callback runs.  A stop that awaits the task resumes
\* after the callback, which was added first.
TaskEnds(c, k) ==
    /\ phase[c][k] = "closing"
    /\ tasks' = IF tasks[c] = k THEN [tasks EXCEPT ![c] = NULL] ELSE tasks
    /\ phase' = [phase EXCEPT ![c][k] = IF Awaited(c, k) THEN "done" ELSE "free"]
    /\ finalizing' = [finalizing EXCEPT ![c] = IF Unexpected(c) THEN @ + 1 ELSE @]
    /\ UNCHANGED <<row, sessions, explicit, lock, actor, todo, world, boots>>

\* _finalize_unexpected_task_stop
Finalize(c) ==
    /\ finalizing[c] > 0
    /\ finalizing' = [finalizing EXCEPT ![c] = @ - 1]
    /\ sessions' = [sessions EXCEPT ![c] = Finished(@, "UNKNOWN", 0)]
    /\ UNCHANGED <<row, tasks, phase, explicit, lock, actor, todo, world, boots>>

-----------------------------------------------------------------------------
(* CHZZK: broadcasts begin and end.                                         *)

GoLive(c, id) ==
    /\ ~onair[c] /\ id > broadcast[c]
    /\ onair' = [onair EXCEPT ![c] = TRUE]
    /\ broadcast' = [broadcast EXCEPT ![c] = id]
    /\ UNCHANGED <<row, sessions, memory, boots>>

GoOffline(c) ==
    /\ onair[c]
    /\ onair' = [onair EXCEPT ![c] = FALSE]
    /\ UNCHANGED <<row, sessions, memory, broadcast, boots>>

-----------------------------------------------------------------------------
Process ==
    \/ Boot
    \/ \E due \in SUBSET Channels : PollBegin(due)
    \/ \E c \in Channels, s \in Statuses : SyncChannel(c, s)
    \/ RoundDone
    \/ ShutdownBegin
    \/ CancelledStopEnd
    \/ \E c \in Channels : ShutdownStop(c)
    \/ ShutdownDone
    \/ Crash

Handler(r) ==
    \/ \E c \in Channels :
          \/ \E op \in {"add", "add_disabled"} : SubmitAdd(r, op, c)
          \/ SubmitEnable(r, c)
          \/ SubmitDisable(r, c)
          \/ SubmitDelete(r, c)
    \/ \E s \in Statuses : Answer(r, s)
    \/ Apply(r)
    \/ Acquire(r)
    \/ Unlock(r)

MonitorTask(c, k) ==
    \/ Connected(c, k)
    \/ \E live \in LiveIds \cup {NULL} : LookedUp(c, k, live)
    \/ ConnectionLost(c, k)
    \/ Inactive(c, k)
    \/ Unwound(c, k)
    \/ TaskEnds(c, k)

Environment ==
    \E c \in Channels : GoOffline(c) \/ \E id \in LiveIds : GoLive(c, id)

Next ==
    \/ Process
    \/ \E r \in Requests : Handler(r)
    \/ \E a \in Actors : StopEnd(a)
    \/ \E c \in Channels : Finalize(c) \/ \E k \in Slots : MonitorTask(c, k)
    \/ Environment

Spec == Init /\ [][Next]_vars

-----------------------------------------------------------------------------
TypeOK ==
    /\ row \in [Channels -> {"absent", "enabled", "disabled"}]
    /\ sessions \in [Channels -> Seq(Session)]
    /\ tasks \in [Channels -> Slots \cup {NULL}]
    /\ phase \in [Channels -> [Slots -> Phases]]
    /\ explicit \in [Channels -> StopReasons \cup {NULL}]
    /\ finalizing \in [Channels -> Nat]
    /\ lock \in Actors \cup {NULL}
    /\ actor \in [Actors -> ActorStates]
    /\ todo \in SUBSET Channels
    /\ broadcast \in [Channels -> LiveIds \cup {0}]
    /\ onair \in [Channels -> BOOLEAN]
    /\ boots \in Nat

\* A disabled channel has no registered monitor task, whatever poll or request was under
\* way when it was disabled: set_enabled and the pop of the task are one step, and a task
\* is only registered right after the row was read again (control.py 843-925).
NoTaskForDisabledChannel ==
    \A c \in Channels : tasks[c] # NULL => row[c] # "disabled"

\* A channel never has two chat connections: every task that is not on its way out is the
\* registered one, so no message is published twice by two tasks of one channel.
OneConnectionPerChannel ==
    \A c \in Channels, k \in Slots : phase[c][k] \in Active => tasks[c] = k

\* No monitor task runs on unseen: every task is registered, so that a stop will find it,
\* or the stop that took it out of the registry still waits for its end.
NoOrphanTask ==
    \A c \in Channels, k \in Slots :
        phase[c][k] # "free" => tasks[c] = k \/ Awaited(c, k)

\* What an actor that has left its first step knows.
ActorsInPlace ==
    \A a \in Actors :
        LET q == actor[a] IN
        /\ q.pc \in {"fetch", "answered", "waiting", "stopping", "unlock", "cancelled"}
              => q.chan \in Channels
        /\ q.pc \in {"answered", "waiting"} => q.snap \in Statuses
        /\ q.pc \in {"stopping", "cancelled"} => q.slot \in Slots /\ q.why \in StopReasons
        /\ q.pc = "cancelled" => q.op = "shutdown"

\* The inductive invariant: a task is only registered when a slot is free, which takes
\* NoOrphanTask and as many slots as actors.
CoordinatorInv ==
    /\ TypeOK
    /\ ActorsInPlace
    /\ NoOrphanTask
    /\ OneConnectionPerChannel
    /\ NoTaskForDisabledChannel

\* A stop of c is under way that will still close a session.
StopPending(c) == \E a \in Actors : actor[a].pc = "stopping" /\ actor[a].chan = c

\* While the server runs, a disabled channel is quiet: unless a stop of it is still under
\* way, it has no open session and no monitor task in any phase.  After a crash or a
\* restart, startup has made it so before the first request is served.
DisabledIsQuiet ==
    \A c \in Channels :
        actor[Main].op = "poll" /\ row[c] = "disabled" /\ ~StopPending(c)
            => ~HasOpen(sessions[c]) /\ \A k \in Slots : phase[c][k] = "free"

\* While the server runs, an open session is never forgotten: a task of the channel lives,
\* or a stop or a finalizer that will close it is under way.
OpenSessionHasOwner ==
    \A c \in Channels :
        boots = 1 /\ actor[Main].op = "poll" /\ HasOpen(sessions[c])
            => \/ \E k \in Slots : phase[c][k] # "free"
               \/ StopPending(c)
               \/ finalizing[c] > 0

\* A monitored channel's events belong to a session: an enabled channel whose task
\* receives messages has an open session, unless a stop or a finalizer is under way.
ReceivingHasSession ==
    \A c \in Channels :
        /\ row[c] = "enabled" /\ tasks[c] # NULL /\ ~StopPending(c) /\ finalizing[c] = 0
        /\ phase[c][tasks[c]] = "receiving"
        => HasOpen(sessions[c])

\* A deleted channel is no longer collected: once no request on it is in flight, no task
\* of it is registered.
DeletedIsQuiet ==
    \A c \in Channels :
        /\ row[c] = "absent" /\ actor[Main].op = "poll"
        /\ \A a \in Actors : actor[a].chan # c
        => tasks[c] = NULL

\* A graceful shutdown leaves no session open.
ShutdownClosesSessions ==
    [][ShutdownDone => \A c \in Channels : ~HasOpen(sessions'[c])]_vars

\* The sessions follow SessionStore's specification, whoever calls the store in whatever
\* order: every step is one call of it or leaves the sessions alone.
Store == INSTANCE SessionStore WITH clock <- 0, MaxClock <- 0

StoreSpec == Store!Spec

-----------------------------------------------------------------------------
(* Liveness.  The event loop runs what is ready, so every step that waits for nothing   *)
(* is weakly fair; CHZZK requests end because they have timeouts, cancelled tasks end,   *)
(* and a process that is down is started again.  asyncio.Lock is first come first served *)
(* and every poll comes round, so taking the lock is strongly fair.  Nothing forces a    *)
(* request to arrive, a connection to succeed, a broadcast to begin, or a crash; but a   *)
(* channel that is asked about again and again while it is on air is seen to be, in the  *)
(* end, that is, CHZZK does not fail for ever.                                           *)
LoopFairness ==
    /\ WF_vars(Boot) /\ WF_vars(RoundDone)
    /\ WF_vars(CancelledStopEnd) /\ WF_vars(ShutdownDone)
    /\ WF_vars(\E c \in Channels : ShutdownStop(c))
    /\ WF_vars(\E c \in Channels, s \in Statuses : SyncChannel(c, s))
    /\ \A a \in Actors : WF_vars(StopEnd(a))
    /\ \A r \in Requests :
          /\ WF_vars(\E s \in Statuses : Answer(r, s))
          /\ WF_vars(Apply(r)) /\ SF_vars(Acquire(r)) /\ WF_vars(Unlock(r))
    /\ \A c \in Channels :
          /\ WF_vars(Finalize(c))
          /\ SF_vars(\E due \in SUBSET Channels : c \in due /\ PollBegin(due))
          /\ \A k \in Slots : WF_vars(Unwound(c, k)) /\ WF_vars(TaskEnds(c, k))

ChzzkFairness == \A c \in Channels : SF_vars(SyncChannel(c, "OPEN"))

FairSpec == Spec /\ LoopFairness /\ ChzzkFairness

\* Every request returns: no stop waits for ever for its task, and no request for ever
\* for the lock a poll or another request holds across an await.
RequestsReturn == \A r \in Requests : []<>(actor[r] = Idle)

\* A channel that stays disabled ends up without session and tasks, through crashes too.
DisabledGoesQuiet ==
    \A c \in Channels :
        <>[](row[c] = "disabled") =>
            <>[](~HasOpen(sessions[c]) /\ \A k \in Slots : phase[c][k] = "free")

\* A channel that stays enabled and on air is monitored again and again, whatever stale
\* answers, faults, inactivity timeouts and restarts stopped it before.
LiveGetsMonitored ==
    \A c \in Channels :
        <>[](row[c] = "enabled" /\ onair[c]) =>
            []<>(\E k \in Slots : phase[c][k] \in Active)
=============================================================================
