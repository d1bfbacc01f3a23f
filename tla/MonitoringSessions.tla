------------------------- MODULE MonitoringSessions -------------------------
(***************************************************************************)
(* The monitoring_sessions table of the Collector (class ChannelStore in   *)
(* collector/control.py), as operators on the rows of one channel.  The    *)
(* rows of a channel are a sequence in the order of their ids              *)
(* (INTEGER PRIMARY KEY AUTOINCREMENT), so "ORDER BY id DESC LIMIT 1" is   *)
(* the largest index.  SessionStore makes a state machine of these         *)
(* operators and MonitorCoordinator calls them from the Collector's tasks. *)
(***************************************************************************)
EXTENDS Integers, Sequences

CONSTANTS
    LiveIds,    \* ids CHZZK gives to broadcasts
    NULL        \* SQL NULL, and Python's None

StopReasons ==
    {"BROADCAST_ENDED", "MANUAL_STOP", "CHANNEL_REMOVED", "SERVER_SHUTDOWN", "UNKNOWN"}

ASSUME NullAssumption == NULL \notin LiveIds \cup Nat \cup StopReasons

Session ==
    [live_id     : LiveIds \cup {NULL},
     started_at  : Nat,
     ended_at    : Nat \cup {NULL},
     stop_reason : StopReasons \cup {NULL}]

OpenRows(rows) == {i \in DOMAIN rows : rows[i].ended_at = NULL}

HasOpen(rows) == OpenRows(rows) # {}

\* get_open_monitoring_session: the open row with the largest id.
OpenRow(rows) == CHOOSE i \in OpenRows(rows) : \A j \in OpenRows(rows) : j <= i

\* finish_monitoring_session: closes that row, and does nothing without one.
Finished(rows, why, now) ==
    IF HasOpen(rows)
    THEN [rows EXCEPT ![OpenRow(rows)] =
             [@ EXCEPT !.ended_at = now, !.stop_reason = why]]
    ELSE rows

NewSession(live, now) ==
    [live_id |-> live, started_at |-> now, ended_at |-> NULL, stop_reason |-> NULL]

\* Defect: any row of the broadcast is reopened, not only the newest.
OpenedAnyRow(rows, live, now) ==
    LET same == {i \in DOMAIN rows : live # NULL /\ rows[i].live_id = live}
    IN  IF same # {}
        THEN [rows EXCEPT ![CHOOSE i \in same : TRUE] =
                 [@ EXCEPT !.ended_at = NULL, !.stop_reason = NULL]]
        ELSE Append(rows, NewSession(live, now))

\* Defect: a restart always inserts a row.
OpenedAlwaysNew(rows, live, now) == Append(rows, NewSession(live, now))

\* The second half of start_monitoring_session: the newest row is reopened when
\* it is of the same known broadcast, otherwise a row is inserted.
Opened(rows, live, now) ==
    IF live # NULL /\ rows # <<>> /\ rows[Len(rows)].live_id = live
    THEN [rows EXCEPT ![Len(rows)] = [@ EXCEPT !.ended_at = NULL, !.stop_reason = NULL]]
    ELSE Append(rows, NewSession(live, now))

\* An unknown broadcast never splits the open session, the same one keeps it.
Continues(rows, live) ==
    HasOpen(rows) /\ (live = NULL \/ rows[OpenRow(rows)].live_id = live)

\* Defect: a reason that is none of the documented ones.
ReplacedReasonUnlisted(row) == "BROADCAST_REPLACED"

\* Why start_monitoring_session closes the open row of another broadcast.
ReplacedReason(row) == IF row.live_id # NULL THEN "BROADCAST_ENDED" ELSE "UNKNOWN"

\* Defect: the open row of another broadcast is not closed first.
StartedUnclosed(rows, live, now) ==
    IF Continues(rows, live) THEN rows ELSE Opened(rows, live, now)

\* start_monitoring_session
Started(rows, live, now) ==
    IF Continues(rows, live)
    THEN rows
    ELSE LET closed == IF HasOpen(rows)
                       THEN Finished(rows, ReplacedReason(rows[OpenRow(rows)]), now)
                       ELSE rows
         IN  Opened(closed, live, now)

-----------------------------------------------------------------------------
(* What keeps the rows of a channel a clean timeline.                       *)

\* Every row but the newest is closed, and a row has a stop reason exactly when it is
\* closed (start and finish in ChannelStore keep at most one open session per channel).
ClosedButNewest(rows) ==
    \A i \in DOMAIN rows :
        /\ i < Len(rows) => rows[i].ended_at # NULL
        /\ (rows[i].ended_at = NULL) <=> (rows[i].stop_reason = NULL)

\* No row lies in the future, and none ends before it starts.
InThePast(rows, now) ==
    \A i \in DOMAIN rows :
        /\ rows[i].started_at <= now
        /\ rows[i].ended_at # NULL =>
              rows[i].started_at <= rows[i].ended_at /\ rows[i].ended_at <= now

\* A row ends before the next one starts.
InOrder(rows) ==
    \A i, j \in DOMAIN rows :
        i < j /\ rows[i].ended_at # NULL => rows[i].ended_at <= rows[j].started_at

\* Two neighbouring rows are never of the same known broadcast.
NeighboursDiffer(rows) ==
    \A i \in DOMAIN rows :
        i > 1 /\ rows[i].live_id # NULL => rows[i - 1].live_id # rows[i].live_id

\* What a call may do to the past of a channel.
PastKept(rows, newRows) ==
    /\ Len(rows) <= Len(newRows)
    /\ \A i \in DOMAIN rows :
          /\ newRows[i].started_at = rows[i].started_at
          /\ newRows[i].live_id = rows[i].live_id
          /\ i < Len(rows) => newRows[i] = rows[i]
=============================================================================
