---------------------------- MODULE SessionStore ----------------------------
(***************************************************************************)
(* What the rest of the system may rely on in the monitoring_sessions      *)
(* table: whoever calls start_monitoring_session and                       *)
(* finish_monitoring_session, in whatever order, the rows of a channel are *)
(* a clean timeline of broadcasts.  Gold assigns every event to a session  *)
(* by this timeline (spark/silver_to_gold.py, read_sessions) and stops     *)
(* with an error when two sessions of a channel overlap.                   *)
(*                                                                         *)
(* Both calls are synchronous SQLite transactions made by the one event    *)
(* loop thread, so each is one step.  The clock is the one now_iso()       *)
(* reads; it does not run backwards (the Gold contract names that case as  *)
(* operator damage).                                                       *)
(***************************************************************************)
EXTENDS MonitoringSessions

CONSTANTS
    Channels,
    MaxSessions,   \* bound on the rows of a channel
    MaxClock       \* bound on the clock

ASSUME BoundsAssumption == MaxSessions \in Nat /\ MaxClock \in Nat

VARIABLES
    sessions,      \* sessions[c]: the rows of channel c, oldest first
    clock

vars == <<sessions, clock>>

Init ==
    /\ sessions = [c \in Channels |-> <<>>]
    /\ clock = 0

StartSession(c, live) ==
    /\ Len(Started(sessions[c], live, clock)) <= MaxSessions
    /\ sessions' = [sessions EXCEPT ![c] = Started(sessions[c], live, clock)]
    /\ UNCHANGED clock

FinishSession(c, why) ==
    /\ sessions' = [sessions EXCEPT ![c] = Finished(sessions[c], why, clock)]
    /\ UNCHANGED clock

Tick ==
    /\ clock < MaxClock
    /\ clock' = clock + 1
    /\ UNCHANGED sessions

Next ==
    \/ \E c \in Channels :
          \/ \E live \in LiveIds \cup {NULL} : StartSession(c, live)
          \/ \E why \in StopReasons : FinishSession(c, why)
    \/ Tick

Spec == Init /\ [][Next]_vars

-----------------------------------------------------------------------------
TypeOK ==
    /\ sessions \in [Channels -> Seq(Session)]
    /\ clock \in Nat

\* At most one session of a channel is open and it is the newest one, whatever mix of
\* connects, stops and finalizers called the store (control.py 530-631).
OnlyNewestOpen == \A c \in Channels : ClosedButNewest(sessions[c])

\* The sessions of a channel never overlap and none ends before it starts: what
\* read_sessions of silver_to_gold.py checks, and stops on, for every channel.
NoOverlap ==
    \A c \in Channels : InThePast(sessions[c], clock) /\ InOrder(sessions[c])

\* A restart or a reconnect on the same broadcast continues its session instead of
\* opening a second one next to it (README "one broadcast stays one session").
BroadcastNotSplit == \A c \in Channels : NeighboursDiffer(sessions[c])

\* The inductive invariant: the four parts need each other, since a start may
\* reopen the newest row only because every other row is closed before it.
TimelineInv == TypeOK /\ OnlyNewestOpen /\ NoOverlap /\ BroadcastNotSplit

\* Only the newest session of a channel is ever closed or reopened, and a start time or
\* a broadcast id once written stays: Gold never has to revisit an older session.
HistoryKept == [][\A c \in Channels : PastKept(sessions[c], sessions'[c])]_vars
=============================================================================
