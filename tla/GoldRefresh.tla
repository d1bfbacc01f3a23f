----------------------------- MODULE GoldRefresh -----------------------------
(***************************************************************************)
(* The Gold job (spark/silver_to_gold.py): it assigns the events of Silver *)
(* to the monitoring sessions of the Collector and keeps two Delta tables, *)
(* one row per minute and session, one row per session.  A stream hands it *)
(* the new events and a timer wakes it without any; each refresh rewrites  *)
(* the minutes that may have changed and then the rows of the sessions     *)
(* that hold them.  The two writes are commits of their own, and neither   *)
(* SQLite nor Silver waits for them.  --full recomputes both tables.       *)
(*                                                                         *)
(* Time is counted in ticks.  A minute row stands for the set of its       *)
(* events, of which every metric is a function; it is the events of one    *)
(* minute and session in "minutes".  The model has one channel: ranges,    *)
(* windows and sessions of channels are independent of each other, and the *)
(* Collector never moves a session to another channel.                     *)
(***************************************************************************)
EXTENDS Integers, Sequences, FiniteSets, FiniteSetsExt

CONSTANTS
    TicksPerMinute,
    MaxTime,        \* bound on the clock
    MaxSessions,    \* bound on the sessions of the channel
    MaxEvents,      \* bound on the events that reach Silver
    MaxTroubles     \* bound on crashes, steps back of the clock, rows that
                    \* Silver deletes, and runs with --full

ASSUME GoldAssumption ==
    /\ TicksPerMinute \in Nat \ {0}
    /\ {MaxTime, MaxSessions, MaxEvents, MaxTroubles} \subseteq Nat

VARIABLES
    clock,
    sessions,   \* SQLite: the sessions of the channel, [start, end]
    arrived,    \* the events that ever were rows of Silver, [id, time]
    deleted,    \* those that Silver has deleted again
    seen,       \* checkpoint: the events of the batches that are done
    batch,      \* checkpoint: the events of the planned batch
    minutes,    \* Gold: the events of the minute rows, [event, session]
    rows,       \* Gold: the session rows, [start, end, until, events]
    built,      \* the table of session rows exists
    refresh,    \* what the refresh in progress has read
    stepped,    \* the clock has stepped back
    troubles    \* crashes, steps back, deletions and runs with --full so far

source == <<clock, sessions, arrived, deleted, stepped>>
stream == <<seen, batch>>
gold == <<minutes, rows, built>>
vars == <<source, stream, gold, refresh, troubles>>

Open == -1              \* ended_at of an ongoing session
NoSession == 0          \* session_id of an event outside of all sessions
silver == arrived \ deleted

Idle == [phase |-> "idle", by |-> "nobody", whole |-> FALSE, sessions |-> <<>>,
         now |-> 0, range |-> {}, refreshed |-> {}, pinned |-> {}]

Init ==
    /\ clock = 0 /\ sessions = <<>> /\ arrived = {} /\ deleted = {} /\ stepped = FALSE
    /\ seen = {} /\ batch = {}
    /\ minutes = {} /\ rows = <<>> /\ built = FALSE
    /\ refresh = Idle /\ troubles = 0

-----------------------------------------------------------------------------
(* What Gold makes of what it reads.                                        *)

MinuteOf(t) == t \div TicksPerMinute
Hull(S) == IF S = {} THEN {} ELSE Min(S)..Max(S)

EffectiveEnd(s, now) == IF s.end = Open THEN now ELSE s.end

(* read_sessions raises on a session that ends before it starts, and on two *)
(* that overlap; the refresh fails then, until somebody repairs SQLite.     *)
ReadableUnchecked(ss, now) == TRUE
Readable(ss, now) ==
    /\ \A i \in DOMAIN ss : ss[i].start <= EffectiveEnd(ss[i], now)
    /\ \A i, j \in DOMAIN ss :
          i # j /\ ss[i].start <= ss[j].start /\ (ss[i].start = ss[j].start => i < j)
          => EffectiveEnd(ss[i], now) <= ss[j].start

(* assign_sessions: a left join on the window of the session.               *)
Holding(e, ss, now) ==
    {i \in DOMAIN ss : ss[i].start <= e.time /\ e.time < EffectiveEnd(ss[i], now)}
SessionsOf(e, ss, now) ==
    IF Holding(e, ss, now) = {} THEN {NoSession} ELSE Holding(e, ss, now)
Assigned(events, ss, now) ==
    UNION {{[event |-> e, session |-> i] : i \in SessionsOf(e, ss, now)} : e \in events}

(* broadcast_sessions: a session row is a function of its record, the time  *)
(* and its minute rows.                                                     *)
SessionRow(i, s, now, ms) ==
    [start |-> s.start, end |-> s.end, until |-> EffectiveEnd(s, now),
     events |-> {m.event : m \in {m \in ms : m.session = i}}]

(* changed_sessions: new ones, and those whose record differs.              *)
Recorded(i, s) == i \in DOMAIN rows /\ rows[i].start = s.start /\ rows[i].end = s.end
Changed(ss) == {i \in DOMAIN ss : ~Recorded(i, ss[i])}

(* widen_ranges: the minutes of a changed session and of the events that    *)
(* its row has counted.                                                     *)
StoredEvents(i) == IF i \in DOMAIN rows THEN rows[i].events ELSE {}
Span(i, s, now) ==
    {s.start} \cup {t \in {EffectiveEnd(s, now) - 1} : t >= s.start}
    \cup {e.time : e \in StoredEvents(i)}
RangesOfEvents(events, ss, now) == Hull({MinuteOf(e.time) : e \in events})
Ranges(events, ss, now) ==
    Hull({MinuteOf(t) : t \in {e.time : e \in events}
                              \cup UNION {Span(i, ss[i], now) : i \in Changed(ss)}})

(* overlapping: sessions with a minute in the range.                        *)
OverlappingNone(range, ss, now) == {}
Overlapping(range, ss, now) ==
    IF range = {} THEN {}
    ELSE {i \in DOMAIN ss :
             /\ ss[i].start < (Max(range) + 1) * TicksPerMinute
             /\ EffectiveEnd(ss[i], now) > Min(range) * TicksPerMinute}

Refreshed(range, ss, now) ==
    Changed(ss) \cup Overlapping(range, ss, now) \cup {i \in DOMAIN ss : ss[i].end = Open}

-----------------------------------------------------------------------------
(* The world around Gold.                                                   *)

Tick ==
    /\ clock < MaxTime
    /\ clock' = clock + 1
    /\ UNCHANGED <<sessions, arrived, deleted, stepped, stream, gold, refresh, troubles>>

(* The wall clock of the machine is set back.                               *)
StepBack ==
    /\ clock > 0 /\ troubles < MaxTroubles
    /\ clock' = clock - 1
    /\ stepped' = TRUE /\ troubles' = troubles + 1
    /\ UNCHANGED <<sessions, arrived, deleted, stream, gold, refresh>>

(* The Collector opens, closes and resumes sessions: at most one is open,   *)
(* and only the newest one is resumed.                                      *)
NoneOpen == \A i \in DOMAIN sessions : sessions[i].end # Open

OpenSession ==
    /\ NoneOpen /\ Len(sessions) < MaxSessions
    /\ sessions' = Append(sessions, [start |-> clock, end |-> Open])
    /\ UNCHANGED <<clock, arrived, deleted, stepped, stream, gold, refresh, troubles>>

CloseSession ==
    /\ ~NoneOpen
    /\ sessions' = [sessions EXCEPT ![Len(sessions)].end = clock]
    /\ UNCHANGED <<clock, arrived, deleted, stepped, stream, gold, refresh, troubles>>

ResumeSession ==
    /\ NoneOpen /\ sessions # <<>>
    /\ sessions' = [sessions EXCEPT ![Len(sessions)].end = Open]
    /\ UNCHANGED <<clock, arrived, deleted, stepped, stream, gold, refresh, troubles>>

(* Silver inserts an event some time after it happened, and may delete it   *)
(* again for a conflict.  --full holds the lock of the Silver writer.       *)
SilverRuns == refresh.by # "operator"

InsertEvent ==
    /\ SilverRuns /\ Cardinality(arrived) < MaxEvents
    /\ \E t \in 0..(clock - 1) :
          arrived' = arrived \cup {[id |-> Cardinality(arrived) + 1, time |-> t]}
    /\ UNCHANGED <<clock, sessions, deleted, stepped, stream, gold, refresh, troubles>>

DeleteEvent ==
    /\ SilverRuns /\ troubles < MaxTroubles
    /\ \E e \in silver : deleted' = deleted \cup {e}
    /\ troubles' = troubles + 1
    /\ UNCHANGED <<clock, sessions, arrived, stepped, stream, gold, refresh>>

-----------------------------------------------------------------------------
(* The stream plans a batch of the appended rows; commits that delete rows  *)
(* are skipped (skipChangeCommits).                                         *)
PlanBatchDone ==
    /\ batch = {} /\ arrived # seen
    /\ batch' = arrived \ seen
    /\ seen' = arrived
    /\ UNCHANGED <<source, gold, refresh, troubles>>

PlanBatch ==
    /\ batch = {} /\ arrived # seen
    /\ batch' = arrived \ seen
    /\ UNCHANGED <<source, seen, gold, refresh, troubles>>

(* A refresh begins: it reads SQLite, the clock and the session rows.  One  *)
(* at a time: the stream thread and the timer share a lock, the operator's  *)
(* --full another one with the whole process.                               *)
Begin(by, events, whole) ==
    /\ refresh.phase = "idle"
    /\ Readable(sessions, clock)
    /\ refresh' =
         LET range == Ranges(events, sessions, clock)
         IN  [phase |-> "minutes", by |-> by, whole |-> whole, sessions |-> sessions, now |-> clock,
              range |-> IF whole THEN {} ELSE range,
              refreshed |-> IF whole THEN DOMAIN sessions ELSE Refreshed(range, sessions, clock),
              pinned |-> IF whole THEN silver ELSE {}]
    /\ UNCHANGED <<source, stream, gold>>

(* refresh: without the tables it recomputes everything.                    *)
BeginBatch == batch # {} /\ Begin("stream", batch, ~built) /\ UNCHANGED troubles
BeginTimer == Begin("timer", {}, ~built) /\ UNCHANGED troubles

BeginFull ==
    /\ troubles < MaxTroubles
    /\ Begin("operator", {}, TRUE)
    /\ troubles' = troubles + 1

(* replaceWhere on the minutes of the range, from Silver as it is now; or   *)
(* all of them, from the pinned versions.                                   *)
InRange(e) == refresh.whole \/ MinuteOf(e.time) \in refresh.range

WriteMinutes ==
    /\ refresh.phase = "minutes"
    /\ minutes' = {m \in minutes : ~InRange(m.event)}
                  \cup Assigned(IF refresh.whole THEN refresh.pinned ELSE {e \in silver : InRange(e)},
                                refresh.sessions, refresh.now)
    /\ refresh' = [refresh EXCEPT !.phase = "rows"]
    /\ UNCHANGED <<source, stream, rows, built, troubles>>

(* replaceWhere on the refreshed sessions, from the minute rows.            *)
WriteRows ==
    /\ refresh.phase = "rows"
    /\ rows' = [i \in refresh.refreshed \cup (IF refresh.whole THEN {} ELSE DOMAIN rows) |->
                  IF i \in refresh.refreshed
                  THEN SessionRow(i, refresh.sessions[i], refresh.now, minutes) ELSE rows[i]]
    /\ built' = TRUE
    /\ refresh' = IF refresh.by = "stream" THEN [Idle EXCEPT !.phase = "commit", !.by = "stream"] ELSE Idle
    /\ UNCHANGED <<source, stream, minutes, troubles>>

CommitBatch ==
    /\ refresh.phase = "commit"
    /\ seen' = seen \cup batch /\ batch' = {}
    /\ refresh' = Idle
    /\ UNCHANGED <<source, gold, troubles>>

(* The process dies and is started again; the batch is planned as it was.   *)
Crash ==
    /\ refresh.phase # "idle" /\ troubles < MaxTroubles
    /\ troubles' = troubles + 1
    /\ refresh' = Idle
    /\ UNCHANGED <<source, stream, gold>>

Next ==
    \/ Tick \/ StepBack \/ OpenSession \/ CloseSession \/ ResumeSession
    \/ InsertEvent \/ DeleteEvent
    \/ PlanBatch \/ BeginBatch \/ BeginTimer \/ BeginFull
    \/ WriteMinutes \/ WriteRows \/ CommitBatch \/ Crash

(* A thread that waits for the lock gets it: between two rounds of the      *)
(* timer the lock is free for the rest of the interval.                     *)
Fairness ==
    /\ WF_vars(PlanBatch) /\ SF_vars(BeginBatch) /\ WF_vars(BeginTimer)
    /\ WF_vars(WriteMinutes) /\ WF_vars(WriteRows) /\ WF_vars(CommitBatch)

Spec == Init /\ [][Next]_vars /\ Fairness

-----------------------------------------------------------------------------
(* Properties.                                                              *)

Event == [id : 1..MaxEvents, time : 0..MaxTime]
Session == [start : 0..MaxTime, end : {Open} \cup 0..MaxTime]

TypeOK ==
    /\ clock \in 0..MaxTime /\ sessions \in Seq(Session) /\ Len(sessions) <= MaxSessions
    /\ arrived \subseteq Event /\ deleted \subseteq arrived
    /\ seen \subseteq arrived /\ batch \subseteq arrived \ seen
    /\ minutes \subseteq [event : arrived, session : 0..Len(sessions)]
    /\ DOMAIN rows \subseteq DOMAIN sessions
    /\ \A i \in DOMAIN rows : rows[i].events \subseteq arrived
    /\ refresh.phase \in {"idle", "minutes", "rows", "commit"}
    /\ refresh.refreshed \subseteq DOMAIN sessions
    /\ {built, stepped} \subseteq BOOLEAN
    /\ troubles \in 0..MaxTroubles

(* No event is counted in two sessions or in a session and outside of all,  *)
(* whatever sessions became while it was counted, whoever died when, and    *)
(* even after the clock stepped back (read_sessions, widen_ranges).         *)
CountedOnce == \A m, n \in minutes : m.event = n.event => m = n

(* The minute rows are what a full recomputation would write, but for what  *)
(* is still to come: every event of a finished batch that Silver has not    *)
(* deleted is counted, late ones included, and for the session whose window *)
(* holds it now, unless the record of that session has changed since its    *)
(* row was written.  As long as the clock has not stepped back (refresh,    *)
(* the replay of its batch).                                                *)
MinutesAreExact ==
    ~stepped =>
        \A e \in seen \ deleted : \E m \in minutes :
            /\ m.event = e
            /\ \/ m.session \in SessionsOf(e, sessions, clock)
               \/ Holding(e, sessions, clock) \cap Changed(sessions) # {}

(* A session row follows the minute rows, also between the two writes and   *)
(* after a crash there: what it counts beyond them Silver has deleted, and  *)
(* what it lacks waits for its batch, or the session has changed and is     *)
(* going to be rebuilt.  Where the clock has stepped back a record may      *)
(* return to what it was before a refresh that was lost.                    *)
Counted(i) == {m.event : m \in {m \in minutes : m.session = i}}
RowsFollowMinutes ==
    ~stepped =>
        \A i \in DOMAIN rows :
            /\ rows[i].events \ Counted(i) \subseteq deleted
            /\ i \in Changed(sessions) \/ Counted(i) \ rows[i].events \subseteq arrived \ seen

(* "Gold reflects these deletions automatically for an ongoing session"     *)
(* (README.md:110): what Silver has deleted leaves the row of a session     *)
(* that stays open.                                                         *)
Lingers(n) ==
    \E i \in DOMAIN rows : sessions[i].end = Open /\ \E e \in rows[i].events \cap deleted : e.id = n
DeletesReachOngoing == \A n \in 1..MaxEvents : Lingers(n) ~> ~Lingers(n)
=============================================================================
