--------------------- MODULE MonitoringSessions_proofs ---------------------
(***************************************************************************)
(* The calls of the store on the rows of one channel, for any number of    *)
(* rows: both keep the rows a timeline and touch the newest row only.      *)
(***************************************************************************)
EXTENDS MonitoringSessions, SequenceTheorems, TLAPS

\* The two changes made to a row that exists.
Closed(row, why, now) == [row EXCEPT !.ended_at = now, !.stop_reason = why]
Reopened(row) == [row EXCEPT !.ended_at = NULL, !.stop_reason = NULL]

LEMMA ClosedRow ==
    ASSUME NEW row \in Session, NEW now \in Nat, NEW why \in StopReasons
    PROVE  /\ Closed(row, why, now) \in Session
           /\ Closed(row, why, now).ended_at = now
           /\ Closed(row, why, now).ended_at # NULL
           /\ Closed(row, why, now).stop_reason # NULL
           /\ Closed(row, why, now).started_at = row.started_at
           /\ Closed(row, why, now).live_id = row.live_id
BY NullAssumption DEF Closed, Session

LEMMA ReopenedRow ==
    ASSUME NEW row \in Session
    PROVE  /\ Reopened(row) \in Session
           /\ Reopened(row).ended_at = NULL
           /\ Reopened(row).stop_reason = NULL
           /\ Reopened(row).started_at = row.started_at
           /\ Reopened(row).live_id = row.live_id
BY DEF Reopened, Session

\* The newest row replaced by another.
LEMMA NewestReplaced ==
    ASSUME NEW rows \in Seq(Session), rows # <<>>, NEW last \in Session
    PROVE  LET n == Len(rows)
               new == [rows EXCEPT ![n] = last]
           IN  /\ new \in Seq(Session) /\ Len(new) = n /\ DOMAIN new = 1 .. n
               /\ new[n] = last
               /\ \A i \in 1 .. n : i # n => new[i] = rows[i]
BY ExceptSeq

\* The rows of one channel as the calls leave them.
Timeline(rows, now) ==
    /\ rows \in Seq(Session)
    /\ ClosedButNewest(rows)
    /\ InThePast(rows, now)
    /\ InOrder(rows)
    /\ NeighboursDiffer(rows)

\* An open session is the newest row, so the code's "ORDER BY id DESC LIMIT 1" over the
\* open rows finds that row.
LEMMA OpenIsNewest ==
    ASSUME NEW rows \in Seq(Session), ClosedButNewest(rows), HasOpen(rows)
    PROVE  /\ Len(rows) \in Nat \ {0}
           /\ OpenRow(rows) = Len(rows)
           /\ rows[Len(rows)].ended_at = NULL
<1>1. OpenRows(rows) \subseteq {Len(rows)}
  BY DEF OpenRows, ClosedButNewest
<1>2. OpenRows(rows) = {Len(rows)}
  BY <1>1 DEF HasOpen
<1>3. Len(rows) \in DOMAIN rows /\ rows[Len(rows)].ended_at = NULL
  BY <1>2 DEF OpenRows
<1>4. OpenRow(rows) = Len(rows)
  BY <1>2 DEF OpenRow
<1> QED
  BY <1>3, <1>4

\* Rows that differ in their newest one only, whose start and broadcast stay.
SameButNewest(rows, new, n) ==
    /\ n \in Nat \ {0}
    /\ Len(rows) = n /\ DOMAIN rows = 1 .. n
    /\ Len(new) = n /\ DOMAIN new = 1 .. n
    /\ \A i \in 1 .. n : i # n => new[i] = rows[i]
    /\ new[n].started_at = rows[n].started_at
    /\ new[n].live_id = rows[n].live_id

LEMMA SameButNewestKeeps ==
    ASSUME NEW rows, NEW new, NEW n, SameButNewest(rows, new, n)
    PROVE  /\ PastKept(rows, new)
           /\ NeighboursDiffer(rows) => NeighboursDiffer(new)
<1>1. \A i \in 1 .. n : /\ new[i].started_at = rows[i].started_at
                        /\ new[i].live_id = rows[i].live_id
  BY DEF SameButNewest
<1>2. PastKept(rows, new)
  BY <1>1 DEF SameButNewest, PastKept
<1>3. ASSUME NeighboursDiffer(rows), NEW i \in 1 .. n, i > 1, new[i].live_id # NULL
      PROVE  new[i - 1].live_id # new[i].live_id
  <2>1. n \in Nat /\ i - 1 \in 1 .. n
    BY <1>3 DEF SameButNewest
  <2> QED
    BY <1>1, <1>3, <2>1 DEF SameButNewest, NeighboursDiffer
<1> QED
  BY <1>2, <1>3 DEF SameButNewest, NeighboursDiffer

\* finish_monitoring_session keeps the timeline and touches the newest row only.
LEMMA FinishKeepsTimeline ==
    ASSUME NEW rows, NEW now \in Nat, NEW why \in StopReasons, Timeline(rows, now)
    PROVE  /\ Timeline(Finished(rows, why, now), now)
           /\ ~HasOpen(Finished(rows, why, now))
           /\ PastKept(rows, Finished(rows, why, now))
<1> DEFINE new == Finished(rows, why, now)
<1> USE NullAssumption
<1>1. CASE ~HasOpen(rows)
  BY <1>1 DEF Finished, PastKept, Timeline
<1>2. CASE HasOpen(rows)
  <2> DEFINE n == Len(rows)
             last == Closed(rows[n], why, now)
  <2>1. /\ rows \in Seq(Session) /\ rows # <<>> /\ n \in Nat \ {0} /\ rows[n] \in Session
        /\ DOMAIN rows = 1 .. n /\ n = Len(rows) /\ OpenRow(rows) = n
        /\ rows[n].ended_at = NULL
    BY <1>2, OpenIsNewest DEF Timeline
  <2>2. new = [rows EXCEPT ![n] = last]
    BY <1>2, <2>1 DEF Finished, Closed
  <2>3. /\ last \in Session /\ last.ended_at = now
        /\ last.ended_at # NULL /\ last.stop_reason # NULL
        /\ last.started_at = rows[n].started_at /\ last.live_id = rows[n].live_id
    BY <2>1, ClosedRow
  <2> HIDE DEF last, new, n
  <2>4. /\ new \in Seq(Session) /\ Len(new) = n /\ DOMAIN new = 1 .. n /\ new[n] = last
        /\ \A i \in 1 .. n : i # n => new[i] = rows[i]
    BY <2>1, <2>2, <2>3, NewestReplaced DEF n
  <2>5. SameButNewest(rows, new, n)
    BY <2>1, <2>3, <2>4 DEF SameButNewest
  <2>6. \A i \in 1 .. n : i # n => rows[i].ended_at # NULL /\ rows[i].stop_reason # NULL
    <3>1. n \in Nat
      BY <2>1
    <3>2. \A i \in 1 .. n : i # n => i < n
      BY <3>1
    <3>3. \A i \in 1 .. n : /\ i < n => rows[i].ended_at # NULL
                            /\ (rows[i].ended_at = NULL) <=> (rows[i].stop_reason = NULL)
      BY <2>1 DEF Timeline, ClosedButNewest
    <3> QED
      BY <3>2, <3>3
  <2>7. \A i \in 1 .. n : new[i].ended_at # NULL /\ new[i].stop_reason # NULL
    BY <2>3, <2>4, <2>6
  <2>8. ClosedButNewest(new) /\ ~HasOpen(new)
    BY <2>5, <2>7 DEF SameButNewest, ClosedButNewest, HasOpen, OpenRows
  <2>9. InThePast(new, now)
    BY <2>3, <2>4, <2>5 DEF SameButNewest, InThePast, Timeline
  <2>10. InOrder(new)
    BY <2>5 DEF SameButNewest, InOrder, Timeline
  <2>11. PastKept(rows, new) /\ NeighboursDiffer(new)
    BY <2>5, SameButNewestKeeps DEF Timeline
  <2>12. Timeline(new, now)
    BY <2>4, <2>8, <2>9, <2>10, <2>11 DEF Timeline
  <2> QED
    BY <2>8, <2>11, <2>12 DEF new
<1> QED
  BY <1>1, <1>2

\* Reopening the newest row, or inserting one, keeps the timeline when nothing is open.
LEMMA OpenKeepsTimeline ==
    ASSUME NEW rows, NEW now \in Nat, NEW live \in LiveIds \cup {NULL},
           Timeline(rows, now), ~HasOpen(rows)
    PROVE  /\ Timeline(Opened(rows, live, now), now)
           /\ PastKept(rows, Opened(rows, live, now))
<1> DEFINE n == Len(rows)
           new == Opened(rows, live, now)
<1> USE NullAssumption
<1>1. rows \in Seq(Session) /\ n \in Nat /\ DOMAIN rows = 1 .. n /\ n = Len(rows)
  BY DEF Timeline
<1>2. \A i \in DOMAIN rows : rows[i].ended_at # NULL /\ rows[i].stop_reason # NULL
  BY DEF Timeline, HasOpen, OpenRows, ClosedButNewest
<1>3. CASE live # NULL /\ rows # <<>> /\ rows[n].live_id = live
  <2> DEFINE last == Reopened(rows[n])
  <2>1. n # 0 /\ rows[n] \in Session
    BY <1>1, <1>3
  <2>2. new = [rows EXCEPT ![n] = last]
    BY <1>3 DEF Opened, Reopened
  <2>3. /\ last \in Session /\ last.ended_at = NULL /\ last.stop_reason = NULL
        /\ last.started_at = rows[n].started_at /\ last.live_id = rows[n].live_id
    BY <2>1, ReopenedRow
  <2> HIDE DEF last, new, n
  <2>4. /\ new \in Seq(Session) /\ Len(new) = n /\ DOMAIN new = 1 .. n /\ new[n] = last
        /\ \A i \in 1 .. n : i # n => new[i] = rows[i]
    BY <1>1, <1>3, <2>2, <2>3, NewestReplaced DEF n
  <2>5. SameButNewest(rows, new, n)
    BY <1>1, <2>1, <2>3, <2>4 DEF SameButNewest
  <2>6. ClosedButNewest(new)
    BY <1>2, <2>3, <2>4, <2>5 DEF SameButNewest, ClosedButNewest
  <2>7. InThePast(new, now)
    BY <2>3, <2>4, <2>5 DEF SameButNewest, InThePast, Timeline
  <2>8. InOrder(new)
    BY <2>3, <2>4, <2>5 DEF SameButNewest, InOrder, Timeline
  <2>9. PastKept(rows, new) /\ NeighboursDiffer(new)
    BY <2>5, SameButNewestKeeps DEF Timeline
  <2>10. Timeline(new, now)
    BY <2>4, <2>6, <2>7, <2>8, <2>9 DEF Timeline
  <2> QED
    BY <2>9, <2>10 DEF new
<1>4. CASE ~(live # NULL /\ rows # <<>> /\ rows[n].live_id = live)
  <2> DEFINE fresh == NewSession(live, now)
  <2>1. new = Append(rows, fresh)
    BY <1>4 DEF Opened
  <2>2. fresh \in Session /\ fresh.live_id = live /\ fresh.started_at = now
        /\ fresh.ended_at = NULL /\ fresh.stop_reason = NULL
    BY DEF NewSession, Session
  <2>3. new \in Seq(Session) /\ Len(new) = n + 1 /\ DOMAIN new = 1 .. (n + 1)
        /\ new[n + 1] = fresh
    BY <1>1, <2>1, <2>2
  <2>4. \A i \in DOMAIN rows : new[i] = rows[i]
    BY <1>1, <2>1
  <2>5. ClosedButNewest(new)
    BY <1>1, <1>2, <2>2, <2>3, <2>4 DEF ClosedButNewest
  <2>6. InThePast(new, now)
    BY <1>1, <2>2, <2>3, <2>4 DEF InThePast, Timeline
  <2>7. InOrder(new)
    BY <1>1, <2>2, <2>3, <2>4 DEF InOrder, InThePast, Timeline
  <2>8. NeighboursDiffer(new)
    <3> SUFFICES ASSUME NEW i \in DOMAIN new, i > 1, new[i].live_id # NULL
                 PROVE  new[i - 1].live_id # new[i].live_id
      BY DEF NeighboursDiffer
    <3>1. CASE i \in DOMAIN rows
      BY <1>1, <2>4, <3>1 DEF NeighboursDiffer, Timeline
    <3>2. CASE i = n + 1
      <4>1. n \in DOMAIN rows /\ rows # <<>> /\ live # NULL
        BY <1>1, <2>2, <2>3, <3>2
      <4> QED
        BY <1>1, <1>4, <2>2, <2>3, <2>4, <3>2, <4>1
    <3> QED
      BY <1>1, <2>3, <3>1, <3>2
  <2>9. PastKept(rows, new)
    BY <1>1, <2>3, <2>4 DEF PastKept
  <2> QED
    BY <2>3, <2>5, <2>6, <2>7, <2>8, <2>9 DEF Timeline
<1> QED
  BY <1>3, <1>4

\* What two calls in a row keep of the past, one keeps with respect to the first rows,
\* as long as the first call inserts nothing.
LEMMA PastKeptTwice ==
    ASSUME NEW a \in Seq(Session), NEW b \in Seq(Session), NEW c \in Seq(Session),
           Len(b) = Len(a), PastKept(a, b), PastKept(b, c)
    PROVE  PastKept(a, c)
<1>1. DOMAIN a = DOMAIN b
  OBVIOUS
<1> QED
  BY <1>1 DEF PastKept

\* start_monitoring_session keeps the timeline and touches no row but the newest.
LEMMA StartKeepsTimeline ==
    ASSUME NEW rows, NEW now \in Nat, NEW live \in LiveIds \cup {NULL}, Timeline(rows, now)
    PROVE  /\ Timeline(Started(rows, live, now), now)
           /\ PastKept(rows, Started(rows, live, now))
<1>1. CASE Continues(rows, live)
  BY <1>1 DEF Started, PastKept, Timeline
<1>2. CASE ~Continues(rows, live) /\ ~HasOpen(rows)
  <2>1. Started(rows, live, now) = Opened(rows, live, now)
    BY <1>2 DEF Started
  <2> QED
    BY <1>2, <2>1, OpenKeepsTimeline
<1>3. CASE ~Continues(rows, live) /\ HasOpen(rows)
  <2> DEFINE why == ReplacedReason(rows[OpenRow(rows)])
             closed == Finished(rows, why, now)
  <2>1. why \in StopReasons
    BY DEF ReplacedReason, StopReasons
  <2>2. Started(rows, live, now) = Opened(closed, live, now)
    BY <1>3 DEF Started
  <2>3. Timeline(closed, now) /\ ~HasOpen(closed) /\ PastKept(rows, closed)
    BY <2>1, FinishKeepsTimeline
  <2>4. Timeline(Opened(closed, live, now), now)
        /\ PastKept(closed, Opened(closed, live, now))
    BY <2>3, OpenKeepsTimeline
  <2>5. Len(closed) = Len(rows)
    BY <1>3 DEF Finished, Timeline
  <2>6. PastKept(rows, Opened(closed, live, now))
    BY <2>3, <2>4, <2>5, PastKeptTwice DEF Timeline
  <2> QED
    BY <2>2, <2>4, <2>6
<1> QED
  BY <1>1, <1>2, <1>3

\* The passing of time keeps it too.
LEMMA TimeKeepsTimeline ==
    ASSUME NEW rows, NEW now \in Nat, Timeline(rows, now)
    PROVE  Timeline(rows, now + 1)
<1>1. rows \in Seq(Session)
  BY DEF Timeline
<1>2. \A i \in DOMAIN rows : rows[i] \in Session
  BY <1>1
<1>3. \A i \in DOMAIN rows : /\ rows[i].started_at \in Nat
                             /\ rows[i].ended_at # NULL => rows[i].ended_at \in Nat
  BY <1>2 DEF Session
<1>4. InThePast(rows, now)
  BY DEF Timeline
<1>5. ASSUME NEW i \in DOMAIN rows
      PROVE  /\ rows[i].started_at <= now + 1
             /\ rows[i].ended_at # NULL =>
                   rows[i].started_at <= rows[i].ended_at /\ rows[i].ended_at <= now + 1
  <2>1. rows[i].started_at \in Nat /\ rows[i].started_at <= now
    BY <1>3, <1>4 DEF InThePast
  <2>2. rows[i].ended_at # NULL => /\ rows[i].ended_at \in Nat
                                   /\ rows[i].started_at <= rows[i].ended_at
                                   /\ rows[i].ended_at <= now
    BY <1>3, <1>4 DEF InThePast
  <2> QED
    BY <2>1, <2>2
<1> QED
  BY <1>5 DEF Timeline, InThePast
=============================================================================
