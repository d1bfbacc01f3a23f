--------------------------- MODULE ChatConnection ---------------------------
(***************************************************************************)
(* One monitor task of one channel, from the inside: connect_to_chzzk of   *)
(* collector/runtime.py with its three child tasks (receive_messages,      *)
(* send_ping, check_inactivity), the raw publisher it hands frames to      *)
(* (collector/publisher.py, with the Kafka or Pub/Sub client behind it),   *)
(* and the statistics it keeps (CmdCounter of collector/control.py).       *)
(*                                                                         *)
(* MonitorCoordinator sees such a task only through its phases; here the   *)
(* coordinator is the environment that starts and cancels it.              *)
(*                                                                         *)
(* A step is what the event loop runs between two awaits that suspend.     *)
(* The counter's lock is never held across one, so it never blocks.        *)
(* Time passes in minutes; check_inactivity runs every ten seconds, that   *)
(* is, until it has nothing left to do before the next minute passes.      *)
(***************************************************************************)
EXTENDS Naturals, Sequences, FiniteSets, Functions

CONSTANTS
    MaxFrames,      \* bound on the frames a chat server sends, over all connections
    MaxRecords,     \* bound on the records of a frame
    TimeoutLevels,  \* minutes of silence of each level: 2, 5 and 9; the last ends the task
    PublishTimeout  \* minutes after which the Kafka or Pub/Sub client gives up

ASSUME ConnectionAssumption ==
    /\ MaxFrames \in Nat /\ MaxRecords \in Nat \ {0}
    /\ TimeoutLevels \in Seq(Nat \ {0}) /\ Len(TimeoutLevels) > 1
    /\ \A i, j \in DOMAIN TimeoutLevels : i < j => TimeoutLevels[i] < TimeoutLevels[j]
    /\ PublishTimeout \in Nat \ {0}

VARIABLES
    backend,    \* which client build_default_raw_publisher made
    publisher,  \* the life of that client
    pending,    \* frames handed to the client and not yet settled, in order
    paused,     \* Pub/Sub: the ordering key of the channel is paused
    log,        \* the topic: the frames of the channel that reached it
    stage,      \* where connect_to_chzzk is
    ending,     \* why the open connection is given up
    receiver,   \* where receive_messages is
    pinger,     \* whether send_ping still runs
    watcher,    \* where check_inactivity is
    idle,       \* minutes since last_chat_time
    level,      \* check_inactivity's current_level
    warned,     \* history: the levels announced since the last chat activity
    heard,      \* history: minutes since a chat frame arrived or the connection opened
    frames,     \* every frame received so far, with its observed_at as an age
    conn,       \* number of the connection that received the newest frames
    buckets     \* CmdCounter: recent records by the age of their bucket

client == <<backend, publisher, pending, paused, log>>
children == <<receiver, pinger, watcher>>
silence == <<idle, level, warned, heard>>
vars == <<client, stage, ending, children, silence, frames, conn, buckets>>

-----------------------------------------------------------------------------
(* Frames.  A chat frame (any command but the ones below) counts as         *)
(* activity of the channel; a system frame (cmd 100, 10000, 10001) does     *)
(* not; a frame with a cmd that is not a number is published, but the       *)
(* counter raises on it.  Connection responses (cmd 10100) are not          *)
(* published; text that is not JSON is dropped without a trace and is left  *)
(* out.  A frame expands to as many statistics records as its body has      *)
(* items; of an odd frame, those up to the odd one.                         *)

Kinds == {"chat", "system", "odd"}
System == {"system"}
Activity == Kinds \ System
RecordsOf(kind) == IF kind \in Activity THEN 1..MaxRecords ELSE {1}

Window == 1                       \* recent_window_seconds, in minutes
Oldest == Window + PublishTimeout
Ages == 0..Oldest                 \* the last one stands for every older age

Newest == frames[Len(frames)]

(* The records the counter has taken when record_records returns or raises: *)
(* the conversion of an odd record's cmd fails before anything is counted.  *)
Tallied(frame) == IF frame.kind = "odd" THEN frame.records - 1 ELSE frame.records

(* CmdCounter._prune: forget the buckets that had left the window when the *)
(* records at hand, of the given age, were observed.                        *)
Prune(b, age) == [a \in Ages |-> IF a <= Window + age THEN b[a] ELSE 0]

(* CmdCounter.record_records: a record goes to the bucket of the second it  *)
(* was observed, which may be a while ago if the publish took long.         *)
RecordAtOnce(b, frame) ==
    [Prune(b, 0) EXCEPT ![0] = @ + Tallied(frame)]

Record(b, frame) ==
    [Prune(b, frame.age) EXCEPT ![frame.age] = @ + Tallied(frame)]

(* CmdCounter.snapshot: recent_events_per_minute.                           *)
Recent(b) == SumFunction(b)

-----------------------------------------------------------------------------
(* check_inactivity: what its next round does.                              *)
LastLevel == Len(TimeoutLevels)

NeverResets == FALSE
NeverTimesOut == idle >= TimeoutLevels[level] /\ level > LastLevel
WarnsAtLastLevel == idle >= TimeoutLevels[level] /\ level <= LastLevel

Warns == idle >= TimeoutLevels[level] /\ level < LastLevel
TimesOut == idle >= TimeoutLevels[level] /\ level = LastLevel
Resets == idle < TimeoutLevels[1] /\ level > 1

Stages == {"none", "lookup", "token", "retry", "connect", "open", "closing", "backoff"}
ReceiverStates == {"off", "recv", "callback", "publish", "resume", "acked",
                   "failed", "closed"}

Init ==
    /\ backend \in {"kafka", "pubsub"}
    /\ publisher = "new" /\ pending = <<>> /\ paused = FALSE /\ log = {}
    /\ stage = "none" /\ ending = "no"
    /\ receiver = "off" /\ pinger = "off" /\ watcher = "off"
    /\ idle = 0 /\ level = 1 /\ warned = {} /\ heard = 0
    /\ frames = <<>> /\ conn = 1
    /\ buckets = [a \in Ages |-> 0]

-----------------------------------------------------------------------------
(* The life of the publisher: the application starts it before it starts    *)
(* the coordinator and stops it after the coordinator has stopped its       *)
(* tasks.  Stopping flushes what the client still holds.                    *)

StartPublisher ==
    /\ publisher = "new"
    /\ publisher' = "started"
    /\ UNCHANGED <<backend, pending, paused, log, stage, ending, children, silence,
                   frames, conn, buckets>>

StopPublisher ==
    /\ publisher = "started" /\ stage = "none" /\ pending = <<>>
    /\ publisher' = "stopped"
    /\ UNCHANGED <<backend, pending, paused, log, stage, ending, children, silence,
                   frames, conn, buckets>>

(* The client settles what it holds in the order it was handed over.        *)
AwaitsHead == receiver = "publish" /\ pending[1] = Len(frames)

Deliver ==
    /\ pending # <<>>
    /\ log' = log \cup {pending[1]}
    /\ pending' = Tail(pending)
    /\ receiver' = IF AwaitsHead THEN "acked" ELSE receiver
    /\ UNCHANGED <<backend, publisher, paused, stage, ending, pinger, watcher, silence,
                   frames, conn, buckets>>

(* The client gives a frame up.  Pub/Sub fails with it every frame of the   *)
(* ordering key and pauses the key until resume_publish; publish calls that *)
(* before it raises, unless it was cancelled while it waited.               *)
GiveUp ==
    /\ pending # <<>>
    /\ pending' = IF backend = "pubsub" THEN <<>> ELSE Tail(pending)
    /\ paused' = (backend = "pubsub")
    /\ receiver' = IF receiver = "publish" /\ (backend = "pubsub" \/ AwaitsHead)
                   THEN IF backend = "pubsub" THEN "resume" ELSE "failed"
                   ELSE receiver
    /\ UNCHANGED <<backend, publisher, log, stage, ending, pinger, watcher, silence,
                   frames, conn, buckets>>

ResumeKeyAndGoOn ==
    /\ receiver = "resume"
    /\ paused' = FALSE
    /\ receiver' = "recv"
    /\ UNCHANGED <<backend, publisher, pending, log, stage, ending, pinger, watcher,
                   silence, frames, conn, buckets>>

FailOnPausedKey ==
    /\ receiver = "resume"
    /\ receiver' = "failed"
    /\ UNCHANGED <<client, stage, ending, pinger, watcher, silence, frames, conn, buckets>>

ResumeKey ==
    /\ receiver = "resume"
    /\ paused' = FALSE
    /\ receiver' = "failed"
    /\ UNCHANGED <<backend, publisher, pending, log, stage, ending, pinger, watcher,
                   silence, frames, conn, buckets>>

-----------------------------------------------------------------------------
(* connect_to_chzzk, up to the open connection.                             *)

GoTo(from, to) ==
    /\ stage = from
    /\ stage' = to
    /\ UNCHANGED <<client, ending, children, frames, conn, buckets>>

(* The coordinator starts a task (ensure_monitoring).                       *)
StartTask ==
    /\ publisher = "started"
    /\ GoTo("none", "lookup") /\ UNCHANGED silence

(* The channel's chat id: found, absent (not on air, or an error answer),   *)
(* or the answer is not even an object and the lookup raises.               *)
ChatFound == GoTo("lookup", "token") /\ UNCHANGED silence
NoChat == GoTo("lookup", "retry") /\ UNCHANGED silence
LookupRaises == GoTo("lookup", "backoff") /\ UNCHANGED silence

TokenReceived ==
    /\ GoTo("token", "connect")
    /\ idle' = 0 /\ warned' = {} /\ heard' = 0 /\ UNCHANGED level

NoToken == GoTo("token", "retry") /\ UNCHANGED silence

RetrySleptAgain == GoTo("retry", "retry") /\ UNCHANGED silence
RetrySlept == GoTo("retry", "lookup") /\ UNCHANGED silence
BackoffSlept == GoTo("backoff", "lookup") /\ UNCHANGED silence
ConnectFails == GoTo("connect", "backoff") /\ UNCHANGED silence

(* The socket is open, the authentication is sent, the children start.      *)
Connect ==
    /\ stage = "connect"
    /\ stage' = "open"
    /\ receiver' = "recv" /\ pinger' = "on" /\ watcher' = "on"
    /\ level' = 1
    /\ conn' = IF frames # <<>> /\ Newest.conn = conn THEN conn + 1 ELSE conn
    /\ UNCHANGED <<client, ending, idle, warned, heard, frames, buckets>>

-----------------------------------------------------------------------------
(* receive_messages.                                                        *)

(* publish waits for the client; on a paused key it fails at once.          *)
HandedUnawaited == IF paused THEN "resume" ELSE "acked"
Handed == IF paused THEN "resume" ELSE "publish"

(* A frame arrives and is handed to the publisher.                          *)
Receive(kind, records) ==
    /\ receiver = "recv" /\ Len(frames) < MaxFrames
    /\ frames' = Append(frames, [kind |-> kind, records |-> records, conn |-> conn,
                                 age |-> 0, tally |-> 0])
    /\ receiver' = Handed
    /\ pending' = IF paused THEN pending ELSE Append(pending, Len(frames'))
    /\ heard' = IF kind \in Activity THEN 0 ELSE heard
    /\ UNCHANGED <<backend, publisher, paused, log, stage, ending, pinger, watcher, idle,
                   level, warned, conn, buckets>>

(* A connection response: accepted, the callback records the session;       *)
(* rejected, the loop raises.                                               *)
Response ==
    /\ receiver = "recv"
    /\ receiver' \in {"callback", "failed"}
    /\ UNCHANGED <<client, stage, ending, pinger, watcher, silence, frames, conn, buckets>>

(* on_connected has recorded the session, or raised.                        *)
CallbackEnds ==
    /\ receiver = "callback"
    /\ receiver' \in {"recv", "failed"}
    /\ UNCHANGED <<client, stage, ending, pinger, watcher, silence, frames, conn, buckets>>

(* Whether the frame moves last_chat_time.                                  *)
IsSystem(frame) == frame.kind \in System
IsActivity(frame) == frame.kind \notin System

(* The frame is published: it is chat activity as of when it was observed,  *)
(* and its records are counted.                                             *)
Count ==
    /\ receiver = "acked"
    /\ frames' = [frames EXCEPT ![Len(frames)].tally = Tallied(Newest)]
    /\ buckets' = Record(buckets, Newest)
    /\ receiver' = IF Newest.kind = "odd" THEN "failed" ELSE "recv"
    /\ IF IsActivity(Newest)
       THEN idle' = Newest.age /\ warned' = {}
       ELSE UNCHANGED <<idle, warned>>
    /\ UNCHANGED <<client, stage, ending, pinger, watcher, level, heard, conn>>

SocketCloses ==
    /\ receiver = "recv"
    /\ receiver' = "closed"
    /\ UNCHANGED <<client, stage, ending, pinger, watcher, silence, frames, conn, buckets>>

(* send_ping finds the connection broken and returns.                       *)
PingFails ==
    /\ pinger = "on"
    /\ pinger' = "off"
    /\ UNCHANGED <<client, stage, ending, receiver, watcher, silence, frames, conn, buckets>>

(* check_inactivity: at most one level up or back to the first per check.   *)
Check ==
    /\ watcher = "on"
    /\ \/ /\ Warns
          /\ level' = level + 1 /\ warned' = warned \cup {level}
          /\ UNCHANGED watcher
       \/ /\ TimesOut
          /\ watcher' = "timeout"
          /\ UNCHANGED <<level, warned>>
       \/ /\ Resets
          /\ level' = 1
          /\ UNCHANGED <<watcher, warned>>
    /\ UNCHANGED <<client, stage, ending, receiver, pinger, idle, heard, frames, conn, buckets>>

-----------------------------------------------------------------------------
(* The end of a connection and of the task.                                 *)

ChildEnded == receiver \in {"failed", "closed"} \/ pinger = "off" \/ watcher = "timeout"

(* What the results of the finished children say.  They are looked at in no *)
(* particular order and the first exception wins.                           *)
EndingsSwallowed ==
    IF watcher = "timeout" THEN {"inactive", "reconnect"} ELSE {"reconnect"}

Endings ==
    IF ending = "cancelled" THEN {"cancelled"}
    ELSE IF watcher = "timeout"
         THEN {"inactive"} \cup (IF receiver = "failed" THEN {"reconnect"} ELSE {})
         ELSE {"reconnect"}

(* The finally block: the children are cancelled and awaited.  A frame that *)
(* was being published stays with the client; a resume_publish that was     *)
(* under way in its thread may or may not have run.  The clock and the level *)
(* of the connection are gone with it.                                      *)
UnwindDetached ==
    /\ stage = "open" /\ (ChildEnded \/ ending = "cancelled")
    /\ stage' = "closing"
    /\ ending' \in Endings
    /\ pinger' = "off" /\ watcher' = "off"
    /\ UNCHANGED <<client, receiver, silence, frames, conn, buckets>>

Unwind ==
    /\ stage = "open" /\ (ChildEnded \/ ending = "cancelled")
    /\ stage' = "closing"
    /\ ending' \in Endings
    /\ receiver' = "off" /\ pinger' = "off" /\ watcher' = "off"
    /\ idle' = 0 /\ level' = 1 /\ warned' = {} /\ heard' = 0
    /\ paused' \in IF receiver = "resume" THEN {paused, FALSE} ELSE {paused}
    /\ UNCHANGED <<backend, publisher, pending, log, frames, conn, buckets>>

(* The socket is closed: reconnect, or the task is over.                    *)
Closed ==
    /\ stage = "closing"
    /\ stage' = IF ending = "reconnect" THEN "backoff" ELSE "none"
    /\ ending' = "no"
    /\ UNCHANGED <<client, children, silence, frames, conn, buckets>>

(* stop_monitoring cancels the task.  With an open connection the children  *)
(* go on until the task itself runs again.                                  *)
Cancel ==
    /\ stage # "none"
    /\ IF stage \in {"open", "closing"}
       THEN ending' = "cancelled" /\ UNCHANGED stage
       ELSE stage' = "none" /\ UNCHANGED ending
    /\ UNCHANGED <<client, children, silence, frames, conn, buckets>>

-----------------------------------------------------------------------------
(* GET /stats, the dashboard and the periodic print: snapshot.              *)
Snapshot ==
    /\ buckets' = Prune(buckets, 0)
    /\ UNCHANGED <<client, stage, ending, children, silence, frames, conn>>

Older(age) == IF age = Oldest THEN age ELSE age + 1

(* A silence is not told apart from one a minute longer once it has passed  *)
(* the last level.                                                          *)
Longer(silent) == IF silent > TimeoutLevels[LastLevel] THEN silent ELSE silent + 1

(* A minute passes.  The event loop gets to what is ready much sooner, the  *)
(* opening handshake gives up in seconds, and the clients of the brokers    *)
(* give up after PublishTimeout.                                            *)
Tick ==
    /\ stage = "open" => ~Warns /\ ~TimesOut /\ ~Resets /\ ~ChildEnded /\ ending # "cancelled"
    /\ stage = "connect" => idle = 0
    /\ receiver \notin {"acked", "resume"}
    /\ receiver = "publish" => Newest.age < PublishTimeout
    /\ idle' = IF stage \in {"connect", "open"} THEN Longer(idle) ELSE idle
    /\ heard' = IF stage \in {"connect", "open"} THEN Longer(heard) ELSE heard
    /\ frames' = [i \in DOMAIN frames |-> [frames[i] EXCEPT !.age = Older(@)]]
    /\ buckets' = [a \in Ages |-> SumFunctionOnSet(buckets, {b \in Ages : Older(b) = a})]
    /\ UNCHANGED <<client, stage, ending, children, level, warned, conn>>

-----------------------------------------------------------------------------
Client == StartPublisher \/ StopPublisher \/ Deliver \/ GiveUp
Opening ==
    \/ StartTask \/ ChatFound \/ NoChat \/ LookupRaises \/ TokenReceived \/ NoToken
    \/ RetrySlept \/ BackoffSlept \/ ConnectFails \/ Connect
Receiving ==
    \/ \E kind \in Kinds : \E records \in RecordsOf(kind) : Receive(kind, records)
    \/ Response \/ CallbackEnds \/ ResumeKey \/ Count \/ SocketCloses
Next ==
    \/ Client \/ Opening \/ Receiving
    \/ PingFails \/ Check \/ Unwind \/ Closed \/ Cancel \/ Snapshot \/ Tick

(* The receive loop and the task between two awaits. *)
ReceiverStep == ResumeKey \/ CallbackEnds \/ Count
TaskStep ==
    \/ ChatFound \/ NoChat \/ LookupRaises \/ TokenReceived \/ NoToken
    \/ RetrySlept \/ BackoffSlept \/ ConnectFails \/ Connect \/ Unwind \/ Closed

(* The event loop runs what is ready, sleeps end, clients settle what they  *)
(* hold and time passes.  CHZZK answers in the end: it does not refuse      *)
(* every lookup, every token and every connection.  Nobody is obliged to    *)
(* start, to cancel or to ask for a snapshot, and no frame has to arrive.   *)
Fairness ==
    /\ WF_vars(Deliver \/ GiveUp) /\ WF_vars(ReceiverStep) /\ WF_vars(TaskStep)
    /\ WF_vars(Check) /\ WF_vars(Tick)
    /\ SF_vars(ChatFound) /\ SF_vars(TokenReceived) /\ SF_vars(Connect)

Spec == Init /\ [][Next]_vars /\ Fairness

-----------------------------------------------------------------------------
(* Properties.                                                              *)

TypeOK ==
    /\ backend \in {"kafka", "pubsub"} /\ publisher \in {"new", "started", "stopped"}
    /\ pending \in Seq(1..MaxFrames) /\ log \subseteq 1..MaxFrames /\ paused \in BOOLEAN
    /\ stage \in Stages /\ ending \in {"no", "reconnect", "inactive", "cancelled"}
    /\ receiver \in ReceiverStates /\ pinger \in {"off", "on"}
    /\ watcher \in {"off", "on", "timeout"}
    /\ idle \in Nat /\ heard \in Nat /\ level \in DOMAIN TimeoutLevels
    /\ warned \subseteq DOMAIN TimeoutLevels
    /\ frames \in Seq([kind : Kinds, records : 1..MaxRecords, conn : Nat, age : Ages,
                       tally : 0..MaxRecords])
    /\ conn \in Nat \ {0}
    /\ buckets \in [Ages -> Nat]

(* A connection leaves no gap behind: of the frames it received, every one  *)
(* but the newest is on the topic and in the statistics.  A failed publish  *)
(* ends the connection, also on an ordering key found paused, and so does a *)
(* record that cannot be counted (receive_messages).                        *)
OnlyTheLastFrameMayBeLost ==
    \A i, j \in DOMAIN frames :
        i < j /\ frames[i].conn = frames[j].conn
        => i \in log /\ frames[i].tally = frames[i].records

(* The statistics never run ahead of the topic: a frame is counted only     *)
(* after its acknowledgement (receive_messages publishes first).            *)
CountedWasPublished ==
    \A i \in DOMAIN frames : frames[i].tally > 0 => i \in log

(* A publish that failed under a live connection has resumed the ordering   *)
(* key before it raised, whether it paused the key itself or found it       *)
(* paused, and no frame is left that could pause it again: the failure of   *)
(* one frame never costs the next connection its first one                  *)
(* (PubSubRawPublisher.publish).                                            *)
PausedKeyIsResumed ==
    receiver = "failed" /\ frames # <<>> /\ Newest.conn = conn /\ Len(frames) \notin log
    => ~paused

GivesUp == watcher = "on" /\ watcher' = "timeout"

(* A task that ends as inactive has announced both earlier levels since the *)
(* last chat activity: check_inactivity never jumps from an old level to    *)
(* the end, because it falls back as soon as the chat has come alive.  This *)
(* is so where a publish takes less than the first level, as PublishTimeout *)
(* has it here: a frame acknowledged only after that is activity too old    *)
(* for a reset, and the level carries over.  The publisher sets no timeout  *)
(* of its own, and that of a client, of Pub/Sub above all, may be longer.   *)
InactivityWasAnnounced == [][GivesUp => warned = 1..(LastLevel - 1)]_vars

(* A task ends as inactive only if no chat frame arrived for nine minutes   *)
(* on this connection, other than one that is still being published or has  *)
(* just failed to be: last_chat_time is not carried over from an earlier    *)
(* connection, nor missed for a published frame.                            *)
InactiveMeansQuiet ==
    [][GivesUp /\ receiver \in {"recv", "closed", "callback"}
       => heard >= TimeoutLevels[LastLevel]]_vars

(* Nothing is handed to the publisher outside an open connection: the       *)
(* receive loop does not outlive the connection it belongs to, so two loops *)
(* never publish for one task (the finally block of connect_to_chzzk).      *)
NothingHandedAfterEnd == [][Len(pending') > Len(pending) => stage = "open"]_vars

Tallies == [i \in DOMAIN frames |-> frames[i].tally]
TalliedWithin(age) ==
    SumFunctionOnSet(Tallies, {i \in DOMAIN frames : frames[i].age <= age})

(* A snapshot reports the records observed in the last minute, no more and  *)
(* no fewer, however long their publication took and whatever was pruned    *)
(* before (CmdCounter.record_records, _prune and snapshot).                 *)
SnapshotIsFresh == Recent(Prune(buckets, 0)) = TalliedWithin(Window)

(* A cancelled connection is over in the end: neither a child nor the       *)
(* reconnect loop swallows the cancellation.                                *)
CancelEnds == ending = "cancelled" ~> stage = "none"

(* A connection on which no more frames arrive is given up: by the peer or, *)
(* at the latest, by the inactivity levels.                                 *)
SilentConnectionEnds == (stage = "open" /\ Len(frames) = MaxFrames) ~> stage # "open"

(* A task that waits for a broadcast or to reconnect gets an open           *)
(* connection, or is stopped; no error leaves it waiting for ever.          *)
Reconnects == stage \in {"retry", "backoff"} ~> stage \in {"open", "none"}
=============================================================================
