------------------------ MODULE ChatConnection_proofs ------------------------
(***************************************************************************)
(* One monitor task, for any number of frames, connections and levels.     *)
(*                                                                         *)
(* FramesInv is about what was received, published and counted; KeyInv     *)
(* adds what the client holds for a paused ordering key; SilenceInv adds   *)
(* what check_inactivity knows of it, for clients that give a frame up     *)
(* before the first inactivity level; BucketsAgree ties the buckets of the *)
(* statistics to the frames they were counted for, by the sums the section *)
(* Sums is about; TypeOK needs FramesInv, which bounds a count by the      *)
(* records of its frame.                                                   *)
(***************************************************************************)
EXTENDS ChatConnection, FiniteSetTheorems, WellFoundedInduction, TLAPS

Frame == [kind : Kinds, records : Nat \ {0}, conn : Nat, age : Nat, tally : Nat]

Types ==
    /\ frames \in Seq(Frame) /\ pending \in Seq(Nat) /\ conn \in Nat
    /\ receiver \in ReceiverStates

\* A frame of which nothing is left to do.
Settled(i) == i \in log /\ frames[i].tally = frames[i].records

\* The newest frame is being published or counted.
Waiting == receiver \in {"publish", "resume", "acked"}

InOpenConnection == receiver # "off" => stage = "open"

NewestConnectionLast ==
    \A i \in DOMAIN frames : frames[i].conn <= Newest.conn /\ frames[i].conn <= conn

EarlierSettled ==
    /\ receiver \in {"recv", "callback"} =>
          \A i \in DOMAIN frames : frames[i].conn = conn => Settled(i)
    /\ Waiting =>
          /\ frames # <<>> /\ Newest.conn = conn
          /\ \A i \in DOMAIN frames : i < Len(frames) /\ frames[i].conn = conn => Settled(i)
    /\ receiver = "acked" => Len(frames) \in log

FramesInv ==
    /\ Types /\ InOpenConnection /\ NewestConnectionLast /\ EarlierSettled
    /\ OnlyTheLastFrameMayBeLost /\ CountedWasPublished

-----------------------------------------------------------------------------
\* What a step keeps that receives and counts nothing, and puts the receive
\* loop where less is known of it.
LEMMA FramesKept ==
    ASSUME FramesInv, UNCHANGED <<frames, conn>>, log \subseteq log', pending' \in Seq(Nat),
           \/ receiver' = receiver
           \/ receiver' \in {"off", "failed", "closed"}
           \/ {receiver, receiver'} \subseteq {"recv", "callback"}
           \/ receiver = "publish" /\ receiver' = "resume"
           \/ receiver = "publish" /\ receiver' = "acked" /\ Len(frames) \in log',
           receiver' # "off" => stage' = "open"
    PROVE  FramesInv'
<1>1. Types'
  BY DEF FramesInv, Types, ReceiverStates
<1>2. InOpenConnection' /\ NewestConnectionLast'
  BY DEF FramesInv, InOpenConnection, NewestConnectionLast, Newest
<1>3. \A i : Settled(i) => Settled(i)'
  BY DEF Settled
<1>4. EarlierSettled'
  BY <1>3 DEF FramesInv, EarlierSettled, Waiting, Newest
<1>5. OnlyTheLastFrameMayBeLost' /\ CountedWasPublished'
  BY DEF FramesInv, OnlyTheLastFrameMayBeLost, CountedWasPublished
<1> QED
  BY <1>1, <1>2, <1>4, <1>5 DEF FramesInv

LEMMA InitFrames == Init => FramesInv
BY DEF Init, FramesInv, Types, InOpenConnection, NewestConnectionLast, EarlierSettled, Waiting,
       OnlyTheLastFrameMayBeLost, CountedWasPublished, ReceiverStates, Frame

LEMMA ConnectKeepsFrames == FramesInv /\ Connect => FramesInv'
<1> SUFFICES ASSUME FramesInv, Connect PROVE FramesInv'
  OBVIOUS
<1>1. Types'
  BY DEF FramesInv, Types, Connect, ReceiverStates, client, Newest, Frame
<1>2. \A i \in DOMAIN frames : frames[i].conn < conn' /\ frames[i].conn <= Newest.conn
  <2> SUFFICES ASSUME NEW i \in DOMAIN frames
               PROVE  frames[i].conn < conn' /\ frames[i].conn <= Newest.conn
    OBVIOUS
  <2>1. frames # <<>> /\ Len(frames) \in DOMAIN frames
    BY DEF FramesInv, Types
  <2>2. frames[i] \in Frame /\ Newest \in Frame /\ conn \in Nat
    BY <2>1 DEF FramesInv, Types, Newest
  <2>3. frames[i].conn \in Nat /\ Newest.conn \in Nat
    BY <2>2 DEF Frame
  <2>4. frames[i].conn <= Newest.conn /\ Newest.conn <= conn
    BY <2>1 DEF FramesInv, NewestConnectionLast, Newest
  <2>5. conn' = IF Newest.conn = conn THEN conn + 1 ELSE conn
    BY <2>1 DEF Connect
  <2> QED
    BY <2>2, <2>3, <2>4, <2>5
<1>3. UNCHANGED <<frames, log>> /\ stage' = "open" /\ receiver' = "recv" /\ conn' \in Nat
  BY <1>1 DEF Connect, client, Types
<1>4. InOpenConnection' /\ NewestConnectionLast'
  <2>1. \A i \in DOMAIN frames : frames[i].conn \in Nat
    <3>1. \A i \in DOMAIN frames : frames[i] \in Frame
      BY DEF FramesInv, Types
    <3> QED
      BY <3>1 DEF Frame
  <2> QED
    BY <1>2, <1>3, <2>1 DEF InOpenConnection, NewestConnectionLast, Newest
<1>5. EarlierSettled'
  BY <1>2, <1>3 DEF FramesInv, Types, EarlierSettled, Waiting, Frame
<1>6. OnlyTheLastFrameMayBeLost' /\ CountedWasPublished'
  BY <1>3 DEF FramesInv, OnlyTheLastFrameMayBeLost, CountedWasPublished
<1> QED
  BY <1>1, <1>4, <1>5, <1>6 DEF FramesInv

LEMMA ReceiveKeepsFrames ==
    ASSUME FramesInv, NEW kind \in Kinds, NEW records \in Nat \ {0}, Receive(kind, records)
    PROVE  FramesInv'
<1> DEFINE new == [kind |-> kind, records |-> records, conn |-> conn, age |-> 0, tally |-> 0]
           n == Len(frames)
<1>1. /\ receiver = "recv" /\ frames' = Append(frames, new) /\ UNCHANGED <<log, stage, conn>>
      /\ receiver' \in {"resume", "publish"}
      /\ pending' \in {pending, Append(pending, Len(frames'))}
  BY DEF Receive, Handed
<1>2. new \in Frame /\ frames \in Seq(Frame) /\ n \in Nat
  BY DEF FramesInv, Types, Frame
<1>3. /\ frames' \in Seq(Frame) /\ Len(frames') = n + 1 /\ DOMAIN frames' = 1..(n + 1)
      /\ frames'[n + 1] = new /\ \A i \in 1..n : frames'[i] = frames[i]
      /\ DOMAIN frames = 1..n
  BY <1>1, <1>2
<1>4. Types'
  <2>1. pending \in Seq(Nat) /\ Len(frames') \in Nat
    BY <1>2, <1>3 DEF FramesInv, Types
  <2>2. Append(pending, Len(frames')) \in Seq(Nat)
    BY <2>1
  <2>3. pending' \in Seq(Nat)
    BY <2>1, <2>2, <1>1
  <2> QED
    BY <2>3, <1>1, <1>3 DEF FramesInv, Types, ReceiverStates
<1>5. InOpenConnection'
  BY <1>1 DEF FramesInv, InOpenConnection
<1>6. NewestConnectionLast'
  <2>1. \A i \in 1..n : frames'[i].conn <= conn
    BY <1>3 DEF FramesInv, NewestConnectionLast
  <2>2. Newest'.conn = conn
    BY <1>3 DEF Newest
  <2> QED
    BY <2>1, <2>2, <1>1, <1>2, <1>3 DEF FramesInv, Types, NewestConnectionLast
<1>7. \A i \in 1..n : frames[i].conn = conn => i \in log /\ frames'[i].tally = frames'[i].records
  BY <1>1, <1>3 DEF FramesInv, EarlierSettled, Settled
<1>8. EarlierSettled'
  BY <1>1, <1>3, <1>7 DEF EarlierSettled, Waiting, Settled, Newest
<1>9. OnlyTheLastFrameMayBeLost'
  <2> SUFFICES ASSUME NEW i \in 1..(n + 1), NEW j \in 1..(n + 1), i < j,
                      frames'[i].conn = frames'[j].conn
               PROVE  i \in log /\ frames'[i].tally = frames'[i].records
    BY <1>1, <1>3 DEF OnlyTheLastFrameMayBeLost
  <2>1. i \in 1..n
    BY <1>2
  <2>2. CASE j = n + 1
    BY <2>1, <2>2, <1>3, <1>7
  <2>3. CASE j \in 1..n
    BY <2>1, <2>3, <1>3 DEF FramesInv, OnlyTheLastFrameMayBeLost
  <2> QED
    BY <2>2, <2>3, <1>2
<1>10. CountedWasPublished'
  BY <1>1, <1>3 DEF FramesInv, CountedWasPublished
<1> QED
  BY <1>4, <1>5, <1>6, <1>8, <1>9, <1>10 DEF FramesInv

LEMMA CountKeepsFrames == FramesInv /\ Count => FramesInv'
<1> SUFFICES ASSUME FramesInv, Count PROVE FramesInv'
  OBVIOUS
<1> DEFINE n == Len(frames)
<1>1. frames \in Seq(Frame) /\ n \in Nat \ {0} /\ DOMAIN frames = 1..n /\ receiver = "acked"
  BY DEF FramesInv, Types, EarlierSettled, Waiting, Count
<1>2. frames[n] \in Frame /\ Tallied(frames[n]) \in Nat
  <2>1. frames[n] \in Frame
    BY <1>1
  <2>2. frames[n].records \in Nat \ {0}
    BY <2>1 DEF Frame
  <2> QED
    BY <2>1, <2>2 DEF Tallied
<1>3. /\ frames' = [frames EXCEPT ![n].tally = Tallied(frames[n])]
      /\ UNCHANGED <<log, stage, conn, pending>>
      /\ receiver' = IF frames[n].kind = "odd" THEN "failed" ELSE "recv"
  BY DEF Count, Newest, client
<1>4. /\ frames' \in Seq(Frame) /\ DOMAIN frames' = 1..n /\ Len(frames') = n
      /\ \A i \in 1..n : i # n => frames'[i] = frames[i]
      /\ frames'[n].tally = Tallied(frames[n]) /\ frames'[n].records = frames[n].records
      /\ \A i \in 1..n : frames'[i].conn = frames[i].conn
  <2> DEFINE counted == [frames[n] EXCEPT !.tally = Tallied(frames[n])]
  <2>1. /\ counted \in Frame /\ counted.tally = Tallied(frames[n])
        /\ counted.records = frames[n].records /\ counted.conn = frames[n].conn
    BY <1>2 DEF Frame
  <2>2. frames' = [frames EXCEPT ![n] = counted]
    BY <1>3
  <2> HIDE DEF counted
  <2>3. frames' \in Seq(Frame) /\ DOMAIN frames' = 1..n /\ Len(frames') = n
    BY <2>1, <2>2, <1>1
  <2>4. n \in DOMAIN frames /\ DOMAIN frames = 1..n
    BY <1>1
  <2>5. frames'[n] = counted /\ \A i \in DOMAIN frames : i # n => frames'[i] = frames[i]
    BY <2>2, <2>4
  <2> QED
    BY <2>1, <2>3, <2>4, <2>5
<1>5. Types' /\ InOpenConnection'
  BY <1>1, <1>3, <1>4 DEF FramesInv, Types, InOpenConnection, ReceiverStates
<1>6. NewestConnectionLast'
  BY <1>1, <1>3, <1>4 DEF FramesInv, NewestConnectionLast, Newest
<1>7. \A i \in 1..n : i < n /\ frames[i].conn = conn
                      => i \in log /\ frames'[i].tally = frames'[i].records
  <2> SUFFICES ASSUME NEW i \in 1..n, i < n, frames[i].conn = conn
               PROVE  i \in log /\ frames'[i].tally = frames'[i].records
    OBVIOUS
  <2>1. Settled(i)
    BY <1>1 DEF FramesInv, EarlierSettled, Waiting
  <2>2. i # n
    <3>1. \A k, l \in Nat : k < l => k # l
      OBVIOUS
    <3>2. i \in Nat /\ n \in Nat
      BY <1>1
    <3> QED
      BY <3>1, <3>2
  <2>3. frames'[i] = frames[i]
    BY <2>2, <1>4
  <2> QED
    BY <2>1, <2>3 DEF Settled
<1>8. n \in log
  BY <1>1 DEF FramesInv, EarlierSettled
<1>9. EarlierSettled'
  <2>1. CASE frames[n].kind = "odd"
    BY <2>1, <1>3 DEF EarlierSettled, Waiting
  <2>2. CASE frames[n].kind # "odd"
    <3>1. frames'[n].tally = frames'[n].records
      BY <2>2, <1>4 DEF Tallied
    <3> QED
      BY <2>2, <3>1, <1>1, <1>3, <1>4, <1>7, <1>8 DEF EarlierSettled, Waiting, Settled
  <2> QED
    BY <2>1, <2>2
<1>10. OnlyTheLastFrameMayBeLost'
  BY <1>1, <1>3, <1>4 DEF FramesInv, OnlyTheLastFrameMayBeLost
<1>11. CountedWasPublished'
  BY <1>1, <1>3, <1>4, <1>8 DEF FramesInv, CountedWasPublished
<1> QED
  BY <1>5, <1>6, <1>9, <1>10, <1>11 DEF FramesInv

LEMMA TickKeepsFrames == FramesInv /\ Tick => FramesInv'
<1> SUFFICES ASSUME FramesInv, Tick PROVE FramesInv'
  OBVIOUS
<1>1. frames \in Seq(Frame) /\ UNCHANGED <<log, stage, conn, pending, receiver>>
  BY DEF FramesInv, Types, Tick, client, children
<1>2. frames' = [i \in DOMAIN frames |-> [frames[i] EXCEPT !.age = Older(@)]]
  BY DEF Tick
<1>3. \A i \in DOMAIN frames :
         /\ frames'[i] \in Frame /\ frames'[i].conn = frames[i].conn
         /\ frames'[i].tally = frames[i].tally /\ frames'[i].records = frames[i].records
  <2> SUFFICES ASSUME NEW i \in DOMAIN frames
               PROVE  /\ frames'[i] \in Frame /\ frames'[i].conn = frames[i].conn
                      /\ frames'[i].tally = frames[i].tally
                      /\ frames'[i].records = frames[i].records
    OBVIOUS
  <2>1. frames[i] \in Frame /\ frames'[i] = [frames[i] EXCEPT !.age = Older(frames[i].age)]
    BY <1>1, <1>2
  <2>2. frames[i].age \in Nat
    BY <2>1 DEF Frame
  <2>3. Older(frames[i].age) \in Nat
    BY <2>2 DEF Older
  <2> QED
    BY <2>1, <2>3 DEF Frame
<1>4. frames' \in Seq(Frame) /\ DOMAIN frames' = DOMAIN frames /\ Len(frames') = Len(frames)
  BY <1>1, <1>2, <1>3
<1>5. Types' /\ InOpenConnection'
  BY <1>1, <1>4 DEF FramesInv, Types, InOpenConnection
<1>6. NewestConnectionLast'
  BY <1>1, <1>3, <1>4 DEF FramesInv, NewestConnectionLast, Newest
<1>7. EarlierSettled'
  BY <1>1, <1>3, <1>4 DEF FramesInv, EarlierSettled, Waiting, Settled, Newest
<1>8. OnlyTheLastFrameMayBeLost' /\ CountedWasPublished'
  BY <1>1, <1>3, <1>4 DEF FramesInv, OnlyTheLastFrameMayBeLost, CountedWasPublished
<1> QED
  BY <1>5, <1>6, <1>7, <1>8 DEF FramesInv

LEMMA StepKeepsFrames == FramesInv /\ [Next]_vars => FramesInv'
<1> SUFFICES ASSUME FramesInv, [Next]_vars PROVE FramesInv'
  OBVIOUS
<1> USE DEF client, children, silence
<1>1. receiver \in ReceiverStates /\ pending \in Seq(Nat) /\ InOpenConnection
  BY DEF FramesInv, Types
<1>2. CASE UNCHANGED vars
  <2> QED
    BY <1>1, <1>2, FramesKept DEF vars, InOpenConnection
<1>3. CASE Client
  <2>1. CASE StartPublisher \/ StopPublisher
    BY <1>1, <2>1, FramesKept DEF StartPublisher, StopPublisher, InOpenConnection
  <2>2. CASE Deliver
    <3>1. Tail(pending) \in Seq(Nat)
      BY <1>1, <2>2 DEF Deliver
    <3> QED
      BY <1>1, <2>2, <3>1, FramesKept DEF Deliver, AwaitsHead, InOpenConnection
  <2>3. CASE GiveUp
    <3>1. Tail(pending) \in Seq(Nat) /\ <<>> \in Seq(Nat)
      BY <1>1, <2>3 DEF GiveUp
    <3> QED
      BY <1>1, <2>3, <3>1, FramesKept DEF GiveUp, InOpenConnection
  <2> QED
    BY <1>3, <2>1, <2>2, <2>3 DEF Client
<1>4. CASE Opening
  <2>1. CASE Connect
    BY <2>1, ConnectKeepsFrames
  <2>2. CASE \E from, to : from # "open" /\ GoTo(from, to)
    BY <1>1, <2>2, FramesKept DEF GoTo, InOpenConnection
  <2> QED
    BY <1>4, <2>1, <2>2 DEF Opening, StartTask, ChatFound, NoChat, LookupRaises, TokenReceived,
       NoToken, RetrySlept, BackoffSlept, ConnectFails
<1>5. CASE Receiving
  <2>1. CASE \E kind \in Kinds : \E records \in RecordsOf(kind) : Receive(kind, records)
    <3>1. PICK kind \in Kinds : \E records \in RecordsOf(kind) : Receive(kind, records)
      BY <2>1
    <3>2. PICK records \in RecordsOf(kind) : Receive(kind, records)
      BY <3>1
    <3>3. records \in Nat \ {0}
      BY ConnectionAssumption DEF RecordsOf
    <3> QED
      BY <3>2, <3>3, ReceiveKeepsFrames
  <2>2. CASE Count
    BY <2>2, CountKeepsFrames
  <2>3. CASE Response \/ CallbackEnds \/ ResumeKey \/ SocketCloses
    BY <1>1, <2>3, FramesKept DEF Response, CallbackEnds, ResumeKey, SocketCloses, InOpenConnection
  <2> QED
    BY <1>5, <2>1, <2>2, <2>3 DEF Receiving
<1>6. CASE Unwind
  BY <1>1, <1>6, FramesKept DEF Unwind
<1>7. CASE Closed \/ Cancel
  BY <1>1, <1>7, FramesKept DEF Closed, Cancel, InOpenConnection
<1>8. CASE PingFails \/ Check \/ Snapshot
  BY <1>1, <1>8, FramesKept DEF PingFails, Check, Snapshot, InOpenConnection
<1>9. CASE Tick
  BY <1>9, TickKeepsFrames
<1> QED
  BY <1>2, <1>3, <1>4, <1>5, <1>6, <1>7, <1>8, <1>9 DEF Next

THEOREM FramesInvariant == Spec => []FramesInv
BY InitFrames, StepKeepsFrames, PTL DEF Spec

(* A connection leaves no gap: of its frames all but the newest are on the  *)
(* topic and counted (receive_messages ends on a failed publish).           *)
THEOREM NoGap == Spec => []OnlyTheLastFrameMayBeLost
BY FramesInvariant, PTL DEF FramesInv

(* The statistics never count a frame that is not on the topic.             *)
THEOREM PublishedBeforeCounted == Spec => []CountedWasPublished
BY FramesInvariant, PTL DEF FramesInv

LEMMA HandedInside == FramesInv /\ [Next]_vars => (Len(pending') > Len(pending) => stage = "open")
<1> SUFFICES ASSUME FramesInv, [Next]_vars, Len(pending') > Len(pending) PROVE stage = "open"
  OBVIOUS
<1>1. pending \in Seq(Nat) /\ InOpenConnection
  BY DEF FramesInv, Types
<1>2. pending' # pending /\ (pending # <<>> => pending' # Tail(pending)) /\ pending' # <<>>
  BY <1>1
<1>3. \E kind \in Kinds : \E records \in RecordsOf(kind) : Receive(kind, records)
  BY <1>2 DEF Next, vars, client, children, silence, Client, Opening, Receiving, StartPublisher,
     StopPublisher, Deliver, GiveUp, StartTask, ChatFound, NoChat, LookupRaises, TokenReceived,
     NoToken, RetrySlept, BackoffSlept, ConnectFails, Connect, GoTo, Response, CallbackEnds,
     ResumeKey, Count, SocketCloses, PingFails, Check, Unwind, Closed, Cancel, Snapshot, Tick
<1> QED
  BY <1>1, <1>3 DEF Receive, InOpenConnection

(* Nothing is handed to the publisher outside an open connection (the       *)
(* finally block of connect_to_chzzk).                                      *)
THEOREM OneLoopPerConnection == Spec => NothingHandedAfterEnd
<1>1. FramesInv /\ [Next]_vars => [Len(pending') > Len(pending) => stage = "open"]_vars
  BY HandedInside
<1> QED
  BY <1>1, FramesInvariant, PTL DEF Spec, NothingHandedAfterEnd

-----------------------------------------------------------------------------
(* The ordering key.                                                        *)

\* The newest frame of this connection is not on the topic.
Undelivered == frames # <<>> /\ Newest.conn = conn /\ Len(frames) \notin log

\* The client holds nothing for a paused key, so nothing is left to pause it
\* again once a failed publish has resumed it.
KeyInv ==
    /\ backend \in {"kafka", "pubsub"} /\ paused \in BOOLEAN
    /\ paused => backend = "pubsub" /\ pending = <<>>
    /\ receiver = "resume" => pending = <<>>
    /\ receiver = "failed" /\ Undelivered => ~paused /\ (backend = "pubsub" => pending = <<>>)

\* A step that does not touch the key keeps this, if it lets fail only a receive
\* loop whose frames have arrived.
LEMMA KeyKept ==
    ASSUME KeyInv, UNCHANGED <<backend, pending, paused, log, conn>>,
           Undelivered' => Undelivered,
           receiver' = "resume" => receiver = "resume",
           receiver' = "failed" => receiver = "failed" \/ ~Undelivered
    PROVE  KeyInv'
BY DEF KeyInv

LEMMA SettledAreDelivered ==
    ASSUME FramesInv, receiver \in {"recv", "callback", "acked"}
    PROVE  ~Undelivered
<1> SUFFICES ASSUME frames # <<>>, Newest.conn = conn PROVE Len(frames) \in log
  BY DEF Undelivered
<1>1. Len(frames) \in DOMAIN frames
  BY DEF FramesInv, Types
<1> QED
  BY <1>1 DEF FramesInv, EarlierSettled, Settled, Newest

LEMMA StepKeepsKey == FramesInv /\ KeyInv /\ [Next]_vars => KeyInv'
<1> SUFFICES ASSUME FramesInv, KeyInv, [Next]_vars PROVE KeyInv'
  OBVIOUS
<1> USE DEF client, children, silence
<1>1. ASSUME UNCHANGED <<frames, log, conn>>
      PROVE  Undelivered' = Undelivered
  BY <1>1 DEF Undelivered, Newest
<1>2. CASE UNCHANGED vars
  BY <1>1, <1>2, KeyKept DEF vars
<1>3. CASE StartPublisher \/ StopPublisher
  BY <1>1, <1>3, KeyKept DEF StartPublisher, StopPublisher
<1>4. CASE Deliver
  <2>1. pending # <<>> /\ ~paused /\ UNCHANGED <<backend, paused, frames, conn>>
    BY <1>4 DEF Deliver, KeyInv
  <2>2. receiver' \in {receiver, "acked"} /\ (Undelivered' => Undelivered)
    BY <1>4 DEF Deliver, Undelivered, Newest
  <2>3. receiver = "failed" /\ Undelivered => backend # "pubsub"
    BY <2>1 DEF KeyInv
  <2> QED
    BY <2>1, <2>2, <2>3 DEF KeyInv
<1>5. CASE GiveUp
  <2>1. /\ paused' = (backend = "pubsub") /\ UNCHANGED <<backend, frames, log, conn>>
        /\ pending # <<>> /\ (backend = "pubsub" => pending' = <<>>)
    BY <1>5 DEF GiveUp
  <2>2. receiver' = "failed" => receiver = "failed" \/ backend = "kafka"
    BY <1>5 DEF GiveUp, KeyInv
  <2>3. receiver' = "resume" => pending' = <<>>
    BY <1>5 DEF GiveUp, KeyInv
  <2>4. receiver = "failed" /\ Undelivered => backend # "pubsub"
    BY <2>1 DEF KeyInv
  <2> QED
    BY <1>1, <2>1, <2>2, <2>3, <2>4 DEF KeyInv
<1>6. CASE Opening
  <2>1. CASE Connect
    <3>1. receiver' = "recv" /\ UNCHANGED <<backend, pending, paused>>
      BY <2>1 DEF Connect
    <3> QED
      BY <3>1 DEF KeyInv
  <2>2. CASE \E from, to : GoTo(from, to)
    BY <1>1, <2>2, KeyKept DEF GoTo
  <2> QED
    BY <1>6, <2>1, <2>2 DEF Opening, StartTask, ChatFound, NoChat, LookupRaises, TokenReceived,
       NoToken, RetrySlept, BackoffSlept, ConnectFails
<1>7. CASE \E kind \in Kinds : \E records \in RecordsOf(kind) : Receive(kind, records)
  <2>1. /\ receiver' = IF paused THEN "resume" ELSE "publish"
        /\ paused => pending' = pending
        /\ UNCHANGED <<backend, paused>>
    BY <1>7 DEF Receive, Handed
  <2> QED
    BY <2>1 DEF KeyInv
<1>8. CASE Response \/ CallbackEnds \/ SocketCloses
  <2>1. receiver \in {"recv", "callback"} /\ receiver' \in {"recv", "callback", "failed", "closed"}
    BY <1>8 DEF Response, CallbackEnds, SocketCloses
  <2>2. UNCHANGED <<backend, pending, paused, log, frames, conn>>
    BY <1>8 DEF Response, CallbackEnds, SocketCloses
  <2> QED
    BY <1>1, <2>1, <2>2, SettledAreDelivered, KeyKept
<1>9. CASE ResumeKey
  <2>1. /\ pending' = <<>> /\ ~paused' /\ paused' \in BOOLEAN /\ backend' = backend
        /\ receiver' = "failed"
    BY <1>9 DEF ResumeKey, KeyInv
  <2> QED
    BY <2>1 DEF KeyInv
<1>10. CASE Count
  <2>1. receiver = "acked" /\ receiver' \in {"recv", "failed"}
    BY <1>10 DEF Count
  <2>2. UNCHANGED <<backend, pending, paused, log, conn>>
    BY <1>10 DEF Count
  <2>3. Len(frames) \in log /\ frames # <<>> /\ Len(frames') = Len(frames)
    <3>1. frames \in Seq(Frame) /\ frames # <<>> /\ Len(frames) \in log
      BY <2>1 DEF FramesInv, Types, EarlierSettled, Waiting
    <3> QED
      BY <1>10, <3>1 DEF Count
  <2>4. ~Undelivered /\ ~Undelivered'
    BY <2>2, <2>3 DEF Undelivered
  <2> QED
    BY <2>1, <2>2, <2>4, KeyKept
<1>11. CASE Unwind
  <2>1. receiver' = "off" /\ UNCHANGED <<backend, pending>> /\ paused' \in {paused, FALSE}
    BY <1>11 DEF Unwind
  <2>2. CASE paused' = paused
    BY <2>1, <2>2 DEF KeyInv
  <2>3. CASE paused' = FALSE
    BY <2>1, <2>3 DEF KeyInv
  <2> QED
    BY <2>1, <2>2, <2>3
<1>12. CASE Closed \/ Cancel \/ PingFails \/ Check \/ Snapshot
  BY <1>1, <1>12, KeyKept DEF Closed, Cancel, PingFails, Check, Snapshot
<1>13. CASE Tick
  <2>1. UNCHANGED <<backend, pending, paused, log, conn, receiver>>
    BY <1>13 DEF Tick
  <2>2. frames' = [i \in DOMAIN frames |-> [frames[i] EXCEPT !.age = Older(@)]]
    BY <1>13 DEF Tick
  <2>3. frames \in Seq(Frame)
    BY DEF FramesInv, Types
  <2>4. ASSUME Undelivered' PROVE Undelivered
    <3>1. Len(frames') = Len(frames) /\ DOMAIN frames' = DOMAIN frames /\ frames # <<>>
      BY <2>2, <2>3, <2>4 DEF Undelivered
    <3>2. Len(frames) \in DOMAIN frames
      BY <2>3, <3>1
    <3>3. frames[Len(frames)] \in Frame
      BY <2>3, <3>2
    <3>4. Newest' = [Newest EXCEPT !.age = Older(Newest.age)]
      BY <2>2, <3>1, <3>2 DEF Newest
    <3>5. Newest'.conn = Newest.conn
      BY <3>3, <3>4 DEF Newest, Frame
    <3> QED
      BY <2>1, <2>4, <3>1, <3>5 DEF Undelivered
  <2> QED
    BY <2>1, <2>4, KeyKept
<1> QED
  BY <1>2, <1>3, <1>4, <1>5, <1>6, <1>7, <1>8, <1>9, <1>10, <1>11, <1>12, <1>13
     DEF Next, Client, Receiving

(* A publish that failed under a live connection leaves no paused ordering  *)
(* key behind (PubSubRawPublisher.publish).                                 *)
THEOREM KeyResumed == Spec => []PausedKeyIsResumed
<1>1. Init => KeyInv
  BY DEF Init, KeyInv
<1>2. KeyInv => PausedKeyIsResumed
  BY DEF KeyInv, PausedKeyIsResumed, Undelivered
<1> QED
  BY <1>1, <1>2, FramesInvariant, StepKeepsKey, PTL DEF Spec

-----------------------------------------------------------------------------
(* Inactivity.                                                              *)

\* Either the levels below the current one are announced, or activity has come
\* in between and the next round of the check falls back to the first level.
Announced == \/ warned = 1..(level - 1) /\ (level > 1 => idle >= TimeoutLevels[1])
             \/ warned = {} /\ idle < TimeoutLevels[1]

\* The clock of the check is never ahead of the silence on the wire, the newest
\* frame apart while it is on its way.
Quiet ==
    /\ stage = "connect" \/ receiver \in {"recv", "callback", "closed"} => idle <= heard
    /\ Waiting => /\ Newest.age <= PublishTimeout
                  /\ IF IsActivity(Newest) THEN Newest.age <= heard ELSE idle <= heard

SilenceInv ==
    /\ idle \in Nat /\ heard \in Nat /\ level \in 1..LastLevel
    /\ watcher \in {"off", "on", "timeout"} /\ (watcher # "off" => stage = "open")
    /\ stage = "connect" => warned = {}
    /\ watcher = "on" => Announced
    /\ Quiet

LEMMA LevelsGrow ==
    /\ LastLevel \in Nat /\ LastLevel > 1
    /\ \A l \in 1..LastLevel : TimeoutLevels[l] \in Nat /\ TimeoutLevels[1] <= TimeoutLevels[l]
    /\ TimeoutLevels[1] > 0
<1>1. /\ LastLevel \in Nat /\ LastLevel > 1 /\ DOMAIN TimeoutLevels = 1..LastLevel
      /\ \A l \in 1..LastLevel : TimeoutLevels[l] \in Nat \ {0}
  BY ConnectionAssumption DEF LastLevel
<1>2. \A l \in 1..LastLevel : l # 1 => TimeoutLevels[1] < TimeoutLevels[l]
  BY <1>1, ConnectionAssumption
<1> QED
  BY <1>1, <1>2

\* A step that leaves the clock of the check and the frames alone.
LEMMA SilenceKept ==
    ASSUME SilenceInv, UNCHANGED <<silence, frames>>,
           watcher' \in {watcher, "off"}, watcher' # "off" => stage' = "open",
           stage' = "connect" => stage = "connect",
           \/ receiver' = receiver
           \/ receiver' \in {"off", "failed"}
           \/ {receiver, receiver'} \subseteq {"recv", "callback", "closed"}
           \/ {receiver, receiver'} \subseteq {"publish", "resume", "acked"}
    PROVE  SilenceInv'
<1>1. Announced => Announced'
  BY DEF Announced, silence
<1>2. Quiet'
  BY DEF SilenceInv, Quiet, Waiting, Newest, silence, IsActivity
<1> QED
  BY <1>1, <1>2 DEF SilenceInv, silence

LEMMA InitSilence == Init => SilenceInv
BY LevelsGrow DEF Init, SilenceInv, Quiet, Waiting

LEMMA OpeningKeepsSilence == FramesInv /\ SilenceInv /\ Opening => SilenceInv'
<1> SUFFICES ASSUME FramesInv, SilenceInv, Opening PROVE SilenceInv'
  OBVIOUS
<1>1. CASE Connect
  <2>1. /\ stage = "connect" /\ stage' = "open" /\ receiver' = "recv" /\ watcher' = "on"
        /\ level' = 1 /\ UNCHANGED <<idle, warned, heard, frames>>
    BY <1>1 DEF Connect
  <2>2. warned = {} /\ idle <= heard
    BY <2>1 DEF SilenceInv, Quiet
  <2>3. Announced' /\ Quiet'
    BY <2>1, <2>2 DEF Announced, Quiet, Waiting
  <2> QED
    BY <2>1, <2>3, LevelsGrow DEF SilenceInv
<1>2. CASE TokenReceived
  <2>1. /\ stage = "token" /\ stage' = "connect" /\ idle' = 0 /\ warned' = {} /\ heard' = 0
        /\ UNCHANGED <<level, watcher, receiver, frames>>
    BY <1>2 DEF TokenReceived, GoTo, children
  <2>2. watcher = "off"
    BY <2>1 DEF SilenceInv
  <2>3. Quiet'
    BY <2>1 DEF FramesInv, InOpenConnection, Quiet, Waiting
  <2> QED
    BY <2>1, <2>2, <2>3 DEF SilenceInv
<1>3. CASE \E from, to : to # "connect" /\ from # "open" /\ GoTo(from, to) /\ UNCHANGED silence
  <2>1. PICK from, to : to # "connect" /\ from # "open" /\ GoTo(from, to) /\ UNCHANGED silence
    BY <1>3
  <2>2. watcher = "off"
    BY <2>1 DEF SilenceInv, GoTo
  <2> QED
    BY <2>1, <2>2, SilenceKept DEF GoTo, children
<1> QED
  BY <1>1, <1>2, <1>3 DEF Opening, StartTask, ChatFound, NoChat, LookupRaises,
     NoToken, RetrySlept, BackoffSlept, ConnectFails

LEMMA ReceivingKeepsSilence == FramesInv /\ SilenceInv /\ Receiving
                               /\ PublishTimeout < TimeoutLevels[1] => SilenceInv'
<1> SUFFICES ASSUME FramesInv, SilenceInv, Receiving, PublishTimeout < TimeoutLevels[1]
             PROVE  SilenceInv'
  OBVIOUS
<1>1. CASE \E kind \in Kinds : \E records \in RecordsOf(kind) : Receive(kind, records)
  <2>1. PICK kind \in Kinds : \E records \in RecordsOf(kind) : Receive(kind, records)
    BY <1>1
  <2>2. PICK records \in RecordsOf(kind) : Receive(kind, records)
    BY <2>1
  <2> DEFINE new == [kind |-> kind, records |-> records, conn |-> conn, age |-> 0, tally |-> 0]
  <2>3. /\ receiver = "recv" /\ receiver' \in {"resume", "publish"}
        /\ frames' = Append(frames, new) /\ heard' = (IF kind \in Activity THEN 0 ELSE heard)
        /\ UNCHANGED <<stage, watcher, idle, level, warned>>
    BY <2>2 DEF Receive, Handed
  <2>4. frames \in Seq(Frame)
    BY DEF FramesInv, Types
  <2>5. Newest' = new
    BY <2>3, <2>4 DEF Newest
  <2>6. IsActivity(Newest)' <=> kind \in Activity
    BY <2>5 DEF IsActivity, Activity
  <2>7. idle <= heard /\ PublishTimeout \in Nat /\ heard \in Nat /\ stage = "open"
    BY <2>3, ConnectionAssumption DEF SilenceInv, Quiet, FramesInv, InOpenConnection
  <2>8. Quiet'
    BY <2>3, <2>5, <2>6, <2>7 DEF Quiet, Waiting
  <2>9. Announced' <=> Announced
    BY <2>3 DEF Announced
  <2> QED
    BY <2>3, <2>7, <2>8, <2>9 DEF SilenceInv
<1>2. CASE Count
  <2>1. /\ receiver = "acked" /\ stage = "open" /\ frames # <<>> /\ frames \in Seq(Frame)
    BY <1>2 DEF Count, FramesInv, Types, InOpenConnection, EarlierSettled, Waiting
  <2>2. Newest \in Frame
    BY <2>1 DEF Newest
  <2>3. Newest.age \in Nat
    BY <2>2 DEF Frame
  <2>4. /\ receiver' \in {"failed", "recv"} /\ UNCHANGED <<stage, watcher, level, heard>>
        /\ IF IsActivity(Newest) THEN idle' = Newest.age /\ warned' = {}
           ELSE UNCHANGED <<idle, warned>>
    BY <1>2 DEF Count
  <2>5. /\ Newest.age <= PublishTimeout
        /\ IF IsActivity(Newest) THEN Newest.age <= heard ELSE idle <= heard
    BY <2>1 DEF SilenceInv, Quiet, Waiting
  <2>6. idle' \in Nat /\ idle' <= heard'
    BY <2>3, <2>4, <2>5 DEF SilenceInv
  <2>7. Announced => Announced'
    <3>1. CASE IsActivity(Newest)
      BY <3>1, <2>3, <2>4, <2>5, LevelsGrow, ConnectionAssumption DEF Announced
    <3>2. CASE ~IsActivity(Newest)
      BY <3>2, <2>4 DEF Announced
    <3> QED
      BY <3>1, <3>2
  <2>8. Quiet'
    BY <2>1, <2>4, <2>6 DEF Quiet, Waiting
  <2> QED
    BY <2>1, <2>4, <2>6, <2>7, <2>8 DEF SilenceInv
<1>3. CASE Response \/ CallbackEnds \/ ResumeKey \/ SocketCloses
  <2>1. stage = "open"
    BY <1>3 DEF FramesInv, InOpenConnection, Response, CallbackEnds, ResumeKey, SocketCloses
  <2> QED
    BY <1>3, <2>1, SilenceKept DEF Response, CallbackEnds, ResumeKey, SocketCloses, silence
<1> QED
  BY <1>1, <1>2, <1>3 DEF Receiving

LEMMA CheckKeepsSilence == SilenceInv /\ Check => SilenceInv'
<1> SUFFICES ASSUME SilenceInv, Check PROVE SilenceInv'
  OBVIOUS
<1>1. watcher = "on" /\ stage = "open" /\ UNCHANGED <<stage, receiver, idle, heard, frames>>
  BY DEF Check, SilenceInv
<1>2. Quiet'
  BY <1>1 DEF SilenceInv, Quiet, Waiting, Newest, IsActivity
<1>3. Announced /\ level \in 1..LastLevel /\ idle \in Nat
  BY <1>1 DEF SilenceInv
<1>4. CASE Warns /\ level' = level + 1 /\ warned' = warned \cup {level} /\ UNCHANGED watcher
  <2>1. warned = 1..(level - 1)
    BY <1>3, <1>4, LevelsGrow DEF Announced, Warns
  <2>2. level' \in 1..LastLevel /\ warned' = 1..(level' - 1)
    BY <1>3, <1>4, <2>1, LevelsGrow DEF Warns
  <2>3. idle' >= TimeoutLevels[1]
    BY <1>1, <1>3, <1>4, LevelsGrow DEF Warns
  <2> QED
    BY <1>1, <1>2, <1>4, <2>2, <2>3 DEF SilenceInv, Announced
<1>5. CASE TimesOut /\ watcher' = "timeout" /\ UNCHANGED <<level, warned>>
  BY <1>1, <1>2, <1>5 DEF SilenceInv
<1>6. CASE Resets /\ level' = 1 /\ UNCHANGED <<watcher, warned>>
  <2>1. warned = {} /\ idle < TimeoutLevels[1]
    BY <1>3, <1>6, LevelsGrow DEF Announced, Resets
  <2> QED
    BY <1>1, <1>2, <1>3, <1>6, <2>1, LevelsGrow DEF SilenceInv, Announced
<1> QED
  BY <1>4, <1>5, <1>6 DEF Check

LEMMA TickKeepsSilence == FramesInv /\ SilenceInv /\ Tick
                          /\ PublishTimeout < TimeoutLevels[1] => SilenceInv'
<1> SUFFICES ASSUME FramesInv, SilenceInv, Tick, PublishTimeout < TimeoutLevels[1]
             PROVE  SilenceInv'
  OBVIOUS
<1> DEFINE last == TimeoutLevels[LastLevel]
<1>1. /\ UNCHANGED <<stage, receiver, watcher, level, warned>>
      /\ receiver \notin {"acked", "resume"}
      /\ receiver = "publish" => Newest.age < PublishTimeout
      /\ stage = "open" => ~Resets
  BY DEF Tick, client, children
<1>2. /\ idle' = IF stage \in {"connect", "open"} THEN Longer(idle) ELSE idle
      /\ heard' = IF stage \in {"connect", "open"} THEN Longer(heard) ELSE heard
  BY DEF Tick
<1>3. /\ last \in Nat /\ TimeoutLevels[1] <= last /\ TimeoutLevels[1] \in Nat
      /\ PublishTimeout \in Nat
  BY LevelsGrow, ConnectionAssumption
<1>4. \A x \in Nat : Longer(x) = IF x > last THEN x ELSE x + 1
  BY DEF Longer
<1>5. idle \in Nat /\ heard \in Nat /\ idle' \in Nat /\ heard' \in Nat
      /\ idle <= idle' /\ (idle <= heard => idle' <= heard')
  BY <1>2, <1>3, <1>4 DEF SilenceInv
<1>6. watcher = "on" => Announced'
  <2> SUFFICES ASSUME watcher = "on" PROVE Announced'
    OBVIOUS
  <2>1. Announced /\ ~Resets /\ level \in 1..LastLevel
    BY <1>1 DEF SilenceInv
  <2>2. CASE level = 1
    <3>1. warned = {}
      BY <2>1, <2>2 DEF Announced
    <3> QED
      BY <3>1, <2>2, <1>1 DEF Announced
  <2>3. CASE level > 1
    <3>1. idle >= TimeoutLevels[1]
      BY <2>1, <2>3, <1>3, <1>5 DEF Resets
    <3> QED
      BY <3>1, <2>1, <1>1, <1>3, <1>5 DEF Announced
  <2> QED
    BY <2>1, <2>2, <2>3, LevelsGrow
<1>7. Waiting => /\ Newest'.age <= PublishTimeout /\ (IsActivity(Newest)' <=> IsActivity(Newest))
                 /\ IF IsActivity(Newest) THEN Newest'.age <= heard' ELSE idle' <= heard'
  <2> SUFFICES ASSUME Waiting
               PROVE  /\ Newest'.age <= PublishTimeout
                      /\ (IsActivity(Newest)' <=> IsActivity(Newest))
                      /\ IF IsActivity(Newest) THEN Newest'.age <= heard' ELSE idle' <= heard'
    OBVIOUS
  <2>1. /\ frames # <<>> /\ frames \in Seq(Frame) /\ stage = "open" /\ receiver = "publish"
    BY <1>1 DEF FramesInv, Types, InOpenConnection, EarlierSettled, Waiting
  <2>2. frames' = [i \in DOMAIN frames |-> [frames[i] EXCEPT !.age = Older(@)]]
    BY DEF Tick
  <2>3. Len(frames) \in DOMAIN frames /\ Newest \in Frame /\ Len(frames') = Len(frames)
    BY <2>1, <2>2 DEF Newest
  <2>4. Newest' = [Newest EXCEPT !.age = Older(Newest.age)]
    BY <2>2, <2>3 DEF Newest
  <2>5. Newest.age \in Nat /\ Newest'.age = Older(Newest.age) /\ Newest'.kind = Newest.kind
    BY <2>3, <2>4 DEF Frame
  <2>6. Newest'.age = Newest.age + 1 /\ Newest.age < PublishTimeout
    BY <2>1, <2>5, <1>1, <1>3 DEF Older, Oldest, Window
  <2>7. IF IsActivity(Newest) THEN Newest.age <= heard ELSE idle <= heard
    BY DEF SilenceInv, Quiet
  <2>8. Newest'.age <= heard' \/ ~(Newest.age <= heard)
    <3>1. heard' = IF heard > last THEN heard ELSE heard + 1
      BY <2>1, <1>2, <1>4, <1>5
    <3>2. CASE heard > last
      <4>1. heard' > PublishTimeout
        BY <3>1, <3>2, <1>3, <1>5
      <4> QED
        BY <4>1, <2>5, <2>6, <1>3, <1>5
    <3>3. CASE ~(heard > last)
      BY <3>1, <3>3, <2>5, <2>6, <1>5
    <3> QED
      BY <3>2, <3>3
  <2>9. IsActivity(Newest)' <=> IsActivity(Newest)
    BY <2>5 DEF IsActivity
  <2> QED
    BY <2>5, <2>6, <2>7, <2>8, <2>9, <1>3, <1>5
<1>8. Quiet'
  BY <1>1, <1>5, <1>7 DEF SilenceInv, Quiet, Waiting
<1> QED
  BY <1>1, <1>5, <1>6, <1>8 DEF SilenceInv

LEMMA StepKeepsSilence == FramesInv /\ SilenceInv /\ [Next]_vars
                          /\ PublishTimeout < TimeoutLevels[1] => SilenceInv'
<1> SUFFICES ASSUME FramesInv, SilenceInv, [Next]_vars, PublishTimeout < TimeoutLevels[1]
             PROVE  SilenceInv'
  OBVIOUS
<1> USE DEF silence
<1>1. CASE UNCHANGED vars
  BY <1>1, SilenceKept DEF vars, children, SilenceInv
<1>2. CASE Client
  <2>1. /\ UNCHANGED <<silence, frames, watcher, stage>>
        /\ \/ receiver' = receiver
           \/ receiver' = "failed"
           \/ {receiver, receiver'} \subseteq {"publish", "resume", "acked"}
    BY <1>2 DEF Client, StartPublisher, StopPublisher, Deliver, AwaitsHead, GiveUp, children
  <2> QED
    BY <2>1, SilenceKept DEF SilenceInv
<1>3. CASE Opening
  BY <1>3, OpeningKeepsSilence
<1>4. CASE Receiving
  BY <1>4, ReceivingKeepsSilence
<1>5. CASE PingFails \/ Closed \/ Cancel \/ Snapshot
  <2>1. /\ UNCHANGED <<silence, frames, watcher, receiver>>
        /\ stage' = stage \/ (stage' \in {"none", "backoff"} /\ stage # "open")
    BY <1>5 DEF PingFails, Closed, Cancel, Snapshot, children
  <2> QED
    BY <2>1, SilenceKept DEF SilenceInv
<1>6. CASE Check
  BY <1>6, CheckKeepsSilence
<1>7. CASE Unwind
  <2>1. /\ stage' = "closing" /\ receiver' = "off" /\ watcher' = "off"
        /\ idle' = 0 /\ level' = 1 /\ heard' = 0
    BY <1>7 DEF Unwind
  <2> QED
    BY <2>1, LevelsGrow DEF SilenceInv, Quiet, Waiting
<1>8. CASE Tick
  BY <1>8, TickKeepsSilence
<1> QED
  BY <1>1, <1>2, <1>3, <1>4, <1>5, <1>6, <1>7, <1>8 DEF Next

\* What the invariant says of the step that gives the connection up.
LEMMA GivingUp == FramesInv /\ SilenceInv /\ [Next]_vars =>
    [GivesUp => /\ warned = 1..(LastLevel - 1)
                /\ receiver \in {"recv", "closed", "callback"} => heard >= TimeoutLevels[LastLevel]]_vars
<1> SUFFICES ASSUME SilenceInv, [Next]_vars, GivesUp
             PROVE  /\ warned = 1..(LastLevel - 1)
                    /\ receiver \in {"recv", "closed", "callback"} => heard >= TimeoutLevels[LastLevel]
  OBVIOUS
<1>1. watcher = "on" /\ watcher' = "timeout"
  BY DEF GivesUp
<1>2. TimesOut
  BY <1>1 DEF Next, vars, client, children, silence, Client, Opening, Receiving, StartPublisher,
     StopPublisher, Deliver, GiveUp, StartTask, ChatFound, NoChat, LookupRaises, TokenReceived,
     NoToken, RetrySlept, BackoffSlept, ConnectFails, Connect, GoTo, Response, CallbackEnds,
     Receive, ResumeKey, Count, SocketCloses, PingFails, Check, Unwind, Closed, Cancel, Snapshot, Tick
<1>3. Announced /\ idle \in Nat /\ heard \in Nat
  BY <1>1 DEF SilenceInv
<1>4. idle >= TimeoutLevels[LastLevel] /\ level = LastLevel
  BY <1>2 DEF TimesOut
<1>5. TimeoutLevels[LastLevel] \in Nat /\ TimeoutLevels[1] <= TimeoutLevels[LastLevel]
      /\ TimeoutLevels[1] \in Nat
  BY LevelsGrow
<1>6. warned = 1..(LastLevel - 1)
  BY <1>3, <1>4, <1>5 DEF Announced
<1>7. receiver \in {"recv", "closed", "callback"} => idle <= heard
  BY DEF SilenceInv, Quiet
<1> QED
  BY <1>3, <1>4, <1>5, <1>6, <1>7

LEMMA SilenceInvariant ==
    ASSUME PublishTimeout < TimeoutLevels[1]
    PROVE  Spec => [](FramesInv /\ SilenceInv)
<1>1. FramesInv /\ SilenceInv /\ [Next]_vars => (FramesInv /\ SilenceInv)'
  BY StepKeepsFrames, StepKeepsSilence
<1>2. Init => FramesInv /\ SilenceInv
  BY InitFrames, InitSilence
<1> QED
  BY <1>1, <1>2, PTL DEF Spec

(* A task that ends as inactive has announced every earlier level since the *)
(* last chat activity (check_inactivity), if publishing a frame never takes *)
(* as long as the first level.                                              *)
THEOREM LevelsAnnounced ==
    ASSUME PublishTimeout < TimeoutLevels[1]
    PROVE  Spec => InactivityWasAnnounced
<1>1. FramesInv /\ SilenceInv /\ [Next]_vars => [GivesUp => warned = 1..(LastLevel - 1)]_vars
  BY GivingUp
<1>2. Spec => [](FramesInv /\ SilenceInv)
  BY SilenceInvariant
<1> QED
  BY <1>1, <1>2, PTL DEF Spec, InactivityWasAnnounced

(* A task that ends as inactive has seen no chat frame for the time of the  *)
(* last level, but one it was still publishing (last_chat_time).            *)
THEOREM InactiveAfterSilence ==
    ASSUME PublishTimeout < TimeoutLevels[1]
    PROVE  Spec => InactiveMeansQuiet
<1>1. FramesInv /\ SilenceInv /\ [Next]_vars =>
        [GivesUp /\ receiver \in {"recv", "closed", "callback"}
         => heard >= TimeoutLevels[LastLevel]]_vars
  BY GivingUp
<1>2. Spec => [](FramesInv /\ SilenceInv)
  BY SilenceInvariant
<1> QED
  BY <1>1, <1>2, PTL DEF Spec, InactiveMeansQuiet

-----------------------------------------------------------------------------
(* Sums.  The library sums by a fold, which takes the members one by one.   *)

\* A nonempty set of natural numbers has a least member.
LEMMA LeastNat ==
    ASSUME NEW T, T \subseteq Nat, T # {}
    PROVE  \E m \in T : \A k \in T : m <= k
<1> DEFINE R == OpToRel(<, Nat)
<1>1. IsWellFoundedOn(R, Nat)
  BY NatLessThanWellFounded
<1>2. \A x, y \in Nat : <<x, y>> \in R <=> x < y
  BY DEF OpToRel
<1> HIDE DEF R
<1>3. PICK m \in T : \A k \in T : ~ (<<k, m>> \in R)
  BY <1>1, WFMin
<1>4. \A k \in T : ~ (k < m)
  BY <1>2, <1>3
<1> QED
  BY <1>4

Pick(s) == CHOOSE x \in s : TRUE

\* What one step of the fold makes of what the function f says.
SumStep(v, f, s) == IF s = {} THEN 0 ELSE v[Pick(s)] + f[s \ {Pick(s)}]
SumsUp(v, S, f) == \A s \in SUBSET S : f[s] = SumStep(v, f, s)

\* The sum of the library, with its recursion written out.
LEMMA SumUnfold ==
    ASSUME NEW v, NEW S
    PROVE  SumFunctionOnSet(v, S) = (CHOOSE f : f = [s \in SUBSET S |-> SumStep(v, f, s)])[S]
BY DEF SumFunctionOnSet, FoldFunctionOnSet, MapThenFoldSet, Pick, SumStep

\* There is such a function.
LEMMA SumExists ==
    ASSUME NEW S, IsFiniteSet(S), NEW v, \A x \in S : v[x] \in Nat
    PROVE  \E f \in [SUBSET S -> Nat] : SumsUp(v, S, f)
<1> DEFINE Small(n) == {s \in SUBSET S : Cardinality(s) <= n}
           Sums(n, f) == f \in [Small(n) -> Nat] /\ \A s \in Small(n) : f[s] = SumStep(v, f, s)
           Bad == {n \in Nat : ~\E f : Sums(n, f)}
<1>1. \A s \in SUBSET S :
         /\ IsFiniteSet(s) /\ Cardinality(s) \in Nat /\ Cardinality(s) <= Cardinality(S)
         /\ s = {} <=> Cardinality(s) = 0
  BY FS_Subset, FS_CardinalityType, FS_EmptySet
<1>2. \A s \in SUBSET S : s # {} => /\ Pick(s) \in s /\ s \ {Pick(s)} \in SUBSET S
                                    /\ Cardinality(s \ {Pick(s)}) = Cardinality(s) - 1
  <2> SUFFICES ASSUME NEW s \in SUBSET S, s # {}
      PROVE  /\ Pick(s) \in s /\ s \ {Pick(s)} \in SUBSET S
             /\ Cardinality(s \ {Pick(s)}) = Cardinality(s) - 1
    OBVIOUS
  <2>1. Pick(s) \in s
    BY DEF Pick
  <2> QED
    BY <1>1, <2>1, FS_RemoveElement
<1>3. \E f : Sums(0, f)
  <2>1. \A s \in Small(0) : s = {}
    BY <1>1
  <2>2. Sums(0, [s \in Small(0) |-> 0])
    <3> DEFINE g == [s \in Small(0) |-> 0]
    <3>1. g \in [Small(0) -> Nat] /\ \A s \in Small(0) : g[s] = 0
      OBVIOUS
    <3>2. \A s \in Small(0) : SumStep(v, g, s) = 0
      BY <2>1 DEF SumStep
    <3> QED
      BY <3>1, <3>2
  <2> QED
    BY <2>2
<1>4. ASSUME NEW n \in Nat, NEW g, Sums(n, g) PROVE \E f : Sums(n + 1, f)
  <2> DEFINE h == [s \in Small(n + 1) |-> SumStep(v, g, s)]
  <2>1. Small(n) \subseteq Small(n + 1)
    BY <1>1
  <2>2. \A s \in Small(n) : h[s] = g[s]
    BY <1>4, <2>1
  <2>3. \A s \in Small(n + 1) : s # {} => s \ {Pick(s)} \in Small(n)
    <3> TAKE s \in Small(n + 1)
    <3> HAVE s # {}
    <3>1. s \ {Pick(s)} \in SUBSET S /\ Cardinality(s \ {Pick(s)}) = Cardinality(s) - 1
      BY <1>2
    <3>2. Cardinality(s) <= n + 1 /\ Cardinality(s) \in Nat
      BY <1>1
    <3> QED
      BY <3>1, <3>2
  <2>4. \A s \in Small(n + 1) : SumStep(v, g, s) = SumStep(v, h, s)
    BY <2>2, <2>3 DEF SumStep
  <2>5. \A s \in Small(n + 1) : SumStep(v, g, s) \in Nat
    <3> SUFFICES ASSUME NEW s \in Small(n + 1), s # {}
        PROVE  v[Pick(s)] + g[s \ {Pick(s)}] \in Nat
      BY DEF SumStep
    <3>1. v[Pick(s)] \in Nat
      BY <1>2
    <3>2. g[s \ {Pick(s)}] \in Nat
      BY <1>4, <2>3
    <3> QED
      BY <3>1, <3>2
  <2>6. h \in [Small(n + 1) -> Nat] /\ \A s \in Small(n + 1) : h[s] = SumStep(v, g, s)
    BY <2>5
  <2>7. Sums(n + 1, h)
    BY <2>4, <2>6
  <2> QED
    BY <2>7
<1>5. Bad = {}
  <2> SUFFICES ASSUME Bad # {} PROVE FALSE
    OBVIOUS
  <2>1. Bad \subseteq Nat
    OBVIOUS
  <2> HIDE DEF Bad
  <2>2. PICK m \in Bad : \A k \in Bad : m <= k
    BY <2>1, LeastNat
  <2> USE DEF Bad
  <2>3. m \in Nat /\ m # 0
    BY <1>3
  <2> HIDE DEF Sums
  <2>4. m - 1 \in Nat /\ m - 1 \notin Bad /\ (m - 1) + 1 = m
    BY <2>2, <2>3
  <2>5. PICK g : Sums(m - 1, g)
    BY <2>4
  <2>6. \E f : Sums((m - 1) + 1, f)
    BY <1>4, <2>4, <2>5
  <2> QED
    BY <2>4, <2>6
<1>6. Cardinality(S) \in Nat /\ Small(Cardinality(S)) = SUBSET S
  BY <1>1
<1>7. PICK f : Sums(Cardinality(S), f)
  BY <1>5, <1>6
<1> QED
  BY <1>6, <1>7 DEF SumsUp

\* Among sets of a finite set one is minimal.
LEMMA MinimalSet ==
    ASSUME NEW S, IsFiniteSet(S), NEW B, B \subseteq SUBSET S, B # {}
    PROVE  \E m \in B : \A t \in SUBSET m : t # m => t \notin B
<1> DEFINE sizes == {Cardinality(s) : s \in B}
<1>1. \A s \in B : IsFiniteSet(s) /\ Cardinality(s) \in Nat
  <2> TAKE s \in B
  <2>1. s \in SUBSET S
    OBVIOUS
  <2>2. IsFiniteSet(s)
    BY <2>1, FS_Subset
  <2> QED
    BY <2>2, FS_CardinalityType
<1>2. PICK c \in sizes : \A k \in sizes : c <= k
  <2>1. sizes \subseteq Nat /\ sizes # {}
    BY <1>1
  <2> HIDE DEF sizes
  <2> QED
    BY <2>1, LeastNat
<1>3. PICK m \in B : Cardinality(m) = c
  OBVIOUS
<1>4. ASSUME NEW t \in SUBSET m, t \in B PROVE t = m
  <2>1. c <= Cardinality(t)
    BY <1>2, <1>4
  <2>2. Cardinality(t) <= Cardinality(m) /\ (Cardinality(m) = Cardinality(t) => m = t)
    BY <1>1, FS_Subset
  <2>3. Cardinality(m) \in Nat /\ Cardinality(t) \in Nat
    BY <1>1, <1>4
  <2> QED
    BY <1>3, <2>1, <2>2, <2>3
<1> QED
  BY <1>4

\* It says the same of a set as any other that goes by the same values.
LEMMA SumUnique ==
    ASSUME NEW S, IsFiniteSet(S), NEW T, S \subseteq T,
           NEW v, NEW w, \A x \in S : v[x] = w[x],
           NEW f, SumsUp(v, S, f), NEW g, SumsUp(w, T, g)
    PROVE  \A s \in SUBSET S : f[s] = g[s]
<1> DEFINE B == {s \in SUBSET S : f[s] # g[s]}
<1> SUFFICES ASSUME B # {} PROVE FALSE
  OBVIOUS
<1>1. PICK m \in B : \A t \in SUBSET m : t # m => t \notin B
  <2>1. B \subseteq SUBSET S
    OBVIOUS
  <2> HIDE DEF B
  <2> QED
    BY <2>1, MinimalSet
<1>2. m \in SUBSET S /\ m \in SUBSET T /\ f[m] # g[m]
  OBVIOUS
<1>3. f[m] = SumStep(v, f, m) /\ g[m] = SumStep(w, g, m)
  BY <1>2 DEF SumsUp
<1>4. m # {}
  BY <1>2, <1>3 DEF SumStep
<1>5. Pick(m) \in m
  BY <1>4 DEF Pick
<1>6. f[m \ {Pick(m)}] = g[m \ {Pick(m)}]
  BY <1>1, <1>2, <1>5
<1>7. v[Pick(m)] = w[Pick(m)]
  BY <1>2, <1>5
<1> QED
  BY <1>2, <1>3, <1>6, <1>7 DEF SumStep

\* The sum is the value of one of them, hence of all.
LEMMA SumIs ==
    ASSUME NEW S, IsFiniteSet(S), NEW v, \A x \in S : v[x] \in Nat
    PROVE  \E f \in [SUBSET S -> Nat] : SumsUp(v, S, f) /\ SumFunctionOnSet(v, S) = f[S]
<1> DEFINE F == CHOOSE f : f = [s \in SUBSET S |-> SumStep(v, f, s)]
<1>1. PICK f \in [SUBSET S -> Nat] : SumsUp(v, S, f)
  BY SumExists
<1>2. f = [s \in SUBSET S |-> SumStep(v, f, s)]
  BY <1>1 DEF SumsUp
<1>3. F = [s \in SUBSET S |-> SumStep(v, F, s)]
  BY <1>2
<1>4. SumFunctionOnSet(v, S) = F[S]
  BY SumUnfold
<1> HIDE DEF F
<1>5. SumsUp(v, S, F)
  BY <1>3 DEF SumsUp
<1>6. S \subseteq S /\ \A x \in S : v[x] = v[x]
  OBVIOUS
<1>7. \A s \in SUBSET S : F[s] = f[s]
  BY <1>1, <1>5, <1>6, SumUnique
<1> QED
  BY <1>1, <1>4, <1>7

\* A sum of natural numbers over a finite set is a natural number.
LEMMA SumNat ==
    ASSUME NEW S, IsFiniteSet(S), NEW v, \A x \in S : v[x] \in Nat
    PROVE  SumFunctionOnSet(v, S) \in Nat
<1>1. PICK f \in [SUBSET S -> Nat] : SumFunctionOnSet(v, S) = f[S]
  BY SumIs
<1> QED
  BY <1>1

\* The sum over no member is zero.
LEMMA SumEmpty ==
    ASSUME NEW v PROVE SumFunctionOnSet(v, {}) = 0
<1>1. IsFiniteSet({}) /\ \A x \in {} : v[x] \in Nat
  BY FS_EmptySet
<1>2. PICK f \in [SUBSET {} -> Nat] : SumsUp(v, {}, f) /\ SumFunctionOnSet(v, {}) = f[{}]
  BY <1>1, SumIs
<1> QED
  BY <1>2 DEF SumsUp, SumStep

\* Two functions that agree on a finite set have one sum over it.
LEMMA SumSame ==
    ASSUME NEW S, IsFiniteSet(S), NEW v, NEW w, \A x \in S : v[x] \in Nat,
           \A x \in S : v[x] = w[x]
    PROVE  SumFunctionOnSet(v, S) = SumFunctionOnSet(w, S)
<1>1. PICK f \in [SUBSET S -> Nat] : SumsUp(v, S, f) /\ SumFunctionOnSet(v, S) = f[S]
  BY SumIs
<1>2. \A x \in S : w[x] \in Nat
  OBVIOUS
<1>3. PICK g \in [SUBSET S -> Nat] : SumsUp(w, S, g) /\ SumFunctionOnSet(w, S) = g[S]
  BY <1>2, SumIs
<1>4. S \subseteq S
  OBVIOUS
<1>5. \A s \in SUBSET S : f[s] = g[s]
  BY <1>1, <1>3, <1>4, SumUnique
<1> QED
  BY <1>1, <1>3, <1>5

\* The members of a sum may be taken in any order.
LEMMA SumRemove ==
    ASSUME NEW S, IsFiniteSet(S), NEW v, \A x \in S : v[x] \in Nat, NEW a \in S
    PROVE  SumFunctionOnSet(v, S) = v[a] + SumFunctionOnSet(v, S \ {a})
<1>1. PICK f \in [SUBSET S -> Nat] : SumsUp(v, S, f) /\ SumFunctionOnSet(v, S) = f[S]
  BY SumIs
<1> DEFINE B == {s \in SUBSET S : \E x \in s : f[s] # v[x] + f[s \ {x}]}
<1>2. B = {}
  <2> SUFFICES ASSUME B # {} PROVE FALSE
    OBVIOUS
  <2>1. PICK m \in B : \A t \in SUBSET m : t # m => t \notin B
    <3>1. B \subseteq SUBSET S
      OBVIOUS
    <3> HIDE DEF B
    <3> QED
      BY <3>1, MinimalSet
  <2>2. PICK x \in m : f[m] # v[x] + f[m \ {x}]
    OBVIOUS
  <2> DEFINE c == Pick(m)
  <2>3. c \in m /\ m \in SUBSET S /\ m \subseteq S
    BY DEF Pick
  <2>4. f[m] = v[c] + f[m \ {c}]
    BY <1>1, <2>3 DEF SumStep, SumsUp
  <2> HIDE DEF c
  <2>5. x # c
    BY <2>2, <2>4
  <2>6. /\ m \ {c} \in SUBSET m /\ m \ {c} # m /\ x \in m \ {c}
        /\ m \ {x} \in SUBSET m /\ m \ {x} # m /\ c \in m \ {x}
    BY <2>3, <2>5
  <2>7. m \ {c} \in SUBSET S /\ m \ {x} \in SUBSET S
    BY <2>3
  <2>8. f[m \ {c}] = v[x] + f[(m \ {c}) \ {x}]
    BY <2>1, <2>6, <2>7
  <2>9. f[m \ {x}] = v[c] + f[(m \ {x}) \ {c}]
    BY <2>1, <2>6, <2>7
  <2>10. f[m \ {c}] = v[x] + f[(m \ {x}) \ {c}]
    <3>1. (m \ {c}) \ {x} = (m \ {x}) \ {c}
      OBVIOUS
    <3> QED
      BY <2>8, <3>1
  <2>11. v[x] \in Nat /\ v[c] \in Nat /\ f[(m \ {x}) \ {c}] \in Nat
    <3>1. (m \ {x}) \ {c} \in SUBSET S
      BY <2>3
    <3> QED
      BY <2>3, <3>1
  <2> QED
    BY <2>2, <2>4, <2>9, <2>10, <2>11
<1>3. f[S] = v[a] + f[S \ {a}]
  BY <1>2
<1>4. IsFiniteSet(S \ {a}) /\ \A x \in S \ {a} : v[x] \in Nat
  BY FS_RemoveElement
<1>5. PICK g \in [SUBSET (S \ {a}) -> Nat] :
         SumsUp(v, S \ {a}, g) /\ SumFunctionOnSet(v, S \ {a}) = g[S \ {a}]
  BY <1>4, SumIs
<1>6. g[S \ {a}] = f[S \ {a}]
  <2>1. S \ {a} \subseteq S /\ \A x \in S \ {a} : v[x] = v[x]
    OBVIOUS
  <2>2. \A s \in SUBSET (S \ {a}) : g[s] = f[s]
    BY <1>1, <1>4, <1>5, <2>1, SumUnique
  <2> QED
    BY <2>2
<1> QED
  BY <1>1, <1>3, <1>5, <1>6

\* The sum of zeros is zero.
LEMMA SumZero ==
    ASSUME NEW S, IsFiniteSet(S), NEW v, \A x \in S : v[x] = 0
    PROVE  SumFunctionOnSet(v, S) = 0
<1> DEFINE B == {s \in SUBSET S : SumFunctionOnSet(v, s) # 0}
<1> SUFFICES ASSUME B # {} PROVE FALSE
  OBVIOUS
<1>1. PICK m \in B : \A t \in SUBSET m : t # m => t \notin B
  <2>1. B \subseteq SUBSET S
    OBVIOUS
  <2> HIDE DEF B
  <2> QED
    BY <2>1, MinimalSet
<1>2. m # {}
  BY SumEmpty
<1>3. PICK x \in m : TRUE
  BY <1>2
<1>4. IsFiniteSet(m) /\ \A y \in m : v[y] \in Nat
  BY FS_Subset
<1>5. SumFunctionOnSet(v, m) = v[x] + SumFunctionOnSet(v, m \ {x})
  BY <1>4, SumRemove
<1>6. SumFunctionOnSet(v, m \ {x}) = 0 /\ v[x] = 0
  BY <1>1
<1> QED
  BY <1>5, <1>6

\* The sum over two sets that share nothing.
LEMMA SumUnion ==
    ASSUME NEW S, IsFiniteSet(S), NEW T, IsFiniteSet(T), S \cap T = {},
           NEW v, \A x \in S \cup T : v[x] \in Nat
    PROVE  SumFunctionOnSet(v, S \cup T) = SumFunctionOnSet(v, S) + SumFunctionOnSet(v, T)
<1> DEFINE Total(s) == SumFunctionOnSet(v, s)
           B == {t \in SUBSET T : Total(S \cup t) # Total(S) + Total(t)}
<1> HIDE DEF Total
<1> SUFFICES ASSUME B # {} PROVE FALSE
  BY DEF Total
<1>1. PICK m \in B : \A t \in SUBSET m : t # m => t \notin B
  <2>1. B \subseteq SUBSET T
    OBVIOUS
  <2> HIDE DEF B
  <2> QED
    BY <2>1, MinimalSet
<1>2. IsFiniteSet(m) /\ IsFiniteSet(S \cup m) /\ m \subseteq T
  BY FS_Subset, FS_Union
<1>3. Total(S) \in Nat
  BY SumNat DEF Total
<1>4. m # {}
  <2>1. Total({}) = 0
    BY SumEmpty DEF Total
  <2> SUFFICES ASSUME m = {} PROVE FALSE
    OBVIOUS
  <2>2. S \cup m = S
    OBVIOUS
  <2> QED
    BY <1>3, <2>1, <2>2
<1>5. PICK x \in m : TRUE
  BY <1>4
<1>6. x \notin S /\ (S \cup m) \ {x} = S \cup (m \ {x})
  BY <1>2
<1>7. Total(m) = v[x] + Total(m \ {x})
  BY <1>2, SumRemove DEF Total
<1>8. Total(S \cup m) = v[x] + Total(S \cup (m \ {x}))
  <2>1. \A y \in S \cup m : v[y] \in Nat
    BY <1>2
  <2>2. x \in S \cup m
    OBVIOUS
  <2> QED
    BY <1>2, <1>6, <2>1, <2>2, SumRemove DEF Total
<1>9. Total(S \cup (m \ {x})) = Total(S) + Total(m \ {x})
  BY <1>1, <1>2
<1>10. v[x] \in Nat /\ Total(m \ {x}) \in Nat
  <2>1. IsFiniteSet(m \ {x})
    BY <1>2, FS_RemoveElement
  <2> QED
    BY <1>2, <2>1, SumNat DEF Total
<1> QED
  BY <1>3, <1>7, <1>8, <1>9, <1>10

-----------------------------------------------------------------------------
(* Types.                                                                   *)

Entry == [kind : Kinds, records : 1..MaxRecords, conn : Nat, age : Ages, tally : 0..MaxRecords]

ClientTypes ==
    /\ backend \in {"kafka", "pubsub"} /\ publisher \in {"new", "started", "stopped"}
    /\ pending \in Seq(1..MaxFrames) /\ log \subseteq 1..MaxFrames /\ paused \in BOOLEAN

TaskTypes ==
    /\ stage \in Stages /\ ending \in {"no", "reconnect", "inactive", "cancelled"}
    /\ receiver \in ReceiverStates /\ pinger \in {"off", "on"}
    /\ watcher \in {"off", "on", "timeout"}

SilenceTypes ==
    /\ idle \in Nat /\ heard \in Nat /\ level \in DOMAIN TimeoutLevels
    /\ warned \subseteq DOMAIN TimeoutLevels

StatisticsTypes ==
    /\ frames \in Seq(Entry) /\ conn \in Nat \ {0} /\ buckets \in [Ages -> Nat]

\* The type invariant, cut by what changes together.
LEMMA TypeParts == TypeOK <=> ClientTypes /\ TaskTypes /\ SilenceTypes /\ StatisticsTypes
BY DEF TypeOK, ClientTypes, TaskTypes, SilenceTypes, StatisticsTypes, Entry

\* The ages of a frame: 0 up to Oldest, which no snapshot reads.
LEMMA AgesAre ==
    /\ Oldest \in Nat /\ Oldest > Window /\ Window = 1 /\ PublishTimeout \in Nat \ {0}
    /\ Ages \subseteq Nat /\ 0 \in Ages /\ IsFiniteSet(Ages)
    /\ \A age \in Ages : Older(age) \in Ages
<1>1. PublishTimeout \in Nat \ {0} /\ Window = 1
  BY ConnectionAssumption DEF Window
<1>2. Oldest \in Nat /\ Oldest > 1 /\ Ages = 0..Oldest
  BY <1>1 DEF Oldest, Ages
<1>3. \A age \in Ages : Older(age) \in Ages
  BY <1>2 DEF Older
<1>4. IsFiniteSet(Ages)
  BY <1>2, FS_Interval
<1> QED
  BY <1>1, <1>2, <1>3, <1>4

\* _prune_locked leaves a table of counts.
LEMMA PruneTyped ==
    ASSUME NEW b \in [Ages -> Nat], NEW age
    PROVE  Prune(b, age) \in [Ages -> Nat]
BY DEF Prune

\* A task that has not been started has the types.
LEMMA InitTyped == Init => TypeOK
<1> SUFFICES ASSUME Init PROVE TypeOK
  OBVIOUS
<1>1. ClientTypes
  <2>1. pending \in Seq(1..MaxFrames) /\ log \subseteq 1..MaxFrames
    BY DEF Init
  <2>2. paused \in BOOLEAN
    BY DEF Init
  <2> QED
    BY <2>1, <2>2 DEF Init, ClientTypes
<1>2. TaskTypes
  BY DEF Init, TaskTypes, Stages, ReceiverStates
<1>3. SilenceTypes
  BY LevelsGrow DEF Init, SilenceTypes, LastLevel
<1>4. StatisticsTypes
  BY DEF Init, StatisticsTypes
<1> QED
  BY <1>1, <1>2, <1>3, <1>4, TypeParts


\* The four parts of the types, for every step.
LEMMA ClientTyped == TypeOK /\ [Next]_vars => ClientTypes'
<1> SUFFICES ASSUME TypeOK, [Next]_vars PROVE ClientTypes'
  OBVIOUS
<1>1. /\ pending \in Seq(1..MaxFrames) /\ log \subseteq 1..MaxFrames /\ paused \in BOOLEAN
      /\ backend \in {"kafka", "pubsub"} /\ publisher \in {"new", "started", "stopped"}
      /\ frames \in Seq(Entry) /\ MaxFrames \in Nat
  BY ConnectionAssumption, TypeParts DEF ClientTypes, StatisticsTypes
<1>2. CASE UNCHANGED client
  BY <1>1, <1>2 DEF client, ClientTypes
<1>3. CASE StartPublisher \/ StopPublisher \/ ResumeKey
  <2>1. /\ UNCHANGED <<backend, pending, log>> /\ publisher' \in {"started", "stopped", publisher}
        /\ paused' = paused \/ paused' = FALSE
    BY <1>3 DEF StartPublisher, StopPublisher, ResumeKey
  <2>2. paused' \in BOOLEAN
    BY <1>1, <2>1
  <2> QED
    BY <1>1, <2>1, <2>2 DEF ClientTypes
<1>4. CASE Deliver
  <2>1. pending # <<>> /\ log' = log \cup {pending[1]} /\ pending' = Tail(pending)
    BY <1>4 DEF Deliver
  <2>2. pending[1] \in 1..MaxFrames /\ Tail(pending) \in Seq(1..MaxFrames)
    BY <1>1, <2>1
  <2>3. UNCHANGED <<backend, publisher, paused>>
    BY <1>4 DEF Deliver
  <2> QED
    BY <1>1, <2>1, <2>2, <2>3 DEF ClientTypes
<1>5. CASE GiveUp
  <2>1. /\ pending # <<>> /\ pending' \in {<<>>, Tail(pending)}
        /\ UNCHANGED <<backend, publisher, log>>
    BY <1>5 DEF GiveUp
  <2>2. Tail(pending) \in Seq(1..MaxFrames) /\ <<>> \in Seq(1..MaxFrames)
    BY <1>1, <2>1
  <2>3. paused' \in BOOLEAN
    BY <1>5 DEF GiveUp
  <2> QED
    BY <1>1, <2>1, <2>2, <2>3 DEF ClientTypes
<1>6. ASSUME NEW kind, NEW records, Receive(kind, records)
      PROVE  ClientTypes'
  <2>1. /\ UNCHANGED <<backend, publisher, paused, log>>
        /\ pending' = pending \/ pending' = Append(pending, Len(frames'))
        /\ Len(frames) < MaxFrames
    BY <1>6 DEF Receive
  <2>2. Len(frames') = Len(frames) + 1 /\ Len(frames) \in Nat
    BY <1>1, <1>6 DEF Receive
  <2>3. Len(frames') \in 1..MaxFrames
    BY <1>1, <2>1, <2>2
  <2>4. Append(pending, Len(frames')) \in Seq(1..MaxFrames)
    BY <1>1, <2>3
  <2> QED
    BY <1>1, <2>1, <2>4 DEF ClientTypes
<1>7. CASE Unwind
  <2>1. UNCHANGED <<backend, publisher, pending, log>> /\ paused' \in {paused, FALSE}
    BY <1>7 DEF Unwind
  <2>2. paused' \in BOOLEAN
    BY <1>1, <2>1
  <2> QED
    BY <1>1, <2>1, <2>2 DEF ClientTypes
<1>8. CASE Opening
  <2>1. UNCHANGED client
    BY <1>8 DEF Opening, StartTask, ChatFound, NoChat, LookupRaises, TokenReceived, NoToken,
       RetrySlept, BackoffSlept, ConnectFails, Connect, GoTo
  <2> QED
    BY <1>2, <2>1
<1>9. CASE Response \/ CallbackEnds \/ Count \/ SocketCloses
  BY <1>2, <1>9 DEF Response, CallbackEnds, Count, SocketCloses
<1>10. CASE PingFails \/ Check \/ Closed \/ Cancel \/ Snapshot \/ Tick
  BY <1>2, <1>10 DEF PingFails, Check, Closed, Cancel, Snapshot, Tick
<1>11. CASE UNCHANGED vars
  BY <1>2, <1>11 DEF vars
<1> QED
  BY <1>3, <1>4, <1>5, <1>6, <1>7, <1>8, <1>9, <1>10, <1>11 DEF Next, Client, Receiving

\* A step keeps the stage and the three coroutines in their states.
LEMMA TaskTyped == TypeOK /\ [Next]_vars => TaskTypes'
<1> SUFFICES ASSUME TypeOK, [Next]_vars PROVE TaskTypes'
  OBVIOUS
<1> USE DEF TaskTypes, Stages, ReceiverStates
<1>1. TaskTypes
  BY TypeParts
<1>2. CASE Client
  BY <1>1, <1>2 DEF Client, StartPublisher, StopPublisher, Deliver, GiveUp, children
<1>3. CASE Opening
  BY <1>1, <1>3 DEF Opening, StartTask, ChatFound, NoChat, LookupRaises, TokenReceived, NoToken,
     RetrySlept, BackoffSlept, ConnectFails, Connect, GoTo, children
<1>4. CASE Receiving
  BY <1>1, <1>4 DEF Receiving, Receive, Handed, Response, CallbackEnds, ResumeKey, Count,
     SocketCloses
<1>5. CASE PingFails \/ Check \/ Snapshot \/ Tick \/ Closed \/ Cancel
  BY <1>1, <1>5 DEF PingFails, Check, Snapshot, Tick, Closed, Cancel, children
<1>6. CASE Unwind
  BY <1>1, <1>6 DEF Unwind, Endings
<1>7. CASE UNCHANGED vars
  BY <1>1, <1>7 DEF vars, children
<1> QED
  BY <1>2, <1>3, <1>4, <1>5, <1>6, <1>7 DEF Next

\* A step keeps the inactivity clock and the levels typed.
LEMMA SilenceTyped == TypeOK /\ FramesInv /\ [Next]_vars => SilenceTypes'
<1> SUFFICES ASSUME TypeOK, FramesInv, [Next]_vars PROVE SilenceTypes'
  OBVIOUS
<1>1. SilenceTypes
  BY TypeParts
<1>2. DOMAIN TimeoutLevels = 1..LastLevel /\ LastLevel \in Nat /\ LastLevel > 1
  BY ConnectionAssumption DEF LastLevel
<1>3. CASE UNCHANGED silence
  BY <1>1, <1>3 DEF silence, SilenceTypes
<1>4. CASE Client \/ Closed \/ Cancel \/ PingFails \/ Snapshot \/ UNCHANGED vars
  BY <1>3, <1>4 DEF Client, StartPublisher, StopPublisher, Deliver, GiveUp, Closed, Cancel,
     PingFails, Snapshot, vars
<1>5. CASE Opening
  BY <1>1, <1>2, <1>5 DEF Opening, StartTask, ChatFound, NoChat, LookupRaises, TokenReceived,
     NoToken, RetrySlept, BackoffSlept, ConnectFails, Connect, silence, SilenceTypes
<1>6. CASE Response \/ CallbackEnds \/ ResumeKey \/ SocketCloses
  BY <1>3, <1>6 DEF Response, CallbackEnds, ResumeKey, SocketCloses
<1>7. ASSUME NEW kind, NEW records, Receive(kind, records) PROVE SilenceTypes'
  BY <1>1, <1>7 DEF Receive, SilenceTypes
<1>8. CASE Count
  <2>1. Newest.age \in Nat
    <3>1. frames # <<>> /\ frames \in Seq(Frame)
      BY <1>8 DEF FramesInv, Types, EarlierSettled, Waiting, Count
    <3>2. Newest \in Frame
      BY <3>1 DEF Newest
    <3> QED
      BY <3>2 DEF Frame
  <2>2. UNCHANGED <<level, heard>> /\ idle' \in {idle, Newest.age} /\ warned' \in {warned, {}}
    BY <1>8 DEF Count
  <2> QED
    BY <1>1, <2>1, <2>2 DEF SilenceTypes
<1>9. CASE Check
  <2>1. /\ UNCHANGED <<idle, heard>>
        /\ \/ level < LastLevel /\ level' = level + 1 /\ warned' = warned \cup {level}
           \/ level' \in {level, 1} /\ warned' = warned
    BY <1>9 DEF Check, Warns
  <2> QED
    BY <1>1, <1>2, <2>1 DEF SilenceTypes
<1>10. CASE Unwind
  BY <1>2, <1>10 DEF Unwind, SilenceTypes
<1>11. CASE Tick
  <2>1. \A n \in Nat : Longer(n) \in Nat
    BY DEF Longer
  <2> QED
    BY <1>1, <1>11, <2>1 DEF Tick, SilenceTypes
<1> QED
  BY <1>4, <1>5, <1>6, <1>7, <1>8, <1>9, <1>10, <1>11 DEF Next, Receiving

-----------------------------------------------------------------------------
(* Statistics.  A bucket of the window holds what the frames of its age     *)
(* were counted for; older ones no snapshot reads.                          *)

TallyOf(fs) == [i \in DOMAIN fs |-> fs[i].tally]
Aged(fs, age) == {i \in DOMAIN fs : fs[i].age = age}

BucketsAgree ==
    \A age \in 0..Window : buckets[age] = SumFunctionOnSet(TallyOf(frames), Aged(frames, age))

\* A frame that is on its way is not counted yet.
Uncounted == Waiting => Newest.tally = 0

\* The frames of one age are finitely many, each with a count.
LEMMA AgedTyped ==
    ASSUME NEW fs \in Seq(Entry), NEW age
    PROVE  /\ IsFiniteSet(Aged(fs, age)) /\ Aged(fs, age) \subseteq DOMAIN fs
           /\ \A i \in DOMAIN fs : TallyOf(fs)[i] = fs[i].tally /\ TallyOf(fs)[i] \in Nat
                                   /\ fs[i].age \in Ages /\ i \in Nat
<1>1. DOMAIN fs = 1..Len(fs) /\ Len(fs) \in Nat
  OBVIOUS
<1>2. IsFiniteSet(DOMAIN fs)
  BY <1>1, FS_Interval
<1>3. Aged(fs, age) \subseteq DOMAIN fs
  BY DEF Aged
<1>4. IsFiniteSet(Aged(fs, age))
  BY <1>2, <1>3, FS_Subset
<1>5. ASSUME NEW i \in DOMAIN fs
      PROVE  TallyOf(fs)[i] = fs[i].tally /\ TallyOf(fs)[i] \in Nat /\ fs[i].age \in Ages
  <2>1. fs[i] \in Entry
    OBVIOUS
  <2>2. fs[i].tally \in 0..MaxRecords /\ fs[i].age \in Ages
    BY <2>1 DEF Entry
  <2> QED
    BY <2>2, ConnectionAssumption DEF TallyOf
<1> QED
  BY <1>1, <1>3, <1>4, <1>5

\* What receiving a frame does to the frames.
LEMMA ReceiveEffect ==
    ASSUME TypeOK, NEW kind \in Kinds, NEW records \in RecordsOf(kind), Receive(kind, records)
    PROVE  /\ frames' \in Seq(Entry) /\ DOMAIN frames' = DOMAIN frames \cup {Len(frames')}
           /\ Len(frames') \notin DOMAIN frames
           /\ \A i \in DOMAIN frames : frames'[i] = frames[i]
           /\ Newest'.age = 0 /\ Newest'.tally = 0
<1> DEFINE new == [kind |-> kind, records |-> records, conn |-> conn, age |-> 0, tally |-> 0]
<1>1. frames' = Append(frames, new)
  BY DEF Receive
<1>2. new \in Entry
  <2>1. records \in 1..MaxRecords /\ 0 \in 0..MaxRecords
    BY ConnectionAssumption DEF RecordsOf
  <2>2. conn \in Nat /\ 0 \in Ages
    BY TypeParts, AgesAre DEF StatisticsTypes
  <2> QED
    BY <2>1, <2>2 DEF Entry
<1>3. frames \in Seq(Entry)
  BY TypeParts DEF StatisticsTypes
<1>4. new.age = 0 /\ new.tally = 0
  OBVIOUS
<1> HIDE DEF new
<1>5. /\ frames' \in Seq(Entry) /\ Len(frames') = Len(frames) + 1 /\ Len(frames) \in Nat
      /\ DOMAIN frames' = 1..(Len(frames) + 1) /\ DOMAIN frames = 1..Len(frames)
      /\ \A i \in DOMAIN frames : frames'[i] = frames[i]
      /\ frames'[Len(frames')] = new
  BY <1>1, <1>2, <1>3
<1> QED
  BY <1>4, <1>5 DEF Newest

\* What record_raw_messages does: one bucket and the newest frame's count grow alike.
LEMMA CountEffect ==
    ASSUME TypeOK, FramesInv, Count
    PROVE  LET n == Len(frames)
               k == Tallied(frames[n])
           IN  /\ n \in DOMAIN frames /\ k \in Nat /\ receiver' \in {"failed", "recv"}
               /\ frames' \in Seq(Entry) /\ DOMAIN frames' = DOMAIN frames
               /\ \A i \in DOMAIN frames : frames'[i].age = frames[i].age
               /\ \A i \in DOMAIN frames :
                     frames'[i].tally = IF i = n THEN k ELSE frames[i].tally
               /\ buckets' \in [Ages -> Nat]
               /\ \A age \in 0..Window :
                     buckets'[age] = buckets[age] + IF age = frames[n].age THEN k ELSE 0
<1> DEFINE n == Len(frames)
           k == Tallied(frames[n])
           counted == [frames[n] EXCEPT !.tally = k]
<1>1. /\ frames \in Seq(Entry) /\ frames # <<>> /\ buckets \in [Ages -> Nat]
      /\ receiver' \in {"failed", "recv"}
  BY TypeParts DEF FramesInv, EarlierSettled, Waiting, Count, StatisticsTypes
<1>2. n \in DOMAIN frames /\ frames[n] \in Entry
  BY <1>1
<1>3. frames[n].records \in 1..MaxRecords /\ frames[n].age \in Ages
  BY <1>2 DEF Entry
<1>4. k \in 0..MaxRecords /\ k \in Nat
  BY <1>3, ConnectionAssumption DEF Tallied
<1>5. counted \in Entry /\ counted.tally = k /\ counted.age = frames[n].age
  BY <1>2, <1>4 DEF Entry
<1>6. frames' = [frames EXCEPT ![n] = counted]
  BY DEF Count, Newest
<1>7. buckets' = [Prune(buckets, frames[n].age) EXCEPT ![frames[n].age] = @ + k]
  BY DEF Count, Newest, Record
<1> HIDE DEF counted, k
<1>8. /\ frames' \in Seq(Entry) /\ DOMAIN frames' = DOMAIN frames
      /\ \A i \in DOMAIN frames : frames'[i] = IF i = n THEN counted ELSE frames[i]
  BY <1>1, <1>2, <1>5, <1>6
<1> DEFINE pruned == Prune(buckets, frames[n].age)
<1>9. pruned \in [Ages -> Nat] /\ \A age \in 0..Window : age \in Ages /\ pruned[age] = buckets[age]
  <2>1. pruned \in [Ages -> Nat]
    BY <1>1, PruneTyped
  <2>2. \A age \in 0..Window : age \in Ages /\ age <= Window + frames[n].age
    <3>1. Window = 1 /\ Oldest \in Nat /\ Oldest > 1 /\ frames[n].age \in Nat
      BY <1>3, AgesAre
    <3> QED
      BY <3>1 DEF Ages
  <2> QED
    BY <2>1, <2>2 DEF Prune
<1> HIDE DEF pruned
<1>10. buckets' = [pruned EXCEPT ![frames[n].age] = pruned[frames[n].age] + k]
  BY <1>7 DEF pruned
<1>11. /\ buckets' \in [Ages -> Nat]
       /\ \A age \in 0..Window : buckets'[age] = buckets[age] + IF age = frames[n].age THEN k ELSE 0
  <2>1. pruned[frames[n].age] + k \in Nat
    BY <1>3, <1>4, <1>9
  <2>2. buckets' \in [Ages -> Nat]
    BY <1>9, <1>10, <2>1
  <2>3. ASSUME NEW age \in 0..Window
        PROVE  buckets'[age] = buckets[age] + IF age = frames[n].age THEN k ELSE 0
    <3>1. age \in Ages /\ pruned[age] = buckets[age] /\ buckets[age] \in Nat
      BY <1>1, <1>9
    <3>2. CASE age = frames[n].age
      BY <1>9, <1>10, <3>1, <3>2
    <3>3. CASE age # frames[n].age
      BY <1>9, <1>10, <3>1, <3>3
    <3> QED
      BY <3>2, <3>3
  <2> QED
    BY <2>2, <2>3
<1> QED
  BY <1>1, <1>2, <1>4, <1>5, <1>8, <1>11 DEF k

\* What a minute does: every frame and every bucket grows one minute older.
LEMMA TickEffect ==
    ASSUME TypeOK, Tick
    PROVE  /\ frames' \in Seq(Entry) /\ DOMAIN frames' = DOMAIN frames
           /\ Len(frames') = Len(frames)
           /\ \A i \in DOMAIN frames : /\ frames'[i].age = Older(frames[i].age)
                                       /\ frames'[i].tally = frames[i].tally
           /\ buckets' \in [Ages -> Nat]
           /\ \A age \in Ages :
                 buckets'[age] = SumFunctionOnSet(buckets, {b \in Ages : Older(b) = age})
<1>1. frames \in Seq(Entry) /\ buckets \in [Ages -> Nat]
  BY TypeParts DEF StatisticsTypes
<1>2. frames' = [i \in DOMAIN frames |-> [frames[i] EXCEPT !.age = Older(frames[i].age)]]
  BY DEF Tick
<1>3. ASSUME NEW i \in DOMAIN frames
      PROVE  /\ frames'[i] \in Entry /\ frames'[i].age = Older(frames[i].age)
             /\ frames'[i].tally = frames[i].tally
  <2>1. frames[i] \in Entry /\ frames'[i] = [frames[i] EXCEPT !.age = Older(frames[i].age)]
    BY <1>1, <1>2
  <2>2. Older(frames[i].age) \in Ages
    <3>1. frames[i].age \in Ages
      BY <2>1 DEF Entry
    <3> QED
      BY <3>1, AgesAre
  <2> QED
    BY <2>1, <2>2 DEF Entry
<1>4. frames' \in Seq(Entry) /\ DOMAIN frames' = DOMAIN frames /\ Len(frames') = Len(frames)
  <2>1. DOMAIN frames = 1..Len(frames) /\ Len(frames) \in Nat
    BY <1>1
  <2>2. DOMAIN frames' = 1..Len(frames) /\ frames' = [i \in 1..Len(frames) |-> frames'[i]]
    BY <1>2, <2>1
  <2>3. frames' \in [1..Len(frames) -> Entry]
    BY <1>3, <2>1, <2>2
  <2> QED
    BY <2>1, <2>2, <2>3
<1>5. buckets' = [age \in Ages |-> SumFunctionOnSet(buckets, {b \in Ages : Older(b) = age})]
  BY DEF Tick
<1>6. ASSUME NEW age \in Ages
      PROVE  SumFunctionOnSet(buckets, {b \in Ages : Older(b) = age}) \in Nat
  <2> DEFINE from == {b \in Ages : Older(b) = age}
  <2>1. from \subseteq Ages
    OBVIOUS
  <2> HIDE DEF from
  <2>2. IsFiniteSet(from) /\ \A b \in from : buckets[b] \in Nat
    BY <1>1, <2>1, AgesAre, FS_Subset
  <2>3. SumFunctionOnSet(buckets, from) \in Nat
    BY <2>2, SumNat
  <2> QED
    BY <2>3 DEF from
<1> QED
  BY <1>3, <1>4, <1>5, <1>6

\* A step keeps the frames, the connections and the buckets typed.
LEMMA StatisticsTyped == TypeOK /\ FramesInv /\ [Next]_vars => StatisticsTypes'
<1> SUFFICES ASSUME TypeOK, FramesInv, [Next]_vars PROVE StatisticsTypes'
  OBVIOUS
<1>1. StatisticsTypes
  BY TypeParts
<1>2. CASE UNCHANGED <<frames, conn, buckets>>
  BY <1>1, <1>2 DEF StatisticsTypes
<1>3. CASE Client \/ PingFails \/ Check \/ Unwind \/ Closed \/ Cancel \/ UNCHANGED vars
  BY <1>2, <1>3 DEF Client, StartPublisher, StopPublisher, Deliver, GiveUp, PingFails, Check,
     Unwind, Closed, Cancel, vars
<1>4. CASE Opening
  <2>1. UNCHANGED <<frames, buckets>> /\ (conn' = conn \/ conn' = conn + 1)
    BY <1>4 DEF Opening, StartTask, ChatFound, NoChat, LookupRaises, TokenReceived, NoToken,
       RetrySlept, BackoffSlept, ConnectFails, Connect, GoTo
  <2> QED
    BY <1>1, <2>1 DEF StatisticsTypes
<1>5. CASE Response \/ CallbackEnds \/ ResumeKey \/ SocketCloses
  BY <1>2, <1>5 DEF Response, CallbackEnds, ResumeKey, SocketCloses
<1>6. ASSUME NEW kind \in Kinds, NEW records \in RecordsOf(kind), Receive(kind, records)
      PROVE  StatisticsTypes'
  <2>1. frames' \in Seq(Entry)
    BY <1>6, ReceiveEffect
  <2> QED
    BY <1>1, <1>6, <2>1 DEF Receive, StatisticsTypes
<1>7. CASE Count
  <2>1. frames' \in Seq(Entry) /\ buckets' \in [Ages -> Nat]
    BY <1>7, CountEffect
  <2> QED
    BY <1>1, <1>7, <2>1 DEF Count, StatisticsTypes
<1>8. CASE Snapshot
  <2>1. buckets' \in [Ages -> Nat]
    BY <1>1, <1>8, PruneTyped DEF Snapshot, StatisticsTypes
  <2> QED
    BY <1>1, <1>8, <2>1 DEF Snapshot, StatisticsTypes
<1>9. CASE Tick
  <2>1. frames' \in Seq(Entry) /\ buckets' \in [Ages -> Nat] /\ conn' = conn
    BY <1>9, TickEffect DEF Tick
  <2> QED
    BY <1>1, <2>1 DEF StatisticsTypes
<1> QED
  BY <1>3, <1>4, <1>5, <1>6, <1>7, <1>8, <1>9 DEF Next, Receiving

\* A step keeps the types.
LEMMA StepTyped == TypeOK /\ FramesInv /\ [Next]_vars => TypeOK'
<1> SUFFICES ASSUME TypeOK, FramesInv, [Next]_vars PROVE TypeOK'
  OBVIOUS
<1>1. ClientTypes' /\ TaskTypes' /\ SilenceTypes' /\ StatisticsTypes'
  BY ClientTyped, TaskTyped, SilenceTyped, StatisticsTyped
<1> QED
  BY <1>1 DEF TypeOK, ClientTypes, TaskTypes, SilenceTypes, StatisticsTypes, Entry

\* What neither receives nor counts, and puts no other frame on its way.
LEMMA StatisticsKept ==
    ASSUME BucketsAgree, Uncounted, UNCHANGED frames,
           \A age \in 0..Window : buckets'[age] = buckets[age],
           receiver' \in {"publish", "resume", "acked"} => Waiting
    PROVE  BucketsAgree' /\ Uncounted'
<1>1. TallyOf(frames)' = TallyOf(frames) /\ \A age : Aged(frames, age)' = Aged(frames, age)
  BY DEF TallyOf, Aged
<1>2. BucketsAgree'
  BY <1>1 DEF BucketsAgree
<1>3. Uncounted'
  BY DEF Uncounted, Waiting, Newest
<1> QED
  BY <1>2, <1>3

\* A frame just received counts for nothing, so the buckets still agree.
LEMMA ReceiveAgrees ==
    ASSUME TypeOK, BucketsAgree, NEW kind \in Kinds, NEW records \in RecordsOf(kind),
           Receive(kind, records)
    PROVE  BucketsAgree' /\ Uncounted'
<1> DEFINE new == Len(frames')
<1>1. /\ frames' \in Seq(Entry) /\ DOMAIN frames' = DOMAIN frames \cup {new}
      /\ new \notin DOMAIN frames
      /\ \A i \in DOMAIN frames : frames'[i] = frames[i]
      /\ frames'[new].age = 0 /\ frames'[new].tally = 0
  BY ReceiveEffect DEF Newest
<1>2. frames \in Seq(Entry) /\ buckets' = buckets
  BY TypeParts DEF StatisticsTypes, Receive
<1> HIDE DEF new
<1>3. ASSUME NEW age \in 0..Window
      PROVE  buckets'[age] = SumFunctionOnSet(TallyOf(frames'), Aged(frames', age))
  <2> DEFINE old == Aged(frames, age)
             tally == TallyOf(frames)
             tally1 == TallyOf(frames')
  <2>1. buckets'[age] = SumFunctionOnSet(tally, old)
    BY <1>2 DEF BucketsAgree
  <2>2. /\ IsFiniteSet(old) /\ old \subseteq DOMAIN frames
        /\ \A i \in DOMAIN frames : tally[i] \in Nat /\ tally[i] = frames[i].tally
    BY <1>2, AgedTyped
  <2>3. /\ IsFiniteSet(Aged(frames', age)) /\ Aged(frames', age) \subseteq DOMAIN frames'
        /\ \A i \in DOMAIN frames' : tally1[i] \in Nat /\ tally1[i] = frames'[i].tally
    BY <1>1, AgedTyped
  <2>4. Aged(frames', age) = old \cup (IF age = 0 THEN {new} ELSE {})
    BY <1>1 DEF Aged
  <2> HIDE DEF tally, tally1, old
  <2>5. SumFunctionOnSet(tally1, old) = SumFunctionOnSet(tally, old)
    <3>1. \A i \in old : tally[i] \in Nat
      BY <2>2
    <3>2. \A i \in old : tally[i] = tally1[i]
      BY <1>1, <2>2, <2>3
    <3> QED
      BY <2>2, <3>1, <3>2, SumSame
  <2>6. CASE age = 0
    <3>1. new \in Aged(frames', age) /\ Aged(frames', age) \ {new} = old
      BY <1>1, <2>2, <2>4, <2>6
    <3>2. \A i \in Aged(frames', age) : tally1[i] \in Nat
      BY <2>3
    <3>3. SumFunctionOnSet(tally1, Aged(frames', age))
            = tally1[new] + SumFunctionOnSet(tally1, old)
      BY <2>3, <3>1, <3>2, SumRemove
    <3>4. tally1[new] = 0
      BY <1>1, <2>3
    <3>5. SumFunctionOnSet(tally, old) \in Nat
      BY <2>2, SumNat
    <3> QED
      BY <2>1, <2>5, <3>3, <3>4, <3>5 DEF tally1
  <2>7. CASE age # 0
    <3>1. Aged(frames', age) = old
      BY <2>4, <2>7
    <3> QED
      BY <2>1, <2>5, <3>1 DEF tally1
  <2> QED
    BY <2>6, <2>7
<1>4. BucketsAgree'
  BY <1>3 DEF BucketsAgree
<1>5. Uncounted'
  BY <1>1 DEF Uncounted, Newest, new
<1> QED
  BY <1>4, <1>5

\* Counting adds the records to the frame and to the bucket of its age.
LEMMA CountAgrees ==
    ASSUME TypeOK, FramesInv, BucketsAgree, Uncounted, Count
    PROVE  BucketsAgree' /\ Uncounted'
<1> DEFINE n == Len(frames)
           k == Tallied(frames[n])
<1>1. /\ n \in DOMAIN frames /\ k \in Nat /\ receiver' \in {"failed", "recv"}
      /\ frames' \in Seq(Entry) /\ DOMAIN frames' = DOMAIN frames
      /\ \A i \in DOMAIN frames : frames'[i].age = frames[i].age
      /\ \A i \in DOMAIN frames : frames'[i].tally = IF i = n THEN k ELSE frames[i].tally
      /\ \A age \in 0..Window :
            buckets'[age] = buckets[age] + IF age = frames[n].age THEN k ELSE 0
  BY CountEffect
<1>2. frames \in Seq(Entry) /\ frames[n].tally = 0
  BY TypeParts DEF StatisticsTypes, Uncounted, Waiting, Count, Newest
<1> HIDE DEF k, n
<1>3. ASSUME NEW age \in 0..Window
      PROVE  buckets'[age] = SumFunctionOnSet(TallyOf(frames'), Aged(frames', age))
  <2> DEFINE at == Aged(frames, age)
             tally == TallyOf(frames)
             tally1 == TallyOf(frames')
  <2>1. buckets[age] = SumFunctionOnSet(tally, at)
    BY DEF BucketsAgree
  <2>2. /\ IsFiniteSet(at) /\ at \subseteq DOMAIN frames
        /\ \A i \in DOMAIN frames : tally[i] \in Nat /\ tally[i] = frames[i].tally
    BY <1>2, AgedTyped
  <2>3. \A i \in DOMAIN frames : tally1[i] \in Nat /\ tally1[i] = frames'[i].tally
    BY <1>1, AgedTyped
  <2>4. Aged(frames', age) = at /\ (n \in at <=> age = frames[n].age)
    BY <1>1 DEF Aged
  <2> HIDE DEF tally, tally1, at
  <2>5. /\ \A i \in at : tally[i] \in Nat /\ tally1[i] \in Nat
        /\ \A i \in at : i # n => tally[i] = tally1[i]
        /\ tally[n] = 0 /\ tally1[n] = k
    BY <1>1, <1>2, <2>2, <2>3
  <2>6. SumFunctionOnSet(tally, at) \in Nat
    BY <2>2, <2>5, SumNat
  <2>7. CASE n \in at
    <3>1. IsFiniteSet(at \ {n})
      BY <2>2, FS_RemoveElement
    <3>2. SumFunctionOnSet(tally, at \ {n}) = SumFunctionOnSet(tally1, at \ {n})
      <4>1. \A i \in at \ {n} : tally[i] \in Nat
        BY <2>5
      <4>2. \A i \in at \ {n} : tally[i] = tally1[i]
        BY <2>5
      <4> QED
        BY <3>1, <4>1, <4>2, SumSame
    <3>3. /\ SumFunctionOnSet(tally, at) = tally[n] + SumFunctionOnSet(tally, at \ {n})
          /\ SumFunctionOnSet(tally1, at) = tally1[n] + SumFunctionOnSet(tally1, at \ {n})
      BY <2>2, <2>5, <2>7, SumRemove
    <3>4. SumFunctionOnSet(tally, at \ {n}) \in Nat
      BY <2>5, <3>1, SumNat
    <3>5. buckets'[age] = buckets[age] + k
      BY <1>1, <2>4, <2>7
    <3>6. SumFunctionOnSet(tally1, at) = SumFunctionOnSet(tally, at) + k
      BY <1>1, <2>5, <3>2, <3>3, <3>4
    <3> QED
      BY <2>1, <2>4, <3>5, <3>6 DEF tally1
  <2>8. CASE n \notin at
    <3>1. \A i \in at : tally[i] \in Nat
      BY <2>5
    <3>2. \A i \in at : tally[i] = tally1[i]
      BY <2>5, <2>8
    <3>3. SumFunctionOnSet(tally, at) = SumFunctionOnSet(tally1, at)
      BY <2>2, <3>1, <3>2, SumSame
    <3>4. buckets'[age] = buckets[age] + 0
      BY <1>1, <2>4, <2>8
    <3> QED
      BY <2>1, <2>4, <2>6, <3>3, <3>4 DEF tally1
  <2> QED
    BY <2>7, <2>8
<1>4. BucketsAgree'
  BY <1>3 DEF BucketsAgree
<1>5. Uncounted'
  BY <1>1 DEF Uncounted, Waiting
<1> QED
  BY <1>4, <1>5

\* As the clock moves, each bucket takes the place its frames take.
LEMMA TickAgrees ==
    ASSUME TypeOK, BucketsAgree, Uncounted, Tick
    PROVE  BucketsAgree' /\ Uncounted'
<1>1. /\ frames' \in Seq(Entry) /\ DOMAIN frames' = DOMAIN frames /\ Len(frames') = Len(frames)
      /\ \A i \in DOMAIN frames : /\ frames'[i].age = Older(frames[i].age)
                                  /\ frames'[i].tally = frames[i].tally
      /\ \A age \in Ages : buckets'[age] = SumFunctionOnSet(buckets, {b \in Ages : Older(b) = age})
  BY TickEffect
<1>2. frames \in Seq(Entry) /\ buckets \in [Ages -> Nat]
  BY TypeParts DEF StatisticsTypes
<1>3. Oldest \in Nat /\ Oldest > 1 /\ Window = 1 /\ Ages = 0..Oldest
  BY AgesAre DEF Ages
<1>4. \A b \in Ages : Older(b) # 0 /\ (Older(b) = 1 <=> b = 0)
  BY <1>3 DEF Older
<1>5. TallyOf(frames') = TallyOf(frames)
  BY <1>1 DEF TallyOf
<1>6. \A i \in DOMAIN frames : frames[i].age \in Ages
  BY <1>2, AgedTyped
<1>7. Aged(frames', 0) = {} /\ Aged(frames', 1) = Aged(frames, 0)
  BY <1>1, <1>4, <1>6 DEF Aged
<1>8. buckets'[0] = 0
  <2>1. {b \in Ages : Older(b) = 0} = {}
    BY <1>4
  <2>2. SumFunctionOnSet(buckets, {}) = 0
    BY SumEmpty
  <2>3. 0 \in Ages
    BY <1>3
  <2> QED
    BY <1>1, <2>1, <2>2, <2>3
<1>9. buckets'[1] = buckets[0]
  <2>1. 0 \in Ages /\ 1 \in Ages /\ buckets[0] \in Nat
    BY <1>2, <1>3
  <2>2. {b \in Ages : Older(b) = 1} = {0}
    BY <1>4, <2>1
  <2>3. SumFunctionOnSet(buckets, {0}) = buckets[0] + SumFunctionOnSet(buckets, {0} \ {0})
    <3>1. IsFiniteSet({0}) /\ \A x \in {0} : buckets[x] \in Nat
      BY <2>1, FS_Singleton
    <3> QED
      BY <3>1, SumRemove
  <2>4. {0} \ {0} = {}
    OBVIOUS
  <2>5. SumFunctionOnSet(buckets, {0} \ {0}) = 0
    BY <2>4, SumEmpty
  <2>6. SumFunctionOnSet(buckets, {0}) = buckets[0]
    BY <2>1, <2>3, <2>5
  <2> QED
    BY <1>1, <2>1, <2>2, <2>6
<1>10. ASSUME NEW age \in 0..Window
       PROVE  buckets'[age] = SumFunctionOnSet(TallyOf(frames'), Aged(frames', age))
  <2>1. age = 0 \/ age = 1
    BY <1>3
  <2>2. SumFunctionOnSet(TallyOf(frames), {}) = 0
    BY SumEmpty
  <2>3. buckets[0] = SumFunctionOnSet(TallyOf(frames), Aged(frames, 0))
    BY <1>3 DEF BucketsAgree
  <2>4. CASE age = 0
    BY <1>5, <1>7, <1>8, <2>2, <2>4
  <2>5. CASE age = 1
    BY <1>5, <1>7, <1>9, <2>3, <2>5
  <2> QED
    BY <2>1, <2>4, <2>5
<1>11. BucketsAgree'
  BY <1>10 DEF BucketsAgree
<1>12. Uncounted'
  <2> SUFFICES ASSUME Waiting' PROVE Newest'.tally = 0
    BY DEF Uncounted
  <2>1. Waiting /\ Newest.tally = 0
    BY DEF Uncounted, Waiting, Tick, children
  <2>2. Newest'.tally = Newest.tally
    <3>1. CASE frames = <<>>
      <4>1. frames' = frames
        BY <1>1, <3>1
      <4> QED
        BY <4>1 DEF Newest
    <3>2. CASE frames # <<>>
      <4>1. Len(frames) \in DOMAIN frames
        BY <1>2, <3>2
      <4> QED
        BY <1>1, <4>1 DEF Newest
    <3> QED
      BY <3>1, <3>2
  <2> QED
    BY <2>1, <2>2
<1> QED
  BY <1>11, <1>12

\* Nothing is received and nothing is counted.
LEMMA InitAgrees == Init => BucketsAgree /\ Uncounted
<1> SUFFICES ASSUME Init PROVE BucketsAgree /\ Uncounted
  OBVIOUS
<1>1. frames = <<>> /\ buckets = [a \in Ages |-> 0] /\ receiver = "off"
  BY DEF Init
<1>2. \A age : Aged(frames, age) = {}
  BY <1>1 DEF Aged
<1>3. \A age \in 0..Window : buckets[age] = 0
  <2>1. \A age \in 0..Window : age \in Ages
    BY AgesAre DEF Ages
  <2> QED
    BY <1>1, <2>1
<1>4. BucketsAgree
  BY <1>2, <1>3, SumEmpty DEF BucketsAgree
<1>5. Uncounted
  BY <1>1 DEF Uncounted, Waiting
<1> QED
  BY <1>4, <1>5

\* A step keeps the buckets the sums of their frames.
LEMMA StepAgrees ==
    TypeOK /\ FramesInv /\ BucketsAgree /\ Uncounted /\ [Next]_vars => BucketsAgree' /\ Uncounted'
<1> SUFFICES ASSUME TypeOK, FramesInv, BucketsAgree, Uncounted, [Next]_vars
             PROVE  BucketsAgree' /\ Uncounted'
  OBVIOUS
<1>1. CASE Client
  <2>1. /\ UNCHANGED <<frames, buckets>>
        /\ receiver' \in {"publish", "resume", "acked"} => Waiting
    BY <1>1 DEF Client, StartPublisher, StopPublisher, Deliver, GiveUp, children, AwaitsHead,
       Waiting
  <2> QED
    BY <2>1, StatisticsKept
<1>2. CASE Opening
  <2>1. /\ UNCHANGED <<frames, buckets>>
        /\ receiver' \in {"publish", "resume", "acked"} => Waiting
    BY <1>2 DEF Opening, StartTask, ChatFound, NoChat, LookupRaises, TokenReceived, NoToken,
       RetrySlept, BackoffSlept, ConnectFails, Connect, GoTo, children, Waiting
  <2> QED
    BY <2>1, StatisticsKept
<1>3. CASE Response \/ CallbackEnds \/ ResumeKey \/ SocketCloses
  <2>1. /\ UNCHANGED <<frames, buckets>>
        /\ receiver' \in {"callback", "recv", "failed", "closed"}
    BY <1>3 DEF Response, CallbackEnds, ResumeKey, SocketCloses
  <2> QED
    BY <2>1, StatisticsKept
<1>4. ASSUME NEW kind \in Kinds, NEW records \in RecordsOf(kind), Receive(kind, records)
      PROVE  BucketsAgree' /\ Uncounted'
  BY <1>4, ReceiveAgrees
<1>5. CASE Count
  BY <1>5, CountAgrees
<1>6. CASE PingFails \/ Check \/ Unwind \/ Closed \/ Cancel \/ UNCHANGED vars
  <2>1. /\ UNCHANGED <<frames, buckets>>
        /\ receiver' \in {"publish", "resume", "acked"} => Waiting
    BY <1>6 DEF PingFails, Check, Unwind, Closed, Cancel, vars, children, Waiting
  <2> QED
    BY <2>1, StatisticsKept
<1>7. CASE Snapshot
  <2>1. buckets' = Prune(buckets, 0) /\ UNCHANGED <<frames, receiver>>
    BY <1>7 DEF Snapshot, children
  <2>2. \A age \in 0..Window : age \in Ages /\ age <= Window + 0
    BY AgesAre DEF Ages
  <2>3. \A age \in 0..Window : buckets'[age] = buckets[age]
    BY <2>1, <2>2 DEF Prune
  <2> QED
    BY <2>1, <2>3, StatisticsKept DEF Waiting
<1>8. CASE Tick
  BY <1>8, TickAgrees
<1> QED
  BY <1>1, <1>2, <1>3, <1>4, <1>5, <1>6, <1>7, <1>8 DEF Next, Receiving

\* A snapshot adds up the buckets of the window, and they what was counted.
LEMMA AgreedIsFresh == TypeOK /\ BucketsAgree => SnapshotIsFresh
<1> SUFFICES ASSUME TypeOK, BucketsAgree PROVE SnapshotIsFresh
  OBVIOUS
<1> DEFINE kept == Prune(buckets, 0)
           rest == (Ages \ {0}) \ {1}
<1>1. frames \in Seq(Entry) /\ buckets \in [Ages -> Nat]
  BY TypeParts DEF StatisticsTypes
<1>2. Oldest \in Nat /\ Oldest > 1 /\ Window = 1 /\ Ages = 0..Oldest /\ IsFiniteSet(Ages)
  BY AgesAre DEF Ages
<1>3. /\ kept \in [Ages -> Nat] /\ DOMAIN kept = Ages
      /\ kept[0] = buckets[0] /\ kept[1] = buckets[1]
      /\ \A age \in rest : kept[age] = 0
  <2>1. kept \in [Ages -> Nat]
    BY <1>1, PruneTyped
  <2>2. 0 \in Ages /\ 1 \in Ages /\ 0 <= Window + 0 /\ 1 <= Window + 0
    BY <1>2
  <2>3. \A age \in rest : age \in Ages /\ ~(age <= Window + 0)
    BY <1>2
  <2> QED
    BY <2>1, <2>2, <2>3 DEF Prune
<1>4. buckets[0] \in Nat /\ buckets[1] \in Nat /\ 0 \in Ages /\ 1 \in Ages \ {0}
  BY <1>1, <1>2
<1> HIDE DEF kept, rest
<1>5. SumFunctionOnSet(kept, Ages) = buckets[0] + buckets[1]
  <2>1. IsFiniteSet(Ages \ {0}) /\ IsFiniteSet(rest)
    BY <1>2, FS_RemoveElement DEF rest
  <2>2. (\A a \in Ages : kept[a] \in Nat) /\ (\A a \in Ages \ {0} : kept[a] \in Nat)
    BY <1>3
  <2>3. SumFunctionOnSet(kept, Ages) = kept[0] + SumFunctionOnSet(kept, Ages \ {0})
    BY <1>2, <1>4, <2>2, SumRemove
  <2>4. SumFunctionOnSet(kept, Ages \ {0}) = kept[1] + SumFunctionOnSet(kept, rest)
    BY <1>4, <2>1, <2>2, SumRemove DEF rest
  <2>5. SumFunctionOnSet(kept, rest) = 0
    BY <1>3, <2>1, SumZero
  <2> QED
    BY <1>3, <1>4, <2>3, <2>4, <2>5
<1>6. Recent(kept) = buckets[0] + buckets[1]
  BY <1>3, <1>5 DEF Recent, SumFunction
<1> DEFINE zero == Aged(frames, 0)
           one == Aged(frames, 1)
<1>7. {i \in DOMAIN frames : frames[i].age <= Window} = zero \cup one /\ zero \cap one = {}
  <2>1. \A i \in DOMAIN frames : frames[i].age \in Nat
    BY <1>1, AgesAre, AgedTyped
  <2> QED
    BY <1>2, <2>1 DEF Aged
<1>8. /\ IsFiniteSet(zero) /\ IsFiniteSet(one)
      /\ \A i \in zero \cup one : TallyOf(frames)[i] \in Nat
  BY <1>1, AgedTyped
<1>9. SumFunctionOnSet(TallyOf(frames), zero \cup one)
        = SumFunctionOnSet(TallyOf(frames), zero) + SumFunctionOnSet(TallyOf(frames), one)
  <2> HIDE DEF zero, one
  <2> QED
    BY <1>7, <1>8, SumUnion
<1>10. /\ buckets[0] = SumFunctionOnSet(TallyOf(frames), zero)
       /\ buckets[1] = SumFunctionOnSet(TallyOf(frames), one)
  BY <1>2 DEF BucketsAgree
<1>11. TalliedWithin(Window) = SumFunctionOnSet(TallyOf(frames), zero \cup one)
  BY <1>7 DEF TalliedWithin, Tallies, TallyOf
<1> QED
  BY <1>6, <1>9, <1>10, <1>11 DEF SnapshotIsFresh, kept

\* In every state: the types, what was received, and buckets that agree.
LEMMA StatisticsHold == Spec => [](TypeOK /\ FramesInv /\ BucketsAgree /\ Uncounted)
<1>1. TypeOK /\ FramesInv /\ BucketsAgree /\ Uncounted /\ [Next]_vars
        => (TypeOK /\ FramesInv /\ BucketsAgree /\ Uncounted)'
  BY StepTyped, StepKeepsFrames, StepAgrees
<1> QED
  BY InitTyped, InitFrames, InitAgrees, <1>1, PTL DEF Spec

(* Every variable of the task, its publisher and its statistics keeps its   *)
(* type; in particular a level is never beyond the last one.                *)
THEOREM ConnectionTypes == Spec => []TypeOK
BY StatisticsHold, PTL

(* A snapshot reports the records observed in the last minute, no more and  *)
(* no fewer, whatever was pruned before and however long publishing took.   *)
THEOREM SnapshotsAreFresh == Spec => []SnapshotIsFresh
BY StatisticsHold, AgreedIsFresh, PTL

=============================================================================
