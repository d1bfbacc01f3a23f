------------------------- MODULE SilverStream_proofs -------------------------
(***************************************************************************)
(* Proofs about the Silver job, for every sequence of frames, every set of *)
(* tables and any number of crashes, lost checkpoints, recreated topics    *)
(* and maintenance runs.  The invariant says that the rows of the tables   *)
(* were read from some prefix of Bronze that is free of ambiguous          *)
(* coordinates, and that what the plan of a half-applied batch still has   *)
(* to insert shares no business key with the quarantine.                   *)
(***************************************************************************)
EXTENDS SilverStream, SilverReconcile_proofs, FiniteSetTheorems

-----------------------------------------------------------------------------
(* The two streams.                                                         *)

Frame == [offset : 1..MaxOffset, payload : Payloads]

StreamOK ==
    /\ topic \in Seq(Payloads) /\ Len(topic) <= MaxOffset
    /\ bronze \in Seq(SUBSET Frame)
    /\ kafkaStart \in Nat /\ kafkaFrom \in Nat /\ kafkaTo \in Nat
    /\ kafkaStart <= kafkaFrom /\ kafkaFrom <= kafkaTo /\ kafkaTo <= Len(topic)
    /\ ~started => kafkaTo = kafkaStart
    /\ started \in BOOLEAN /\ appended \in BOOLEAN
    /\ faults \in 0..MaxFaults /\ lost \in 0..faults

JobOK ==
    /\ silverFrom \in Nat /\ silverTo \in Nat
    /\ silverFrom <= silverTo /\ silverTo <= Len(bronze)
    /\ phase \in {"idle", "planned"} \cup Writing
    /\ turn \in DOMAIN Tables
    /\ phase \notin Writing => plan = NoPlan
    /\ retention \in {"default", "maintained"}

Grows ==
    /\ Len(bronze) <= Len(bronze')
    /\ \A i \in 1..Len(bronze) : bronze'[i] = bronze[i]

(* A batch of Kafka frames is a set of frames.                              *)
LEMMA BatchIsFrames ==
    ASSUME StreamOK
    PROVE  Batch(kafkaFrom, kafkaTo) \subseteq Frame
<1> SUFFICES ASSUME NEW f \in Batch(kafkaFrom, kafkaTo)
      PROVE  f \in Frame
    OBVIOUS
<1>1. PICK o \in (kafkaFrom + 1)..kafkaTo : f = [offset |-> o, payload |-> topic[o]]
    BY DEF Batch
<1>2. o \in 1..Len(topic) /\ o \in 1..MaxOffset
    BY SilverAssumption DEF StreamOK, MaxOffset
<1>3. topic[o] \in Payloads
    BY <1>2 DEF StreamOK
<1> QED BY <1>1, <1>2, <1>3 DEF Frame

LEMMA BronzeInitOK == BronzeInit => StreamOK
<1> SUFFICES ASSUME BronzeInit PROVE StreamOK
    OBVIOUS
<1>1. MaxOffset \in Nat /\ MaxFaults \in Nat
    BY SilverAssumption DEF MaxOffset
<1>2. <<>> \in Seq(Payloads) /\ <<>> \in Seq(SUBSET Frame) /\ Len(<<>>) = 0
    OBVIOUS
<1>3. started \in BOOLEAN /\ appended \in BOOLEAN
    BY DEF BronzeInit
<1> QED BY <1>1, <1>2, <1>3 DEF BronzeInit, StreamOK

(* Every step of the Bronze job keeps its types, and only appends.          *)
LEMMA BronzeKeeps ==
    ASSUME StreamOK, BronzeNext
    PROVE  StreamOK' /\ Grows
<1>0. MaxOffset \in Nat /\ MaxFaults \in Nat /\ faults \in Nat /\ lost \in Nat
    BY SilverAssumption DEF MaxOffset, StreamOK
<1>1. ASSUME NEW payload \in Payloads, Publish(payload)
      PROVE  StreamOK' /\ Grows
  <2>1. topic' \in Seq(Payloads) /\ Len(topic') = Len(topic) + 1
      BY <1>1 DEF Publish, StreamOK
  <2> QED BY <1>0, <1>1, <2>1 DEF Publish, checkpoint, StreamOK, Grows
<1>2. ASSUME PlanBronze
      PROVE  StreamOK' /\ Grows
  <2>1. Len(topic) \in Nat
      BY DEF StreamOK
  <2>2. appended' \in BOOLEAN
      BY <1>2 DEF PlanBronze
  <2> QED BY <1>0, <1>2, <2>1, <2>2 DEF PlanBronze, StreamOK, Grows
<1>3. ASSUME AppendBronze
      PROVE  StreamOK' /\ Grows
  <2> DEFINE batch == Batch(kafkaFrom, kafkaTo)
  <2>1. batch \in SUBSET Frame
      BY BatchIsFrames
  <2>2. bronze' = bronze \/ bronze' = Append(bronze, batch)
      BY <1>3 DEF AppendBronze, Appended
  <2> HIDE DEF batch
  <2>3. bronze' \in Seq(SUBSET Frame) /\ Grows
    <3>1. CASE bronze' = bronze
        BY <3>1 DEF StreamOK, Grows
    <3>2. CASE bronze' = Append(bronze, batch)
        BY <2>1, <3>2 DEF StreamOK, Grows
    <3> QED BY <2>2, <3>1, <3>2
  <2> QED BY <1>0, <1>3, <2>3 DEF AppendBronze, StreamOK
<1>4. ASSUME CommitBronze
      PROVE  StreamOK' /\ Grows
    BY <1>0, <1>4 DEF CommitBronze, StreamOK, Grows
<1>5. ASSUME StartQuery
      PROVE  StreamOK' /\ Grows
  <2>1. Len(topic) \in Nat
      BY DEF StreamOK
  <2>2. kafkaStart' \in Nat /\ kafkaStart' <= Len(topic)
      BY <1>5, <2>1 DEF StartQuery, FirstOffset
  <2>3. /\ started' = TRUE /\ kafkaFrom' = kafkaStart' /\ kafkaTo' = kafkaStart'
        /\ topic' = topic /\ bronze' = bronze /\ appended' = appended
        /\ lost' = lost /\ faults' = faults
      BY <1>5 DEF StartQuery
  <2> QED BY <1>0, <2>1, <2>2, <2>3 DEF StreamOK, Grows
<1>6. ASSUME LoseCheckpoint
      PROVE  StreamOK' /\ Grows
  <2>1. topic' \in Seq(Payloads) /\ Len(topic') \in Nat /\ Len(topic') <= MaxOffset
    <3>1. CASE topic' = topic
        BY <3>1 DEF StreamOK
    <3>2. CASE topic' = <<>>
        BY <1>0, <3>2
    <3> QED BY <1>6, <3>1, <3>2 DEF LoseCheckpoint
  <2>2. started' = FALSE /\ appended' = FALSE
      BY <1>6 DEF LoseCheckpoint, NoCheckpoint
  <2>3. kafkaStart' = 0 /\ kafkaFrom' = 0 /\ kafkaTo' = 0
      BY <1>6 DEF LoseCheckpoint, NoCheckpoint
  <2>4. faults' \in 0..MaxFaults /\ lost' \in 0..faults'
      BY <1>0, <1>6 DEF LoseCheckpoint, StreamOK
  <2>5. bronze' = bronze
      BY <1>6 DEF LoseCheckpoint
  <2>6. bronze' \in Seq(SUBSET Frame) /\ Grows
      BY <2>5 DEF StreamOK, Grows
  <2>7. started' \in BOOLEAN /\ appended' \in BOOLEAN
      BY <2>2
  <2>8. /\ kafkaStart' \in Nat /\ kafkaFrom' \in Nat /\ kafkaTo' \in Nat
        /\ kafkaStart' <= kafkaFrom' /\ kafkaFrom' <= kafkaTo' /\ kafkaTo' <= Len(topic')
        /\ kafkaTo' = kafkaStart'
      BY <2>1, <2>3
  <2> QED BY <2>1, <2>4, <2>6, <2>7, <2>8 DEF StreamOK
<1> QED BY <1>1, <1>2, <1>3, <1>4, <1>5, <1>6 DEF BronzeNext

-----------------------------------------------------------------------------
(* What was read from Bronze.                                               *)

RecordsOf(frames) == UNION {NativeParse(f.offset, f.payload) : f \in frames}

(* What the parser makes of a frame of Bronze.                              *)
LEMMA RecordIs ==
    ASSUME NEW f \in Frame, NEW r \in NativeParse(f.offset, f.payload)
    PROVE  /\ \E i \in Nat : r.src = <<f.offset, i>>
           /\ r \in Rec
           /\ Normal(r) => r.val \in Values
<1> DEFINE payload == f.payload
<1>1. PICK i \in Positions(payload) :
        r = IF EarlyError(payload, i) \/ ~Piece(payload, i).valid
            THEN Quarantined(f.offset, i) ELSE Row(f.offset, i, Piece(payload, i))
    BY DEF NativeParse
<1>2. payload \in Payloads /\ f.offset \in 1..MaxOffset
    BY DEF Frame
<1>3. payload.items \in Seq(Items)
    BY <1>2, SilverAssumption
<1>4. i \in Nat
  <2>1. DOMAIN payload.items \subseteq Nat
      BY <1>3
  <2> QED BY <2>1 DEF Positions
<1>5. CASE r = Quarantined(f.offset, i)
    BY <1>2, <1>4, <1>5 DEF Quarantined, Rec, Normal
<1>6. CASE r # Quarantined(f.offset, i)
  <2> DEFINE item == Piece(payload, i)
  <2>1. item.valid /\ r = Row(f.offset, i, item)
      BY <1>1, <1>6
  <2>2. payload.shape = "items"
      BY <2>1 DEF Piece, AnyPiece
  <2>3. item \in Items
      BY <1>3, <2>2 DEF Piece, Positions
  <2>4. item.table \in Range(Tables) /\ item.val \in Values
      BY <2>1, <2>3, SilverAssumption DEF Values
  <2> HIDE DEF item
  <2> QED BY <1>2, <1>4, <2>1, <2>3, <2>4 DEF Row, Rec
<1> QED BY <1>5, <1>6

LEMMA RecordsAre ==
    ASSUME NEW frames \in SUBSET Frame, NEW r \in RecordsOf(frames)
    PROVE  /\ \E f \in frames : r \in NativeParse(f.offset, f.payload)
           /\ r \in Rec /\ r.src \in (1..MaxOffset) \X Nat
           /\ Normal(r) => r.val \in Values
<1>1. PICK f \in frames : r \in NativeParse(f.offset, f.payload)
    BY DEF RecordsOf
<1>2. r \in Rec /\ (Normal(r) => r.val \in Values)
    BY <1>1, RecordIs
<1>3. r.src \in (1..MaxOffset) \X Nat
    BY <1>2 DEF Rec
<1> QED BY <1>1, <1>2, <1>3

(* Records of frames that agree are told apart by their source keys.        *)
LEMMA AgreedAreIdentified ==
    ASSUME NEW frames \in SUBSET Frame, Agree(frames, frames)
    PROVE  Identified(RecordsOf(frames))
<1> SUFFICES ASSUME NEW r \in RecordsOf(frames), NEW s \in RecordsOf(frames), r.src = s.src
      PROVE  r = s
    BY DEF Identified
<1>1. PICK f \in frames : r \in NativeParse(f.offset, f.payload)
    BY DEF RecordsOf
<1>2. PICK g \in frames : s \in NativeParse(g.offset, g.payload)
    BY DEF RecordsOf
<1>3. f.offset = g.offset
  <2>1. PICK i \in Nat : r.src = <<f.offset, i>>
      BY <1>1, RecordIs
  <2>2. PICK j \in Nat : s.src = <<g.offset, j>>
      BY <1>2, RecordIs
  <2>3. <<f.offset, i>> = <<g.offset, j>>
      BY <2>1, <2>2
  <2> QED BY <2>3
<1>4. f.payload = g.payload
    BY <1>3 DEF Agree
<1> QED BY <1>1, <1>2, <1>4, SourceDetermines

(* Frames that are read keep their rows while Bronze grows.                 *)
LEMMA PrefixStays ==
    ASSUME StreamOK, Grows, NEW n \in Nat, NEW m \in Nat, m <= Len(bronze)
    PROVE  RowsIn(n, m)' = RowsIn(n, m)
<1> DEFINE old == {bronze[i] : i \in (n + 1)..m}
           new == {bronze'[i] : i \in (n + 1)..m}
<1>1. \A i \in (n + 1)..m : bronze'[i] = bronze[i]
    BY DEF Grows, StreamOK
<1>2. new = old
    BY <1>1
<1> QED BY <1>2 DEF RowsIn

LEMMA RowsOfPrefix ==
    ASSUME NEW k \in Nat, NEW m \in Nat, k <= m
    PROVE  RowsIn(0, k) \subseteq RowsIn(0, m)
    BY DEF RowsIn

LEMMA RowsAreFrames ==
    ASSUME StreamOK, NEW n \in Nat, NEW m \in Nat, m <= Len(bronze)
    PROVE  RowsIn(n, m) \subseteq Frame
<1>1. \A i \in (n + 1)..m : bronze[i] \subseteq Frame
    BY DEF StreamOK
<1> QED BY <1>1 DEF RowsIn

-----------------------------------------------------------------------------
(* The invariant.                                                           *)

(* Everything in the tables and in the plan was read from the first m       *)
(* commits of Bronze, and there no coordinate has two contents.             *)
ReadFrom(m) ==
    /\ silverFrom <= m /\ m <= Len(bronze)
    /\ phase \in Writing => silverTo <= m
    /\ Agree(RowsIn(0, m), RowsIn(0, m))
    /\ rows \cup plan.inserts \cup plan.deletes \subseteq RecordsOf(RowsIn(0, m))

TablesOK ==
    /\ \E m \in Nat : ReadFrom(m)
    /\ \A r \in rows \cup plan.inserts : Normal(r)
    /\ DOMAIN quarantine \subseteq (1..MaxOffset) \X Nat

PlanOK ==
    /\ \A r, s \in plan.inserts : Group(r) = Group(s) => r = s
    /\ phase = "merge" =>
          /\ \A r \in plan.inserts :
                BusinessTokens(r) \cap (KeysOf(quarantine) \cup KeysOf(plan.quarantine)) = {}
          /\ \A d \in plan.deletes : BusinessTokens(d) \subseteq KeysOf(plan.quarantine)
          /\ DOMAIN plan.quarantine \subseteq (1..MaxOffset) \X Nat
    /\ phase \in {"delete", "insert", "commit"} =>
          /\ \A r \in plan.inserts : BusinessTokens(r) \cap KeysOf(quarantine) = {}
          /\ \A d \in plan.deletes : BusinessTokens(d) \subseteq KeysOf(quarantine)

IInv == StreamOK /\ JobOK /\ TablesOK /\ PlanOK /\ OneRowPerKey

(* The keys of the quarantine only grow.                                    *)
LEMMA MergedKeys ==
    ASSUME NEW old, NEW new
    PROVE  /\ DOMAIN Merged(old, new) = DOMAIN old \cup DOMAIN new
           /\ KeysOf(Merged(old, new)) = KeysOf(old) \cup KeysOf(new)
<1> DEFINE both == Merged(old, new)
<1>1. DOMAIN both = DOMAIN old \cup DOMAIN new
    BY DEF Merged
<1>2. \A src \in DOMAIN both :
        both[src] = (IF src \in DOMAIN old THEN old[src] ELSE {})
                    \cup (IF src \in DOMAIN new THEN new[src] ELSE {})
    BY DEF Merged
<1> HIDE DEF both
<1>3. KeysOf(both) \subseteq KeysOf(old) \cup KeysOf(new)
    BY <1>1, <1>2 DEF KeysOf
<1>4. KeysOf(old) \cup KeysOf(new) \subseteq KeysOf(both)
    BY <1>1, <1>2 DEF KeysOf
<1> QED BY <1>1, <1>3, <1>4 DEF both

(* Where a step reads no batch, what was read before is still enough.       *)
LEMMA StillRead ==
    ASSUME StreamOK, Grows, NEW m \in Nat, ReadFrom(m),
           silverFrom' <= m, phase' \in Writing => silverTo' <= m,
           rows' \cup plan'.inserts \cup plan'.deletes
               \subseteq rows \cup plan.inserts \cup plan.deletes
    PROVE  ReadFrom(m)'
<1>1. RowsIn(0, m)' = RowsIn(0, m)
    BY PrefixStays DEF ReadFrom
<1>2. m <= Len(bronze')
    BY DEF ReadFrom, Grows, StreamOK
<1> QED BY <1>1, <1>2 DEF ReadFrom, Agree

LEMMA NoPlanIsOK ==
    ASSUME plan = NoPlan, phase \notin Writing
    PROVE  PlanOK
    BY DEF PlanOK, NoPlan, Writing

LEMMA InitOK == Init => IInv
<1> SUFFICES ASSUME Init PROVE IInv
    OBVIOUS
<1>1. StreamOK
    BY BronzeInitOK DEF Init
<1>2. JobOK
  <2>1. 1 \in DOMAIN Tables
      BY SilverAssumption
  <2>2. Len(bronze) = 0
      BY DEF Init, BronzeInit
  <2> QED BY <2>1, <2>2 DEF Init, JobOK, Writing
<1>3. TablesOK
  <2>1. RowsIn(0, 0) = {}
      BY DEF RowsIn
  <2>2. ReadFrom(0)
      BY <1>1, <2>1 DEF Init, ReadFrom, NoPlan, Agree, StreamOK, Writing
  <2>3. DOMAIN quarantine = {}
      BY DEF Init
  <2> QED BY <2>2, <2>3 DEF Init, TablesOK, NoPlan
<1>4. PlanOK /\ OneRowPerKey
    BY NoPlanIsOK DEF Init, Writing, OneRowPerKey
<1> QED BY <1>1, <1>2, <1>3, <1>4 DEF IInv

(* A batch that validate_bronze_source lets pass extends what was read.     *)
LEMMA BatchExtends ==
    ASSUME IInv, phase = "planned", Unambiguous(silverFrom, silverTo)
    PROVE  \E m \in Nat :
              /\ silverTo <= m /\ m <= Len(bronze)
              /\ Agree(RowsIn(0, m), RowsIn(0, m))
              /\ rows \cup NativeRecords(silverFrom, silverTo) \subseteq RecordsOf(RowsIn(0, m))
<1>0. StreamOK /\ JobOK /\ Len(bronze) \in Nat /\ silverFrom \in Nat /\ silverTo \in Nat
    BY DEF IInv, JobOK, StreamOK
<1>1. PICK k \in Nat : ReadFrom(k)
    BY DEF IInv, TablesOK
<1> DEFINE m == IF silverTo > k THEN silverTo ELSE k
           batch == RowsIn(silverFrom, silverTo)
           all == RowsIn(0, Len(bronze))
<1>2. m \in Nat /\ silverTo <= m /\ k <= m /\ m <= Len(bronze)
    BY <1>0, <1>1 DEF ReadFrom, JobOK
<1>3. silverFrom <= k
    BY <1>1 DEF ReadFrom
<1>4. RowsIn(0, m) \subseteq RowsIn(0, k) \cup batch
    BY <1>0, <1>1, <1>3 DEF RowsIn
<1>5. RowsIn(0, k) \subseteq RowsIn(0, m) /\ RowsIn(0, k) \subseteq all /\ batch \subseteq all
    BY <1>0, <1>1, <1>2, RowsOfPrefix DEF RowsIn, JobOK
<1>6. batch \subseteq RowsIn(0, m)
    BY <1>0, <1>2 DEF RowsIn
<1>7. \A f \in batch : \A g \in all : f.offset = g.offset => f.payload = g.payload
    BY DEF Unambiguous, Agree
<1>8. \A f, g \in RowsIn(0, k) : f.offset = g.offset => f.payload = g.payload
    BY <1>1 DEF ReadFrom, Agree
<1> HIDE DEF m, batch, all
<1>9. Agree(RowsIn(0, m), RowsIn(0, m))
    BY <1>4, <1>5, <1>7, <1>8 DEF Agree
<1>10. rows \subseteq RecordsOf(RowsIn(0, m))
    BY <1>1, <1>5 DEF ReadFrom, RecordsOf
<1>11. NativeRecords(silverFrom, silverTo) \subseteq RecordsOf(RowsIn(0, m))
    BY <1>6 DEF NativeRecords, RecordsOf, batch
<1> QED BY <1>2, <1>9, <1>10, <1>11

(* What such a batch is decided on.                                         *)
LEMMA BatchIsIdentified ==
    ASSUME IInv, phase = "planned", Unambiguous(silverFrom, silverTo)
    PROVE  LET incoming == NativeRecords(silverFrom, silverTo)
               stored == Matches(rows, incoming)
           IN  /\ Identified(incoming \cup stored) /\ Identified(incoming) /\ Identified(stored)
               /\ Sourced(incoming)
               /\ \A r \in incoming \cup stored : r.src \in (1..MaxOffset) \X Nat
               /\ stored \subseteq rows
<1> DEFINE incoming == NativeRecords(silverFrom, silverTo)
           stored == Matches(rows, incoming)
<1>1. PICK m \in Nat :
        /\ m <= Len(bronze)
        /\ Agree(RowsIn(0, m), RowsIn(0, m))
        /\ rows \cup incoming \subseteq RecordsOf(RowsIn(0, m))
    BY BatchExtends
<1>2. RowsIn(0, m) \in SUBSET Frame
    BY <1>1, RowsAreFrames DEF IInv
<1>3. Identified(RecordsOf(RowsIn(0, m)))
    BY <1>1, <1>2, AgreedAreIdentified
<1>4. stored \subseteq rows
    BY DEF Matches
<1>5. \A r \in RecordsOf(RowsIn(0, m)) : r.src \in (1..MaxOffset) \X Nat
    BY <1>2, RecordsAre
<1> HIDE DEF incoming, stored
<1>6. \A r \in incoming \cup stored : r \in RecordsOf(RowsIn(0, m))
    BY <1>1, <1>4
<1>7. Identified(incoming \cup stored) /\ Identified(incoming) /\ Identified(stored)
    BY <1>3, <1>6 DEF Identified
<1>8. \A r \in incoming \cup stored : r.src \in (1..MaxOffset) \X Nat
    BY <1>5, <1>6
<1>9. Sourced(incoming)
    BY <1>8 DEF Sourced
<1> QED BY <1>4, <1>7, <1>8, <1>9 DEF incoming, stored

(* DecideBatch plans with the records themselves.                           *)
LEMMA DecisionIs ==
    ASSUME IInv, DecideBatch
    PROVE  LET incoming == NativeRecords(silverFrom, silverTo)
               stored == Matches(rows, incoming)
           IN  plan' = NativePlan(quarantine, incoming, stored, ClosedSets(incoming \cup stored))
<1> DEFINE incoming == NativeRecords(silverFrom, silverTo)
           stored == Matches(rows, incoming)
<1>1. plan' = NativePlan(quarantine, incoming, stored,
                         ClosedSets(Nodes(incoming) \cup Nodes(stored)))
    BY DEF DecideBatch
<1>2. Identified(incoming) /\ Identified(stored)
    BY BatchIsIdentified DEF DecideBatch
<1>3. Nodes(incoming) = incoming /\ Nodes(stored) = stored
    BY <1>2, NodesAreRecords
<1> QED BY <1>1, <1>3

LEMMA DecideKeeps ==
    ASSUME IInv, DecideBatch
    PROVE  TablesOK' /\ PlanOK'
<1> DEFINE incoming == NativeRecords(silverFrom, silverTo)
           stored == Matches(rows, incoming)
           decided == NativePlan(quarantine, incoming, stored, ClosedSets(incoming \cup stored))
<1>1. plan' = decided
    BY DecisionIs
<1>2. /\ Identified(incoming \cup stored) /\ Sourced(incoming)
      /\ \A r \in incoming \cup stored : r.src \in (1..MaxOffset) \X Nat
      /\ stored \subseteq rows
    BY BatchIsIdentified DEF DecideBatch
<1>3. \A r \in decided.inserts :
        /\ r \in incoming /\ Normal(r)
        /\ BusinessTokens(r) \cap (KeysOf(quarantine) \cup KeysOf(decided.quarantine)) = {}
    BY <1>2, InsertsAreUnblocked
<1>4. \A d \in decided.deletes :
        d \in stored /\ BusinessTokens(d) \subseteq KeysOf(decided.quarantine)
    BY <1>2, DeletesAreQuarantined
<1>5. \A r, s \in decided.inserts : Group(r) = Group(s) => r = s
    BY <1>2, InsertsAreDistinct
<1>6. DOMAIN decided.quarantine \subseteq (1..MaxOffset) \X Nat
  <2> DEFINE blocked == BlockedBy(quarantine, incoming, stored)
             closed == ClosedSets(incoming \cup stored)
  <2>1. decided.quarantine = Entries(incoming, blocked, closed) /\ blocked \subseteq incoming \cup stored
      BY <1>2, PlanIs
  <2>2. DOMAIN Entries(incoming, blocked, closed)
        = {r.src : r \in blocked \cup {q \in incoming : ~Normal(q)}}
      BY DEF Entries
  <2> HIDE DEF blocked, closed, incoming, stored, decided
  <2> QED BY <1>2, <2>1, <2>2
<1> HIDE DEF decided
<1>7. TablesOK'
  <2>1. PICK m \in Nat :
          /\ silverTo <= m /\ m <= Len(bronze)
          /\ Agree(RowsIn(0, m), RowsIn(0, m))
          /\ rows \cup incoming \subseteq RecordsOf(RowsIn(0, m))
      BY BatchExtends DEF DecideBatch
  <2>2. silverFrom <= m
      BY <2>1 DEF IInv, JobOK
  <2>3. RowsIn(0, m)' = RowsIn(0, m)
      BY DEF DecideBatch, bronzeVars, stream, checkpoint, RowsIn
  <2>4. plan'.inserts \cup plan'.deletes \subseteq rows \cup incoming
      BY <1>1, <1>2, <1>3, <1>4
  <2>5. rows' = rows /\ bronze' = bronze /\ silverFrom' = silverFrom /\ silverTo' = silverTo
        /\ quarantine' = quarantine
      BY DEF DecideBatch, bronzeVars, stream, checkpoint, tables
  <2> HIDE DEF incoming
  <2>6. ReadFrom(m)'
      BY <2>1, <2>2, <2>3, <2>4, <2>5 DEF ReadFrom, Agree
  <2>7. \A r \in rows' \cup plan'.inserts : Normal(r)
      BY <1>1, <1>3, <2>5 DEF IInv, TablesOK
  <2> QED BY <2>5, <2>6, <2>7 DEF IInv, TablesOK
<1>8. PlanOK'
  <2>1. quarantine' = quarantine /\ phase' = "merge"
      BY DEF DecideBatch, tables
  <2> QED BY <1>1, <1>3, <1>4, <1>5, <1>6, <2>1 DEF PlanOK
<1> QED BY <1>7, <1>8

(* Steps that leave Bronze and the job's tables alone, or only append.      *)
LEMMA BronzeStepKeeps ==
    ASSUME IInv, BronzeNext, UNCHANGED silverVars
    PROVE  IInv'
<1>1. StreamOK' /\ Grows
    BY BronzeKeeps DEF IInv
<1>2. /\ rows' = rows /\ quarantine' = quarantine /\ silverFrom' = silverFrom
      /\ silverTo' = silverTo /\ phase' = phase /\ turn' = turn /\ plan' = plan
      /\ retention' = retention
    BY DEF silverVars, tables, job
<1>3. JobOK'
    BY <1>1, <1>2 DEF IInv, JobOK, Grows, StreamOK
<1>4. PICK m \in Nat : ReadFrom(m)
    BY DEF IInv, TablesOK
<1>5. ReadFrom(m)'
    BY <1>1, <1>2, <1>4, StillRead DEF IInv, ReadFrom
<1>6. TablesOK'
    BY <1>2, <1>5 DEF IInv, TablesOK
<1>7. PlanOK' /\ OneRowPerKey'
    BY <1>2 DEF IInv, PlanOK, OneRowPerKey
<1> QED BY <1>1, <1>3, <1>6, <1>7 DEF IInv

LEMMA UnchangedKeeps ==
    ASSUME IInv, UNCHANGED <<bronzeVars, silverVars>>
    PROVE  IInv'
<1>1. /\ rows' = rows /\ quarantine' = quarantine /\ silverFrom' = silverFrom
      /\ silverTo' = silverTo /\ phase' = phase /\ turn' = turn /\ plan' = plan
      /\ retention' = retention
    BY DEF silverVars, tables, job
<1>2. StreamOK' /\ Grows
    BY DEF IInv, StreamOK, Grows, bronzeVars, stream, checkpoint
<1>3. JobOK'
    BY <1>1 DEF IInv, JobOK, bronzeVars, stream, checkpoint
<1>4. PICK m \in Nat : ReadFrom(m)
    BY DEF IInv, TablesOK
<1>5. ReadFrom(m)'
    BY <1>1, <1>2, <1>4, StillRead DEF IInv, ReadFrom
<1>6. TablesOK' /\ PlanOK' /\ OneRowPerKey'
    BY <1>1, <1>5 DEF IInv, TablesOK, PlanOK, OneRowPerKey
<1> QED BY <1>2, <1>3, <1>6 DEF IInv

(* A batch that is dropped, in whatever phase, leaves the tables as they    *)
(* are; it is planned again, or everything is.                              *)
LEMMA DroppedKeeps ==
    ASSUME IInv, StreamOK', UNCHANGED <<bronze, tables>>, plan' = NoPlan,
           phase' \in {"idle", "planned"}, JobOK',
           silverFrom' <= silverFrom \/ (phase = "commit" /\ silverFrom' = silverTo)
    PROVE  IInv'
<1>1. PICK m \in Nat : ReadFrom(m)
    BY DEF IInv, TablesOK
<1>2. silverFrom' <= m
    BY <1>1 DEF ReadFrom, IInv, JobOK, Writing
<1>3. Grows
    BY DEF Grows, IInv, StreamOK
<1>4. rows' = rows /\ quarantine' = quarantine
    BY DEF tables
<1>5. ReadFrom(m)'
    BY <1>1, <1>2, <1>3, <1>4, StillRead DEF IInv, NoPlan, Writing
<1>6. TablesOK'
    BY <1>4, <1>5 DEF IInv, TablesOK, NoPlan
<1>7. PlanOK'
    BY DEF PlanOK, NoPlan
<1> QED BY <1>4, <1>6, <1>7 DEF IInv, OneRowPerKey

(* The writes of a batch.                                                   *)
LEMMA MergeKeeps ==
    ASSUME IInv, MergeQuarantine
    PROVE  IInv'
<1>1. /\ rows' = rows /\ quarantine' = Merged(quarantine, plan.quarantine)
      /\ phase = "merge" /\ phase' = "delete" /\ plan' = plan
      /\ silverFrom' = silverFrom /\ silverTo' = silverTo /\ turn' = turn
      /\ retention' = retention /\ UNCHANGED bronzeVars
    BY DEF MergeQuarantine
<1>2. StreamOK' /\ Grows
    BY <1>1 DEF IInv, StreamOK, Grows, bronzeVars, stream, checkpoint
<1>3. JobOK'
    BY <1>1 DEF IInv, JobOK, Writing, bronzeVars, stream, checkpoint
<1>4. PICK m \in Nat : ReadFrom(m)
    BY DEF IInv, TablesOK
<1>5. ReadFrom(m)'
    BY <1>1, <1>2, <1>4, StillRead DEF IInv, ReadFrom, Writing
<1>6. /\ DOMAIN quarantine' = DOMAIN quarantine \cup DOMAIN plan.quarantine
      /\ KeysOf(quarantine') = KeysOf(quarantine) \cup KeysOf(plan.quarantine)
    BY <1>1, MergedKeys
<1>7. TablesOK'
    BY <1>1, <1>5, <1>6 DEF IInv, TablesOK, PlanOK
<1>8. PlanOK'
    BY <1>1, <1>6 DEF IInv, PlanOK
<1> QED BY <1>1, <1>2, <1>3, <1>7, <1>8 DEF IInv, OneRowPerKey

LEMMA DeleteKeeps ==
    ASSUME IInv, DeleteRows
    PROVE  IInv'
<1>1. /\ rows' \subseteq rows /\ quarantine' = quarantine
      /\ phase = "delete" /\ phase' = "insert" /\ plan' = plan
      /\ silverFrom' = silverFrom /\ silverTo' = silverTo /\ turn' = turn
      /\ retention' = retention /\ UNCHANGED bronzeVars
    BY DEF DeleteRows
<1>2. StreamOK' /\ Grows
    BY <1>1 DEF IInv, StreamOK, Grows, bronzeVars, stream, checkpoint
<1>3. JobOK'
    BY <1>1 DEF IInv, JobOK, Writing, bronzeVars, stream, checkpoint
<1>4. PICK m \in Nat : ReadFrom(m)
    BY DEF IInv, TablesOK
<1>5. ReadFrom(m)'
    BY <1>1, <1>2, <1>4, StillRead DEF IInv, ReadFrom, Writing
<1>6. TablesOK' /\ PlanOK' /\ OneRowPerKey'
    BY <1>1, <1>5 DEF IInv, TablesOK, PlanOK, OneRowPerKey
<1> QED BY <1>2, <1>3, <1>6 DEF IInv

LEMMA InsertKeeps ==
    ASSUME IInv, InsertRows
    PROVE  IInv'
<1>1. /\ rows' = rows \cup {r \in plan.inserts : Inserted(r)} /\ quarantine' = quarantine
      /\ phase = "insert" /\ phase' \in {"delete", "commit"} /\ plan' = plan
      /\ silverFrom' = silverFrom /\ silverTo' = silverTo
      /\ retention' = retention /\ UNCHANGED bronzeVars
    BY DEF InsertRows
<1>2. StreamOK' /\ Grows
    BY <1>1 DEF IInv, StreamOK, Grows, bronzeVars, stream, checkpoint
<1>3. JobOK'
  <2>1. turn' \in DOMAIN Tables
    <3>1. DOMAIN Tables = 1..Len(Tables) /\ Len(Tables) \in Nat /\ turn \in DOMAIN Tables
        BY SilverAssumption DEF IInv, JobOK
    <3> QED BY <3>1 DEF InsertRows
  <2> QED BY <1>1, <2>1 DEF IInv, JobOK, Writing, bronzeVars, stream, checkpoint
<1>4. PICK m \in Nat : ReadFrom(m)
    BY DEF IInv, TablesOK
<1>5. ReadFrom(m)'
    BY <1>1, <1>2, <1>4, StillRead DEF IInv, ReadFrom, Writing
<1>6. TablesOK' /\ PlanOK'
    BY <1>1, <1>5 DEF IInv, TablesOK, PlanOK
<1>7. OneRowPerKey'
    BY <1>1 DEF IInv, PlanOK, OneRowPerKey, Inserted
<1> QED BY <1>2, <1>3, <1>6, <1>7 DEF IInv

LEMMA StepOK == IInv /\ [Next]_vars => IInv'
<1> SUFFICES ASSUME IInv, [Next]_vars PROVE IInv'
    OBVIOUS
<1>0. StreamOK /\ JobOK /\ silverFrom \in Nat /\ silverTo \in Nat /\ Len(bronze) \in Nat
    BY DEF IInv, JobOK, StreamOK
<1>1. CASE BronzeNext /\ UNCHANGED silverVars
    BY <1>1, BronzeStepKeeps
<1>2. CASE PlanSilver
  <2>1. JobOK' /\ StreamOK'
      BY <1>0, <1>2 DEF PlanSilver, JobOK, StreamOK, bronzeVars, stream, checkpoint, Writing
  <2>2. plan' = NoPlan
      BY <1>0, <1>2 DEF PlanSilver, JobOK, Writing
  <2> QED BY <1>0, <1>2, <2>1, <2>2, DroppedKeeps DEF PlanSilver, bronzeVars, stream, checkpoint, tables
<1>3. CASE DecideBatch
  <2>1. JobOK' /\ StreamOK'
    <3>1. 1 \in DOMAIN Tables
        BY SilverAssumption
    <3> QED BY <1>0, <1>3, <3>1 DEF DecideBatch, JobOK, StreamOK, bronzeVars, stream, checkpoint, Writing
  <2>2. OneRowPerKey'
      BY <1>3 DEF DecideBatch, tables, IInv, OneRowPerKey
  <2> QED BY <1>3, <2>1, <2>2, DecideKeeps DEF IInv
<1>4. CASE MergeQuarantine
    BY <1>4, MergeKeeps
<1>5. CASE DeleteRows
    BY <1>5, DeleteKeeps
<1>6. CASE InsertRows
    BY <1>6, InsertKeeps
<1>7. CASE CommitSilver
  <2>1. JobOK' /\ StreamOK'
      BY <1>0, <1>7 DEF CommitSilver, JobOK, StreamOK, bronzeVars, stream, checkpoint, Writing
  <2> QED BY <1>0, <1>7, <2>1, DroppedKeeps DEF CommitSilver, bronzeVars, stream, checkpoint, tables
<1>8. CASE CrashSilver
  <2>1. JobOK' /\ StreamOK'
      BY <1>0, <1>8, SilverAssumption DEF CrashSilver, Restarted, JobOK, StreamOK, stream, checkpoint, Writing
  <2> QED BY <1>0, <1>8, <2>1, DroppedKeeps DEF CrashSilver, Restarted, stream, checkpoint, tables
<1>9. CASE StartSilverOver
  <2>1. JobOK' /\ StreamOK'
      BY <1>0, <1>9, SilverAssumption DEF StartSilverOver, JobOK, StreamOK, stream, checkpoint, Writing
  <2> QED BY <1>0, <1>9, <2>1, DroppedKeeps DEF StartSilverOver, stream, checkpoint, tables
<1>10. CASE Maintain
  <2>1. CASE UNCHANGED vars
    <3>1. UNCHANGED <<bronzeVars, silverVars>>
        BY <2>1 DEF vars
    <3> QED BY <3>1, UnchangedKeeps
  <2>2. CASE SetRetention /\ phase \in Writing
    <3>1. JobOK' /\ StreamOK'
        BY <1>0, <2>2 DEF SetRetention, Restarted, JobOK, StreamOK, bronzeVars, stream,
                          checkpoint, Writing
    <3> QED BY <1>0, <2>2, <3>1, DroppedKeeps DEF SetRetention, Restarted, bronzeVars,
                                                   stream, checkpoint
  <2>3. CASE SetRetention /\ phase \notin Writing
    <3>1. JobOK' /\ StreamOK'
        BY <1>0, <2>3 DEF SetRetention, JobOK, StreamOK, bronzeVars, stream, checkpoint, job
    <3>2. plan' = NoPlan /\ phase' \in {"idle", "planned"} /\ silverFrom' <= silverFrom
        BY <1>0, <2>3 DEF SetRetention, job, JobOK
    <3> QED BY <1>0, <2>3, <3>1, <3>2, DroppedKeeps DEF SetRetention, bronzeVars, stream, checkpoint
  <2> QED BY <1>10, <2>1, <2>2, <2>3 DEF Maintain
<1>11. CASE UNCHANGED vars
  <2>1. UNCHANGED <<bronzeVars, silverVars>>
      BY <1>11 DEF vars
  <2> QED BY <2>1, UnchangedKeeps
<1> QED BY <1>1, <1>2, <1>3, <1>4, <1>5, <1>6, <1>7, <1>8, <1>9, <1>10, <1>11
        DEF Next, SilverStep

THEOREM Invariant == Spec => []IInv
<1>1. Init => IInv
    BY InitOK
<1>2. IInv /\ [Next]_vars => IInv'
    BY StepOK
<1> QED BY <1>1, <1>2, PTL DEF Spec

-----------------------------------------------------------------------------
(* What follows from the invariant.                                         *)

(* A business key has at most one row in the event tables, also while a     *)
(* batch is half applied and after it is run again (InsertRows, Winners).   *)
THEOREM KeysHaveOneRow == Spec => []OneRowPerKey
<1>1. IInv => OneRowPerKey
    BY DEF IInv
<1> QED BY <1>1, Invariant, PTL

(* What was applied never holds two contents of a coordinate: a reused      *)
(* offset does not get past validate_bronze_source.                         *)
THEOREM AppliedIsUnambiguous == Spec => []ProcessedUnambiguous
<1>1. IInv => ProcessedUnambiguous
  <2> SUFFICES ASSUME IInv PROVE ProcessedUnambiguous
      OBVIOUS
  <2>1. PICK m \in Nat : ReadFrom(m)
      BY DEF IInv, TablesOK
  <2>2. RowsIn(0, silverFrom) \subseteq RowsIn(0, m)
      BY <2>1, RowsOfPrefix DEF IInv, JobOK, ReadFrom
  <2> QED BY <2>1, <2>2 DEF ReadFrom, Agree, ProcessedUnambiguous
<1> QED BY <1>1, Invariant, PTL

LEMMA FramesParseAlike ==
    \A f \in Frame : NativeParse(f.offset, f.payload) = ParseFrame(f.offset, f.payload)
<1> SUFFICES ASSUME NEW f \in Frame PROVE ReadablePayload(f.payload)
    BY ParsersAgree
<1>1. f.payload \in Payloads
    BY DEF Frame
<1>2. f.payload.shape \in Shapes /\ f.payload.items \in Seq(Items)
    BY <1>1, SilverAssumption
<1>3. \A i \in DOMAIN f.payload.items : f.payload.items[i] \in Items
    BY <1>2
<1> QED BY <1>2, <1>3, SilverAssumption DEF ReadablePayload

(* Every batch about to be decided gets from production the records and the *)
(* plan that the executable reference gives it (silver_native._decide,      *)
(* silver_store.reconcile).                                                 *)
THEOREM ProductionIsReference == Spec => []NativeMatchesReference
<1>1. IInv => NativeMatchesReference
  <2> SUFFICES ASSUME IInv, phase = "planned", Unambiguous(silverFrom, silverTo)
        PROVE  LET incoming == Records(silverFrom, silverTo)
                   stored == Matches(rows, incoming)
               IN  /\ NativeRecords(silverFrom, silverTo) = incoming
                   /\ NativePlan(quarantine, incoming, stored,
                                 ClosedSets(Nodes(incoming) \cup Nodes(stored)))
                      = ReferencePlan(quarantine, incoming, stored,
                                      ClosedSets(incoming \cup stored))
      BY DEF NativeMatchesReference
  <2> DEFINE incoming == Records(silverFrom, silverTo)
             stored == Matches(rows, incoming)
  <2>1. RowsIn(silverFrom, silverTo) \subseteq Frame
      BY RowsAreFrames DEF IInv, JobOK
  <2>3. NativeRecords(silverFrom, silverTo) = incoming
      BY <2>1, FramesParseAlike DEF NativeRecords, Records
  <2>4. Identified(incoming \cup stored) /\ Identified(incoming) /\ Identified(stored)
      BY <2>3, BatchIsIdentified
  <2>5. Nodes(incoming) = incoming /\ Nodes(stored) = stored
      BY <2>4, NodesAreRecords
  <2> HIDE DEF incoming, stored
  <2>6. NativePlan(quarantine, incoming, stored, ClosedSets(incoming \cup stored))
        = ReferencePlan(quarantine, incoming, stored, ClosedSets(incoming \cup stored))
      BY <2>4, PlansAgree
  <2> QED BY <2>3, <2>5, <2>6 DEF incoming, stored
<1> QED BY <1>1, Invariant, PTL

-----------------------------------------------------------------------------
(* The promise on business keys.                                            *)

LEMMA QuarantinedKeysAre ==
    QuarantinedKeys = KeysOf(quarantine)
    BY DEF QuarantinedKeys, KeysOf, Range

LEMMA RowsAre ==
    ASSUME IInv, NEW r \in rows
    PROVE  r.val \in Values /\ r \in Rec
<1>1. PICK m \in Nat : ReadFrom(m)
    BY DEF IInv, TablesOK
<1>2. RowsIn(0, m) \in SUBSET Frame /\ r \in RecordsOf(RowsIn(0, m))
    BY <1>1, RowsAreFrames DEF IInv, ReadFrom
<1>3. Normal(r)
    BY DEF IInv, TablesOK
<1> QED BY <1>2, <1>3, RecordsAre

(* The rows of a business key are one row at most, and its tokens are its   *)
(* business key.                                                            *)
LEMMA RowsOfKey ==
    ASSUME NEW k \in BusinessKeys, NEW r, <<r.table, r.key>> = k
    PROVE  /\ BusinessTokens(r) = {<<"business", k>>}
           /\ Group(r) = <<r.table, <<"business", r.key>>>>
<1>1. PICK item \in Items : item.key # NoKey /\ k = <<item.table, item.key>>
    BY DEF BusinessKeys
<1>2. <<r.table, r.key>> = <<item.table, item.key>>
    BY <1>1
<1>3. r.key # NoKey
    BY <1>1, <1>2
<1> QED BY <1>3 DEF BusinessTokens, Group

VerdictsMeasured ==
    \A k \in BusinessKeys :
        /\ \A r \in RowsOf(k) : VerdictOn(k) = r.val
        /\ RowsOf(k) = {} => VerdictOn(k) = IF <<"business", k>> \in KeysOf(quarantine)
                                            THEN Blocked ELSE Unseen
        /\ RowsOf(k) # {} => VerdictOn(k) \in Values

LEMMA VerdictIs == IInv => VerdictsMeasured
<1> SUFFICES ASSUME IInv, NEW k \in BusinessKeys
      PROVE  /\ \A r \in RowsOf(k) : VerdictOn(k) = r.val
             /\ RowsOf(k) = {} => VerdictOn(k) = IF <<"business", k>> \in KeysOf(quarantine)
                                                 THEN Blocked ELSE Unseen
             /\ RowsOf(k) # {} => VerdictOn(k) \in Values
    BY DEF VerdictsMeasured
<1>1. \A r, s \in RowsOf(k) : r = s
  <2> SUFFICES ASSUME NEW r \in RowsOf(k), NEW s \in RowsOf(k) PROVE r = s
      OBVIOUS
  <2>1. <<r.table, r.key>> = k /\ <<s.table, s.key>> = k /\ r \in rows /\ s \in rows
      BY DEF RowsOf
  <2>2. <<r.table, r.key>> = <<s.table, s.key>>
      BY <2>1
  <2>3. Group(r) = Group(s)
      BY <2>1, <2>2, RowsOfKey
  <2> QED BY <2>1, <2>3 DEF IInv, OneRowPerKey
<1>2. \A r \in RowsOf(k) : r.val \in Values
    BY RowsAre DEF RowsOf
<1>3. \A r \in RowsOf(k) : VerdictOn(k) = r.val
    BY <1>1 DEF VerdictOn
<1>4. RowsOf(k) = {} => VerdictOn(k) = IF <<"business", k>> \in KeysOf(quarantine)
                                       THEN Blocked ELSE Unseen
    BY QuarantinedKeysAre DEF VerdictOn
<1> QED BY <1>2, <1>3, <1>4

(* A step only adds rows whose keys are not in quarantine, and only removes *)
(* rows whose keys will be; and it does one of the two.                     *)
KeysRespected ==
    /\ KeysOf(quarantine) \subseteq KeysOf(quarantine')
    /\ \A r \in rows' \ rows : BusinessTokens(r) \cap KeysOf(quarantine) = {}
    /\ \A r \in rows \ rows' : BusinessTokens(r) \subseteq KeysOf(quarantine')
    /\ rows \subseteq rows' \/ rows' \subseteq rows

LEMMA StepRespectsKeys ==
    ASSUME IInv, Next
    PROVE  KeysRespected
<1>1. CASE MergeQuarantine
  <2>1. rows' = rows /\ quarantine' = Merged(quarantine, plan.quarantine)
      BY <1>1 DEF MergeQuarantine
  <2> QED BY <2>1, MergedKeys DEF KeysRespected
<1>2. CASE DeleteRows
  <2>1. quarantine' = quarantine /\ rows' = {r \in rows : ~Deleted(r)} /\ phase = "delete"
      BY <1>2 DEF DeleteRows
  <2>2. ASSUME NEW r \in rows, Deleted(r)
        PROVE  BusinessTokens(r) \subseteq KeysOf(quarantine)
    <3>1. PICK d \in plan.deletes : NodeOf(d) = NodeOf(r)
        BY <2>2 DEF Deleted
    <3>2. d.src = r.src
        BY <3>1 DEF NodeOf
    <3>3. PICK m \in Nat : ReadFrom(m)
        BY DEF IInv, TablesOK
    <3>4. Identified(RecordsOf(RowsIn(0, m)))
      <4>1. RowsIn(0, m) \in SUBSET Frame
          BY <3>3, RowsAreFrames DEF IInv, ReadFrom
      <4> QED BY <3>3, <4>1, AgreedAreIdentified DEF ReadFrom
    <3>5. d = r
        BY <3>2, <3>3, <3>4 DEF ReadFrom, Identified
    <3> QED BY <2>1, <3>5 DEF IInv, PlanOK
  <2> QED BY <2>1, <2>2 DEF KeysRespected
<1>3. CASE InsertRows
  <2>1. quarantine' = quarantine /\ rows' = rows \cup {r \in plan.inserts : Inserted(r)}
        /\ phase = "insert"
      BY <1>3 DEF InsertRows
  <2> QED BY <2>1 DEF KeysRespected, IInv, PlanOK
<1>4. CASE rows' = rows /\ quarantine' = quarantine
    BY <1>4 DEF KeysRespected
<1>5. \/ MergeQuarantine \/ DeleteRows \/ InsertRows
      \/ rows' = rows /\ quarantine' = quarantine
    BY DEF Next, silverVars, tables, vars, SilverStep, PlanSilver, DecideBatch, CommitSilver,
           CrashSilver, StartSilverOver, Maintain, SetRetention
<1> QED BY <1>1, <1>2, <1>3, <1>4, <1>5

LEMMA VerdictStep ==
    ASSUME VerdictsMeasured, VerdictsMeasured', KeysRespected, NEW k \in BusinessKeys
    PROVE  /\ Promise!MayBecome(VerdictOn(k), VerdictOn(k)')
           /\ VerdictOn(k)' \in Promise!Verdicts
<1> DEFINE token == <<"business", k>>
<1>1. /\ \A r \in RowsOf(k) : VerdictOn(k) = r.val
      /\ RowsOf(k) = {} => VerdictOn(k) = IF token \in KeysOf(quarantine) THEN Blocked ELSE Unseen
      /\ RowsOf(k) # {} => VerdictOn(k) \in Values
    BY DEF VerdictsMeasured
<1>2. /\ \A r \in RowsOf(k)' : VerdictOn(k)' = r.val
      /\ RowsOf(k)' = {} => VerdictOn(k)' = IF token \in KeysOf(quarantine') THEN Blocked ELSE Unseen
      /\ RowsOf(k)' # {} => VerdictOn(k)' \in Values
    BY DEF VerdictsMeasured
<1>3. /\ RowsOf(k) = {r \in rows : <<r.table, r.key>> = k}
      /\ RowsOf(k)' = {r \in rows' : <<r.table, r.key>> = k}
    BY DEF RowsOf
<1>4. \A r \in RowsOf(k) \cup RowsOf(k)' : BusinessTokens(r) = {token}
    BY <1>3, RowsOfKey
<1> HIDE DEF token
<1>5. CASE RowsOf(k) # {} /\ RowsOf(k)' # {}
  <2>1. PICK r \in RowsOf(k) : r \in RowsOf(k)'
      BY <1>3, <1>5 DEF KeysRespected
  <2> QED BY <1>1, <1>2, <1>5, <2>1 DEF Promise!MayBecome, Promise!Verdicts
<1>6. CASE RowsOf(k) # {} /\ RowsOf(k)' = {}
  <2>1. token \in KeysOf(quarantine')
      BY <1>3, <1>4, <1>6 DEF KeysRespected
  <2> QED BY <1>1, <1>2, <1>6, <2>1 DEF Promise!MayBecome, Promise!Verdicts
<1>7. CASE RowsOf(k) = {} /\ RowsOf(k)' # {}
  <2>1. token \notin KeysOf(quarantine)
      BY <1>3, <1>4, <1>7 DEF KeysRespected
  <2> QED BY <1>1, <1>2, <1>7, <2>1 DEF Promise!MayBecome, Promise!Verdicts
<1>8. CASE RowsOf(k) = {} /\ RowsOf(k)' = {}
  <2>1. token \in KeysOf(quarantine) => token \in KeysOf(quarantine')
      BY DEF KeysRespected
  <2> QED BY <1>1, <1>2, <1>8, <2>1 DEF Promise!MayBecome, Promise!Verdicts
<1> QED BY <1>5, <1>6, <1>7, <1>8

(* The tables keep the promise on every business key: an accepted value is  *)
(* never replaced, a blocked key is never accepted again, through crashes,  *)
(* retries, replays and maintenance.                                        *)
THEOREM PromiseKept == Spec => VerdictsHold
<1>1. Init => Promise!Init
  <2> SUFFICES ASSUME Init PROVE Promise!Init
      OBVIOUS
  <2>1. KeysOf(quarantine) = {} /\ rows = {}
      BY DEF Init, KeysOf
  <2>2. \A k \in BusinessKeys : VerdictOn(k) = Unseen
      BY <2>1, QuarantinedKeysAre DEF VerdictOn, RowsOf
  <2> QED BY <2>2 DEF Promise!Init
<1>2. IInv /\ VerdictsMeasured /\ VerdictsMeasured' /\ [Next]_vars
      => [Promise!Decide]_([k \in BusinessKeys |-> VerdictOn(k)])
  <2> SUFFICES ASSUME IInv, VerdictsMeasured, VerdictsMeasured', [Next]_vars
        PROVE  [Promise!Decide]_([k \in BusinessKeys |-> VerdictOn(k)])
      OBVIOUS
  <2>1. CASE Next
    <3>1. \A k \in BusinessKeys : Promise!MayBecome(VerdictOn(k), VerdictOn(k)')
                                  /\ VerdictOn(k)' \in Promise!Verdicts
        BY <2>1, StepRespectsKeys, VerdictStep
    <3> QED BY <3>1 DEF Promise!Decide
  <2>2. CASE UNCHANGED vars
    <3>1. rows' = rows /\ quarantine' = quarantine
        BY <2>2 DEF vars, silverVars, tables
    <3>2. \A k \in BusinessKeys : VerdictOn(k)' = VerdictOn(k)
        BY <3>1 DEF VerdictOn, RowsOf, QuarantinedKeys
    <3> QED BY <3>2
  <2> QED BY <2>1, <2>2
<1>3. IInv => VerdictsMeasured
    BY VerdictIs
<1> QED BY <1>1, <1>2, <1>3, Invariant, PTL DEF Spec, VerdictsHold, Promise!Spec

-----------------------------------------------------------------------------
(* Nothing is lost.  What is applied is held by the tables; what is being   *)
(* applied is held or pending: its quarantine entry or the row of its group *)
(* is still to be written.                                                  *)

Held(r) ==
    \/ \E s \in rows : Group(s) = Group(r) /\ s.val = r.val
    \/ r.src \in DOMAIN quarantine
    \/ BusinessTokens(r) \cap KeysOf(quarantine) # {}

Waiting(s) ==
    /\ phase \in {"merge", "delete", "insert"}
    /\ \E i \in turn..Len(Tables) : Tables[i] = s.table

Pending(r) ==
    \/ phase = "merge" /\ r.src \in DOMAIN plan.quarantine
    \/ \E s \in plan.inserts : Group(s) = Group(r) /\ s.val = r.val /\ Waiting(s)

Accounts ==
    /\ \A r \in NativeRecords(0, silverFrom) : Held(r)
    /\ phase \in Writing => \A r \in NativeRecords(silverFrom, silverTo) : Held(r) \/ Pending(r)
    /\ \A s \in plan.inserts : \A t \in rows : Group(t) = Group(s) => t = s
    /\ phase = "merge" => \A d \in plan.deletes : d.src \in DOMAIN plan.quarantine
    /\ phase \in {"delete", "insert", "commit"} => \A d \in plan.deletes : d.src \in DOMAIN quarantine

LEMMA RecordsStay ==
    ASSUME StreamOK, Grows, NEW n \in Nat, NEW m \in Nat, m <= Len(bronze)
    PROVE  NativeRecords(n, m)' = NativeRecords(n, m)
<1>1. RowsIn(n, m)' = RowsIn(n, m)
    BY PrefixStays
<1> QED BY <1>1 DEF NativeRecords

(* A record of a row that is deleted.                                       *)
LEMMA DeletedIs ==
    ASSUME IInv, NEW r \in rows, Deleted(r)
    PROVE  r \in plan.deletes
<1>1. PICK d \in plan.deletes : NodeOf(d) = NodeOf(r)
    BY DEF Deleted
<1>2. d.src = r.src
    BY <1>1 DEF NodeOf
<1>3. PICK m \in Nat : ReadFrom(m)
    BY DEF IInv, TablesOK
<1>4. Identified(RecordsOf(RowsIn(0, m)))
  <2>1. RowsIn(0, m) \in SUBSET Frame
      BY <1>3, RowsAreFrames DEF IInv, ReadFrom
  <2> QED BY <1>3, <2>1, AgreedAreIdentified DEF ReadFrom
<1>5. d = r
    BY <1>2, <1>3, <1>4 DEF ReadFrom, Identified
<1> QED BY <1>5

(* Where rows stay and the quarantine grows, what is held stays held.       *)
LEMMA HeldGrows ==
    ASSUME rows \subseteq rows', DOMAIN quarantine \subseteq DOMAIN quarantine',
           KeysOf(quarantine) \subseteq KeysOf(quarantine'), NEW r, Held(r)
    PROVE  Held(r)'
    BY DEF Held

LEMMA AccountsInit == Init => Accounts
<1> SUFFICES ASSUME Init PROVE Accounts
    OBVIOUS
<1>1. NativeRecords(0, 0) = {}
    BY DEF NativeRecords, RowsIn
<1> QED BY <1>1 DEF Init, Accounts, NoPlan, Writing

(* Steps that drop the batch or have none.                                  *)
LEMMA AccountsDropped ==
    ASSUME IInv, Accounts, Grows, UNCHANGED tables, plan' = NoPlan, phase' \notin Writing,
           silverFrom' \in Nat, silverFrom' <= silverFrom
    PROVE  Accounts'
<1>1. silverFrom \in Nat /\ silverFrom <= Len(bronze) /\ Len(bronze) \in Nat /\ StreamOK
    BY DEF IInv, JobOK, StreamOK
<1>2. PICK k \in Nat : k = silverFrom'
    OBVIOUS
<1>3. /\ NativeRecords(0, silverFrom)' = NativeRecords(0, k)'
      /\ NativeRecords(0, k)' = NativeRecords(0, k)
      /\ NativeRecords(0, k) \subseteq NativeRecords(0, silverFrom)
  <2>1. NativeRecords(0, silverFrom)' = NativeRecords(0, k)'
      BY <1>2 DEF NativeRecords, RowsIn
  <2>2. RowsIn(0, k) \subseteq RowsIn(0, silverFrom)
      BY <1>1, <1>2, RowsOfPrefix
  <2>3. NativeRecords(0, k)' = NativeRecords(0, k)
      BY <1>1, <1>2, RecordsStay
  <2>4. NativeRecords(0, k) \subseteq NativeRecords(0, silverFrom)
      BY <2>2 DEF NativeRecords
  <2> QED BY <2>1, <2>3, <2>4
<1>4. rows' = rows /\ quarantine' = quarantine
    BY DEF tables
<1>5. \A r : Held(r) => Held(r)'
    BY <1>4 DEF Held
<1>6. \A r \in NativeRecords(0, silverFrom)' : Held(r)'
    BY <1>3, <1>5 DEF Accounts
<1> QED BY <1>6 DEF Accounts, NoPlan, Writing

(* The Bronze job beside it, and maintenance outside of a batch.            *)
LEMMA AccountsBeside ==
    ASSUME IInv, Accounts, StreamOK', Grows, UNCHANGED <<tables, job>>
    PROVE  Accounts'
<1>1. /\ rows' = rows /\ quarantine' = quarantine /\ silverFrom' = silverFrom
      /\ silverTo' = silverTo /\ phase' = phase /\ turn' = turn /\ plan' = plan
    BY DEF tables, job
<1>2. /\ silverFrom \in Nat /\ silverTo \in Nat /\ StreamOK /\ silverTo <= Len(bronze)
      /\ silverFrom <= Len(bronze)
    BY DEF IInv, JobOK, StreamOK
<1>3. /\ NativeRecords(0, silverFrom)' = NativeRecords(0, silverFrom)
      /\ NativeRecords(silverFrom, silverTo)' = NativeRecords(silverFrom, silverTo)
  <2>1. PICK k \in Nat, m \in Nat : k = silverFrom /\ m = silverTo
      BY <1>2
  <2>2. /\ NativeRecords(0, silverFrom)' = NativeRecords(0, k)'
        /\ NativeRecords(silverFrom, silverTo)' = NativeRecords(k, m)'
      BY <1>1, <2>1 DEF NativeRecords, RowsIn
  <2>3. NativeRecords(0, k)' = NativeRecords(0, k) /\ NativeRecords(k, m)' = NativeRecords(k, m)
      BY <1>2, <2>1, RecordsStay
  <2> QED BY <2>1, <2>2, <2>3
<1>4. \A r : (Held(r)' <=> Held(r)) /\ (Pending(r)' <=> Pending(r))
    BY <1>1 DEF Held, Pending, Waiting
<1> QED BY <1>1, <1>3, <1>4 DEF Accounts

(* Steps that do not touch Bronze keep what was read from it.               *)
LEMMA RecordsKept ==
    ASSUME bronze' = bronze, silverFrom' = silverFrom, silverTo' = silverTo
    PROVE  /\ NativeRecords(0, silverFrom)' = NativeRecords(0, silverFrom)
           /\ NativeRecords(silverFrom, silverTo)' = NativeRecords(silverFrom, silverTo)
    BY DEF NativeRecords, RowsIn

LEMMA AccountsDecided ==
    ASSUME IInv, Accounts, DecideBatch
    PROVE  Accounts'
<1> DEFINE incoming == NativeRecords(silverFrom, silverTo)
           stored == Matches(rows, incoming)
           decided == NativePlan(quarantine, incoming, stored, ClosedSets(incoming \cup stored))
<1>1. /\ rows' = rows /\ quarantine' = quarantine /\ silverFrom' = silverFrom
      /\ silverTo' = silverTo /\ phase' = "merge" /\ turn' = 1 /\ bronze' = bronze
    BY DEF DecideBatch, tables, bronzeVars, stream, checkpoint
<1>2. plan' = decided
    BY DecisionIs
<1>3. Identified(incoming \cup stored) /\ Sourced(incoming) /\ stored \subseteq rows
    BY BatchIsIdentified DEF DecideBatch
<1>4. \A r \in incoming :
        \/ r.src \in DOMAIN decided.quarantine
        \/ \E s \in stored \cup decided.inserts : Group(s) = Group(r) /\ s.val = r.val
    BY <1>3, PlanAccounts
<1>5. \A s \in decided.inserts : s \in incoming /\ Normal(s)
    BY <1>3, InsertsAreUnblocked
<1>6. \A s \in decided.inserts : \E i \in 1..Len(Tables) : Tables[i] = s.table
  <2> SUFFICES ASSUME NEW s \in decided.inserts
        PROVE  \E i \in 1..Len(Tables) : Tables[i] = s.table
      OBVIOUS
  <2>1. RowsIn(silverFrom, silverTo) \in SUBSET Frame
      BY RowsAreFrames DEF IInv, JobOK
  <2>2. s \in RecordsOf(RowsIn(silverFrom, silverTo)) /\ Normal(s)
      BY <1>5 DEF NativeRecords, RecordsOf
  <2>3. s.table \in Range(Tables)
      BY <2>1, <2>2, RecordsAre DEF Rec, Normal
  <2> QED BY <2>3, SilverAssumption DEF Range
<1>7. \A s \in decided.inserts : \A t \in rows : Group(t) # Group(s)
  <2> SUFFICES ASSUME NEW s \in decided.inserts, NEW t \in rows, Group(t) = Group(s)
        PROVE  FALSE
      OBVIOUS
  <2>1. SharesKey(t, s) /\ s \in incoming
      BY <1>5, GroupShares
  <2>2. t \in stored
      BY <2>1 DEF Matches
  <2>3. Normal(t)
      BY DEF IInv, TablesOK
  <2> QED BY <1>3, <2>2, <2>3, InsertsAreNew
<1>8. \A d \in decided.deletes : d.src \in DOMAIN decided.quarantine
    BY <1>3, DeletesAreQuarantined
<1> HIDE DEF decided
<1>9. \A r \in incoming : Held(r)' \/ Pending(r)'
  <2> SUFFICES ASSUME NEW r \in incoming PROVE Held(r)' \/ Pending(r)'
      OBVIOUS
  <2>1. CASE r.src \in DOMAIN decided.quarantine
      BY <1>1, <1>2, <2>1 DEF Pending
  <2>2. CASE \E s \in stored : Group(s) = Group(r) /\ s.val = r.val
      BY <1>1, <1>3, <2>2 DEF Held
  <2>3. CASE \E s \in decided.inserts : Group(s) = Group(r) /\ s.val = r.val
      BY <1>1, <1>2, <1>6, <2>3 DEF Pending, Waiting
  <2> QED BY <1>4, <2>1, <2>2, <2>3
<1> HIDE DEF incoming, stored
<1>10. \A r : Held(r) => Held(r)'
    BY <1>1 DEF Held
<1>11. /\ NativeRecords(0, silverFrom)' = NativeRecords(0, silverFrom)
       /\ NativeRecords(silverFrom, silverTo)' = incoming
    BY <1>1, RecordsKept DEF incoming
<1> QED BY <1>1, <1>2, <1>7, <1>8, <1>9, <1>10, <1>11 DEF Accounts

LEMMA AccountsMerged ==
    ASSUME IInv, Accounts, MergeQuarantine
    PROVE  Accounts'
<1>1. /\ rows' = rows /\ quarantine' = Merged(quarantine, plan.quarantine)
      /\ phase = "merge" /\ phase' = "delete" /\ plan' = plan /\ turn' = turn
      /\ silverFrom' = silverFrom /\ silverTo' = silverTo /\ bronze' = bronze
    BY DEF MergeQuarantine, bronzeVars, stream, checkpoint
<1>2. /\ DOMAIN quarantine' = DOMAIN quarantine \cup DOMAIN plan.quarantine
      /\ KeysOf(quarantine') = KeysOf(quarantine) \cup KeysOf(plan.quarantine)
    BY <1>1, MergedKeys
<1>3. \A r : Held(r) => Held(r)'
    BY <1>1, <1>2, HeldGrows
<1>4. \A r : Pending(r) => Held(r)' \/ Pending(r)'
    BY <1>1, <1>2 DEF Held, Pending, Waiting
<1> QED BY <1>1, <1>2, <1>3, <1>4, RecordsKept DEF Accounts, Writing

LEMMA AccountsDeleted ==
    ASSUME IInv, Accounts, DeleteRows
    PROVE  Accounts'
<1>1. /\ rows' = {r \in rows : ~Deleted(r)} /\ quarantine' = quarantine
      /\ phase = "delete" /\ phase' = "insert" /\ plan' = plan /\ turn' = turn
      /\ silverFrom' = silverFrom /\ silverTo' = silverTo /\ bronze' = bronze
    BY DEF DeleteRows, bronzeVars, stream, checkpoint
<1>2. ASSUME NEW r, Held(r) PROVE Held(r)'
  <2>1. CASE r.src \in DOMAIN quarantine \/ BusinessTokens(r) \cap KeysOf(quarantine) # {}
      BY <1>1, <2>1 DEF Held
  <2>2. CASE \E s \in rows : Group(s) = Group(r) /\ s.val = r.val
    <3>1. PICK s \in rows : Group(s) = Group(r) /\ s.val = r.val
        BY <2>2
    <3>2. CASE ~Deleted(s)
        BY <1>1, <3>1, <3>2 DEF Held
    <3>3. CASE Deleted(s)
      <4>1. s \in plan.deletes
          BY <3>3, DeletedIs
      <4>2. BusinessTokens(s) \subseteq KeysOf(quarantine) /\ s.src \in DOMAIN quarantine
          BY <1>1, <4>1 DEF IInv, PlanOK, Accounts
      <4>3. s.src = r.src \/ (BusinessTokens(s) = BusinessTokens(r) /\ BusinessTokens(s) # {})
          BY <3>1, GroupShares
      <4> QED BY <1>1, <4>2, <4>3 DEF Held
    <3> QED BY <3>2, <3>3
  <2> QED BY <1>2, <2>1, <2>2 DEF Held
<1>3. \A r : Pending(r) => Pending(r)'
    BY <1>1 DEF Pending, Waiting
<1> QED BY <1>1, <1>2, <1>3, RecordsKept DEF Accounts, Writing

LEMMA AccountsInserted ==
    ASSUME IInv, Accounts, InsertRows
    PROVE  Accounts'
<1>1. /\ rows' = rows \cup {r \in plan.inserts : Inserted(r)} /\ quarantine' = quarantine
      /\ phase = "insert" /\ plan' = plan
      /\ silverFrom' = silverFrom /\ silverTo' = silverTo /\ bronze' = bronze
    BY DEF InsertRows, bronzeVars, stream, checkpoint
<1>2. \/ turn < Len(Tables) /\ turn' = turn + 1 /\ phase' = "delete"
      \/ ~(turn < Len(Tables)) /\ phase' = "commit" /\ turn' = turn
    BY DEF InsertRows
<1>3. turn \in Nat /\ turn <= Len(Tables) /\ Len(Tables) \in Nat
    BY SilverAssumption DEF IInv, JobOK
<1>4. \A r : Held(r) => Held(r)'
    BY <1>1 DEF Held
<1>5. ASSUME NEW s \in plan.inserts, s.table = Tables[turn]
      PROVE  s \in rows'
  <2>1. CASE \A t \in rows : Group(t) # Group(s)
      BY <1>1, <1>5, <2>1 DEF Inserted
  <2>2. CASE \E t \in rows : Group(t) = Group(s)
      BY <1>1, <2>2 DEF Accounts
  <2> QED BY <2>1, <2>2
<1>6. ASSUME NEW r, Pending(r) PROVE Held(r)' \/ Pending(r)'
  <2>1. PICK s \in plan.inserts : Group(s) = Group(r) /\ s.val = r.val /\ Waiting(s)
      BY <1>1, <1>6 DEF Pending
  <2>2. PICK i \in turn..Len(Tables) : Tables[i] = s.table
      BY <2>1 DEF Waiting
  <2>3. CASE i = turn
      BY <1>5, <2>1, <2>2, <2>3 DEF Held
  <2>4. CASE i # turn
    <3>1. turn < Len(Tables) /\ i \in (turn + 1)..Len(Tables)
        BY <1>3, <2>4
    <3>2. Waiting(s)'
        BY <1>2, <2>2, <3>1 DEF Waiting
    <3> QED BY <1>1, <2>1, <3>2 DEF Pending
  <2> QED BY <2>3, <2>4
<1>7. \A s \in plan.inserts : \A t \in rows' : Group(t) = Group(s) => t = s
    BY <1>1 DEF IInv, PlanOK, Accounts
<1>8. \A d \in plan.deletes : d.src \in DOMAIN quarantine
    BY <1>1 DEF Accounts
<1>9. \A r \in NativeRecords(silverFrom, silverTo) : Held(r)' \/ Pending(r)'
    BY <1>1, <1>4, <1>6 DEF Accounts, Writing
<1>10. phase' \in {"delete", "commit"}
    BY <1>2
<1> QED BY <1>1, <1>4, <1>7, <1>8, <1>9, <1>10, RecordsKept DEF Accounts

LEMMA AccountsCommitted ==
    ASSUME IInv, Accounts, CommitSilver
    PROVE  Accounts'
<1>1. /\ rows' = rows /\ quarantine' = quarantine /\ silverFrom' = silverTo
      /\ phase = "commit" /\ phase' = "idle" /\ plan' = NoPlan /\ bronze' = bronze
    BY DEF CommitSilver, tables, bronzeVars, stream, checkpoint
<1>2. \A r \in NativeRecords(silverFrom, silverTo) : Held(r)
    BY <1>1 DEF Accounts, Pending, Waiting, Writing
<1>3. NativeRecords(0, silverFrom)' = NativeRecords(0, silverTo)
    BY <1>1 DEF NativeRecords, RowsIn
<1>4. NativeRecords(0, silverTo)
      \subseteq NativeRecords(0, silverFrom) \cup NativeRecords(silverFrom, silverTo)
  <2>1. silverFrom \in Nat /\ silverTo \in Nat
      BY DEF IInv, JobOK
  <2>2. RowsIn(0, silverTo) \subseteq RowsIn(0, silverFrom) \cup RowsIn(silverFrom, silverTo)
      BY <2>1 DEF RowsIn
  <2> QED BY <2>2 DEF NativeRecords
<1>5. \A r : Held(r) => Held(r)'
    BY <1>1 DEF Held
<1>6. \A r \in NativeRecords(0, silverFrom)' : Held(r)'
    BY <1>2, <1>3, <1>4, <1>5 DEF Accounts
<1> QED BY <1>1, <1>6 DEF Accounts, NoPlan, Writing

LEMMA AccountsStep == IInv /\ IInv' /\ Accounts /\ [Next]_vars => Accounts'
<1> SUFFICES ASSUME IInv, IInv', Accounts, [Next]_vars PROVE Accounts'
    OBVIOUS
<1>1. /\ StreamOK /\ StreamOK' /\ JobOK /\ silverFrom \in Nat /\ silverFrom' \in Nat
      /\ silverTo \in Nat /\ Len(bronze) \in Nat
    BY DEF IInv, JobOK, StreamOK
<1>2. CASE BronzeNext /\ UNCHANGED silverVars
    BY <1>1, <1>2, BronzeKeeps, AccountsBeside DEF silverVars
<1>3. ASSUME UNCHANGED bronze PROVE Grows
    BY <1>1, <1>3 DEF Grows
<1>4. CASE PlanSilver \/ CrashSilver \/ StartSilverOver \/ (SetRetention /\ phase \in Writing)
  <2>1. UNCHANGED bronze /\ UNCHANGED tables
      BY <1>4 DEF PlanSilver, CrashSilver, StartSilverOver, SetRetention, bronzeVars,
                 stream, checkpoint, tables
  <2>2. phase' \in {"idle", "planned"} /\ silverFrom' <= silverFrom
      BY <1>1, <1>4 DEF PlanSilver, CrashSilver, StartSilverOver, SetRetention, Restarted
  <2>3. plan' = NoPlan
      BY <1>1, <1>4 DEF PlanSilver, CrashSilver, StartSilverOver, SetRetention, Restarted,
                        JobOK, Writing
  <2> QED BY <1>1, <1>3, <2>1, <2>2, <2>3, AccountsDropped DEF Writing
<1>5. CASE DecideBatch
    BY <1>5, AccountsDecided
<1>6. CASE MergeQuarantine
    BY <1>6, AccountsMerged
<1>7. CASE DeleteRows
    BY <1>7, AccountsDeleted
<1>8. CASE InsertRows
    BY <1>8, AccountsInserted
<1>9. CASE CommitSilver
    BY <1>9, AccountsCommitted
<1>10. CASE UNCHANGED vars \/ (SetRetention /\ phase \notin Writing)
  <2>1. UNCHANGED bronze /\ UNCHANGED <<tables, job>>
      BY <1>10 DEF vars, bronzeVars, stream, checkpoint, silverVars, SetRetention
  <2> QED BY <1>1, <1>3, <2>1, AccountsBeside
<1> QED BY <1>2, <1>4, <1>5, <1>6, <1>7, <1>8, <1>9, <1>10 DEF Next, SilverStep, Maintain

(* No record is lost, not even while a batch is half applied: what was      *)
(* applied once is a row or equals the row of its group, or it is in        *)
(* quarantine, or its business key is (apply_changes, write_batch).         *)
THEOREM NoRecordIsLost == Spec => []NothingLost
<1>1. IInv /\ Accounts => NothingLost
  <2> SUFFICES ASSUME IInv, Accounts, NEW r \in Applied
        PROVE  \/ \E s \in rows : Group(s) = Group(r) /\ s.val = r.val
               \/ r.src \in DOMAIN quarantine
               \/ BusinessTokens(r) \cap QuarantinedKeys # {}
      BY DEF NothingLost
  <2>1. 0 \in Nat /\ silverFrom \in Nat /\ silverFrom <= Len(bronze) /\ StreamOK
      BY DEF IInv, JobOK, StreamOK
  <2>2. RowsIn(0, silverFrom) \subseteq Frame
      BY <2>1, RowsAreFrames
  <2>3. NativeRecords(0, silverFrom) = Records(0, silverFrom)
      BY <2>2, FramesParseAlike DEF NativeRecords, Records
  <2>4. Held(r)
      BY <2>3 DEF Accounts, Applied
  <2> QED BY <2>4, QuarantinedKeysAre DEF Held
<1>2. Init => Accounts
    BY AccountsInit
<1>3. IInv /\ IInv' /\ Accounts /\ [Next]_vars => Accounts'
    BY AccountsStep
<1> QED BY <1>1, <1>2, <1>3, Invariant, PTL DEF Spec

(* Every variable keeps its type; in particular every row and every planned *)
(* row is an event with a source key that some frame can have.              *)
THEOREM TypesHold == Spec => []TypeOK
<1>1. IInv => TypeOK
  <2> SUFFICES ASSUME IInv PROVE TypeOK
      OBVIOUS
  <2>1. PICK m \in Nat : ReadFrom(m)
      BY DEF IInv, TablesOK
  <2>2. RowsIn(0, m) \in SUBSET Frame
      BY <2>1, RowsAreFrames DEF IInv, ReadFrom
  <2>3. \A r \in rows \cup plan.inserts \cup plan.deletes : r \in Rec
      BY <2>1, <2>2, RecordsAre DEF ReadFrom
  <2>4. \A r \in rows \cup plan.inserts : Normal(r)
      BY DEF IInv, TablesOK
  <2>5. rows \subseteq {r \in Rec : Normal(r)} /\ plan.inserts \subseteq {r \in Rec : Normal(r)}
        /\ plan.deletes \subseteq Rec
      BY <2>3, <2>4
  <2>6. bronze \in Seq(SUBSET [offset : 1..MaxOffset, payload : Payloads])
      BY DEF IInv, StreamOK, Frame
  <2>7. DOMAIN quarantine \subseteq (1..MaxOffset) \X Nat
      BY DEF IInv, TablesOK
  <2>8. /\ topic \in Seq(Payloads)
        /\ 0 <= kafkaStart /\ kafkaStart <= kafkaFrom
        /\ kafkaFrom <= kafkaTo /\ kafkaTo <= Len(topic)
      BY DEF IInv, StreamOK
  <2>9. /\ started \in BOOLEAN /\ appended \in BOOLEAN
        /\ faults \in 0..MaxFaults /\ lost \in 0..faults
      BY DEF IInv, StreamOK
  <2>10. /\ 0 <= silverFrom /\ silverFrom <= silverTo /\ silverTo <= Len(bronze)
         /\ phase \in {"idle", "planned"} \cup Writing /\ turn \in DOMAIN Tables
         /\ retention \in {"default", "maintained"}
      BY DEF IInv, JobOK
  <2> QED BY <2>5, <2>6, <2>7, <2>8, <2>9, <2>10 DEF TypeOK
<1> QED BY <1>1, Invariant, PTL

-----------------------------------------------------------------------------
(* Bronze.  A query has appended the frames between the offset it began at  *)
(* and Done, each of them once.  A query before it, whose checkpoint was    *)
(* lost, may have appended a frame too, and there were as many of those as  *)
(* checkpoints that were lost.                                              *)

Copies(f) == {i \in DOMAIN bronze : f \in bronze[i]}
FrameAt(o) == [offset |-> o, payload |-> topic[o]]
Done == IF appended THEN kafkaTo ELSE kafkaFrom
Allowance(o) == IF kafkaStart < o /\ o <= Done THEN lost + 1 ELSE lost

CopiesOK == \A f \in Frame : Cardinality(Copies(f)) <= Allowance(f.offset)

AppendedOK ==
    /\ \A i \in DOMAIN bronze : \A f \in bronze[i] : Kept(f.payload)
    /\ \A o \in (kafkaStart + 1)..Done : Kept(topic[o]) => Copies(FrameAt(o)) # {}

BronzeOK == CopiesOK /\ AppendedOK

LEMMA CopiesAreFew ==
    ASSUME StreamOK, NEW f
    PROVE  IsFiniteSet(Copies(f)) /\ Cardinality(Copies(f)) \in Nat
<1>1. DOMAIN bronze = 1..Len(bronze) /\ Len(bronze) \in Nat
    BY DEF StreamOK
<1>2. IsFiniteSet(1..Len(bronze))
    BY <1>1, FS_Interval
<1>3. Copies(f) \in SUBSET (1..Len(bronze))
    BY <1>1 DEF Copies
<1>4. IsFiniteSet(Copies(f))
    BY <1>2, <1>3, FS_Subset
<1> QED BY <1>4, FS_CardinalityType

LEMMA OffsetsAre ==
    ASSUME StreamOK
    PROVE  /\ kafkaStart \in Nat /\ kafkaFrom \in Nat /\ kafkaTo \in Nat /\ Done \in Nat
           /\ kafkaStart <= kafkaFrom /\ kafkaFrom <= Done /\ Done <= Len(topic)
           /\ faults \in Nat /\ lost \in Nat
           /\ ~started => Done = kafkaStart
           /\ \A o \in 1..Len(topic) : FrameAt(o) \in Frame
<1>1. /\ kafkaStart \in Nat /\ kafkaFrom \in Nat /\ kafkaTo \in Nat
      /\ kafkaStart <= kafkaFrom /\ kafkaFrom <= kafkaTo
      /\ ~started => kafkaTo = kafkaStart
      /\ kafkaTo <= Len(topic) /\ Len(topic) \in Nat /\ Len(topic) <= MaxOffset
      /\ MaxOffset \in Nat /\ MaxFaults \in Nat
    BY SilverAssumption DEF StreamOK, MaxOffset
<1>2. faults \in Nat /\ lost \in Nat
    BY <1>1 DEF StreamOK
<1>3. Done \in Nat /\ Done <= Len(topic) /\ kafkaFrom <= Done /\ (~started => Done = kafkaStart)
    BY <1>1 DEF Done
<1>4. \A o \in 1..Len(topic) : topic[o] \in Payloads /\ o \in 1..MaxOffset
    BY <1>1 DEF StreamOK
<1>5. \A o \in 1..Len(topic) : FrameAt(o) \in Frame
    BY <1>4 DEF FrameAt, Frame
<1> QED BY <1>1, <1>2, <1>3, <1>5

LEMMA BronzeInitComplete == Init => BronzeOK
<1> SUFFICES ASSUME Init PROVE BronzeOK
    OBVIOUS
<1>1. DOMAIN bronze = {} /\ Done = 0 /\ kafkaStart = 0 /\ lost = 0
    BY DEF Init, BronzeInit, Done
<1>2. \A f : Copies(f) = {}
    BY <1>1 DEF Copies
<1>3. CopiesOK
  <2> SUFFICES ASSUME NEW f \in Frame
        PROVE  Cardinality(Copies(f)) <= Allowance(f.offset)
      BY DEF CopiesOK
  <2>1. Cardinality(Copies(f)) = 0
      BY <1>2, FS_EmptySet
  <2>2. Allowance(f.offset) \in {0, 1}
      BY <1>1 DEF Allowance
  <2> QED BY <2>1, <2>2
<1>4. AppendedOK
    BY <1>1 DEF AppendedOK
<1> QED BY <1>3, <1>4 DEF BronzeOK

(* A step that appends nothing, keeps the frames that the query has read or *)
(* forgets that it has read them, and allows no fewer copies.               *)
LEMMA BronzeStays ==
    ASSUME BronzeOK, StreamOK, StreamOK', bronze' = bronze,
           \A o \in Nat : Allowance(o) <= Allowance(o)',
           \A o \in (kafkaStart' + 1)..Done' :
               o \in (kafkaStart + 1)..Done /\ topic'[o] = topic[o]
    PROVE  BronzeOK'
<1>1. CopiesOK'
  <2> SUFFICES ASSUME NEW f \in Frame
        PROVE  Cardinality(Copies(f)') <= Allowance(f.offset)'
      BY DEF CopiesOK, Frame, Copies
  <2>1. Copies(f)' = Copies(f) /\ Cardinality(Copies(f)) <= Allowance(f.offset)
      BY DEF Copies, BronzeOK, CopiesOK
  <2>2. f.offset \in Nat /\ Cardinality(Copies(f)) \in Nat
      BY CopiesAreFew DEF Frame
  <2>3. Allowance(f.offset) <= Allowance(f.offset)'
      BY <2>2
  <2>4. Allowance(f.offset) \in Nat
      BY OffsetsAre DEF Allowance
  <2>5. Allowance(f.offset)' \in Nat
    <3>1. faults' \in Nat
        BY SilverAssumption DEF StreamOK
    <3>2. lost' \in 0..faults'
        BY DEF StreamOK
    <3>3. lost' \in Nat
        BY <3>1, <3>2
    <3>4. Allowance(f.offset)' = lost' \/ Allowance(f.offset)' = lost' + 1
        BY DEF Allowance
    <3> QED BY <3>3, <3>4
  <2> QED BY <2>1, <2>2, <2>3, <2>4, <2>5
<1>2. AppendedOK'
  <2>1. ASSUME NEW o \in (kafkaStart' + 1)..Done', Kept(topic'[o])
        PROVE  Copies(FrameAt(o))' # {}
    <3>1. o \in (kafkaStart + 1)..Done /\ FrameAt(o)' = FrameAt(o) /\ Kept(topic[o])
        BY <2>1 DEF FrameAt
    <3>2. Copies(FrameAt(o)) # {}
        BY <3>1 DEF BronzeOK, AppendedOK
    <3> QED BY <3>1, <3>2 DEF Copies
  <2>2. \A i \in DOMAIN bronze' : \A f \in bronze'[i] : Kept(f.payload)
      BY DEF BronzeOK, AppendedOK
  <2> QED BY <2>1, <2>2 DEF AppendedOK
<1> QED BY <1>1, <1>2 DEF BronzeOK

(* An append brings one copy of the frames of its batch, and the query had  *)
(* none of them before.                                                     *)
LEMMA AppendBrings ==
    ASSUME StreamOK, StreamOK', BronzeOK, AppendBronze
    PROVE  BronzeOK'
<1> DEFINE batch == Batch(kafkaFrom, kafkaTo)
           last == Len(bronze) + 1
<1>1. /\ kafkaTo > kafkaFrom /\ ~appended /\ appended' = TRUE
      /\ UNCHANGED <<topic, kafkaStart, kafkaFrom, kafkaTo, lost>>
      /\ bronze' = IF batch = {} THEN bronze ELSE Append(bronze, batch)
    BY DEF AppendBronze, Appended
<1>2. /\ Done = kafkaFrom /\ Done' = kafkaTo /\ lost \in Nat /\ kafkaStart <= kafkaFrom
      /\ kafkaStart \in Nat /\ kafkaFrom \in Nat /\ kafkaTo \in Nat
    BY <1>1, OffsetsAre DEF Done
<1>3. \A f \in batch : f.offset \in (kafkaFrom + 1)..kafkaTo /\ Kept(f.payload)
    BY DEF Batch
<1>4. \A o \in (kafkaFrom + 1)..kafkaTo : Kept(topic[o]) => FrameAt(o) \in batch
    BY DEF Batch, FrameAt
<1> HIDE DEF batch
<1>5. /\ DOMAIN bronze = 1..Len(bronze) /\ Len(bronze) \in Nat
      /\ batch = {} => bronze' = bronze
      /\ batch # {} => /\ DOMAIN bronze' = 1..last /\ bronze'[last] = batch
                       /\ \A i \in DOMAIN bronze : bronze'[i] = bronze[i]
  <2>1. bronze \in Seq(SUBSET Frame)
      BY DEF StreamOK
  <2> QED BY <1>1, <2>1
<1>6. \A f : Copies(f)' = IF f \in batch THEN Copies(f) \cup {last} ELSE Copies(f)
  <2> SUFFICES ASSUME NEW f
        PROVE  Copies(f)' = IF f \in batch THEN Copies(f) \cup {last} ELSE Copies(f)
      OBVIOUS
  <2>1. CASE batch = {}
      BY <1>5, <2>1 DEF Copies
  <2>2. CASE batch # {}
      BY <1>5, <2>2 DEF Copies
  <2> QED BY <2>1, <2>2
<1>7. CopiesOK'
  <2> SUFFICES ASSUME NEW f \in Frame
        PROVE  Cardinality(Copies(f)') <= Allowance(f.offset)'
      BY DEF CopiesOK, Frame, Copies
  <2>1. f.offset \in Nat /\ IsFiniteSet(Copies(f)) /\ Cardinality(Copies(f)) \in Nat
      BY CopiesAreFew DEF Frame
  <2>2. Cardinality(Copies(f)) <= Allowance(f.offset)
      BY DEF BronzeOK, CopiesOK
  <2>3. CASE f \in batch
    <3>1. ~(f.offset <= Done) /\ kafkaStart < f.offset /\ f.offset <= Done'
        BY <1>2, <1>3, <2>1, <2>3
    <3>2. Copies(f)' = Copies(f) \cup {last}
        BY <1>6, <2>3
    <3>3. Cardinality(Copies(f) \cup {last}) <= Cardinality(Copies(f)) + 1
      <4>1. Cardinality(Copies(f) \cup {last}) =
              IF last \in Copies(f) THEN Cardinality(Copies(f)) ELSE Cardinality(Copies(f)) + 1
          BY <2>1, FS_AddElement
      <4> QED BY <2>1, <4>1
    <3>4. Allowance(f.offset) = lost /\ Allowance(f.offset)' = lost + 1
        BY <1>1, <3>1 DEF Allowance
    <3>5. Cardinality(Copies(f) \cup {last}) \in Nat
        BY <2>1, FS_AddElement, FS_CardinalityType
    <3> QED BY <1>2, <2>1, <2>2, <3>2, <3>3, <3>4, <3>5
  <2>4. CASE f \notin batch
    <3>1. Copies(f)' = Copies(f)
        BY <1>6, <2>4
    <3>2. Allowance(f.offset) <= Allowance(f.offset)' /\ Allowance(f.offset) \in Nat
          /\ Allowance(f.offset)' \in Nat
        BY <1>1, <1>2, <2>1 DEF Allowance
    <3> QED BY <2>1, <2>2, <3>1, <3>2
  <2> QED BY <2>3, <2>4
<1>8. AppendedOK'
  <2>1. ASSUME NEW o \in (kafkaStart' + 1)..Done', Kept(topic'[o])
        PROVE  Copies(FrameAt(o))' # {}
    <3>1. FrameAt(o)' = FrameAt(o) /\ Kept(topic[o])
        BY <1>1, <2>1 DEF FrameAt
    <3>2. PICK f : f = FrameAt(o)
        OBVIOUS
    <3>3. Copies(FrameAt(o))' = Copies(f)'
        BY <3>1, <3>2 DEF Copies
    <3>4. CASE o <= Done
      <4>1. Copies(f) # {}
          BY <1>1, <1>2, <2>1, <3>1, <3>2, <3>4 DEF BronzeOK, AppendedOK
      <4> QED BY <1>6, <3>3, <4>1
    <3>5. CASE ~(o <= Done)
      <4>1. f \in batch
          BY <1>1, <1>2, <1>4, <2>1, <3>1, <3>2, <3>5
      <4> QED BY <1>6, <3>3, <4>1
    <3> QED BY <3>4, <3>5
  <2>2. ASSUME NEW i \in DOMAIN bronze', NEW f \in bronze'[i]
        PROVE  Kept(f.payload)
    <3>1. i \in Copies(f)'
        BY <2>2 DEF Copies
    <3>2. CASE f \in batch
        BY <1>3, <3>2
    <3>3. CASE f \notin batch
      <4>1. i \in Copies(f)
          BY <1>6, <3>1, <3>3
      <4> QED BY <4>1 DEF Copies, BronzeOK, AppendedOK
    <3> QED BY <3>2, <3>3
  <2> QED BY <2>1, <2>2 DEF AppendedOK
<1> QED BY <1>7, <1>8 DEF BronzeOK

LEMMA BronzeStepComplete == StreamOK /\ StreamOK' /\ BronzeOK /\ [Next]_vars => BronzeOK'
<1> SUFFICES ASSUME StreamOK, StreamOK', BronzeOK, [Next]_vars PROVE BronzeOK'
    OBVIOUS
<1>0. /\ kafkaStart \in Nat /\ Done \in Nat /\ Done <= Len(topic) /\ lost \in Nat
      /\ ~started => Done = kafkaStart
    BY OffsetsAre
<1>1. ASSUME bronze' = bronze, lost' = lost, kafkaStart' = kafkaStart, Done' = Done,
             \A o \in 1..Done : topic'[o] = topic[o]
      PROVE  BronzeOK'
  <2>1. \A o \in Nat : Allowance(o)' = Allowance(o) /\ Allowance(o) \in Nat
      BY <1>0, <1>1 DEF Allowance
  <2>2. \A o \in Nat : Allowance(o) <= Allowance(o)'
      BY <2>1
  <2>3. \A o \in (kafkaStart' + 1)..Done' :
            o \in (kafkaStart + 1)..Done /\ topic'[o] = topic[o]
      BY <1>0, <1>1
  <2> QED BY <1>1, <2>2, <2>3, BronzeStays
<1>2. ASSUME NEW payload \in Payloads, Publish(payload)
      PROVE  BronzeOK'
  <2>1. \A o \in 1..Done : topic'[o] = topic[o]
      BY <1>0, <1>2 DEF Publish, StreamOK
  <2>2. bronze' = bronze /\ lost' = lost /\ kafkaStart' = kafkaStart /\ Done' = Done
      BY <1>2 DEF Publish, checkpoint, Done
  <2> QED BY <1>1, <2>1, <2>2
<1>3. CASE StartQuery
  <2>1. bronze' = bronze /\ lost' = lost /\ Done' = kafkaStart' /\ ~started
      BY <1>3 DEF StartQuery, Done
  <2>2. kafkaStart' \in Nat
      BY DEF StreamOK
  <2>3. \A o \in Nat : Allowance(o) = lost /\ Allowance(o)' = lost
      BY <1>0, <2>1, <2>2 DEF Allowance
  <2>4. \A o \in Nat : Allowance(o) <= Allowance(o)'
      BY <1>0, <2>3
  <2>5. \A k \in Nat : \A o \in (k + 1)..k : FALSE
      OBVIOUS
  <2>6. (kafkaStart' + 1)..Done' = (kafkaStart' + 1)..kafkaStart'
      BY <2>1
  <2>7. \A o \in (kafkaStart' + 1)..Done' : FALSE
      BY <2>2, <2>5, <2>6
  <2> QED BY <2>1, <2>4, <2>7, BronzeStays
<1>4. CASE PlanBronze \/ CommitBronze
    BY <1>1, <1>4 DEF PlanBronze, CommitBronze, Done
<1>5. CASE AppendBronze
    BY <1>5, AppendBrings
<1>6. CASE LoseCheckpoint
  <2>1. bronze' = bronze /\ lost' = lost + 1 /\ kafkaStart' = 0 /\ Done' = 0
      BY <1>6 DEF LoseCheckpoint, NoCheckpoint, Done
  <2>2. \A o \in Nat : Allowance(o) \in {lost, lost + 1} /\ Allowance(o)' = lost + 1
      BY <2>1 DEF Allowance
  <2>3. \A o \in Nat : Allowance(o) <= Allowance(o)'
      BY <1>0, <2>2
  <2>4. \A o \in (kafkaStart' + 1)..Done' : FALSE
      BY <2>1
  <2> QED BY <2>1, <2>3, <2>4, BronzeStays
<1>7. CASE UNCHANGED stream
    BY <1>1, <1>7 DEF stream, checkpoint, Done
<1>8. CrashSilver \/ StartSilverOver \/ SilverStep \/ Maintain \/ UNCHANGED vars
      => UNCHANGED stream
    BY DEF CrashSilver, StartSilverOver, SilverStep, Maintain, PlanSilver, DecideBatch,
           MergeQuarantine, DeleteRows, InsertRows, CommitSilver, SetRetention, bronzeVars, vars
<1> QED BY <1>2, <1>3, <1>4, <1>5, <1>6, <1>7, <1>8 DEF Next, BronzeNext

(* From the offset at which the query began up to its checkpoint, Bronze    *)
(* holds every frame of the topic but the connection responses; a frame is  *)
(* there once for this query, if that has got to it, and at most once more  *)
(* for each checkpoint that was lost (create_stage_df,                      *)
(* create_streaming_query, transform_raw_messages).                         *)
THEOREM BronzeHoldsTheTopic == Spec => []BronzeIsComplete
<1>1. IInv /\ BronzeOK => BronzeIsComplete
  <2> SUFFICES ASSUME IInv, BronzeOK, NEW o \in DOMAIN topic
        PROVE  /\ o \in (kafkaStart + 1)..Done /\ Kept(topic[o]) => Copies(FrameAt(o)) # {}
               /\ Copies(FrameAt(o)) # {} => Kept(topic[o])
               /\ Cardinality(Copies(FrameAt(o)))
                  <= lost + (IF o \in (kafkaStart + 1)..Done THEN 1 ELSE 0)
      BY DEF BronzeIsComplete, CopiesOf, ReadUpTo, Copies, FrameAt, Done
  <2>1. kafkaStart \in Nat /\ Done \in Nat /\ lost \in Nat
      BY OffsetsAre DEF IInv
  <2>2. o \in Nat /\ FrameAt(o) \in Frame
    <3>1. DOMAIN topic = 1..Len(topic)
        BY DEF IInv, StreamOK
    <3> QED BY <3>1, OffsetsAre DEF IInv
  <2>3. FrameAt(o).offset = o /\ FrameAt(o).payload = topic[o]
      BY DEF FrameAt
  <2>4. o \in (kafkaStart + 1)..Done /\ Kept(topic[o]) => Copies(FrameAt(o)) # {}
      BY DEF BronzeOK, AppendedOK
  <2>5. Copies(FrameAt(o)) # {} => Kept(topic[o])
      BY <2>3 DEF BronzeOK, AppendedOK, Copies
  <2>6. Allowance(o) = lost + (IF o \in (kafkaStart + 1)..Done THEN 1 ELSE 0)
      BY <2>1, <2>2 DEF Allowance
  <2>7. Cardinality(Copies(FrameAt(o))) <= Allowance(o)
      BY <2>2, <2>3 DEF BronzeOK, CopiesOK
  <2> QED BY <2>4, <2>5, <2>6, <2>7
<1>2. Init => BronzeOK
    BY BronzeInitComplete
<1>3. IInv /\ IInv' /\ BronzeOK /\ [Next]_vars => BronzeOK'
    BY BronzeStepComplete DEF IInv
<1> QED BY <1>1, <1>2, <1>3, Invariant, PTL DEF Spec

-----------------------------------------------------------------------------
(* The tables are a function of what was applied.  Known is what Silver can *)
(* have read: up to the planned end of the batch, or up to the checkpoint,  *)
(* or, after the checkpoint was lost, all of Bronze.                        *)

Mark == IF phase # "idle" THEN silverTo ELSE IF silverFrom > 0 THEN silverFrom ELSE Len(bronze)
Known == NativeRecords(0, Mark)

(* Rows and quarantine rest on what is known, and on nothing else.          *)
Sound ==
    /\ rows \cup plan.inserts \cup plan.deletes \subseteq Known
    /\ Explained(quarantine, Known)
    /\ phase = "merge" => Explained(plan.quarantine, Known)

(* Every dispute in what was applied is in quarantine, and one that the     *)
(* batch adds is there from the merge on.                                   *)
Seen ==
    /\ ConflictsWithin(NativeRecords(0, silverFrom)) \subseteq KeysOf(quarantine)
    /\ phase = "merge" => ConflictsWithin(Known) \subseteq KeysOf(quarantine) \cup KeysOf(plan.quarantine)
    /\ phase \in {"delete", "insert", "commit"} => ConflictsWithin(Known) \subseteq KeysOf(quarantine)

(* A row whose key is in quarantine is one that the batch is going to       *)
(* delete, now or when it is run again.                                     *)
Blamed(r) == BusinessTokens(r) \cap KeysOf(quarantine) # {}
ToBlame(r) == BusinessTokens(r) \cap (KeysOf(quarantine) \cup KeysOf(plan.quarantine)) # {}
Named(r) == \E s \in NativeRecords(silverFrom, silverTo) : BusinessTokens(s) = BusinessTokens(r)
ToDelete(r) ==
    /\ r \in plan.deletes
    /\ \E i \in (IF phase = "insert" THEN turn + 1 ELSE turn)..Len(Tables) : Tables[i] = r.table

Cleared ==
    \A r \in rows :
        /\ Blamed(r) => /\ phase = "idle" => silverFrom = 0
                        /\ phase # "idle" => Named(r)
                        /\ phase \in {"delete", "insert", "commit"} => phase # "commit" /\ ToDelete(r)
        /\ phase = "merge" /\ ToBlame(r) => Named(r) /\ ToDelete(r)

OrderInv == Sound /\ Seen /\ Cleared

LEMMA MarkIs ==
    ASSUME StreamOK, JobOK
    PROVE  /\ Mark \in Nat /\ Mark <= Len(bronze)
           /\ silverFrom \in Nat /\ silverTo \in Nat /\ Len(bronze) \in Nat
           /\ silverFrom <= Mark /\ silverFrom <= silverTo /\ silverTo <= Len(bronze)
    BY DEF StreamOK, JobOK, Mark

(* What is known grows with the mark and with Bronze.                       *)
LEMMA KnownGrows ==
    ASSUME StreamOK, JobOK, Grows, NEW k \in Nat, NEW n \in Nat, k <= n, k <= Len(bronze)
    PROVE  NativeRecords(0, k) \subseteq NativeRecords(0, n)'
<1>1. NativeRecords(0, k)' = NativeRecords(0, k)
    BY RecordsStay
<1>2. NativeRecords(0, k)' \subseteq NativeRecords(0, n)'
    BY DEF NativeRecords, RowsIn
<1> QED BY <1>1, <1>2

(* A batch that starts over reads what is known anew.                       *)
LEMMA KnownIs ==
    ASSUME StreamOK, JobOK
    PROVE  /\ NativeRecords(0, silverTo)
              = NativeRecords(0, silverFrom) \cup NativeRecords(silverFrom, silverTo)
           /\ NativeRecords(0, silverFrom) \subseteq Known
           /\ \A r \in Known : r \in Rec
<1>1. /\ silverFrom \in Nat /\ silverTo \in Nat /\ silverFrom <= silverTo
      /\ Mark \in Nat /\ Mark <= Len(bronze) /\ silverFrom <= Mark
    BY MarkIs
<1>2. RowsIn(0, silverTo) = RowsIn(0, silverFrom) \cup RowsIn(silverFrom, silverTo)
    BY <1>1 DEF RowsIn
<1>3. NativeRecords(0, silverTo)
      = NativeRecords(0, silverFrom) \cup NativeRecords(silverFrom, silverTo)
    BY <1>2 DEF NativeRecords
<1>4. NativeRecords(0, silverFrom) \subseteq Known
    BY <1>1, RowsOfPrefix DEF NativeRecords, Known
<1>5. RowsIn(0, Mark) \in SUBSET Frame
    BY <1>1, RowsAreFrames
<1>6. Known = RecordsOf(RowsIn(0, Mark))
    BY DEF Known, NativeRecords, RecordsOf
<1> QED BY <1>3, <1>4, <1>5, <1>6, RecordsAre

(* Records of the parser that are no events have no key.                    *)
LEMMA KnownIsKeyless ==
    ASSUME StreamOK, JobOK
    PROVE  Keyless(Known)
<1> SUFFICES ASSUME NEW r \in Known, ~Normal(r) PROVE BusinessTokens(r) = {}
    BY DEF Keyless
<1>1. Mark \in Nat /\ Mark <= Len(bronze)
    BY MarkIs
<1>2. RowsIn(0, Mark) \subseteq Frame
    BY <1>1, RowsAreFrames
<1>3. PICK f \in Frame : r \in NativeParse(f.offset, f.payload)
    BY <1>2 DEF Known, NativeRecords
<1> DEFINE payload == f.payload
<1>4. PICK i \in Positions(payload) :
        r = IF EarlyError(payload, i) \/ ~Piece(payload, i).valid
            THEN Quarantined(f.offset, i) ELSE Row(f.offset, i, Piece(payload, i))
    BY <1>3 DEF NativeParse
<1>5. CASE r = Quarantined(f.offset, i)
    BY <1>5 DEF Quarantined, BusinessTokens
<1>6. CASE r # Quarantined(f.offset, i)
  <2> DEFINE item == Piece(payload, i)
  <2>1. item.valid /\ r = Row(f.offset, i, item)
      BY <1>4, <1>6
  <2>2. payload.shape = "items"
      BY <2>1 DEF Piece, AnyPiece
  <2>3. payload.items \in Seq(Items)
      BY SilverAssumption DEF Frame
  <2>4. item \in Items
      BY <2>2, <2>3 DEF Piece, Positions
  <2>5. item.table \in Range(Tables)
      BY <2>1, <2>4, SilverAssumption
  <2>6. r.table = item.table
      BY <2>1 DEF Row
  <2> QED BY <2>5, <2>6, SilverAssumption DEF Normal
<1> QED BY <1>5, <1>6

(* What is known has one record per source key once its batch is checked.   *)
LEMMA KnownIsIdentified ==
    ASSUME IInv, NEW n \in Nat,
           \/ n = silverFrom
           \/ n = silverTo /\ phase \in Writing
           \/ n = silverTo /\ phase = "planned" /\ Unambiguous(silverFrom, silverTo)
    PROVE  Identified(NativeRecords(0, n))
<1>0. StreamOK /\ JobOK
    BY DEF IInv
<1>1. silverFrom \in Nat /\ silverTo \in Nat /\ silverFrom <= silverTo /\ silverTo <= Len(bronze)
    BY <1>0, MarkIs
<1>2. PICK m \in Nat : n <= m /\ m <= Len(bronze) /\ Agree(RowsIn(0, m), RowsIn(0, m))
  <2>1. PICK k \in Nat : ReadFrom(k)
      BY DEF IInv, TablesOK
  <2>2. CASE n = silverFrom \/ (n = silverTo /\ phase \in Writing)
      BY <2>1, <2>2 DEF ReadFrom
  <2>3. CASE n = silverTo /\ phase = "planned" /\ Unambiguous(silverFrom, silverTo)
      BY <2>3, BatchExtends
  <2> QED BY <2>2, <2>3
<1>3. RowsIn(0, n) \subseteq RowsIn(0, m)
    BY <1>2, RowsOfPrefix
<1>4. Agree(RowsIn(0, n), RowsIn(0, n))
    BY <1>2, <1>3 DEF Agree
<1>5. RowsIn(0, n) \in SUBSET Frame
    BY <1>0, <1>1, RowsAreFrames
<1>6. NativeRecords(0, n) = RecordsOf(RowsIn(0, n))
    BY DEF NativeRecords, RecordsOf
<1> QED BY <1>4, <1>5, <1>6, AgreedAreIdentified

LEMMA MergedIsExplained ==
    ASSUME NEW old, NEW new, NEW recs, Explained(old, recs), Explained(new, recs)
    PROVE  Explained(Merged(old, new), recs)
<1> DEFINE both == Merged(old, new)
<1>1. /\ DOMAIN both = DOMAIN old \cup DOMAIN new
      /\ KeysOf(both) = KeysOf(old) \cup KeysOf(new)
    BY MergedKeys
<1> HIDE DEF both
<1>2. Explained(both, recs)
    BY <1>1 DEF Explained
<1> QED BY <1>2 DEF both

LEMMA OrderInit == Init => OrderInv
<1> SUFFICES ASSUME Init PROVE OrderInv
    OBVIOUS
<1>1. NativeRecords(0, silverFrom) = {}
    BY DEF NativeRecords, RowsIn, Init
<1>2. KeysOf(quarantine) = {} /\ DOMAIN quarantine = {}
    BY DEF Init, KeysOf
<1>3. Explained(quarantine, Known)
    BY <1>2 DEF Explained
<1>4. ConflictsWithin({}) = {}
    BY DEF ConflictsWithin
<1> QED BY <1>1, <1>2, <1>3, <1>4 DEF Init, NoPlan, OrderInv, Sound, Seen, Cleared

(* The Bronze job beside it, and maintenance outside of a batch.            *)
LEMMA OrderBeside ==
    ASSUME IInv, IInv', OrderInv, Grows, UNCHANGED <<tables, job>>
    PROVE  OrderInv'
<1>1. /\ rows' = rows /\ quarantine' = quarantine /\ silverFrom' = silverFrom
      /\ silverTo' = silverTo /\ phase' = phase /\ turn' = turn /\ plan' = plan
    BY DEF tables, job
<1>2. /\ StreamOK /\ JobOK /\ StreamOK' /\ JobOK'
    BY DEF IInv
<1>3. /\ silverFrom \in Nat /\ silverTo \in Nat /\ Mark \in Nat /\ Mark <= Len(bronze)
      /\ Len(bronze) \in Nat /\ Len(bronze') \in Nat
      /\ silverTo <= Len(bronze) /\ silverFrom <= Len(bronze)
    BY <1>2, MarkIs DEF StreamOK
<1>4. /\ NativeRecords(0, silverFrom)' = NativeRecords(0, silverFrom)
      /\ NativeRecords(silverFrom, silverTo)' = NativeRecords(silverFrom, silverTo)
      /\ phase # "idle" => Known' = Known
  <2>1. PICK k \in Nat, m \in Nat : k = silverFrom /\ m = silverTo
      BY <1>3
  <2>2. /\ NativeRecords(0, silverFrom)' = NativeRecords(0, k)'
        /\ NativeRecords(silverFrom, silverTo)' = NativeRecords(k, m)'
        /\ phase # "idle" => Known' = NativeRecords(0, m)'
      BY <1>1, <2>1 DEF NativeRecords, RowsIn, Known, Mark
  <2>3. /\ NativeRecords(0, k)' = NativeRecords(0, k)
        /\ NativeRecords(k, m)' = NativeRecords(k, m)
        /\ NativeRecords(0, m)' = NativeRecords(0, m)
      BY <1>2, <1>3, <2>1, RecordsStay
  <2> QED BY <2>1, <2>2, <2>3 DEF Known, Mark
<1>5. Known \subseteq Known'
  <2>1. PICK k \in Nat, n \in Nat : k = Mark /\ n = Mark'
      BY <1>1, <1>3 DEF Mark
  <2>2. k <= n /\ k <= Len(bronze)
      BY <1>1, <1>3, <2>1 DEF Mark, Grows
  <2>3. NativeRecords(0, k) \subseteq NativeRecords(0, n)'
      BY <1>2, <2>2, KnownGrows
  <2>4. Known' = NativeRecords(0, n)'
      BY <2>1 DEF Known, NativeRecords, RowsIn
  <2> QED BY <2>1, <2>3, <2>4 DEF Known
<1>6. Sound'
    BY <1>1, <1>5, ExplainedGrows DEF OrderInv, Sound
<1>7. Seen'
    BY <1>1, <1>4 DEF OrderInv, Seen
<1>8. Cleared'
  <2>1. \A r : /\ Blamed(r)' <=> Blamed(r)
               /\ ToBlame(r)' <=> ToBlame(r)
               /\ Named(r)' <=> Named(r)
               /\ ToDelete(r)' <=> ToDelete(r)
      BY <1>1, <1>4 DEF Blamed, ToBlame, Named, ToDelete
  <2> QED BY <1>1, <2>1 DEF OrderInv, Cleared
<1> QED BY <1>6, <1>7, <1>8 DEF OrderInv

(* A batch that is planned, or dropped and planned again.                   *)
LEMMA OrderPlanned ==
    ASSUME IInv, IInv', OrderInv, UNCHANGED <<bronze, tables>>, plan' = NoPlan,
           phase' = "planned", silverFrom' = silverFrom,
           \/ phase = "idle" /\ silverTo' = Len(bronze)
           \/ phase # "idle" /\ silverTo' = silverTo
    PROVE  OrderInv'
<1>1. rows' = rows /\ quarantine' = quarantine /\ bronze' = bronze
    BY DEF tables
<1>2. StreamOK /\ JobOK
    BY DEF IInv
<1>3. /\ Mark \in Nat /\ Mark' \in Nat /\ Mark <= Mark' /\ silverFrom \in Nat /\ Len(bronze) \in Nat
    BY <1>1, <1>2, MarkIs DEF Mark
<1>4. Known \subseteq Known'
  <2>1. RowsIn(0, Mark) \subseteq RowsIn(0, Mark')
      BY <1>3, RowsOfPrefix
  <2>2. Known' = NativeRecords(0, Mark')
      BY <1>1 DEF Known, NativeRecords, RowsIn
  <2> QED BY <2>1, <2>2 DEF Known, NativeRecords
<1>5. Sound'
    BY <1>1, <1>4, ExplainedGrows DEF OrderInv, Sound, NoPlan
<1>6. NativeRecords(0, silverFrom)' = NativeRecords(0, silverFrom)
    BY <1>1 DEF NativeRecords, RowsIn
<1>7. Seen'
    BY <1>1, <1>6 DEF OrderInv, Seen
<1>8. ASSUME NEW r \in rows, Blamed(r) PROVE Named(r)'
  <2>1. CASE phase = "idle"
    <3>1. silverFrom = 0
        BY <1>8, <2>1 DEF OrderInv, Cleared
    <3>2. r \in NativeRecords(0, Len(bronze))
        BY <2>1, <3>1 DEF OrderInv, Sound, Known, Mark
    <3>3. NativeRecords(silverFrom, silverTo)' = NativeRecords(0, Len(bronze))
        BY <1>1, <2>1, <3>1 DEF NativeRecords, RowsIn
    <3> QED BY <3>2, <3>3 DEF Named
  <2>2. CASE phase # "idle"
    <3>1. Named(r)
        BY <1>8, <2>2 DEF OrderInv, Cleared
    <3>2. NativeRecords(silverFrom, silverTo)' = NativeRecords(silverFrom, silverTo)
        BY <1>1, <2>2 DEF NativeRecords, RowsIn
    <3> QED BY <3>1, <3>2 DEF Named
  <2> QED BY <2>1, <2>2
<1>9. \A r : Blamed(r)' <=> Blamed(r)
    BY <1>1 DEF Blamed
<1>10. Cleared'
    BY <1>1, <1>8, <1>9 DEF Cleared
<1> QED BY <1>5, <1>7, <1>10 DEF OrderInv

(* The job starts over without a checkpoint.                                *)
LEMMA OrderRestarted ==
    ASSUME IInv, IInv', OrderInv, StartSilverOver
    PROVE  OrderInv'
<1>1. /\ rows' = rows /\ quarantine' = quarantine /\ bronze' = bronze /\ plan' = NoPlan
      /\ silverFrom' = 0 /\ phase' = "idle"
    BY DEF StartSilverOver, stream, checkpoint, tables
<1>2. StreamOK /\ JobOK
    BY DEF IInv
<1>3. Mark \in Nat /\ Mark' = Len(bronze) /\ Mark <= Len(bronze) /\ Len(bronze) \in Nat
    BY <1>1, <1>2, MarkIs DEF Mark
<1>4. Known \subseteq Known'
  <2>1. RowsIn(0, Mark) \subseteq RowsIn(0, Mark')
      BY <1>3, RowsOfPrefix
  <2>2. Known' = NativeRecords(0, Mark')
      BY <1>1 DEF Known, NativeRecords, RowsIn
  <2> QED BY <2>1, <2>2 DEF Known, NativeRecords
<1>5. Sound'
    BY <1>1, <1>4, ExplainedGrows DEF OrderInv, Sound, NoPlan
<1>6. NativeRecords(0, silverFrom)' = {}
    BY <1>1 DEF NativeRecords, RowsIn
<1>7. ConflictsWithin({}) = {}
    BY DEF ConflictsWithin
<1>8. ConflictsWithin(NativeRecords(0, silverFrom))' = {}
  <2>1. ConflictsWithin(NativeRecords(0, silverFrom))' = ConflictsWithin(NativeRecords(0, silverFrom)')
      OBVIOUS
  <2> QED BY <1>6, <1>7, <2>1
<1>9. Seen'
    BY <1>1, <1>8 DEF Seen
<1>10. Cleared'
    BY <1>1 DEF Cleared
<1> QED BY <1>5, <1>9, <1>10 DEF OrderInv

(* The decision.  A dispute that the batch adds is between two of its       *)
(* records, or with an applied one: then a row stands for that one, or its  *)
(* key is in quarantine already.                                            *)
LEMMA OrderDecided ==
    ASSUME IInv, IInv', Accounts, OrderInv, DecideBatch
    PROVE  OrderInv'
<1> DEFINE incoming == NativeRecords(silverFrom, silverTo)
           stored == Matches(rows, incoming)
           decided == NativePlan(quarantine, incoming, stored, ClosedSets(incoming \cup stored))
           before == NativeRecords(0, silverFrom)
<1>1. /\ rows' = rows /\ quarantine' = quarantine /\ silverFrom' = silverFrom
      /\ silverTo' = silverTo /\ phase = "planned" /\ phase' = "merge" /\ turn' = 1
      /\ bronze' = bronze
    BY DEF DecideBatch, tables, bronzeVars, stream, checkpoint
<1>2. plan' = decided
    BY DecisionIs
<1>3. StreamOK /\ JobOK
    BY DEF IInv
<1>4. Known = before \cup incoming /\ Known' = Known
  <2>1. Known = NativeRecords(0, silverTo) /\ Known' = NativeRecords(0, silverTo)
      BY <1>1 DEF Known, Mark, NativeRecords, RowsIn
  <2> QED BY <1>3, <2>1, KnownIs
<1>5. Identified(Known) /\ Keyless(Known)
  <2>1. silverTo \in Nat /\ Known = NativeRecords(0, silverTo)
      BY <1>1, <1>3, MarkIs DEF Known, Mark
  <2>2. Unambiguous(silverFrom, silverTo)
      BY DEF DecideBatch
  <2> QED BY <1>1, <1>3, <2>1, <2>2, KnownIsIdentified, KnownIsKeyless
<1>6. /\ stored \subseteq rows /\ rows \subseteq Known /\ Explained(quarantine, Known)
      /\ Identified(incoming \cup stored) /\ Sourced(incoming)
  <2>1. Identified(incoming \cup stored) /\ Sourced(incoming)
      BY BatchIsIdentified DEF DecideBatch
  <2> QED BY <2>1 DEF OrderInv, Sound, Matches
<1>7. Explained(decided.quarantine, Known)
  <2>1. incoming \cup stored \subseteq Known
      BY <1>4, <1>6
  <2> HIDE DEF incoming, stored
  <2> QED BY <1>5, <1>6, <2>1, PlanIsExplained
<1>8. decided.inserts \cup decided.deletes \subseteq Known
  <2>1. \A r \in decided.inserts : r \in incoming
      BY <1>6, InsertsAreUnblocked
  <2>2. \A d \in decided.deletes : d \in stored
      BY <1>6, DeletesAreQuarantined
  <2> HIDE DEF decided, incoming, stored
  <2> QED BY <1>4, <1>6, <2>1, <2>2
<1>9. Sound'
  <2> HIDE DEF decided, incoming, stored
  <2> QED BY <1>1, <1>2, <1>4, <1>6, <1>7, <1>8 DEF Sound
<1>10. ASSUME NEW r \in incoming, NEW s \in before, NEW t \in BusinessTokens(r),
              BusinessTokens(s) = BusinessTokens(r), s.val # r.val
       PROVE  t \in KeysOf(quarantine) \cup KeysOf(decided.quarantine)
  <2>1. Held(s)
      BY DEF Accounts
  <2>2. CASE \E w \in rows : Group(w) = Group(s) /\ w.val = s.val
    <3>1. PICK w \in rows : Group(w) = Group(s) /\ w.val = s.val
        BY <2>2
    <3>2. BusinessTokens(w) = BusinessTokens(r)
      <4>1. w.src = s.src => w = s
          BY <1>4, <1>6 , <1>5 DEF Identified
      <4> QED BY <1>10, <3>1, <4>1, GroupShares
    <3>3. w \in stored
        BY <3>2 DEF Matches, SharesKey, Tokens
    <3> QED BY <1>6, <1>10, <3>1, <3>2, <3>3, DisputesAreQuarantined
  <2>3. CASE s.src \in DOMAIN quarantine
    <3>1. PICK q \in Known :
            /\ q.src = s.src
            /\ ~Normal(q) \/ (BusinessTokens(q) # {} /\ BusinessTokens(q) \subseteq KeysOf(quarantine))
        BY <1>6, <2>3 DEF Explained
    <3>2. q = s
        BY <1>4, <1>5, <3>1 DEF Identified
    <3> QED BY <1>5, <1>10, <3>1, <3>2 DEF Keyless
  <2>4. CASE BusinessTokens(s) \cap KeysOf(quarantine) # {}
      BY <1>10, <2>4, BusinessKeyIsOne
  <2> QED BY <2>1, <2>2, <2>3, <2>4 DEF Held
<1>11. ASSUME NEW t \in ConflictsWithin(Known)
       PROVE  t \in KeysOf(quarantine) \cup KeysOf(decided.quarantine)
  <2> DEFINE Dispute(a, b) == t \in BusinessTokens(a) /\ BusinessTokens(b) = BusinessTokens(a) /\ b.val # a.val
  <2>1. \E a, b \in Known : Dispute(a, b)
      BY ConflictsAre
  <2>2. PICK a \in Known : \E b \in Known : Dispute(a, b)
      BY <2>1
  <2>3. PICK b \in Known : Dispute(a, b)
      BY <2>2
  <2>4. Dispute(b, a)
      BY <2>3
  <2>5. CASE a \in before /\ b \in before
    <3>1. t \in ConflictsWithin(before)
        BY <2>3, <2>5 DEF ConflictsWithin
    <3> QED BY <3>1 DEF OrderInv, Seen
  <2>6. CASE a \in incoming /\ b \in incoming
      BY <1>6, <2>3, <2>6, DisputesAreQuarantined
  <2>7. CASE a \in incoming /\ b \in before
      BY <1>10, <2>3, <2>7
  <2>8. CASE b \in incoming /\ a \in before
      BY <1>10, <2>4, <2>8
  <2> QED BY <1>4, <2>5, <2>6, <2>7, <2>8
<1>12. Seen'
  <2>1. NativeRecords(0, silverFrom)' = NativeRecords(0, silverFrom)
      BY <1>1 DEF NativeRecords, RowsIn
  <2> HIDE DEF decided, incoming, stored
  <2> QED BY <1>1, <1>2, <1>4, <1>11, <2>1 DEF OrderInv, Seen
<1>13. ASSUME NEW r \in rows, BusinessTokens(r) \cap (KeysOf(quarantine) \cup KeysOf(decided.quarantine)) # {}
       PROVE  r \in decided.deletes /\ Named(r)
  <2>1. PICK t \in BusinessTokens(r) : t \in KeysOf(quarantine) \/ t \in KeysOf(decided.quarantine)
      BY <1>13
  <2>2. t \in KeysOf(quarantine) => \E s \in incoming : BusinessTokens(s) = BusinessTokens(r)
    <3>1. t \in KeysOf(quarantine) => Blamed(r)
        BY DEF Blamed
    <3> QED BY <1>1, <3>1 DEF OrderInv, Cleared, Named
  <2>3. r \in decided.deletes /\ \E s \in incoming : BusinessTokens(s) = BusinessTokens(r)
      BY <1>6, <2>1, <2>2, BlamedRowsAreDeleted
  <2> QED BY <2>3 DEF Named
<1>14. ASSUME NEW r \in rows PROVE \E i \in 1..Len(Tables) : Tables[i] = r.table
  <2>1. r \in Rec /\ Normal(r)
      BY RowsAre DEF IInv, TablesOK
  <2>2. r.table \in Range(Tables)
      BY <2>1 DEF Rec, Normal
  <2> QED BY <2>2, SilverAssumption DEF Range
<1> HIDE DEF decided, incoming, stored, before
<1>15. ASSUME NEW r \in rows
       PROVE  /\ Blamed(r)' => Named(r)'
              /\ ToBlame(r)' => Named(r)' /\ ToDelete(r)'
  <2>1. Named(r)' <=> Named(r)
      BY <1>1 DEF Named, NativeRecords, RowsIn
  <2>2. ToBlame(r)' => r \in decided.deletes /\ Named(r)
      BY <1>1, <1>2, <1>13 DEF ToBlame
  <2>3. Blamed(r)' => ToBlame(r)'
      BY DEF Blamed, ToBlame
  <2>4. r \in decided.deletes => ToDelete(r)'
      BY <1>1, <1>2, <1>14 DEF ToDelete
  <2> QED BY <2>1, <2>2, <2>3, <2>4
<1>16. Cleared'
    BY <1>1, <1>15 DEF Cleared
<1> QED BY <1>9, <1>12, <1>16 DEF OrderInv

(* The writes of a batch read nothing.                                      *)
LEMMA KnownStays ==
    ASSUME bronze' = bronze, silverFrom' = silverFrom, silverTo' = silverTo,
           phase # "idle", phase' # "idle"
    PROVE  /\ Known' = Known
           /\ NativeRecords(0, silverFrom)' = NativeRecords(0, silverFrom)
           /\ \A r : Named(r)' <=> Named(r)
    BY DEF Known, Mark, NativeRecords, RowsIn, Named

LEMMA OrderMerged ==
    ASSUME IInv, IInv', OrderInv, MergeQuarantine
    PROVE  OrderInv'
<1>1. /\ rows' = rows /\ quarantine' = Merged(quarantine, plan.quarantine)
      /\ phase = "merge" /\ phase' = "delete" /\ plan' = plan /\ turn' = turn
      /\ silverFrom' = silverFrom /\ silverTo' = silverTo /\ bronze' = bronze
    BY DEF MergeQuarantine, bronzeVars, stream, checkpoint
<1>2. KeysOf(quarantine') = KeysOf(quarantine) \cup KeysOf(plan.quarantine)
    BY <1>1, MergedKeys
<1>3. /\ Known' = Known /\ NativeRecords(0, silverFrom)' = NativeRecords(0, silverFrom)
      /\ \A r : Named(r)' <=> Named(r)
    BY <1>1, KnownStays
<1>4. Explained(quarantine', Known)
    BY <1>1, MergedIsExplained DEF OrderInv, Sound
<1>5. Sound'
    BY <1>1, <1>3, <1>4 DEF OrderInv, Sound
<1>6. Seen'
    BY <1>1, <1>2, <1>3 DEF OrderInv, Seen
<1>7. \A r : (Blamed(r)' <=> ToBlame(r)) /\ (ToDelete(r)' <=> ToDelete(r))
    BY <1>1, <1>2 DEF Blamed, ToBlame, ToDelete
<1>8. Cleared'
    BY <1>1, <1>3, <1>7 DEF OrderInv, Cleared
<1> QED BY <1>5, <1>6, <1>8 DEF OrderInv

LEMMA OrderDeleted ==
    ASSUME IInv, IInv', OrderInv, DeleteRows
    PROVE  OrderInv'
<1>1. /\ rows' = {r \in rows : ~Deleted(r)} /\ quarantine' = quarantine
      /\ phase = "delete" /\ phase' = "insert" /\ plan' = plan /\ turn' = turn
      /\ silverFrom' = silverFrom /\ silverTo' = silverTo /\ bronze' = bronze
    BY DEF DeleteRows, bronzeVars, stream, checkpoint
<1>2. /\ Known' = Known /\ NativeRecords(0, silverFrom)' = NativeRecords(0, silverFrom)
      /\ \A r : Named(r)' <=> Named(r)
    BY <1>1, KnownStays
<1>3. Sound' /\ Seen'
    BY <1>1, <1>2 DEF OrderInv, Sound, Seen
<1>4. ASSUME NEW r \in rows', Blamed(r)' PROVE Named(r)' /\ ToDelete(r)'
  <2>1. r \in rows /\ ~Deleted(r) /\ Blamed(r)
      BY <1>1, <1>4 DEF Blamed
  <2>2. Named(r) /\ ToDelete(r)
      BY <1>1, <2>1 DEF OrderInv, Cleared
  <2>3. r \in plan.deletes /\ r.table # Tables[turn]
      BY <2>1, <2>2 DEF ToDelete, Deleted
  <2>4. PICK i \in turn..Len(Tables) : Tables[i] = r.table
      BY <1>1, <2>2 DEF ToDelete
  <2>5. turn \in Nat /\ i \in (turn + 1)..Len(Tables)
      BY <2>3, <2>4, SilverAssumption DEF IInv, JobOK
  <2> QED BY <1>1, <1>2, <2>2, <2>3, <2>4, <2>5 DEF ToDelete
<1>5. Cleared'
    BY <1>1, <1>4 DEF Cleared
<1> QED BY <1>3, <1>5 DEF OrderInv

LEMMA OrderInserted ==
    ASSUME IInv, IInv', OrderInv, InsertRows
    PROVE  OrderInv'
<1>1. /\ rows' \subseteq rows \cup plan.inserts /\ quarantine' = quarantine
      /\ phase = "insert" /\ phase' \in {"delete", "commit"} /\ plan' = plan
      /\ silverFrom' = silverFrom /\ silverTo' = silverTo /\ bronze' = bronze
    BY DEF InsertRows, bronzeVars, stream, checkpoint
<1>2. /\ Known' = Known /\ NativeRecords(0, silverFrom)' = NativeRecords(0, silverFrom)
      /\ \A r : Named(r)' <=> Named(r)
    BY <1>1, KnownStays
<1>3. Sound' /\ Seen'
    BY <1>1, <1>2 DEF OrderInv, Sound, Seen
<1>4. ASSUME NEW r \in rows', Blamed(r)' PROVE phase' # "commit" /\ Named(r)' /\ ToDelete(r)'
  <2>1. Blamed(r)
      BY <1>1, <1>4 DEF Blamed
  <2>2. r \in rows
      BY <1>1, <2>1 DEF IInv, PlanOK, Blamed
  <2>3. Named(r) /\ ToDelete(r)
      BY <1>1, <2>1, <2>2 DEF OrderInv, Cleared
  <2>4. PICK i \in (turn + 1)..Len(Tables) : Tables[i] = r.table
      BY <1>1, <2>3 DEF ToDelete
  <2>5. turn < Len(Tables)
      BY <2>4, SilverAssumption DEF IInv, JobOK
  <2>6. turn' = turn + 1 /\ phase' = "delete"
      BY <2>5 DEF InsertRows
  <2> QED BY <1>1, <1>2, <2>3, <2>4, <2>6 DEF ToDelete
<1>5. Cleared'
    BY <1>1, <1>4 DEF Cleared
<1> QED BY <1>3, <1>5 DEF OrderInv

LEMMA OrderCommitted ==
    ASSUME IInv, IInv', OrderInv, CommitSilver
    PROVE  OrderInv'
<1>1. /\ rows' = rows /\ quarantine' = quarantine /\ silverFrom' = silverTo
      /\ phase = "commit" /\ phase' = "idle" /\ plan' = NoPlan /\ bronze' = bronze
    BY DEF CommitSilver, tables, bronzeVars, stream, checkpoint
<1>2. StreamOK /\ JobOK
    BY DEF IInv
<1>3. Mark = silverTo /\ Mark \in Nat /\ Mark' \in Nat /\ Mark <= Mark'
    BY <1>1, <1>2, MarkIs DEF Mark
<1>4. Known \subseteq Known'
  <2>1. RowsIn(0, Mark) \subseteq RowsIn(0, Mark')
      BY <1>3, RowsOfPrefix
  <2>2. Known' = NativeRecords(0, Mark')
      BY <1>1 DEF Known, NativeRecords, RowsIn
  <2> QED BY <2>1, <2>2 DEF Known, NativeRecords
<1>5. Sound'
    BY <1>1, <1>4, ExplainedGrows DEF OrderInv, Sound, NoPlan
<1>6. NativeRecords(0, silverFrom)' = Known
    BY <1>1, <1>3 DEF NativeRecords, RowsIn, Known
<1>7. Seen'
    BY <1>1, <1>6 DEF OrderInv, Seen
<1>8. \A r \in rows : ~Blamed(r)
    BY <1>1 DEF OrderInv, Cleared
<1>9. Cleared'
    BY <1>1, <1>8 DEF Cleared, Blamed
<1> QED BY <1>5, <1>7, <1>9 DEF OrderInv

LEMMA OrderStep == IInv /\ IInv' /\ Accounts /\ OrderInv /\ [Next]_vars => OrderInv'
<1> SUFFICES ASSUME IInv, IInv', Accounts, OrderInv, [Next]_vars PROVE OrderInv'
    OBVIOUS
<1>1. StreamOK /\ JobOK
    BY DEF IInv
<1>2. ASSUME UNCHANGED bronze PROVE Grows
    BY <1>1, <1>2, MarkIs DEF Grows
<1>3. CASE BronzeNext /\ UNCHANGED silverVars
    BY <1>1, <1>3, BronzeKeeps, OrderBeside DEF silverVars
<1>4. CASE PlanSilver
  <2>1. plan' = NoPlan
      BY <1>1, <1>4 DEF PlanSilver, JobOK, Writing
  <2> QED BY <1>4, <2>1, OrderPlanned DEF PlanSilver, bronzeVars, stream, checkpoint
<1>5. CASE CrashSilver \/ (SetRetention /\ phase \in Writing)
  <2>1. /\ phase # "idle" /\ UNCHANGED <<bronze, tables>> /\ plan' = NoPlan /\ phase' = "planned"
        /\ silverFrom' = silverFrom /\ silverTo' = silverTo
      BY <1>5 DEF CrashSilver, SetRetention, Restarted, Writing, bronzeVars, stream, checkpoint
  <2> QED BY <2>1, OrderPlanned
<1>6. CASE StartSilverOver
    BY <1>6, OrderRestarted
<1>7. CASE DecideBatch
    BY <1>7, OrderDecided
<1>8. CASE MergeQuarantine
    BY <1>8, OrderMerged
<1>9. CASE DeleteRows
    BY <1>9, OrderDeleted
<1>10. CASE InsertRows
    BY <1>10, OrderInserted
<1>11. CASE CommitSilver
    BY <1>11, OrderCommitted
<1>12. CASE UNCHANGED vars \/ (SetRetention /\ phase \notin Writing)
  <2>1. UNCHANGED bronze /\ UNCHANGED <<tables, job>>
      BY <1>12 DEF vars, bronzeVars, stream, checkpoint, silverVars, SetRetention
  <2> QED BY <1>2, <2>1, OrderBeside
<1> QED BY <1>3, <1>4, <1>5, <1>6, <1>7, <1>8, <1>9, <1>10, <1>11, <1>12
        DEF Next, SilverStep, Maintain

(* Between batches the rows are exactly the groups and values of the        *)
(* applied records that nothing disputes: how the batches were cut, what    *)
(* was applied twice and where the job died leaves no trace in the tables   *)
(* (silver-data-contract.md on replays; write_batch, _decide).              *)
THEOREM TablesAreAFunction == Spec => []TablesAreOrderFree
<1>1. IInv /\ Accounts /\ OrderInv => TablesAreOrderFree
  <2> SUFFICES ASSUME IInv, Accounts, OrderInv, phase = "idle", silverFrom > 0
        PROVE  {<<Group(r), r.val>> : r \in rows}
               = {<<Group(r), r.val>> : r \in {s \in Applied : Normal(s) /\ ~Disputed(s)}}
      BY DEF TablesAreOrderFree
  <2>1. StreamOK /\ JobOK /\ silverFrom \in Nat /\ silverFrom <= Len(bronze)
      BY MarkIs DEF IInv
  <2>2. Known = Applied /\ NativeRecords(0, silverFrom) = Applied
    <3>1. RowsIn(0, silverFrom) \subseteq Frame
        BY <2>1, RowsAreFrames
    <3>2. NativeRecords(0, silverFrom) = Records(0, silverFrom)
        BY <3>1, FramesParseAlike DEF NativeRecords, Records
    <3> QED BY <3>2 DEF Known, Mark, Applied
  <2>3. Identified(Applied) /\ Keyless(Applied)
      BY <2>1, <2>2, KnownIsIdentified, KnownIsKeyless
  <2>4. \A r \in rows : r \in Applied /\ Normal(r) /\ ~Blamed(r)
      BY <2>1, <2>2 DEF OrderInv, Sound, Cleared, IInv, TablesOK
  <2>5. \A r \in Applied : Disputed(r) <=> BusinessTokens(r) \cap ConflictsWithin(Applied) # {}
    <3> SUFFICES ASSUME NEW r \in Applied
          PROVE  Disputed(r) <=> BusinessTokens(r) \cap ConflictsWithin(Applied) # {}
        OBVIOUS
    <3>1. ASSUME Disputed(r) PROVE BusinessTokens(r) \subseteq ConflictsWithin(Applied)
        BY <3>1 DEF Disputed, ConflictsWithin
    <3>2. ASSUME NEW t \in BusinessTokens(r), t \in ConflictsWithin(Applied) PROVE Disputed(r)
      <4>1. PICK a \in Applied : \E b \in Applied :
              t \in BusinessTokens(a) /\ BusinessTokens(b) = BusinessTokens(a) /\ b.val # a.val
          BY <3>2, ConflictsAre
      <4>2. PICK b \in Applied :
              t \in BusinessTokens(a) /\ BusinessTokens(b) = BusinessTokens(a) /\ b.val # a.val
          BY <4>1
      <4>3. BusinessTokens(a) = BusinessTokens(r) /\ BusinessTokens(r) # {}
          BY <3>2, <4>2, BusinessKeyIsOne
      <4> QED BY <4>2, <4>3 DEF Disputed
    <3>3. Disputed(r) => BusinessTokens(r) # {}
        BY DEF Disputed
    <3> QED BY <3>1, <3>2, <3>3
  <2>6. ASSUME NEW r \in rows PROVE ~Disputed(r)
    <3>1. ConflictsWithin(Applied) \subseteq KeysOf(quarantine)
        BY <2>2 DEF OrderInv, Seen
    <3> QED BY <2>4, <2>5, <3>1 DEF Blamed
  <2>7. ASSUME NEW r \in Applied, Normal(r), ~Disputed(r)
        PROVE  \E s \in rows : Group(s) = Group(r) /\ s.val = r.val
    <3>1. Held(r)
        BY <2>2 DEF Accounts
    <3>2. ASSUME NEW t \in BusinessTokens(r), t \in KeysOf(quarantine) PROVE FALSE
      <4>1. t \in ConflictsWithin(Applied)
          BY <2>2, <3>2, BusinessKeyIsOne DEF OrderInv, Sound, Explained
      <4> QED BY <2>5, <2>7, <4>1
    <3>3. r.src \notin DOMAIN quarantine
      <4> SUFFICES ASSUME r.src \in DOMAIN quarantine PROVE FALSE
          OBVIOUS
      <4>1. PICK q \in Applied :
              /\ q.src = r.src
              /\ ~Normal(q) \/ (BusinessTokens(q) # {} /\ BusinessTokens(q) \subseteq KeysOf(quarantine))
          BY <2>2 DEF OrderInv, Sound, Explained
      <4>2. q = r
          BY <2>3, <4>1 DEF Identified
      <4> QED BY <2>7, <3>2, <4>1, <4>2
    <3> QED BY <3>1, <3>2, <3>3 DEF Held
  <2> HIDE DEF Applied
  <2>8. {<<Group(r), r.val>> : r \in rows}
        \subseteq {<<Group(r), r.val>> : r \in {s \in Applied : Normal(s) /\ ~Disputed(s)}}
      BY <2>4, <2>6
  <2>9. {<<Group(r), r.val>> : r \in {s \in Applied : Normal(s) /\ ~Disputed(s)}}
        \subseteq {<<Group(r), r.val>> : r \in rows}
    <3> SUFFICES ASSUME NEW r \in Applied, Normal(r), ~Disputed(r)
          PROVE  <<Group(r), r.val>> \in {<<Group(s), s.val>> : s \in rows}
        OBVIOUS
    <3>1. PICK s \in rows : Group(s) = Group(r) /\ s.val = r.val
        BY <2>7
    <3>2. <<Group(s), s.val>> = <<Group(r), r.val>>
        BY <3>1
    <3> HIDE DEF Group
    <3> QED BY <3>2
  <2> QED BY <2>8, <2>9
<1>2. Init => Accounts /\ OrderInv
    BY AccountsInit, OrderInit
<1>3. IInv /\ IInv' /\ Accounts /\ [Next]_vars => Accounts'
    BY AccountsStep
<1>4. IInv /\ IInv' /\ Accounts /\ OrderInv /\ [Next]_vars => OrderInv'
    BY OrderStep
<1> QED BY <1>1, <1>2, <1>3, <1>4, Invariant, PTL DEF Spec
=============================================================================
