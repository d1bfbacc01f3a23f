---------------------------- MODULE BronzeStream ----------------------------
(***************************************************************************)
(* The Bronze job (spark/kafka_raw_to_bronze.py, spark/job.py): a Spark    *)
(* query that appends the frames of a Kafka topic to a Delta table.  The   *)
(* query writes the end of a micro-batch to its checkpoint, appends the    *)
(* frames in one Delta commit that carries the number of the batch, and    *)
(* marks the batch done.  All of this is durable: a crash between two of   *)
(* the steps and the restart after it change nothing here, and a repeated  *)
(* append finds the number of its batch in the table.                      *)
(*                                                                         *)
(* A query without a checkpoint, at the first start or after it was lost,  *)
(* begins where app.kafka.startingOffsets says: at the earliest offset     *)
(* (conf/local.properties) or behind the latest (conf/dev.properties,      *)
(* conf/prod.properties, and where nothing is set), and then never reads   *)
(* what was published before.  A recreated topic gives its offsets to new  *)
(* frames.                                                                 *)
(***************************************************************************)
EXTENDS Naturals, Sequences

CONSTANTS
    Arrivals,   \* the frames that may be published at each offset of a topic
    StartingOffsets,    \* the values that app.kafka.startingOffsets may have
    MaxFaults   \* bound on crashes, lost checkpoints and recreated topics

VARIABLES
    topic,      \* the frames of the topic by offset
    bronze,     \* the Bronze table: the rows of each commit that has any
    started,    \* there is a checkpoint
    kafkaStart, \* checkpoint: the offset the query began at
    kafkaFrom,  \* checkpoint: the offset up to which batches are done
    kafkaTo,    \* checkpoint: the planned end of the current batch
    appended,   \* the table holds the commit of the current batch
    lost,       \* history: how often the checkpoint was lost
    faults      \* crashes, lost checkpoints and recreated topics so far

checkpoint == <<started, kafkaStart, kafkaFrom, kafkaTo, appended>>
stream == <<topic, bronze, checkpoint, lost>>
bronzeVars == <<stream, faults>>

(* transform_raw_messages: connection responses stay out of Bronze.         *)
Kept(payload) == payload.shape # "accepted"

(* Bounds the frames of a topic.                                            *)
MaxOffset == Len(Arrivals)
Payloads == UNION {Arrivals[o] : o \in 1..MaxOffset}

(* The rows of a batch.                                                     *)
Batch(from, to) ==
    {[offset |-> o, payload |-> topic[o]] : o \in {p \in (from + 1)..to : Kept(topic[p])}}

NoCheckpoint ==
    /\ started' = FALSE
    /\ kafkaStart' = 0 /\ kafkaFrom' = 0 /\ kafkaTo' = 0 /\ appended' = FALSE

BronzeInit ==
    /\ topic = <<>> /\ bronze = <<>>
    /\ started = FALSE
    /\ kafkaStart = 0 /\ kafkaFrom = 0 /\ kafkaTo = 0 /\ appended = FALSE
    /\ lost = 0 /\ faults = 0

Appended(batch) == IF batch = {} THEN bronze ELSE Append(bronze, batch)

(* The Collector publishes a frame; one that was published before may come  *)
(* again, from another connection or from a client that sends it twice.     *)
Publish(payload) ==
    /\ Len(topic) < MaxOffset /\ payload \in Arrivals[Len(topic) + 1]
    /\ topic' = Append(topic, payload)
    /\ UNCHANGED <<bronze, checkpoint, lost, faults>>

FirstOffset(setting) == IF setting = "earliest" THEN 0 ELSE Len(topic)

StartQuery ==
    /\ ~started
    /\ started' = TRUE
    /\ \E setting \in StartingOffsets : kafkaStart' = FirstOffset(setting)
    /\ kafkaFrom' = kafkaStart' /\ kafkaTo' = kafkaStart'
    /\ UNCHANGED <<topic, bronze, appended, lost, faults>>

PlanBronze ==
    /\ started /\ kafkaTo = kafkaFrom /\ kafkaFrom < Len(topic)
    /\ kafkaTo' = Len(topic)
    /\ appended' = FALSE
    /\ UNCHANGED <<topic, bronze, started, kafkaStart, kafkaFrom, lost, faults>>

AppendBronzeAgain ==
    /\ kafkaTo > kafkaFrom
    /\ Len(bronze) < 2 * MaxOffset
    /\ bronze' = Appended(Batch(kafkaFrom, kafkaTo))
    /\ appended' = TRUE
    /\ UNCHANGED <<topic, started, kafkaStart, kafkaFrom, kafkaTo, lost, faults>>

AppendBronze ==
    /\ kafkaTo > kafkaFrom /\ ~appended
    /\ bronze' = Appended(Batch(kafkaFrom, kafkaTo))
    /\ appended' = TRUE
    /\ UNCHANGED <<topic, started, kafkaStart, kafkaFrom, kafkaTo, lost, faults>>

CommitBronze ==
    /\ kafkaTo > kafkaFrom /\ appended
    /\ kafkaFrom' = kafkaTo
    /\ UNCHANGED <<topic, bronze, started, kafkaStart, kafkaTo, appended, lost, faults>>

LoseTopicOnly ==
    /\ started /\ faults < MaxFaults
    /\ faults' = faults + 1
    /\ topic' = <<>>
    /\ UNCHANGED <<bronze, checkpoint, lost>>

(* The checkpoint is lost, and the topic may have been recreated with it.   *)
LoseCheckpoint ==
    /\ started /\ faults < MaxFaults
    /\ faults' = faults + 1 /\ lost' = lost + 1
    /\ topic' \in {topic, <<>>}
    /\ NoCheckpoint
    /\ UNCHANGED bronze

BronzeNext ==
    \/ \E payload \in Payloads : Publish(payload)
    \/ StartQuery \/ PlanBronze \/ AppendBronze \/ CommitBronze \/ LoseCheckpoint
=============================================================================
