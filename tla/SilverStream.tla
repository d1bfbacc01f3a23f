---------------------------- MODULE SilverStream ----------------------------
(***************************************************************************)
(* The Silver job (spark/bronze_to_silver.py, silver_native.write_batch,   *)
(* silver_store.py) behind the Bronze job: a Spark query that reads the    *)
(* Bronze table in micro-batches and writes one Delta table after another, *)
(* each in commits of its own, so that a batch may be half applied when    *)
(* the process dies and the batch is run again.  One writer at a time: the *)
(* lock file of the output turns a second one away.                        *)
(*                                                                         *)
(* Checkpoint and tables are durable, the phase and the plan of the batch  *)
(* are not.  Delta maintenance (spark/delta_maintenance.py) runs beside    *)
(* the job: setting table properties makes a write in progress fail, and   *)
(* whoever supervises the job starts it again.                             *)
(***************************************************************************)
EXTENDS BronzeStream, SilverReconcile, Functions

CONSTANTS
    Unseen, Blocked \* verdicts on a business key

Items == UNION {Range(payload.items) : payload \in Payloads}
Values == {item.val : item \in Items}

ASSUME SilverAssumption ==
    /\ Tables \in Seq(STRING) /\ Tables # <<>> /\ "quarantine" \notin Range(Tables)
    /\ Arrivals \in Seq(SUBSET Payloads) /\ MaxFaults \in Nat
    /\ StartingOffsets \subseteq {"earliest", "latest"}
    /\ \A payload \in Payloads :
          /\ payload.shape \in Shapes
          /\ payload.items \in Seq(Items)
    /\ \A item \in Items : item.shape \in ItemShapes /\ item.valid \in BOOLEAN
    /\ \A item \in Items : item.valid => item.table \in Range(Tables)
    /\ Unseen # Blocked /\ Unseen \notin Values /\ Blocked \notin Values

VARIABLES
    rows,       \* the rows of the event tables
    quarantine, \* the quarantine table: source key -> conflict_keys
    silverFrom, \* checkpoint: the Bronze commits up to which batches are done
    silverTo,   \* checkpoint: the planned end of the current batch
    phase,      \* what the job does next in the current batch
    turn,       \* the table it writes
    plan,       \* what it has decided
    retention   \* whether the tables have the retention that maintenance sets

tables == <<rows, quarantine>>
job == <<silverFrom, silverTo, phase, turn, plan>>
silverVars == <<tables, job, retention>>
vars == <<bronzeVars, silverVars>>

NoPlan == [quarantine |-> <<>>, deletes |-> {}, inserts |-> {}]
Writing == {"merge", "delete", "insert", "commit"}

Init ==
    /\ BronzeInit
    /\ rows = {} /\ quarantine = <<>>
    /\ silverFrom = 0 /\ silverTo = 0 /\ phase = "idle" /\ turn = 1 /\ plan = NoPlan
    /\ retention = "default"

BronzeStep == StartQuery \/ PlanBronze \/ AppendBronze \/ CommitBronze

-----------------------------------------------------------------------------
PlanSilver ==
    /\ phase = "idle" /\ silverFrom < Len(bronze)
    /\ silverTo' = Len(bronze)
    /\ phase' = "planned"
    /\ UNCHANGED <<bronzeVars, tables, silverFrom, turn, plan, retention>>

(* The rows of Bronze in some of its commits.                               *)
RowsIn(from, to) == UNION {bronze[i] : i \in (from + 1)..to}

Agree(some, others) ==
    \A f \in some : \A g \in others : f.offset = g.offset => f.payload = g.payload

(* validate_bronze_source: no coordinate of the batch has two contents,     *)
(* anywhere in Bronze.  Otherwise the batch fails, at every retry.          *)
UnambiguousBatch(from, to) == Agree(RowsIn(from, to), RowsIn(from, to))
Unambiguous(from, to) == Agree(RowsIn(from, to), RowsIn(0, Len(bronze)))

Records(from, to) == UNION {ParseFrame(f.offset, f.payload) : f \in RowsIn(from, to)}
NativeRecords(from, to) == UNION {NativeParse(f.offset, f.payload) : f \in RowsIn(from, to)}

(* write_batch up to its first write: parse, match, decide.                 *)
DecideBatch ==
    /\ phase = "planned" /\ Unambiguous(silverFrom, silverTo)
    /\ phase' = "merge" /\ turn' = 1
    /\ UNCHANGED <<bronzeVars, tables, silverFrom, silverTo, retention>>
    /\ \E incoming \in {NativeRecords(silverFrom, silverTo)} :
          \E stored \in {Matches(rows, incoming)} :
             \E closed \in {ClosedSets(Nodes(incoming) \cup Nodes(stored))} :
                plan' = NativePlan(quarantine, incoming, stored, closed)

(* merge_quarantine_frame: conflict keys are added to an entry, never lost. *)
Merged(old, new) ==
    [src \in DOMAIN old \cup DOMAIN new |->
        (IF src \in DOMAIN old THEN old[src] ELSE {})
        \cup (IF src \in DOMAIN new THEN new[src] ELSE {})]

MergeQuarantine ==
    /\ phase = "merge"
    /\ quarantine' = Merged(quarantine, plan.quarantine)
    /\ phase' = "delete"
    /\ UNCHANGED <<bronzeVars, rows, silverFrom, silverTo, turn, plan, retention>>

Deleted(r) == r.table = Tables[turn] /\ \E d \in plan.deletes : NodeOf(d) = NodeOf(r)

DeleteFirst ==
    /\ phase \in {"merge", "delete"}
    /\ rows' = {r \in rows : ~Deleted(r)}
    /\ phase' = "insert"
    /\ UNCHANGED <<bronzeVars, quarantine, silverFrom, silverTo, turn, plan, retention>>

DeleteRows ==
    /\ phase = "delete"
    /\ rows' = {r \in rows : ~Deleted(r)}
    /\ phase' = "insert"
    /\ UNCHANGED <<bronzeVars, quarantine, silverFrom, silverTo, turn, plan, retention>>

(* An insert is a merge on the group: a row that is there already stays.    *)
Inserted(r) == r.table = Tables[turn] /\ \A s \in rows : Group(s) # Group(r)

InsertRows ==
    /\ phase = "insert"
    /\ rows' = rows \cup {r \in plan.inserts : Inserted(r)}
    /\ IF turn < Len(Tables) THEN turn' = turn + 1 /\ phase' = "delete"
       ELSE phase' = "commit" /\ UNCHANGED turn
    /\ UNCHANGED <<bronzeVars, quarantine, silverFrom, silverTo, plan, retention>>

CommitSilver ==
    /\ phase = "commit"
    /\ silverFrom' = silverTo
    /\ phase' = "idle" /\ plan' = NoPlan
    /\ UNCHANGED <<bronzeVars, tables, silverTo, turn, retention>>

SilverStep ==
    PlanSilver \/ DecideBatch \/ MergeQuarantine \/ DeleteRows \/ InsertRows \/ CommitSilver

(* The process dies and starts again: the batch is planned as it was.       *)
Restarted == phase' = "planned" /\ plan' = NoPlan /\ UNCHANGED <<silverFrom, silverTo, turn>>

CrashSilver ==
    /\ phase \in Writing /\ faults < MaxFaults
    /\ faults' = faults + 1
    /\ Restarted
    /\ UNCHANGED <<stream, tables, retention>>

(* The checkpoint of the job is removed: it starts over from all of Bronze, *)
(* on the tables as they are.                                               *)
StartSilverOver ==
    /\ faults < MaxFaults
    /\ faults' = faults + 1
    /\ silverFrom' = 0 /\ silverTo' = 0 /\ phase' = "idle" /\ plan' = NoPlan
    /\ UNCHANGED <<stream, tables, turn, retention>>

(* apply_table_maintenance: the properties are set only if they differ.     *)
(* Without a difference only VACUUM is left, which disturbs nobody.         *)
SetRetention ==
    /\ retention' = "maintained"
    /\ IF phase \in Writing THEN Restarted ELSE UNCHANGED job
    /\ UNCHANGED <<bronzeVars, tables>>

MaintainAlways == SetRetention

Maintain == IF retention # "maintained" THEN SetRetention ELSE UNCHANGED vars

Next ==
    \/ BronzeNext /\ UNCHANGED silverVars
    \/ SilverStep
    \/ CrashSilver \/ StartSilverOver \/ Maintain

(* Each step of the job changes its phase, and whether a batch can be       *)
(* decided does not depend on the decision, so fairness leaves that out.    *)
Deciding == phase = "planned" /\ phase' = "merge" /\ Unambiguous(silverFrom, silverTo)
Proceeds ==
    PlanSilver \/ Deciding \/ MergeQuarantine \/ DeleteRows \/ InsertRows \/ CommitSilver

Fairness ==
    /\ WF_vars(BronzeStep /\ UNCHANGED silverVars)
    /\ WF_phase(Proceeds)

Spec == Init /\ [][Next]_vars /\ Fairness

-----------------------------------------------------------------------------
(* Properties.                                                              *)

Rec == [src : (1..MaxOffset) \X Nat, table : Range(Tables) \cup {"quarantine"},
        key : {NoKey} \cup {item.key : item \in Items}, val : {0} \cup Values]

TypeOK ==
    /\ topic \in Seq(Payloads)
    /\ bronze \in Seq(SUBSET [offset : 1..MaxOffset, payload : Payloads])
    /\ {started, appended} \subseteq BOOLEAN
    /\ 0 <= kafkaStart /\ kafkaStart <= kafkaFrom
    /\ kafkaFrom <= kafkaTo /\ kafkaTo <= Len(topic)
    /\ faults \in 0..MaxFaults /\ lost \in 0..faults
    /\ rows \subseteq {r \in Rec : Normal(r)}
    /\ DOMAIN quarantine \subseteq (1..MaxOffset) \X Nat
    /\ 0 <= silverFrom /\ silverFrom <= silverTo /\ silverTo <= Len(bronze)
    /\ phase \in {"idle", "planned"} \cup Writing /\ turn \in DOMAIN Tables
    /\ plan.deletes \subseteq Rec /\ plan.inserts \subseteq {r \in Rec : Normal(r)}
    /\ retention \in {"default", "maintained"}

(* From the offset at which the query began up to its checkpoint, Bronze    *)
(* holds every frame of the topic but the connection responses; and a frame *)
(* is there once for this query, if that has got to it, and at most once    *)
(* more for each checkpoint that was lost: a query that is started again at *)
(* the latest offset repeats nothing (create_stage_df,                      *)
(* create_streaming_query, transform_raw_messages).                         *)
CopiesOf(o) == {i \in DOMAIN bronze : [offset |-> o, payload |-> topic[o]] \in bronze[i]}
ReadUpTo == IF appended THEN kafkaTo ELSE kafkaFrom
BronzeIsComplete ==
    \A o \in DOMAIN topic :
        /\ o \in (kafkaStart + 1)..ReadUpTo /\ Kept(topic[o]) => CopiesOf(o) # {}
        /\ CopiesOf(o) # {} => Kept(topic[o])
        /\ Cardinality(CopiesOf(o)) <= lost + (IF o \in (kafkaStart + 1)..ReadUpTo THEN 1 ELSE 0)

(* Every batch Silver has applied took its frames from coordinates with one *)
(* content, also against the batches before it: a reused offset never gets  *)
(* as far as the tables (validate_bronze_source reads all of Bronze).       *)
ProcessedUnambiguous == Agree(RowsIn(0, silverFrom), RowsIn(0, silverFrom))

(* Production decides as the executable reference does, on every batch that *)
(* is about to be decided: same records, same plan (silver_native against   *)
(* silver_parser and silver_store).                                         *)
NativeMatchesReference ==
    phase = "planned" /\ Unambiguous(silverFrom, silverTo) =>
        \A incoming \in {Records(silverFrom, silverTo)} :
            \A stored \in {Matches(rows, incoming)} :
                /\ NativeRecords(silverFrom, silverTo) = incoming
                /\ \A closed \in {ClosedSets(incoming \cup stored)},
                      linked \in {ClosedSets(Nodes(incoming) \cup Nodes(stored))} :
                      NativePlan(quarantine, incoming, stored, linked)
                      = ReferencePlan(quarantine, incoming, stored, closed)

Applied == Records(0, silverFrom)
Disputed(r) == \E s \in Applied : BusinessTokens(r) # {} /\ BusinessTokens(s) = BusinessTokens(r)
                                 /\ s.val # r.val

(* Between batches the set of frames applied decides which keys have a row, *)
(* and with which values: those that nothing disputes.  Where the batches   *)
(* were cut, what was applied twice and where the job died leaves no trace  *)
(* (docs/silver-data-contract.md, section on replays).                      *)
TablesAreOrderFree ==
    phase = "idle" /\ silverFrom > 0 =>
        {<<Group(r), r.val>> : r \in rows}
        = {<<Group(r), r.val>> : r \in {s \in Applied : Normal(s) /\ ~Disputed(s)}}

(* A business key has at most one row, also while a batch is half applied   *)
(* and after it is run again (InsertRows, Winners).                         *)
OneRowPerKey == \A r, s \in rows : Group(r) = Group(s) => r = s

QuarantinedKeys == UNION Range(quarantine)

(* No event is lost on the way, not even while a batch is half applied:     *)
(* what was applied once is a row, or equals the row of its key, or is in   *)
(* quarantine, or its key is.  Quarantine is written before rows are        *)
(* deleted for that (apply_changes, write_batch).                           *)
NothingLost ==
    \A r \in Applied :
        \/ \E s \in rows : Group(s) = Group(r) /\ s.val = r.val
        \/ r.src \in DOMAIN quarantine
        \/ BusinessTokens(r) \cap QuarantinedKeys # {}

(* The verdict on every business key: it is accepted as long as it has a    *)
(* row, so that a batch that has written its quarantine and not yet deleted *)
(* the row has not blocked it yet.                                          *)
BusinessKeys == {<<item.table, item.key>> : item \in {i \in Items : i.key # NoKey}}
RowsOf(k) == {r \in rows : <<r.table, r.key>> = k}
VerdictOn(k) ==
    IF RowsOf(k) # {} THEN (CHOOSE r \in RowsOf(k) : TRUE).val
    ELSE IF <<"business", k>> \in QuarantinedKeys THEN Blocked
    ELSE Unseen

Promise == INSTANCE KeyVerdicts WITH
    Keys <- BusinessKeys, verdicts <- [k \in BusinessKeys |-> VerdictOn(k)]

(* Every step of the job keeps the promise on its keys: an accepted value   *)
(* is not replaced, a blocked key is not accepted again, through crashes,   *)
(* retries and replays.                                                     *)
VerdictsHold == Promise!Spec

(* The pipeline catches up with the topic again and again, however often    *)
(* maintenance runs, unless a coordinate has two contents: then Silver      *)
(* stops until somebody repairs Bronze.                                     *)
CaughtUp == started /\ kafkaFrom = Len(topic) /\ silverFrom = Len(bronze)
PipelineCatchesUp == []<>(CaughtUp \/ ~Unambiguous(0, Len(bronze)))
=============================================================================
