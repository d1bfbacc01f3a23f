---------------------------- MODULE SilverRecords ----------------------------
(***************************************************************************)
(* What Silver makes of frames: parsing a Bronze frame into records        *)
(* (spark/silver_parser.py and its Spark form in spark/silver_native.py)   *)
(* and reconciling the records of a batch with the stored rows that share  *)
(* a key with them (silver_store.reconcile, the executable reference, and  *)
(* silver_native._decide, which production runs).                          *)
(*                                                                         *)
(* A payload is [shape, items]; an item that is an event names its table,  *)
(* its business key (or NoKey), the value of its critical fields, and      *)
(* whether its fields are valid.  A record has a source key (coordinate    *)
(* and body index); error codes, fields and time stamps are left out.      *)
(***************************************************************************)
EXTENDS Naturals, Sequences, FiniteSets

CONSTANTS
    Tables,     \* the event tables in the order they are written
    NoKey       \* the business key of a record in a table without one

-----------------------------------------------------------------------------
(* Parsing.                                                                 *)

Unusable == {"not_json", "not_object", "bad_cmd", "bad_body"}
Ignored == {"other_cmd", "accepted", "empty"}  \* counted in a metric, no record
Shapes == Unusable \cup Ignored \cup {"items"}
ItemShapes == {"not_object", "bad_cmd", "other_cmd", "event"}

Quarantined(offset, index) ==
    [src |-> <<offset, index>>, table |-> "quarantine", key |-> NoKey, val |-> 0]

Row(offset, index, item) ==
    [src |-> <<offset, index>>, table |-> item.table, key |-> item.key, val |-> item.val]

(* parse_item: nothing for another command, else a row or a quarantine.     *)
ParseItem(offset, index, item) ==
    CASE item.shape \in {"not_object", "bad_cmd"} -> {Quarantined(offset, index)}
      [] item.shape = "other_cmd" -> {}
      [] item.shape = "event" ->
            {IF item.valid THEN Row(offset, index, item) ELSE Quarantined(offset, index)}

(* parse_frame: a frame that cannot be read is quarantined as a whole.      *)
ParseFrame(offset, payload) ==
    IF payload.shape \in Unusable THEN {Quarantined(offset, 0)}
    ELSE IF payload.shape \in Ignored THEN {}
    ELSE UNION {ParseItem(offset, i, payload.items[i]) : i \in DOMAIN payload.items}

(* silver_native.parse: every frame is exploded, one that has no items into *)
(* itself at position 0 (-1 in the code); each piece has an early error, or *)
(* a metric, or is parsed as an item whatever it is.                        *)
Positions(payload) == IF payload.shape = "items" THEN DOMAIN payload.items ELSE {0}
AnyPiece == [shape |-> "piece", table |-> "chat_messages", key |-> NoKey, val |-> 0, valid |-> FALSE]
Piece(payload, i) == IF payload.shape = "items" THEN payload.items[i] ELSE AnyPiece

EarlyError(payload, i) ==
    \/ payload.shape \in Unusable
    \/ payload.shape = "items" /\ Piece(payload, i).shape \in {"not_object", "bad_cmd"}

FrameMetric(payload, i) == payload.shape \in Ignored

HasMetric(payload, i) ==
    \/ FrameMetric(payload, i)
    \/ payload.shape = "items" /\ Piece(payload, i).shape = "other_cmd"

NativeParse(offset, payload) ==
    {IF EarlyError(payload, i) \/ ~Piece(payload, i).valid
     THEN Quarantined(offset, i) ELSE Row(offset, i, Piece(payload, i)) :
        i \in {p \in Positions(payload) : ~HasMetric(payload, p)}}

-----------------------------------------------------------------------------
(* Keys, and what shares them.                                              *)

SourceToken(src) == <<"source", src>>
BusinessTokens(r) == IF r.key = NoKey THEN {} ELSE {<<"business", <<r.table, r.key>>>>}
Tokens(r) == {SourceToken(r.src)} \cup BusinessTokens(r)
AllTokens(recs) == UNION {Tokens(r) : r \in recs}
SharesKey(r, s) == Tokens(r) \cap Tokens(s) # {}

Normal(r) == r.table # "quarantine"
Signature(r) == <<r.table, r.key, r.val>>

(* The stored rows a batch is reconciled with (load_matches).               *)
Matches(rows, incoming) == {r \in rows : \E s \in incoming : SharesKey(r, s)}

(* Two different contents under one source key, one of them a row.          *)
SourceConflicts(recs) ==
    {SourceToken(r.src) : r \in
        {r \in recs : Normal(r) /\ \E s \in recs : s.src = r.src /\ Signature(s) # Signature(r)}}

(* Two different critical values under one business key.                    *)
ConflictsWithin(recs) ==
    UNION {BusinessTokens(r) : r \in
        {r \in recs : \E s \in recs : BusinessTokens(s) = BusinessTokens(r) /\ s.val # r.val}}

BatchConflicts(incoming, stored) == ConflictsWithin(incoming)
BusinessConflicts(incoming, stored) == ConflictsWithin(incoming \cup stored)

(* The quarantine maps the source key of an entry to its conflict_keys.     *)
(* Relevant are the entries for the batch's own source keys, and those that *)
(* carry a key of any record at hand.                                       *)
OwnEntries(quarantine, incoming, stored) ==
    {src \in DOMAIN quarantine : \E r \in incoming : r.src = src}

PriorMatched(quarantine, incoming, stored) ==
    {src \in DOMAIN quarantine :
        \/ \E r \in incoming : r.src = src
        \/ quarantine[src] \cap AllTokens(incoming \cup stored) # {}}

(* The keys that block: of a conflict at hand, or in a relevant entry.      *)
Seeds(quarantine, incoming, stored) ==
    SourceConflicts(incoming \cup stored) \cup BusinessConflicts(incoming, stored)
    \cup UNION {{SourceToken(src)} \cup quarantine[src] :
                src \in PriorMatched(quarantine, incoming, stored)}
=============================================================================
