----------------------- MODULE SilverReconcile_proofs -----------------------
(***************************************************************************)
(* What holds of one decision of Silver, for any records: the joins of     *)
(* production block what the walk of the reference blocks, both plan the   *)
(* same, and the plan keeps accepted and blocked keys apart.               *)
(***************************************************************************)
EXTENDS SilverReconcile, WellFoundedInduction, TLAPS

-----------------------------------------------------------------------------
(* Closed sets and components.                                              *)

(* Sharing a key is mutual, and every record shares its own.                *)
LEMMA SharesKeySymmetric ==
    ASSUME NEW r, NEW s
    PROVE  /\ SharesKey(r, s) <=> SharesKey(s, r)
           /\ SharesKey(r, r)
    BY DEF SharesKey, Tokens

(* A closed set holds all or none of the records that share a key.          *)
LEMMA ClosedSetsAre ==
    ASSUME NEW recs, NEW D
    PROVE  D \in ClosedSets(recs) <=>
              /\ D \subseteq recs
              /\ \A r \in D : \A s \in recs : SharesKey(r, s) => s \in D
<1> DEFINE linked == {p \in recs \X recs : SharesKey(p[1], p[2])}
<1>1. ClosedSets(recs) = {C \in SUBSET recs : \A p \in linked : p[1] \in C => p[2] \in C}
    BY DEF ClosedSets
<1>2. ASSUME D \subseteq recs, \A p \in linked : p[1] \in D => p[2] \in D,
             NEW r \in D, NEW s \in recs, SharesKey(r, s)
      PROVE  s \in D
    <2>1. <<r, s>> \in linked
        BY <1>2
    <2>2. QED
        BY <1>2, <2>1
<1>3. QED
    BY <1>1, <1>2

(* All records together are closed.                                         *)
LEMMA WholeIsClosed ==
    ASSUME NEW recs
    PROVE  recs \in ClosedSets(recs) /\ UNION ClosedSets(recs) = recs
<1>1. recs \in ClosedSets(recs)
    BY ClosedSetsAre
<1>2. \A D \in ClosedSets(recs) : D \subseteq recs
    BY ClosedSetsAre
<1>3. QED
    BY <1>1, <1>2

(* So are those outside of a closed set.                                    *)
LEMMA ComplementIsClosed ==
    ASSUME NEW recs, NEW D \in ClosedSets(recs)
    PROVE  recs \ D \in ClosedSets(recs)
<1>1. ASSUME NEW r \in recs \ D, NEW s \in recs, SharesKey(r, s)
      PROVE  s \in recs \ D
    BY <1>1, SharesKeySymmetric, ClosedSetsAre
<1>2. QED
    BY <1>1, ClosedSetsAre

(* A record is in its own component, within the records.                    *)
LEMMA ComponentHolds ==
    ASSUME NEW recs, NEW r \in recs
    PROVE  /\ r \in Component(ClosedSets(recs), r)
           /\ Component(ClosedSets(recs), r) \subseteq recs
    BY WholeIsClosed DEF Component

(* Components are mutual.                                                   *)
LEMMA ComponentSymmetric ==
    ASSUME NEW recs, NEW r \in recs, NEW s \in Component(ClosedSets(recs), r)
    PROVE  r \in Component(ClosedSets(recs), s)
<1>1. ASSUME NEW C \in ClosedSets(recs), s \in C, r \notin C
      PROVE  FALSE
    <2>1. recs \ C \in ClosedSets(recs)
        BY ComplementIsClosed
    <2>2. r \in recs \ C
        BY <1>1
    <2>3. s \in recs \ C
        BY <2>1, <2>2 DEF Component
    <2>4. QED
        BY <1>1, <2>3
<1>2. QED
    BY <1>1, WholeIsClosed DEF Component

(* What production blocks is closed, and holds every record with a seed.    *)
LEMMA BlockedIsClosed ==
    ASSUME NEW recs, NEW seeds
    PROVE  BlockedNodes(ClosedSets(recs), seeds) \in ClosedSets(recs)
<1> DEFINE closed == ClosedSets(recs)
           blocked == BlockedNodes(closed, seeds)
<1>1. blocked \subseteq recs
    BY WholeIsClosed DEF BlockedNodes
<1>2. ASSUME NEW n \in blocked, NEW s \in recs, SharesKey(n, s)
      PROVE  s \in blocked
    <2>1. Component(closed, n) \subseteq Component(closed, s)
        <3>1. ASSUME NEW u \in Component(closed, n), NEW C \in closed, s \in C
              PROVE  u \in C
            <4>1. n \in C
                BY <1>1, <1>2, <3>1, SharesKeySymmetric, ClosedSetsAre
            <4>2. QED
                BY <3>1, <4>1 DEF Component
        <3>2. QED
            BY <3>1 DEF Component
    <2>2. AllTokens(Component(closed, n)) \cap seeds # {}
        BY <1>2 DEF BlockedNodes
    <2>3. AllTokens(Component(closed, n)) \subseteq AllTokens(Component(closed, s))
        BY <2>1 DEF AllTokens
    <2>4. QED
        BY <1>2, <2>2, <2>3, WholeIsClosed DEF BlockedNodes
<1>3. QED
    BY <1>1, <1>2, ClosedSetsAre

LEMMA SeededIsBlocked ==
    ASSUME NEW recs, NEW seeds, NEW r \in recs, Tokens(r) \cap seeds # {}
    PROVE  r \in BlockedNodes(ClosedSets(recs), seeds)
<1>1. Tokens(r) \subseteq AllTokens(Component(ClosedSets(recs), r))
    BY ComponentHolds DEF AllTokens
<1>2. QED
    BY <1>1, WholeIsClosed DEF BlockedNodes

(* The component of a blocked record is blocked, and so is what shares a    *)
(* key with one of its records.                                             *)
LEMMA BlockedComponent ==
    ASSUME NEW recs, NEW seeds, NEW b \in BlockedNodes(ClosedSets(recs), seeds),
           NEW s \in Component(ClosedSets(recs), b), NEW r \in recs, SharesKey(s, r)
    PROVE  r \in BlockedNodes(ClosedSets(recs), seeds)
<1>1. s \in BlockedNodes(ClosedSets(recs), seeds)
    BY BlockedIsClosed DEF Component
<1>2. QED
    BY <1>1, BlockedIsClosed, ClosedSetsAre

(* The walk of the reference finds the labelled components of production:   *)
(* both block the same records, whatever the seeds (silver_store.reconcile, *)
(* silver_native.components).                                               *)
THEOREM WalkFindsComponents ==
    ASSUME NEW recs, NEW seeds
    PROVE  Poisoned(ClosedSets(recs), seeds) = BlockedNodes(ClosedSets(recs), seeds)
<1> DEFINE closed == ClosedSets(recs)
           seeded == {r \in UNION closed : Tokens(r) \cap seeds # {}}
<1>1. seeded \subseteq BlockedNodes(closed, seeds)
    BY SeededIsBlocked, WholeIsClosed
<1>2. Poisoned(closed, seeds) \subseteq BlockedNodes(closed, seeds)
    BY <1>1, BlockedIsClosed DEF Poisoned
<1>3. ASSUME NEW n \in BlockedNodes(closed, seeds)
      PROVE  n \in Poisoned(closed, seeds)
    <2>1. n \in recs
        BY WholeIsClosed DEF BlockedNodes
    <2>2. PICK u \in Component(closed, n) : Tokens(u) \cap seeds # {}
        BY DEF BlockedNodes, AllTokens
    <2>3. u \in recs /\ n \in Component(closed, u)
        BY <2>1, ComponentHolds, ComponentSymmetric
    <2>4. u \in seeded
        BY <2>2, <2>3, WholeIsClosed
    <2>5. ASSUME NEW C \in closed, seeded \subseteq C
          PROVE  n \in C
        BY <2>3, <2>4, <2>5 DEF Component
    <2>6. QED
        BY <2>1, <2>5, WholeIsClosed DEF Poisoned
<1>4. QED
    BY <1>2, <1>3

-----------------------------------------------------------------------------
(* Parsing.                                                                 *)

ReadablePayload(payload) ==
    /\ payload.shape \in Shapes
    /\ \A i \in DOMAIN payload.items :
          payload.items[i].shape \in ItemShapes /\ payload.items[i].valid \in BOOLEAN

(* Both parsers make the same records of a frame (silver_parser.parse_frame *)
(* and parse_item, silver_native.parse).                                    *)
THEOREM ParsersAgree ==
    ASSUME NEW offset, NEW payload, ReadablePayload(payload)
    PROVE  NativeParse(offset, payload) = ParseFrame(offset, payload)
<1>1. CASE payload.shape \in Unusable
    <2>1. {p \in Positions(payload) : ~HasMetric(payload, p)} = {0}
        BY <1>1 DEF Positions, HasMetric, FrameMetric, Unusable, Ignored
    <2>2. EarlyError(payload, 0)
        BY <1>1 DEF EarlyError
    <2>3. NativeParse(offset, payload) = {Quarantined(offset, 0)}
        BY <2>1, <2>2 DEF NativeParse
    <2>4. QED
        BY <1>1, <2>3 DEF ParseFrame
<1>2. CASE payload.shape \in Ignored
    <2>1. {p \in Positions(payload) : ~HasMetric(payload, p)} = {}
        BY <1>2 DEF HasMetric, FrameMetric
    <2>2. NativeParse(offset, payload) = {}
        BY <2>1 DEF NativeParse
    <2>3. QED
        BY <1>2, <2>2 DEF ParseFrame, Unusable, Ignored
<1>3. CASE payload.shape = "items"
    <2> DEFINE items == payload.items
               Native(i) == IF EarlyError(payload, i) \/ ~Piece(payload, i).valid
                            THEN Quarantined(offset, i) ELSE Row(offset, i, Piece(payload, i))
    <2>1. /\ payload.shape \notin Unusable /\ payload.shape \notin Ignored
          /\ Positions(payload) = DOMAIN items
          /\ \A i : Piece(payload, i) = items[i]
        BY <1>3 DEF Unusable, Ignored, Positions, Piece
    <2>2. ASSUME NEW i \in DOMAIN items
          PROVE  ParseItem(offset, i, items[i])
                 = IF HasMetric(payload, i) THEN {} ELSE {Native(i)}
        <3>1. HasMetric(payload, i) <=> items[i].shape = "other_cmd"
            BY <1>3, <2>1 DEF HasMetric, FrameMetric
        <3>2. EarlyError(payload, i) <=> items[i].shape \in {"not_object", "bad_cmd"}
            BY <1>3, <2>1 DEF EarlyError
        <3>3. items[i].shape \in ItemShapes /\ items[i].valid \in BOOLEAN
            BY DEF ReadablePayload
        <3>4. CASE items[i].shape \in {"not_object", "bad_cmd"}
            BY <2>1, <3>1, <3>2, <3>4 DEF ParseItem
        <3>5. CASE items[i].shape = "other_cmd"
            BY <2>1, <3>1, <3>2, <3>5 DEF ParseItem
        <3>6. CASE items[i].shape = "event"
            BY <2>1, <3>1, <3>2, <3>3, <3>6 DEF ParseItem
        <3>7. QED
            BY <3>3, <3>4, <3>5, <3>6 DEF ItemShapes
    <2>3. NativeParse(offset, payload)
          = {Native(i) : i \in {p \in DOMAIN items : ~HasMetric(payload, p)}}
        BY <2>1 DEF NativeParse
    <2>4. ParseFrame(offset, payload)
          = UNION {ParseItem(offset, i, items[i]) : i \in DOMAIN items}
        BY <2>1 DEF ParseFrame
    <2> HIDE DEF Native
    <2>5. ASSUME NEW r \in NativeParse(offset, payload)
          PROVE  r \in ParseFrame(offset, payload)
        <3>1. PICK i \in DOMAIN items : ~HasMetric(payload, i) /\ r = Native(i)
            BY <2>3
        <3>2. QED
            BY <2>2, <2>4, <3>1
    <2>6. ASSUME NEW r \in ParseFrame(offset, payload)
          PROVE  r \in NativeParse(offset, payload)
        <3>1. PICK i \in DOMAIN items : r \in ParseItem(offset, i, items[i])
            BY <2>4
        <3>2. QED
            BY <2>2, <2>3, <3>1
    <2>7. QED
        BY <2>5, <2>6
<1>4. QED
    BY <1>1, <1>2, <1>3 DEF ReadablePayload, Shapes

(* A record is a function of the content at its source key.                 *)
LEMMA SourceDetermines ==
    ASSUME NEW o, NEW p, NEW payload, NEW r \in NativeParse(o, payload),
           NEW s \in NativeParse(p, payload), r.src = s.src
    PROVE  r = s
<1>1. PICK i \in Positions(payload) :
        r = IF EarlyError(payload, i) \/ ~Piece(payload, i).valid
            THEN Quarantined(o, i) ELSE Row(o, i, Piece(payload, i))
    BY DEF NativeParse
<1>2. PICK j \in Positions(payload) :
        s = IF EarlyError(payload, j) \/ ~Piece(payload, j).valid
            THEN Quarantined(p, j) ELSE Row(p, j, Piece(payload, j))
    BY DEF NativeParse
<1>3. r.src = <<o, i>> /\ s.src = <<p, j>>
    BY <1>1, <1>2 DEF Quarantined, Row
<1>4. <<o, i>> = <<p, j>>
    BY <1>3
<1>5. o = p /\ i = j
    BY <1>4
<1>6. QED
    BY <1>1, <1>2, <1>5

-----------------------------------------------------------------------------
(* Plans.                                                                   *)

(* The source key determines the record.                                    *)
Identified(recs) == \A r, s \in recs : r.src = s.src => r = s

LEMMA NodesAreRecords ==
    ASSUME NEW recs, Identified(recs)
    PROVE  Nodes(recs) = recs
<1>1. ASSUME NEW r \in recs
      PROVE  (CHOOSE s \in recs : NodeOf(s) = NodeOf(r)) = r
    BY DEF NodeOf, Identified
<1>2. QED
    BY <1>1 DEF Nodes

(* Production decides as the reference does, where source keys identify     *)
(* records (silver_native._decide, silver_store.reconcile).                 *)
THEOREM PlansAgree ==
    ASSUME NEW quarantine, NEW incoming, NEW stored, Identified(incoming \cup stored)
    PROVE  LET closed == ClosedSets(incoming \cup stored)
           IN  NativePlan(quarantine, incoming, stored, closed)
               = ReferencePlan(quarantine, incoming, stored, closed)
<1> DEFINE closed == ClosedSets(incoming \cup stored)
           seeds == Seeds(quarantine, incoming, stored)
           blocked == BlockedNodes(closed, seeds)
<1>1. Poisoned(closed, seeds) = blocked
    BY WalkFindsComponents
<1>2. blocked \subseteq incoming \cup stored
    BY WholeIsClosed DEF BlockedNodes
<1>3. ASSUME NEW r \in incoming \cup stored
      PROVE  (\A n \in blocked : NodeOf(n) # NodeOf(r)) <=> r \notin blocked
    BY <1>2 DEF NodeOf, Identified
<1>4. {r \in incoming : Normal(r) /\ \A n \in blocked : NodeOf(n) # NodeOf(r)}
      = {r \in incoming : Normal(r) /\ r \notin blocked}
    BY <1>3
<1>5. {r \in stored : Normal(r) /\ \A n \in blocked : NodeOf(n) # NodeOf(r)}
      = {r \in stored : Normal(r) /\ r \notin blocked}
    BY <1>3
<1> HIDE DEF seeds, blocked, closed
<1>6. NativePlan(quarantine, incoming, stored, closed)
      = [quarantine |-> Entries(incoming, blocked, closed),
         deletes |-> stored \cap blocked,
         inserts |-> Winners({r \in incoming : Normal(r) /\ r \notin blocked},
                             {r \in stored : Normal(r) /\ r \notin blocked})]
    BY <1>4, <1>5 DEF NativePlan, seeds, blocked
<1>7. ReferencePlan(quarantine, incoming, stored, closed)
      = [quarantine |-> Entries(incoming, blocked, closed),
         deletes |-> stored \cap blocked,
         inserts |-> Winners({r \in incoming : Normal(r) /\ r \notin blocked},
                             {r \in stored : Normal(r) /\ r \notin blocked})]
    BY <1>1 DEF ReferencePlan, seeds
<1>8. QED
    BY <1>6, <1>7 DEF closed

-----------------------------------------------------------------------------
(* What a plan does to keys.                                                *)

KeysOf(q) == UNION {q[src] : src \in DOMAIN q}
Sourced(recs) == \A r \in recs : r.src \in Nat \X Nat

(* What of the records at hand is blocked, and what is left of a part of    *)
(* them.                                                                    *)
BlockedBy(quarantine, incoming, stored) ==
    BlockedNodes(ClosedSets(incoming \cup stored), Seeds(quarantine, incoming, stored))
Surviving(recs, blocked) == {r \in recs : Normal(r) /\ r \notin blocked}

LEMMA PlanIs ==
    ASSUME NEW quarantine, NEW incoming, NEW stored, Identified(incoming \cup stored)
    PROVE  LET closed == ClosedSets(incoming \cup stored)
               blocked == BlockedBy(quarantine, incoming, stored)
               plan == NativePlan(quarantine, incoming, stored, closed)
           IN  /\ plan.quarantine = Entries(incoming, blocked, closed)
               /\ plan.deletes = stored \cap blocked
               /\ plan.inserts = Winners(Surviving(incoming, blocked), Surviving(stored, blocked))
               /\ blocked \subseteq incoming \cup stored
<1> DEFINE closed == ClosedSets(incoming \cup stored)
           blocked == BlockedBy(quarantine, incoming, stored)
<1>1. blocked \subseteq incoming \cup stored
    BY WholeIsClosed DEF BlockedBy, BlockedNodes
<1>2. ASSUME NEW r \in incoming \cup stored
      PROVE  (\A n \in blocked : NodeOf(n) # NodeOf(r)) <=> r \notin blocked
    BY <1>1 DEF NodeOf, Identified
<1>3. /\ {r \in incoming : Normal(r) /\ \A n \in blocked : NodeOf(n) # NodeOf(r)}
         = Surviving(incoming, blocked)
      /\ {r \in stored : Normal(r) /\ \A n \in blocked : NodeOf(n) # NodeOf(r)}
         = Surviving(stored, blocked)
    BY <1>2 DEF Surviving
<1>4. NativePlan(quarantine, incoming, stored, closed)
      = [quarantine |-> Entries(incoming, blocked, closed),
         deletes |-> stored \cap blocked,
         inserts |-> Winners(Surviving(incoming, blocked), Surviving(stored, blocked))]
    BY <1>3 DEF NativePlan, BlockedBy
<1>5. QED
    BY <1>1, <1>4

(* The entries cover every unreadable record and every blocked one, with    *)
(* its business key; what they name beyond source keys belongs to the       *)
(* component of a blocked record.                                           *)
LEMMA EntriesAre ==
    ASSUME NEW incoming, NEW blocked, NEW closed
    PROVE  LET entries == Entries(incoming, blocked, closed)
           IN  /\ \A r \in incoming : ~Normal(r) => r.src \in DOMAIN entries
               /\ \A r \in blocked : r.src \in DOMAIN entries
                     /\ \A s \in Component(closed, r) : BusinessTokens(s) \subseteq entries[r.src]
               /\ \A t \in KeysOf(entries) :
                     \E b \in blocked : \/ t = SourceToken(b.src)
                                        \/ \E s \in Component(closed, b) : t \in BusinessTokens(s)
<1> DEFINE entries == Entries(incoming, blocked, closed)
           sources == {r.src : r \in blocked \cup {q \in incoming : ~Normal(q)}}
           Keys(src) == UNION {ConflictKeys(Component(closed, r), r) :
                               r \in {b \in blocked : b.src = src}}
<1>1. entries = [src \in sources |-> Keys(src)]
    BY DEF Entries
<1>2. \A r \in incoming : ~Normal(r) => r.src \in DOMAIN entries
    BY <1>1
<1>3. ASSUME NEW r \in blocked
      PROVE  /\ r.src \in DOMAIN entries
             /\ \A s \in Component(closed, r) : BusinessTokens(s) \subseteq entries[r.src]
    <2>1. r.src \in sources
        OBVIOUS
    <2>2. entries[r.src] = Keys(r.src)
        BY <1>1, <2>1
    <2>3. ConflictKeys(Component(closed, r), r) \subseteq Keys(r.src)
        OBVIOUS
    <2>4. \A s \in Component(closed, r) :
             BusinessTokens(s) \subseteq ConflictKeys(Component(closed, r), r)
        BY DEF ConflictKeys
    <2>5. QED
        BY <1>1, <2>1, <2>2, <2>3, <2>4
<1>4. ASSUME NEW t \in KeysOf(entries)
      PROVE  \E b \in blocked : \/ t = SourceToken(b.src)
                                \/ \E s \in Component(closed, b) : t \in BusinessTokens(s)
    <2>1. PICK src \in sources : t \in Keys(src)
        BY <1>1 DEF KeysOf
    <2>2. PICK b \in blocked : t \in ConflictKeys(Component(closed, b), b)
        BY <2>1
    <2>3. QED
        BY <2>2 DEF ConflictKeys
<1>5. QED
    BY <1>2, <1>3, <1>4

(* A plan inserts no record whose business key is blocked, before or by it. *)
LEMMA InsertsAreUnblocked ==
    ASSUME NEW quarantine, NEW incoming, NEW stored, Identified(incoming \cup stored),
           NEW r \in NativePlan(quarantine, incoming, stored,
                                ClosedSets(incoming \cup stored)).inserts
    PROVE  LET plan == NativePlan(quarantine, incoming, stored, ClosedSets(incoming \cup stored))
           IN  /\ r \in incoming /\ Normal(r)
               /\ BusinessTokens(r) \cap (KeysOf(quarantine) \cup KeysOf(plan.quarantine)) = {}
<1> DEFINE recs == incoming \cup stored
           closed == ClosedSets(recs)
           seeds == Seeds(quarantine, incoming, stored)
           blocked == BlockedBy(quarantine, incoming, stored)
           plan == NativePlan(quarantine, incoming, stored, closed)
<1>1. r \in Surviving(incoming, blocked)
    BY PlanIs DEF Winners
<1>2. r \in incoming /\ Normal(r) /\ r \notin blocked
    BY <1>1 DEF Surviving
<1>3. Tokens(r) \cap seeds = {}
    BY <1>2, SeededIsBlocked DEF BlockedBy
<1>4. ASSUME NEW t \in BusinessTokens(r), t \in KeysOf(quarantine)
      PROVE  FALSE
    <2>1. PICK src \in DOMAIN quarantine : t \in quarantine[src]
        BY <1>4 DEF KeysOf
    <2>2. t \in Tokens(r) /\ t \in AllTokens(recs)
        BY <1>2 DEF Tokens, AllTokens
    <2>3. src \in PriorMatched(quarantine, incoming, stored)
        BY <2>1, <2>2 DEF PriorMatched
    <2>4. t \in seeds
        BY <2>1, <2>3 DEF Seeds
    <2>5. QED
        BY <1>3, <2>2, <2>4
<1>5. ASSUME NEW t \in BusinessTokens(r), t \in KeysOf(plan.quarantine)
      PROVE  FALSE
    <2>1. plan.quarantine = Entries(incoming, blocked, closed)
        BY PlanIs
    <2>2. PICK b \in blocked : \/ t = SourceToken(b.src)
                               \/ \E s \in Component(closed, b) : t \in BusinessTokens(s)
        BY <1>5, <2>1, EntriesAre
    <2>3. t # SourceToken(b.src)
        BY DEF BusinessTokens, SourceToken
    <2>4. PICK s \in Component(closed, b) : t \in BusinessTokens(s)
        BY <2>2, <2>3
    <2>5. SharesKey(s, r)
        BY <2>4 DEF SharesKey, Tokens
    <2>6. r \in blocked
        BY <1>2, <2>4, <2>5, BlockedComponent DEF BlockedBy
    <2>7. QED
        BY <1>2, <2>6
<1>6. QED
    BY <1>2, <1>4, <1>5

(* A plan deletes only stored records, and quarantines them and their       *)
(* business keys.                                                           *)
LEMMA DeletesAreQuarantined ==
    ASSUME NEW quarantine, NEW incoming, NEW stored, Identified(incoming \cup stored),
           NEW d \in NativePlan(quarantine, incoming, stored,
                                ClosedSets(incoming \cup stored)).deletes
    PROVE  LET plan == NativePlan(quarantine, incoming, stored, ClosedSets(incoming \cup stored))
           IN  /\ d \in stored /\ d.src \in DOMAIN plan.quarantine
               /\ BusinessTokens(d) \subseteq KeysOf(plan.quarantine)
<1> DEFINE closed == ClosedSets(incoming \cup stored)
           blocked == BlockedBy(quarantine, incoming, stored)
           plan == NativePlan(quarantine, incoming, stored, closed)
<1>1. d \in stored /\ d \in blocked /\ plan.quarantine = Entries(incoming, blocked, closed)
    BY PlanIs
<1>2. d \in Component(closed, d)
    BY <1>1, ComponentHolds
<1>3. d.src \in DOMAIN plan.quarantine /\ BusinessTokens(d) \subseteq plan.quarantine[d.src]
    BY <1>1, <1>2, EntriesAre
<1>4. QED
    BY <1>1, <1>3 DEF KeysOf

(* Of a group a plan inserts at most one record.                            *)
LEMMA InsertsAreDistinct ==
    ASSUME NEW quarantine, NEW incoming, NEW stored,
           Identified(incoming \cup stored), Sourced(incoming)
    PROVE  LET plan == NativePlan(quarantine, incoming, stored, ClosedSets(incoming \cup stored))
           IN  \A r, s \in plan.inserts : Group(r) = Group(s) => r = s
<1> DEFINE blocked == BlockedBy(quarantine, incoming, stored)
           plan == NativePlan(quarantine, incoming, stored, ClosedSets(incoming \cup stored))
<1>1. plan.inserts = Winners(Surviving(incoming, blocked), Surviving(stored, blocked))
    BY PlanIs
<1> HIDE DEF plan
<1>2. ASSUME NEW r \in plan.inserts, NEW s \in plan.inserts, Group(r) = Group(s)
      PROVE  r = s
    <2>1. r \in incoming /\ s \in incoming
        BY <1>1 DEF Winners, Surviving
    <2>2. SourceOrder(r.src, s.src) /\ SourceOrder(s.src, r.src)
        BY <1>1, <1>2 DEF Winners
    <2>3. r.src \in Nat \X Nat /\ s.src \in Nat \X Nat
        BY <2>1 DEF Sourced
    <2>4. r.src[1] = s.src[1] /\ r.src[2] = s.src[2]
        BY <2>2, <2>3 DEF SourceOrder
    <2>5. r.src = s.src
        BY <2>3, <2>4
    <2>6. QED
        BY <2>1, <2>5 DEF Identified
<1>3. QED
    BY <1>2 DEF plan

-----------------------------------------------------------------------------
(* What a plan does to groups.                                              *)

LEMMA LeastNat ==
    ASSUME NEW T, T \subseteq Nat, T # {}
    PROVE  \E m \in T : \A k \in T : m <= k
<1> DEFINE R == OpToRel(<, Nat)
<1>1. IsWellFoundedOn(R, Nat)
    BY NatLessThanWellFounded
<1>2. \A x, y \in Nat : <<x, y>> \in R <=> x < y
    BY DEF OpToRel
<1> HIDE DEF R
<1>3. PICK m \in T : \A k \in T : ~ (<<k, m>> \in R)
    BY <1>1, WFMin
<1>4. \A k \in T : ~ (k < m)
    BY <1>2, <1>3
<1>5. QED
    BY <1>4

(* Some source key comes first.                                             *)
LEMMA LeastSource ==
    ASSUME NEW recs, Sourced(recs), recs # {}
    PROVE  \E w \in recs : \A r \in recs : SourceOrder(w.src, r.src)
<1>1. \A r \in recs : r.src[1] \in Nat /\ r.src[2] \in Nat
    BY DEF Sourced
<1> DEFINE offsets == {r.src[1] : r \in recs}
<1>2. PICK o \in offsets : \A k \in offsets : o <= k
  <2>1. offsets \subseteq Nat /\ offsets # {}
      BY <1>1
  <2> HIDE DEF offsets
  <2> QED BY <2>1, LeastNat
<1> DEFINE indices == {r.src[2] : r \in {q \in recs : q.src[1] = o}}
<1>3. PICK i \in indices : \A k \in indices : i <= k
  <2>1. indices \subseteq Nat /\ indices # {}
      BY <1>1, <1>2
  <2> HIDE DEF indices
  <2> QED BY <2>1, LeastNat
<1>4. PICK w \in recs : w.src[1] = o /\ w.src[2] = i
    BY <1>3
<1>5. ASSUME NEW r \in recs PROVE SourceOrder(w.src, r.src)
  <2>1. o <= r.src[1] /\ (r.src[1] = o => i <= r.src[2])
      BY <1>2, <1>3
  <2>2. o \in Nat /\ r.src[1] \in Nat
      BY <1>1, <1>4
  <2> QED BY <1>4, <2>1, <2>2 DEF SourceOrder
<1> QED BY <1>5

(* Records of one group have one source key or one business key.            *)
LEMMA GroupShares ==
    ASSUME NEW r, NEW s, Group(r) = Group(s)
    PROVE  /\ SharesKey(r, s)
           /\ r.src = s.src \/ (BusinessTokens(r) = BusinessTokens(s) /\ BusinessTokens(r) # {})
<1> DEFINE KeyIn(q) == IF q.key = NoKey THEN <<"source", q.src>> ELSE <<"business", q.key>>
<1>1. r.table = s.table /\ KeyIn(r) = KeyIn(s)
  <2>1. <<r.table, KeyIn(r)>> = <<s.table, KeyIn(s)>>
      BY DEF Group
  <2> HIDE DEF KeyIn
  <2> QED BY <2>1
<1>2. CASE r.key = NoKey /\ s.key = NoKey
  <2>1. <<"source", r.src>> = <<"source", s.src>>
      BY <1>1, <1>2
  <2>2. r.src = s.src
      BY <2>1
  <2> QED BY <2>2 DEF SharesKey, Tokens
<1>3. CASE r.key # NoKey /\ s.key # NoKey
  <2>1. <<"business", r.key>> = <<"business", s.key>>
      BY <1>1, <1>3
  <2>2. r.key = s.key
      BY <2>1
  <2>3. BusinessTokens(r) = BusinessTokens(s) /\ BusinessTokens(r) # {}
      BY <1>1, <1>3, <2>2 DEF BusinessTokens
  <2> QED BY <2>3 DEF SharesKey, Tokens
<1>4. CASE (r.key = NoKey) # (s.key = NoKey)
  <2>1. \/ <<"source", r.src>> = <<"business", s.key>>
        \/ <<"business", r.key>> = <<"source", s.src>>
      BY <1>1, <1>4
  <2>2. "source" = "business"
      BY <2>1
  <2> QED BY <2>2
<1> QED BY <1>2, <1>3, <1>4

(* Of one group, records that are not blocked have one value.               *)
LEMMA UnblockedAgree ==
    ASSUME NEW quarantine, NEW incoming, NEW stored, Identified(incoming \cup stored),
           NEW r \in incoming \cup stored, NEW s \in incoming \cup stored, Group(r) = Group(s),
           r \notin BlockedBy(quarantine, incoming, stored)
    PROVE  r.val = s.val
<1> DEFINE recs == incoming \cup stored
           seeds == Seeds(quarantine, incoming, stored)
<1>1. CASE r.src = s.src
    BY <1>1 DEF Identified
<1>2. CASE BusinessTokens(r) = BusinessTokens(s) /\ BusinessTokens(r) # {}
  <2> SUFFICES ASSUME s.val # r.val PROVE FALSE
      OBVIOUS
  <2>1. BusinessTokens(r) \subseteq ConflictsWithin(recs)
      BY <1>2 DEF ConflictsWithin
  <2>2. BusinessTokens(r) \subseteq seeds /\ BusinessTokens(r) \subseteq Tokens(r)
      BY <2>1 DEF Seeds, BusinessConflicts, Tokens
  <2>3. Tokens(r) \cap seeds # {}
      BY <1>2, <2>2
  <2>4. r \in BlockedBy(quarantine, incoming, stored)
      BY <2>3, SeededIsBlocked DEF BlockedBy
  <2> QED BY <2>4
<1> QED BY <1>1, <1>2, GroupShares

(* No stored row has the group of an insert.                                *)
LEMMA InsertsAreNew ==
    ASSUME NEW quarantine, NEW incoming, NEW stored, Identified(incoming \cup stored),
           NEW r \in NativePlan(quarantine, incoming, stored,
                                ClosedSets(incoming \cup stored)).inserts,
           NEW s \in stored, Normal(s)
    PROVE  Group(s) # Group(r)
<1> DEFINE blocked == BlockedBy(quarantine, incoming, stored)
<1>1. r \in Winners(Surviving(incoming, blocked), Surviving(stored, blocked))
    BY PlanIs
<1>2. r \in incoming /\ r \notin blocked
    BY <1>1 DEF Winners, Surviving
<1>3. s \in Surviving(stored, blocked) => Group(s) # Group(r)
    BY <1>1 DEF Winners
<1>4. ASSUME Group(s) = Group(r) PROVE FALSE
  <2>1. s \in blocked
      BY <1>3, <1>4 DEF Surviving
  <2>2. SharesKey(s, r)
      BY <1>4, GroupShares
  <2>3. r \in blocked
      BY <1>2, <2>1, <2>2, BlockedIsClosed, ClosedSetsAre DEF BlockedBy
  <2> QED BY <1>2, <2>3
<1> QED BY <1>4

(* Every incoming record is accounted for: its source key is quarantined,   *)
(* or a stored or an inserted record of its group has its value.            *)
LEMMA PlanAccounts ==
    ASSUME NEW quarantine, NEW incoming, NEW stored,
           Identified(incoming \cup stored), Sourced(incoming), NEW r \in incoming
    PROVE  LET plan == NativePlan(quarantine, incoming, stored, ClosedSets(incoming \cup stored))
           IN  \/ r.src \in DOMAIN plan.quarantine
               \/ \E s \in stored \cup plan.inserts : Group(s) = Group(r) /\ s.val = r.val
<1> DEFINE closed == ClosedSets(incoming \cup stored)
           blocked == BlockedBy(quarantine, incoming, stored)
           plan == NativePlan(quarantine, incoming, stored, closed)
           rivals == {s \in Surviving(incoming, blocked) : Group(s) = Group(r)}
<1>1. /\ plan.quarantine = Entries(incoming, blocked, closed)
      /\ plan.inserts = Winners(Surviving(incoming, blocked), Surviving(stored, blocked))
    BY PlanIs
<1> HIDE DEF plan
<1>2. CASE ~Normal(r) \/ r \in blocked
    BY <1>1, <1>2, EntriesAre DEF plan
<1>3. CASE Normal(r) /\ r \notin blocked
  <2>1. \A s \in incoming \cup stored : Group(s) = Group(r) => s.val = r.val
      BY <1>3, UnblockedAgree
  <2>2. CASE \E s \in Surviving(stored, blocked) : Group(s) = Group(r)
      BY <2>1, <2>2 DEF Surviving, plan
  <2>3. CASE \A s \in Surviving(stored, blocked) : Group(s) # Group(r)
    <3>1. r \in rivals
        BY <1>3 DEF Surviving
    <3>2. rivals \subseteq incoming
        BY DEF Surviving
    <3>3. Sourced(rivals)
        BY <3>2 DEF Sourced
    <3>4. PICK w \in rivals : \A s \in rivals : SourceOrder(w.src, s.src)
        BY <3>1, <3>3, LeastSource
    <3>5. w \in plan.inserts
        BY <1>1, <2>3, <3>4 DEF Winners
    <3>6. Group(w) = Group(r) /\ w.val = r.val
        BY <2>1, <3>2, <3>4
    <3> QED BY <3>5, <3>6 DEF plan
  <2> QED BY <2>2, <2>3
<1> QED BY <1>2, <1>3

-----------------------------------------------------------------------------
(* What a quarantine rests on.                                              *)

(* A record has one business key at most, and none that is a source key.    *)
LEMMA BusinessKeyIsOne ==
    ASSUME NEW r, NEW t \in BusinessTokens(r)
    PROVE  BusinessTokens(r) = {t} /\ \A src : t # SourceToken(src)
    BY DEF BusinessTokens, SourceToken

LEMMA SharedKeyIs ==
    ASSUME NEW r, NEW s, SharesKey(r, s)
    PROVE  r.src = s.src \/ (BusinessTokens(r) = BusinessTokens(s) /\ BusinessTokens(r) # {})
<1>1. PICK t \in Tokens(r) : t \in Tokens(s)
    BY DEF SharesKey
<1>2. CASE t \in BusinessTokens(r) /\ t \in BusinessTokens(s)
    BY <1>2, BusinessKeyIsOne
<1>3. CASE t = SourceToken(r.src) /\ t = SourceToken(s.src)
    BY <1>3 DEF SourceToken
<1> QED BY <1>1, <1>2, <1>3, BusinessKeyIsOne DEF Tokens

LEMMA ConflictsGrow ==
    ASSUME NEW recs, NEW more, recs \subseteq more
    PROVE  ConflictsWithin(recs) \subseteq ConflictsWithin(more)
    BY DEF ConflictsWithin

(* A conflict is on a business key, and every record of that key is in it.  *)
LEMMA ConflictsAre ==
    ASSUME NEW recs, NEW t \in ConflictsWithin(recs)
    PROVE  \E r, s \in recs : /\ t \in BusinessTokens(r) /\ BusinessTokens(s) = BusinessTokens(r)
                              /\ s.val # r.val
    BY DEF ConflictsWithin

(* An entry of the quarantine is about an unreadable record, or about one   *)
(* whose business key it names; and a business key it names is one that two *)
(* of the records dispute.                                                  *)
Explained(q, recs) ==
    /\ \A src \in DOMAIN q : \E r \in recs :
          /\ r.src = src
          /\ ~Normal(r) \/ (BusinessTokens(r) # {} /\ BusinessTokens(r) \subseteq KeysOf(q))
    /\ \A t \in KeysOf(q) : t \in ConflictsWithin(recs) \/ \E src \in DOMAIN q : t = SourceToken(src)

LEMMA ExplainedGrows ==
    ASSUME NEW q, NEW recs, NEW more, recs \subseteq more, Explained(q, recs)
    PROVE  Explained(q, more)
    BY ConflictsGrow DEF Explained

(* Unreadable records have no business key.                                 *)
Keyless(recs) == \A r \in recs : ~Normal(r) => BusinessTokens(r) = {}

(* What blocks a record at hand is a dispute among all records known, or    *)
(* the record is unreadable: nothing is blocked for a reason of its own.    *)
LEMMA BlockedIsDisputed ==
    ASSUME NEW known, Identified(known), Keyless(known),
           NEW quarantine, Explained(quarantine, known),
           NEW incoming, NEW stored, incoming \cup stored \subseteq known,
           NEW b \in BlockedBy(quarantine, incoming, stored)
    PROVE  ~Normal(b) \/ BusinessTokens(b) \cap ConflictsWithin(known) # {}
<1> DEFINE recs == incoming \cup stored
           seeds == Seeds(quarantine, incoming, stored)
           closed == ClosedSets(recs)
           D == {r \in recs : ~Normal(r) \/ BusinessTokens(r) \cap ConflictsWithin(known) # {}}
<1>1. D \in ClosedSets(recs)
  <2>1. ASSUME NEW r \in D, NEW s \in recs, SharesKey(r, s)
        PROVE  s \in D
    <3>1. r.src = s.src \/ (BusinessTokens(r) = BusinessTokens(s) /\ BusinessTokens(r) # {})
        BY <2>1, SharedKeyIs
    <3>2. CASE r.src = s.src
      <4>1. r = s
          BY <3>2 DEF Identified
      <4> QED BY <4>1
    <3>3. CASE BusinessTokens(r) = BusinessTokens(s) /\ BusinessTokens(r) # {}
        BY <3>3 DEF Keyless
    <3> QED BY <3>1, <3>2, <3>3
  <2> QED BY <2>1, ClosedSetsAre
<1>2. ASSUME NEW r \in recs, NEW src \in DOMAIN quarantine, SourceToken(src) \in Tokens(r)
      PROVE  r \in D
  <2>1. SourceToken(src) = SourceToken(r.src)
      BY <1>2, BusinessKeyIsOne DEF Tokens
  <2>2. src = r.src
      BY <2>1 DEF SourceToken
  <2>3. PICK q \in known :
          /\ q.src = src
          /\ ~Normal(q) \/ (BusinessTokens(q) # {} /\ BusinessTokens(q) \subseteq KeysOf(quarantine))
      BY DEF Explained
  <2>4. q = r
      BY <2>2, <2>3 DEF Identified
  <2>5. CASE BusinessTokens(r) # {} /\ BusinessTokens(r) \subseteq KeysOf(quarantine)
    <3>1. PICK t \in BusinessTokens(r) : t \in KeysOf(quarantine)
        BY <2>5
    <3>2. t \in ConflictsWithin(known)
        BY <3>1, BusinessKeyIsOne DEF Explained
    <3> QED BY <3>1, <3>2
  <2> QED BY <2>3, <2>4, <2>5
<1>3. ASSUME NEW r \in recs, NEW t \in Tokens(r), t \in ConflictsWithin(known)
      PROVE  r \in D
  <2>1. t \in BusinessTokens(r)
      BY <1>3, ConflictsAre, BusinessKeyIsOne DEF Tokens
  <2> QED BY <1>3, <2>1
<1>4. ASSUME NEW r \in recs, NEW t \in Tokens(r), t \in seeds
      PROVE  r \in D
  <2>1. SourceConflicts(recs) = {}
    <3>1. \A p, q \in recs : p.src = q.src => p = q
        BY DEF Identified
    <3> HIDE DEF recs
    <3> QED BY <3>1 DEF SourceConflicts
  <2>2. CASE t \in BusinessConflicts(incoming, stored)
      BY <1>3, <2>2, ConflictsGrow DEF BusinessConflicts
  <2>3. CASE \E src \in DOMAIN quarantine : t = SourceToken(src)
      BY <1>2, <2>3
  <2>4. CASE \E src \in DOMAIN quarantine : t \in quarantine[src]
    <3>1. t \in KeysOf(quarantine)
        BY <2>4 DEF KeysOf
    <3>2. t \in ConflictsWithin(known) \/ \E src \in DOMAIN quarantine : t = SourceToken(src)
        BY <3>1 DEF Explained
    <3> QED BY <1>3, <2>3, <3>2
  <2> QED BY <1>4, <2>1, <2>2, <2>3, <2>4 DEF Seeds, PriorMatched
<1>5. {r \in UNION closed : Tokens(r) \cap seeds # {}} \subseteq D
    BY <1>4, WholeIsClosed
<1>6. b \in Poisoned(closed, seeds)
    BY WalkFindsComponents DEF BlockedBy
<1>7. b \in D
    BY <1>1, <1>5, <1>6 DEF Poisoned
<1> QED BY <1>7

(* So what a plan adds to the quarantine rests on the records known, as     *)
(* what was there did.                                                      *)
LEMMA PlanIsExplained ==
    ASSUME NEW known, Identified(known), Keyless(known),
           NEW quarantine, Explained(quarantine, known),
           NEW incoming, NEW stored, incoming \cup stored \subseteq known
    PROVE  Explained(NativePlan(quarantine, incoming, stored,
                                ClosedSets(incoming \cup stored)).quarantine, known)
<1> DEFINE recs == incoming \cup stored
           closed == ClosedSets(recs)
           blocked == BlockedBy(quarantine, incoming, stored)
           entries == Entries(incoming, blocked, closed)
<1>1. Identified(incoming \cup stored)
    BY DEF Identified
<1>2. NativePlan(quarantine, incoming, stored, closed).quarantine = entries
    BY <1>1, PlanIs
<1>3. blocked \subseteq recs
    BY <1>1, PlanIs
<1>4. ASSUME NEW b \in blocked, BusinessTokens(b) # {}
      PROVE  BusinessTokens(b) \subseteq ConflictsWithin(known)
  <2>1. BusinessTokens(b) \cap ConflictsWithin(known) # {}
      BY <1>3, <1>4, BlockedIsDisputed DEF Keyless
  <2> QED BY <2>1, BusinessKeyIsOne
<1>5. DOMAIN entries = {r.src : r \in blocked \cup {q \in incoming : ~Normal(q)}}
    BY DEF Entries
<1>6. ASSUME NEW b \in blocked
      PROVE  b.src \in DOMAIN entries /\ BusinessTokens(b) \subseteq KeysOf(entries)
  <2>1. b \in Component(closed, b)
      BY <1>3, ComponentHolds
  <2>2. b.src \in DOMAIN entries /\ BusinessTokens(b) \subseteq entries[b.src]
      BY <2>1, EntriesAre
  <2> QED BY <2>2 DEF KeysOf
<1>7. ASSUME NEW src \in DOMAIN entries
      PROVE  \E r \in known :
                /\ r.src = src
                /\ ~Normal(r) \/ (BusinessTokens(r) # {} /\ BusinessTokens(r) \subseteq KeysOf(entries))
  <2>1. PICK r \in blocked \cup {q \in incoming : ~Normal(q)} : r.src = src
      BY <1>5
  <2>2. r \in known
      BY <1>3
  <2>3. CASE Normal(r)
    <3>1. r \in blocked
        BY <2>3
    <3>2. BusinessTokens(r) # {}
        BY <2>3, <3>1, BlockedIsDisputed
    <3> QED BY <1>6, <2>1, <2>2, <3>1, <3>2
  <2> QED BY <2>1, <2>2, <2>3
<1>8. ASSUME NEW t \in KeysOf(entries)
      PROVE  t \in ConflictsWithin(known) \/ \E src \in DOMAIN entries : t = SourceToken(src)
  <2>1. PICK b \in blocked : \/ t = SourceToken(b.src)
                             \/ \E s \in Component(closed, b) : t \in BusinessTokens(s)
      BY <1>8, EntriesAre
  <2>2. CASE t = SourceToken(b.src)
      BY <1>6, <2>2
  <2>3. CASE \E s \in Component(closed, b) : t \in BusinessTokens(s)
    <3>1. PICK s \in Component(closed, b) : t \in BusinessTokens(s)
        BY <2>3
    <3>2. s \in recs
        BY <1>3, ComponentHolds
    <3>3. s \in blocked
        BY <3>2, BlockedComponent, SharesKeySymmetric DEF BlockedBy
    <3> QED BY <1>4, <3>1, <3>3
  <2> QED BY <2>1, <2>2, <2>3
<1> HIDE DEF entries
<1>9. Explained(entries, known)
    BY <1>7, <1>8 DEF Explained
<1> QED BY <1>2, <1>9

(* A dispute between records at hand puts their key in quarantine.          *)
LEMMA DisputesAreQuarantined ==
    ASSUME NEW quarantine, NEW incoming, NEW stored, Identified(incoming \cup stored),
           NEW r \in incoming \cup stored, NEW s \in incoming \cup stored,
           NEW t \in BusinessTokens(r), BusinessTokens(s) = BusinessTokens(r), s.val # r.val
    PROVE  t \in KeysOf(NativePlan(quarantine, incoming, stored,
                                   ClosedSets(incoming \cup stored)).quarantine)
<1> DEFINE closed == ClosedSets(incoming \cup stored)
           blocked == BlockedBy(quarantine, incoming, stored)
<1>1. t \in ConflictsWithin(incoming \cup stored)
    BY DEF ConflictsWithin
<1>2. Tokens(r) \cap Seeds(quarantine, incoming, stored) # {}
    BY <1>1 DEF Tokens, Seeds, BusinessConflicts
<1>3. r \in blocked
    BY <1>2, SeededIsBlocked DEF BlockedBy
<1>4. r \in Component(closed, r)
    BY ComponentHolds
<1>5. t \in Entries(incoming, blocked, closed)[r.src] /\ r.src \in DOMAIN Entries(incoming, blocked, closed)
    BY <1>3, <1>4, EntriesAre
<1> QED BY <1>5, PlanIs DEF KeysOf

(* A row whose key is in quarantine, before or by the plan, is deleted, as  *)
(* soon as a record of the batch has its key.                               *)
LEMMA BlamedRowsAreDeleted ==
    ASSUME NEW quarantine, NEW incoming, NEW rows, Identified(incoming \cup Matches(rows, incoming)),
           NEW r \in rows, NEW t \in BusinessTokens(r),
           LET stored == Matches(rows, incoming)
               plan == NativePlan(quarantine, incoming, stored, ClosedSets(incoming \cup stored))
           IN  \/ t \in KeysOf(quarantine) /\ \E s \in incoming : BusinessTokens(s) = BusinessTokens(r)
               \/ t \in KeysOf(plan.quarantine)
    PROVE  LET stored == Matches(rows, incoming)
               plan == NativePlan(quarantine, incoming, stored, ClosedSets(incoming \cup stored))
           IN  r \in plan.deletes /\ \E s \in incoming : BusinessTokens(s) = BusinessTokens(r)
<1> DEFINE stored == Matches(rows, incoming)
           recs == incoming \cup stored
           closed == ClosedSets(recs)
           blocked == BlockedBy(quarantine, incoming, stored)
           plan == NativePlan(quarantine, incoming, stored, closed)
<1>1. /\ plan.quarantine = Entries(incoming, blocked, closed)
      /\ plan.deletes = stored \cap blocked /\ blocked \subseteq recs
    BY PlanIs
<1>2. ASSUME NEW s \in incoming, BusinessTokens(s) = BusinessTokens(r)
      PROVE  r \in stored
    BY <1>2 DEF Matches, SharesKey, Tokens
<1> HIDE DEF plan
<1>3. CASE t \in KeysOf(quarantine) /\ \E s \in incoming : BusinessTokens(s) = BusinessTokens(r)
  <2>1. r \in stored
      BY <1>2, <1>3
  <2>2. PICK src \in DOMAIN quarantine : t \in quarantine[src]
      BY <1>3 DEF KeysOf
  <2>3. t \in Tokens(r) /\ t \in AllTokens(recs)
      BY <2>1 DEF Tokens, AllTokens
  <2>4. src \in PriorMatched(quarantine, incoming, stored)
      BY <2>2, <2>3 DEF PriorMatched
  <2>5. t \in Seeds(quarantine, incoming, stored)
      BY <2>2, <2>4 DEF Seeds
  <2>6. r \in blocked
      BY <2>1, <2>3, <2>5, SeededIsBlocked DEF BlockedBy
  <2> QED BY <1>1, <1>3, <2>1, <2>6 DEF plan
<1>4. CASE t \in KeysOf(plan.quarantine)
  <2>1. PICK b \in blocked : \/ t = SourceToken(b.src)
                             \/ \E s \in Component(closed, b) : t \in BusinessTokens(s)
      BY <1>1, <1>4, EntriesAre
  <2>2. PICK s \in Component(closed, b) : t \in BusinessTokens(s)
      BY <2>1, BusinessKeyIsOne
  <2>3. s \in recs /\ BusinessTokens(s) = BusinessTokens(r)
      BY <1>1, <2>2, ComponentHolds, BusinessKeyIsOne
  <2>4. PICK u \in incoming : BusinessTokens(u) = BusinessTokens(r)
    <3>1. CASE s \in stored
      <4>1. PICK u \in incoming : SharesKey(s, u)
          BY <3>1 DEF Matches
      <4>2. s.src = u.src \/ BusinessTokens(s) = BusinessTokens(u)
          BY <4>1, SharedKeyIs
      <4>3. s.src = u.src => s = u
          BY <2>3 DEF Identified
      <4> QED BY <2>3, <4>2, <4>3
    <3> QED BY <2>3, <3>1
  <2>5. r \in stored
      BY <1>2, <2>4
  <2>6. SharesKey(s, r)
      BY <2>2 DEF SharesKey, Tokens
  <2>7. r \in blocked
      BY <2>2, <2>5, <2>6, BlockedComponent DEF BlockedBy
  <2> QED BY <1>1, <2>4, <2>5, <2>7 DEF plan
<1> QED BY <1>3, <1>4 DEF plan
=============================================================================
