--------------------------- MODULE SilverReconcile ---------------------------
(***************************************************************************)
(* The decision on one batch: which records are quarantined, which stored  *)
(* rows are deleted and which incoming rows are inserted.  Twice: as the   *)
(* executable reference takes it, walking from seeded keys over shared     *)
(* keys (silver_store.reconcile), and as production takes it with joins    *)
(* over labelled nodes (silver_native._decide).  Both are functions of the *)
(* quarantine so far, the incoming records and the stored rows they match. *)
(***************************************************************************)
EXTENDS SilverRecords

(* Sets of records that contain all or none of the records that share a key *)
(* (mapped onto themselves, so that TLC enumerates them once).              *)
ClosedSets(recs) ==
    LET linked == {p \in recs \X recs : SharesKey(p[1], p[2])}
    IN  {C : C \in {D \in SUBSET recs : \A p \in linked : p[1] \in D => p[2] \in D}}

(* The records linked to r by a chain of shared keys, given those sets.     *)
Component(closed, r) == {s \in UNION closed : \A C \in closed : r \in C => s \in C}

AnyOrder(a, b) == TRUE
SourceOrder(a, b) == a[1] < b[1] \/ (a[1] = b[1] /\ a[2] <= b[2])

(* Rows compete within a group: their business key, or else their source    *)
(* key.  A stored row of the group wins over every incoming one; among      *)
(* those the least source key wins.                                         *)
Group(r) == <<r.table, IF r.key = NoKey THEN <<"source", r.src>> ELSE <<"business", r.key>>>>

Winners(incoming, stored) ==
    {r \in incoming :
        /\ \A s \in stored : Group(s) # Group(r)
        /\ \A s \in incoming : Group(s) = Group(r) => SourceOrder(r.src, s.src)}

(* The quarantine entries: what could not be parsed, without conflict keys, *)
(* and what is blocked, with its own source key and all business keys of    *)
(* its component.  Entries of one source key are combined.                  *)
ConflictKeys(component, r) == {SourceToken(r.src)} \cup UNION {BusinessTokens(s) : s \in component}

Entries(incoming, blocked, closed) ==
    [src \in {r.src : r \in blocked \cup {q \in incoming : ~Normal(q)}} |->
        UNION {ConflictKeys(Component(closed, r), r) : r \in {b \in blocked : b.src = src}}]

-----------------------------------------------------------------------------
(* The reference.  The walk blocks what every closed set around the seeded  *)
(* records holds.                                                           *)

Poisoned(closed, seeds) ==
    LET seeded == {r \in UNION closed : Tokens(r) \cap seeds # {}}
    IN  {r \in UNION closed : \A C \in closed : seeded \subseteq C => r \in C}

ReferencePlan(quarantine, incoming, stored, closed) ==
    LET seeds == Seeds(quarantine, incoming, stored)
        blocked == Poisoned(closed, seeds)
        Survives(r) == Normal(r) /\ r \notin blocked
    IN  [quarantine |-> Entries(incoming, blocked, closed),
         deletes |-> stored \cap blocked,
         inserts |-> Winners({r \in incoming : Survives(r)}, {r \in stored : Survives(r)})]

-----------------------------------------------------------------------------
(* Production.  A node stands for the records of one origin (the batch or   *)
(* the tables), table and source key; of two such records any one gives it  *)
(* its business key.                                                        *)

NodeOf(r) == <<r.table, r.src>>
Nodes(recs) == {CHOOSE r \in recs : NodeOf(r) = n : n \in {NodeOf(r) : r \in recs}}

(* components, joined with the labels of the seeds.                         *)
BlockedNodes(closed, seeds) ==
    {n \in UNION closed : AllTokens(Component(closed, n)) \cap seeds # {}}

NativePlan(quarantine, incoming, stored, closed) ==
    LET seeds == Seeds(quarantine, incoming, stored)
        blocked == BlockedNodes(closed, seeds)
        Survives(r) == Normal(r) /\ \A n \in blocked : NodeOf(n) # NodeOf(r)
    IN  [quarantine |-> Entries(incoming, blocked, closed),
         deletes |-> stored \cap blocked,
         inserts |-> Winners({r \in incoming : Survives(r)}, {r \in stored : Survives(r)})]
=============================================================================
