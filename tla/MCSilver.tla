------------------------------ MODULE MCSilver ------------------------------
(***************************************************************************)
(* Frames for TLC: a donation beside a foreign command, another value of   *)
(* the same donation beside a broken one, or text that is no JSON, the     *)
(* first donation again beside a chat message, or a connection response.   *)
(***************************************************************************)
EXTENDS SilverStream

Event(table, key, val, valid) ==
    [shape |-> "event", table |-> table, key |-> key, val |-> val, valid |-> valid]
Other(shape) == [shape |-> shape, table |-> "chat_messages", key |-> NoKey, val |-> 0, valid |-> TRUE]

TwoTables == <<"chat_messages", "donations">>

Donation == [shape |-> "items", items |-> <<Event("donations", 1, 1, TRUE), Other("other_cmd")>>]
Changed == [shape |-> "items", items |-> <<Event("donations", 1, 2, TRUE), Event("donations", 1, 1, FALSE)>>]
NotJson == [shape |-> "not_json", items |-> <<>>]
Again == [shape |-> "items", items |-> <<Event("donations", 1, 1, TRUE), Event("chat_messages", NoKey, 1, TRUE)>>]
Accepted == [shape |-> "accepted", items |-> <<>>]

Frames == <<{Donation}, {Changed, NotJson}, {Again, Accepted}>>
=============================================================================
