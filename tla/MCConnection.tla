---------------------------- MODULE MCConnection ----------------------------
(* Three inactivity levels that escalate a minute after each other. *)
EXTENDS ChatConnection

Levels == <<2, 3, 4>>
=============================================================================
