----------------------------- MODULE MCService ------------------------------
(* The service for TLC: one client, two browser sessions and two readers, a *)
(* trouble with a rule and one without, the window and a server that start. *)
EXTENDS Service

MCPassOf == [lease |-> "tables", file |-> "files"]
=============================================================================
