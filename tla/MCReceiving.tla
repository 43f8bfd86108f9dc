---------------------------- MODULE MCReceiving -----------------------------
(* Receiving for TLC: the window, a server and a search over the locks of one *)
(* account, two accounts in a round, one account and the tasks beside it.     *)
EXTENDS Receiving

MCProcOf == [x \in Calls \cup Probes |-> IF x = "gui" THEN "window" ELSE "server"]
MCAccountOf == [x \in Calls \cup Probes |-> "a"]
MCOrder == <<"a", "b">>
MCBackoff == <<2>>
=============================================================================
