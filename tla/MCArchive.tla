----------------------------- MODULE MCArchive ------------------------------
(* The archive for TLC: two mails in two processes, two preparers, a client *)
(* of two accounts, and five messages.                                      *)
EXTENDS Archiving

MCProcessOf == [send |-> "gui", receive |-> "gui", mcp |-> "mcp"]
MCUidIn == <<[m |-> 1, n |-> 2], [m |-> 2, n |-> 1]>>
MCShown == [plan |-> "a", map |-> "a", memo |-> "note"]

\* Settings of the dialog: the rights of an older client, one account to send with after a
\* confirmation, everything to read, and two accounts to send with by itself.
Setting(caps, accountMode, accounts, senderMode, from, workspaceMode, workspaces, sending) ==
  [caps |-> caps, accountMode |-> accountMode, accounts |-> accounts, senderMode |-> senderMode,
   senders |-> from, workspaceMode |-> workspaceMode, workspaces |-> workspaces, sending |-> sending]
Older == Setting({"read", "submit"}, "selected", {"a"}, "selected", {}, "selected", {}, "confirm")
Sending == Setting({"read", "send"}, "selected", {"a"}, "selected", {"a"}, "selected", {"w"}, "confirm")
MCFirst == {Older, Sending}
MCSettings == {
  Older, Sending,
  Setting({"read"}, "all", {}, "all", {}, "all", {}, "autonomous"),
  Setting({"send", "submit"}, "selected", {"b"}, "selected", {"a", "b"}, "all", {}, "autonomous")}

\* Two mails of ours: the provider adds to the one and gives the other another Message-ID but leaves its
\* marker, the owner sends it to himself too; another mail bears the Message-ID of the one, and one answers it.
CopyOf(mail, box, pid, mid, content, raw, marker, ref) ==
  [mail |-> mail, box |-> box, pid |-> pid, mid |-> mid, content |-> content, raw |-> raw, marker |-> marker, ref |-> ref]
MCMessages == {
  CopyOf("one", "sent", "p1", "m1", "text", "r1x", "none", "none"),
  CopyOf("two", "inbox", "p2", "x2", "text", "r2y", "m2", "none"),
  CopyOf("two", "sent", "p3", "x2", "text", "r2x", "m2", "none"),
  CopyOf("else", "sent", "p4", "m1", "other", "r4", "none", "none"),
  CopyOf("reply", "inbox", "p5", "m5", "answer", "r5", "none", "m1")}
MCOurs == {
  [mail |-> "one", mid |-> "m1", content |-> "text", raw |-> "r1"],
  [mail |-> "two", mid |-> "m2", content |-> "text", raw |-> "r2"]}
=============================================================================
