----------------------------- MODULE MCMessages -----------------------------
(* Messages for TLC: two calls for one file, two attachments, two messages  *)
(* of a Gmail account, two requests.                                        *)
EXTENDS Messaging

MCLabelSets == {{"SENT"}, {"INBOX", "SENT"}, {"INBOX", "work"}}
=============================================================================
