--------------------------- MODULE MCMailboxSync ---------------------------
(***************************************************************************)
(* MailboxSync for TLC.                                                    *)
(***************************************************************************)
EXTENDS MailboxSync, TLC

\* Nothing tells one message from another; for safety only.
Symmetry == Permutations(Msgs)
=============================================================================
