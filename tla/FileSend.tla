------------------------------- MODULE FileSend -----------------------------
(* One request to send one file, repeated under its request_id: by an agent *)
(* (submit_result), from the command line (send_file) or once by the user   *)
(* (send_user_selected_file).  Calls of several processes meet in the row   *)
(* of sent_files, the staged file and the outbound message; the file may be *)
(* edited, the answer of the SMTP server lost, and a process die, anywhere. *)
(* Every statement commits by itself.                                       *)
EXTENDS Naturals, Sequences

CONSTANTS
  Calls, Ways,                      \* Ways: the entries a request may come by
  MaxVersion, MaxStarts, MaxFaults  \* bounds: edits of the file, calls, failures

VARIABLES
  way,        \* the entry of this request: "agent", "cli" or "window"
  source,     \* the content of the file
  confirmed,  \* what the user confirmed
  staged,     \* send/staging/...: the copy under the request_id, 0 when there is none
  row,        \* sent_files
  outbound,   \* outbound_messages.status
  resource,   \* outbound_resources.status
  call,
  inbox,      \* what the SMTP server took
  answered,   \* it said so to a call
  lost,       \* its answer did not reach a call
  starts, faults

files == <<way, source, confirmed, staged>>
mail == <<inbox, answered, lost>>
facts == <<outbound, resource>>
bounds == <<starts, faults>>
vars == <<files, row, facts, call, mail, bounds>>

\* There is a file, and a request comes by an entry that is modelled.
Known == MaxVersion \in Nat \ {0} /\ Ways \subseteq {"agent", "cli", "window"}

Statuses == {"none", "attempt_created", "failed", "sent", "sent_archive_failed"}
NoCall == [at |-> "idle", seen |-> 0, sha |-> 0, copy |-> 0, prev |-> "none", told |-> "nothing"]

Init ==
  /\ way \in Ways
  /\ source = 1 /\ confirmed = 1 /\ staged = 0
  /\ row = [status |-> "none", sha |-> 0, archive |-> 0]
  /\ outbound = "none" /\ resource = "none"
  /\ call = [c \in Calls |-> NoCall]
  /\ inbox = <<>> /\ answered = FALSE /\ lost = FALSE
  /\ starts = 0 /\ faults = 0

Goes(c, where) == call' = [call EXCEPT ![c].at = where]
Tells(c, what) == call' = [call EXCEPT ![c] = [NoCall EXCEPT !.told = what, !.copy = call[c].copy]]
Fault == faults < MaxFaults /\ faults' = faults + 1

Edits ==
  /\ source < MaxVersion
  /\ source' = source + 1
  /\ UNCHANGED <<way, confirmed, staged, row, facts, call, mail, bounds>>

\* The window makes a new request_id for every click; an agent and the command line name theirs again.
Begins(c) ==
  /\ call[c].at = "idle" /\ starts < (IF way = "window" THEN 1 ELSE MaxStarts)
  /\ starts' = starts + 1
  /\ call' = [call EXCEPT ![c] = [NoCall EXCEPT !.at = IF way = "cli" THEN "read" ELSE "hash"]]
  /\ UNCHANGED <<files, row, facts, mail, faults>>

\* The file is there, of an allowed kind and size, and hashed; the user's must be what he confirmed.
Hashes(c) ==
  /\ call[c].at = "hash"
  /\ IF way = "window" /\ source # confirmed
     THEN Tells(c, "refused")
     ELSE call' = [call EXCEPT ![c].at = "look", ![c].seen = source]
  /\ UNCHANGED <<files, row, facts, mail, bounds>>

\* a staged file of an earlier call must be the same
StagedWillDo(c) == staged = call[c].seen
LooksAtStaged(c) ==
  /\ call[c].at = "look"
  /\ IF staged = 0 THEN Goes(c, "stage")
     ELSE IF StagedWillDo(c) THEN Goes(c, "read") ELSE Tells(c, "refused")
  /\ UNCHANGED <<files, row, facts, mail, bounds>>

\* atomic_copy_file replaces what another call has staged in between
Stages(c) ==
  /\ call[c].at = "stage"
  /\ staged' = source
  /\ Goes(c, "verify")
  /\ UNCHANGED <<way, source, confirmed, row, facts, mail, bounds>>

Verifies(c) ==
  /\ call[c].at = "verify"
  /\ IF staged = call[c].seen THEN Goes(c, "read") ELSE Tells(c, "refused")
  /\ UNCHANGED <<files, row, facts, mail, bounds>>

File == IF way = "cli" THEN source ELSE staged

\* send_file_with_request hashes its file; an agent's must still have the hash of the staging
Reads(c) ==
  /\ call[c].at = "read"
  /\ IF way = "agent" /\ File # call[c].seen
     THEN Tells(c, "refused")
     ELSE call' = [call EXCEPT ![c].at = "attempt", ![c].sha = File]
  /\ UNCHANGED <<files, row, facts, mail, bounds>>

SentIsDuplicate == row.status \in {"sent", "sent_archive_failed"}
IsDuplicate == row.status \in {"sent", "sent_archive_failed", "attempt_created"}

\* create_or_retry_send_attempt
Attempts(c) ==
  /\ call[c].at = "attempt"
  /\ IF IsDuplicate
     THEN call' = [call EXCEPT ![c].at = "create", ![c].prev = row.status] /\ UNCHANGED row
     ELSE /\ row' = [row EXCEPT !.status = "attempt_created", !.sha = call[c].sha]
          /\ call' = [call EXCEPT ![c].at = "create"]
  /\ UNCHANGED <<files, facts, mail, bounds>>

InitialAsRow(prev) == IF prev = "none" THEN "sending" ELSE prev
Initial(prev) ==
  IF prev = "sent" THEN "sent" ELSE IF prev = "sent_archive_failed" THEN "partial" ELSE "sending"

\* create_outbound_message inserts or ignores
Creates(c) ==
  /\ call[c].at = "create"
  /\ outbound' = IF outbound = "none" THEN Initial(call[c].prev) ELSE outbound
  /\ Goes(c, IF call[c].prev = "none" THEN "mark" ELSE "resource")
  /\ UNCHANGED <<files, row, resource, mail, bounds>>

Marks(c) ==
  /\ call[c].at = "mark"
  /\ outbound' = "sending"
  /\ Goes(c, "resource")
  /\ UNCHANGED <<files, row, resource, mail, bounds>>

\* A duplicate stores the resource too, in the state of the row it read, and is told the earlier result.
StoresResource(c) ==
  /\ call[c].at = "resource"
  /\ IF call[c].prev = "none"
     THEN resource' = "staged" /\ Goes(c, "copies")
     ELSE resource' = Initial(call[c].prev) /\ Tells(c, "duplicate")
  /\ UNCHANGED <<files, row, outbound, mail, bounds>>

AnyCopyWillDo(c) == TRUE
\* the copy of the send directory must be what was attempted
CopyWillDo(c) == File = call[c].sha
CopiesToSend(c) ==
  /\ call[c].at = "copies"
  /\ \/ CopyWillDo(c) /\ call' = [call EXCEPT ![c].at = "send", ![c].copy = File] /\ UNCHANGED faults
     \/ ~CopyWillDo(c) /\ Goes(c, "fails") /\ UNCHANGED faults
     \/ Fault /\ Goes(c, "fails")
  /\ UNCHANGED <<files, row, facts, mail, starts>>

\* SMTP up to DATA: refused; or an exception that is no SmtpStageError, and the row stays as it is
IsRefused(c) ==
  /\ call[c].at = "send" /\ Fault
  /\ Goes(c, "fails") \/ Tells(c, "refused")
  /\ UNCHANGED <<files, row, facts, mail, starts>>

ServerTakes(c) ==
  /\ call[c].at = "send"
  /\ inbox' = Append(inbox, call[c].copy)
  /\ Goes(c, "answer")
  /\ UNCHANGED <<files, row, facts, answered, lost, bounds>>

\* delivery_unknown is not looked at here: a lost answer is a failure like a refusal
IsAnswered(c) ==
  /\ call[c].at = "answer"
  /\ \/ answered' = TRUE /\ Goes(c, "record") /\ UNCHANGED <<lost, faults>>
     \/ Fault /\ lost' = TRUE /\ Goes(c, "fails") /\ UNCHANGED answered
  /\ UNCHANGED <<files, row, facts, inbox, starts>>

Fails(c) ==
  /\ \/ call[c].at = "fails" /\ row' = [row EXCEPT !.status = "failed"]
        /\ Goes(c, "fails2") /\ UNCHANGED facts
     \/ call[c].at = "fails2" /\ outbound' = "failed" /\ Goes(c, "fails3") /\ UNCHANGED <<row, resource>>
     \/ call[c].at = "fails3" /\ resource' = "failed" /\ Tells(c, "refused") /\ UNCHANGED <<row, outbound>>
  /\ UNCHANGED <<files, mail, bounds>>

RecordsSent(c) ==
  /\ call[c].at = "record"
  /\ row' = [row EXCEPT !.status = "sent"]
  /\ Goes(c, "archive")
  /\ UNCHANGED <<files, facts, mail, bounds>>

WithoutArchiveFailed == "failed"
WithoutArchive == "sent_archive_failed"
\* The copy of the sent directory is verified; without it the mail is sent all the same.
Archives(c) ==
  /\ call[c].at = "archive"
  /\ \/ row' = [row EXCEPT !.archive = call[c].copy] /\ Goes(c, "sent2") /\ UNCHANGED faults
     \/ Fault /\ row' = [row EXCEPT !.status = WithoutArchive] /\ Goes(c, "partial2")
  /\ UNCHANGED <<files, facts, mail, starts>>

Finishes(c) ==
  /\ \/ call[c].at = "sent2" /\ outbound' = "sent" /\ Goes(c, "sent3") /\ UNCHANGED resource
     \/ call[c].at = "sent3" /\ resource' = "sent" /\ Tells(c, "sent") /\ UNCHANGED outbound
     \/ call[c].at = "partial2" /\ outbound' = "partial" /\ Goes(c, "partial3") /\ UNCHANGED resource
     \/ call[c].at = "partial3" /\ resource' = "sent_archive_failed" /\ Tells(c, "sent") /\ UNCHANGED outbound
  /\ UNCHANGED <<files, row, mail, bounds>>

Dies(c) ==
  /\ call[c].at # "idle"
  /\ call' = [call EXCEPT ![c] = NoCall]
  /\ UNCHANGED <<files, row, facts, mail, bounds>>

Next ==
  \/ Edits
  \/ \E c \in Calls :
       \/ Begins(c) \/ Hashes(c) \/ LooksAtStaged(c) \/ Stages(c) \/ Verifies(c) \/ Reads(c)
       \/ Attempts(c) \/ Creates(c) \/ Marks(c) \/ StoresResource(c) \/ CopiesToSend(c)
       \/ IsRefused(c) \/ ServerTakes(c) \/ IsAnswered(c) \/ Fails(c)
       \/ RecordsSent(c) \/ Archives(c) \/ Finishes(c) \/ Dies(c)

Spec == Init /\ [][Next]_vars

Versions == 1..MaxVersion
TypeOK ==
  /\ source \in Versions /\ staged \in {0} \cup Versions
  /\ row.status \in Statuses /\ row.sha \in {0} \cup Versions /\ row.archive \in {0} \cup Versions
  /\ outbound \in {"none", "sending", "failed", "sent", "partial"}
  /\ resource \in {"none", "staged", "sending", "failed", "sent", "partial", "sent_archive_failed"}
  /\ \A c \in Calls : call[c].told \in {"nothing", "refused", "duplicate", "sent"}

\* A request whose mail was taken is not sent again, whichever calls repeat it at once or after a death; only a
\* lost answer, which the code takes for a failure, can make a second mail.
SentOnce == [][Len(inbox) > 0 /\ (answered \/ ~lost) => inbox' = inbox]_inbox

\* What goes out has the hash that its row records, and an agent or the user sends what was hashed for him,
\* whoever edits or stages in between.
SentAsHashed ==
  \A c \in Calls : call[c].at \in {"send", "answer", "record", "archive"} =>
    /\ call[c].copy = row.sha
    /\ way # "cli" => call[c].copy = call[c].seen
    /\ way = "window" => call[c].copy = confirmed

\* The row says sent only of a mail the server took, failed only of one it never said to have taken; the
\* archived copy is what was taken; and who is told that it was sent, it was.
RowIsTrue ==
  /\ row.status \in {"sent", "sent_archive_failed"} => answered
  /\ row.status = "failed" => ~answered
  /\ row.archive # 0 => answered /\ row.archive = inbox[Len(inbox)]
  /\ \A c \in Calls : call[c].told = "sent" => answered
=============================================================================
