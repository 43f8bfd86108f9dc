---------------------------- MODULE ComposedMail ---------------------------
(* send_outbound_mail: one mail with its attachments, sent from the window. *)
(* Every click makes a mail of its own, one at a time; every statement      *)
(* commits by itself.  The chosen files may be edited at any moment, a      *)
(* staged copy spoilt on the disk, the answer of the SMTP server lost, a    *)
(* statement fail, and the process die.                                     *)
EXTENDS Naturals, Sequences

CONSTANTS
  Files,                            \* how many attachments, chosen in this order
  MaxMails, MaxVersion, MaxFaults   \* bounds: clicks, edits of a file, failures

\* A mail has a file at least here: one without has nothing to stage, to archive or to record.
Bounded == Files \in Nat \ {0} /\ MaxMails \in Nat /\ MaxVersion \in Nat \ {0}

VARIABLES
  file,      \* the content of each chosen file
  n,         \* the mail under way, or the last
  at, i,     \* where it is, and at which attachment
  sha,       \* what was hashed
  copy,      \* the controlled copies, of this mail alone
  message,   \* what was read into the message
  out,       \* outbound_messages.status of every mail
  res,       \* outbound_resources of every mail
  sentRows,  \* sent_files: the statuses of the rows of every attachment
  taken,     \* what the SMTP server took, of every mail
  answered,  \* that it said so
  told,      \* what the user was told of a mail
  trouble    \* failures so far

outVars == <<out, res, sentRows>>
mailVars == <<taken, answered>>
vars == <<file, n, at, i, sha, copy, message, outVars, mailVars, told, trouble>>

Index == 1..Files
Mails == 1..MaxMails
Empty == [f \in Index |-> 0]
NoResource == [status |-> "none", sha |-> 0, archive |-> 0]

Init ==
  /\ file = [f \in Index |-> 1] /\ n = 0 /\ at = "idle" /\ i = 0
  /\ sha = Empty /\ copy = Empty /\ message = Empty
  /\ out = [m \in Mails |-> "none"]
  /\ res = [m \in Mails |-> [f \in Index |-> NoResource]]
  /\ sentRows = [m \in Mails |-> [f \in Index |-> <<>>]]
  /\ taken = [m \in Mails |-> Empty]
  /\ answered = {} /\ told = [m \in Mails |-> "nothing"] /\ trouble = 0

Goes(where) == at' = where
Tells(what) == at' = "idle" /\ told' = [told EXCEPT ![n] = what]
Fault == trouble < MaxFaults /\ trouble' = trouble + 1
NextFile(here, there) == IF i < Files THEN i' = i + 1 /\ at' = here ELSE i' = 1 /\ at' = there

EditsFile(f) ==
  /\ file[f] < MaxVersion
  /\ file' = [file EXCEPT ![f] = @ + 1]
  /\ UNCHANGED <<n, at, i, sha, copy, message, outVars, mailVars, told, trouble>>

\* somebody writes to a controlled copy, or the disk does
Spoils(f) ==
  /\ copy[f] \in 1..MaxVersion /\ Fault
  /\ copy' = [copy EXCEPT ![f] = MaxVersion + 1]
  /\ UNCHANGED <<file, n, at, i, sha, message, outVars, mailVars, told>>

Clicks ==
  /\ at = "idle" /\ n < MaxMails
  /\ n' = n + 1 /\ i' = 1 /\ at' = "hash" /\ sha' = Empty /\ copy' = Empty /\ message' = Empty
  /\ UNCHANGED <<file, outVars, mailVars, told, trouble>>

\* A file that has gone, of a kind or of a size that may not go out, is refused before anything is written.
HashesFile ==
  /\ at = "hash"
  /\ \/ sha' = [sha EXCEPT ![i] = file[i]] /\ NextFile("hash", "create") /\ UNCHANGED <<told, trouble>>
     \/ Fault /\ Tells("refused") /\ UNCHANGED <<sha, i>>
  /\ UNCHANGED <<file, n, copy, message, outVars, mailVars>>

CreatesMail ==
  /\ at = "create"
  /\ out' = [out EXCEPT ![n] = "sending"]
  /\ Goes("stage")
  /\ UNCHANGED <<file, n, i, sha, copy, message, res, sentRows, mailVars, told, trouble>>

AnyCopyIsRight(f) == copy[f] # 0
CopyIsRight(f) == copy[f] = sha[f]

\* copied and verified, then recorded; on any failure the mail is failed and the attachments stay as they are
CopiesFile ==
  /\ at = "stage"
  /\ copy' = [copy EXCEPT ![i] = file[i]]
  /\ Goes("check")
  /\ UNCHANGED <<file, n, i, sha, message, outVars, mailVars, told, trouble>>

StagesFile ==
  /\ at = "check"
  /\ \/ CopyIsRight(i) /\ res' = [res EXCEPT ![n][i].status = "staged", ![n][i].sha = sha[i]] /\ NextFile("stage", "build")
        /\ UNCHANGED trouble
     \/ ~CopyIsRight(i) /\ Goes("unstaged") /\ UNCHANGED <<res, i, trouble>>
     \/ Fault /\ Goes("unstaged") /\ UNCHANGED <<res, i>>
  /\ UNCHANGED <<file, n, sha, copy, message, out, sentRows, mailVars, told>>

FailsUnstaged ==
  /\ at = "unstaged"
  /\ out' = [out EXCEPT ![n] = "failed"]
  /\ Tells("failed")
  /\ UNCHANGED <<file, n, i, sha, copy, message, res, sentRows, mailVars, trouble>>

\* The message is made of the copies, each read and verified once more.
Builds ==
  /\ at = "build"
  /\ message' = copy
  /\ Goes(IF \A f \in Index : CopyIsRight(f) THEN "send" ELSE "fails")
  /\ UNCHANGED <<file, n, i, sha, copy, outVars, mailVars, told, trouble>>

SmtpRefuses ==
  /\ at = "send" /\ Fault
  /\ Goes("fails")
  /\ UNCHANGED <<file, n, i, sha, copy, message, outVars, mailVars, told>>

\* What was read for the message goes out: a copy spoilt since does not matter.
SmtpTakes ==
  /\ at = "send"
  /\ taken' = [taken EXCEPT ![n] = message]
  /\ \/ answered' = answered \cup {n} /\ Goes("archive") /\ UNCHANGED trouble
     \/ Fault /\ Goes("fails") /\ UNCHANGED answered
  /\ UNCHANGED <<file, n, i, sha, copy, message, outVars, told>>

FailsMail ==
  /\ at = "fails"
  /\ out' = [out EXCEPT ![n] = "failed"]
  /\ Goes("failsFile")
  /\ UNCHANGED <<file, n, i, sha, copy, message, res, sentRows, mailVars, told, trouble>>

FailsFile ==
  /\ at = "failsFile"
  /\ res' = [res EXCEPT ![n][i].status = "failed"]
  /\ Goes("failsRow")
  /\ UNCHANGED <<file, n, i, sha, copy, message, out, sentRows, mailVars, told, trouble>>

\* the copy of the sent directory is verified against the staged one
Archived(f) == [status |-> "sent", archive |-> copy[f], sha |-> sha[f]]
NotArchived(f) == [status |-> "sent_archive_failed", archive |-> 0, sha |-> sha[f]]
ArchivesFile ==
  /\ at = "archive"
  /\ \/ res' = [res EXCEPT ![n][i] = IF CopyIsRight(i) THEN Archived(i) ELSE NotArchived(i)] /\ UNCHANGED trouble
     \/ Fault /\ res' = [res EXCEPT ![n][i] = NotArchived(i)]
  /\ Goes("row")
  /\ UNCHANGED <<file, n, i, sha, copy, message, out, sentRows, mailVars, told>>

\* insert_sent_file adds a row with the state of the attachment
WritesRow ==
  /\ at \in {"row", "failsRow"}
  /\ sentRows' = [sentRows EXCEPT ![n][i] = Append(@, res[n][i].status)]
  /\ \/ at = "row" /\ NextFile("archive", "final") /\ UNCHANGED told
     \/ at = "failsRow" /\ i < Files /\ i' = i + 1 /\ Goes("failsFile") /\ UNCHANGED told
     \/ at = "failsRow" /\ i = Files /\ Tells("failed") /\ UNCHANGED i
  /\ UNCHANGED <<file, n, sha, copy, message, out, res, mailVars, trouble>>

FinalByLast == IF res[n][Files].status # "sent" THEN "partial" ELSE "sent"
Final == IF \E f \in Index : res[n][f].status # "sent" THEN "partial" ELSE "sent"
FinishesMail ==
  /\ at = "final"
  /\ out' = [out EXCEPT ![n] = Final]
  /\ Tells("sent")
  /\ UNCHANGED <<file, n, i, sha, copy, message, res, sentRows, mailVars, trouble>>

\* A statement that fails outside the two try blocks ends the call with an exception, and the rows as they are.
Breaks ==
  /\ at \in {"create", "unstaged", "fails", "failsFile", "failsRow", "archive", "row", "final"} /\ Fault
  /\ Tells("error")
  /\ UNCHANGED <<file, n, i, sha, copy, message, outVars, mailVars>>

ProcessDies ==
  /\ at # "idle"
  /\ at' = "idle"
  /\ UNCHANGED <<file, n, i, sha, copy, message, outVars, mailVars, told, trouble>>

Next ==
  \/ \E f \in Index : EditsFile(f) \/ Spoils(f)
  \/ Clicks \/ HashesFile \/ CreatesMail \/ CopiesFile \/ StagesFile \/ FailsUnstaged \/ Builds
  \/ SmtpRefuses \/ SmtpTakes \/ FailsMail \/ FailsFile
  \/ ArchivesFile \/ WritesRow \/ FinishesMail \/ Breaks \/ ProcessDies

Spec == Init /\ [][Next]_vars

TypeOK ==
  /\ n \in 0..MaxMails /\ i \in 0..Files /\ answered \subseteq Mails
  /\ \A m \in Mails : out[m] \in {"none", "sending", "failed", "sent", "partial"}
  /\ \A m \in Mails : told[m] \in {"nothing", "refused", "failed", "error", "sent"}

\* A mail that is recorded as sent has every attachment archived as the server took it; a partial one was sent
\* and lacks an archive; of a failed one the server said nothing, and no attachment counts as sent.
FinalStateIsTrue ==
  \A m \in Mails :
    /\ out[m] = "sent" => m \in answered /\ \A f \in Index : res[m][f] = [status |-> "sent", archive |-> taken[m][f], sha |-> taken[m][f]]
    /\ out[m] = "partial" => m \in answered /\ \E f \in Index : res[m][f].status = "sent_archive_failed"
    /\ out[m] = "failed" => m \notin answered /\ \A f \in Index : res[m][f].status \notin {"sent", "sent_archive_failed"}
    /\ told[m] = "sent" => out[m] \in {"sent", "partial"}

\* Each attachment has one row at most, none before the server answered or failed, and each went out as it was
\* hashed before the first copy.
RowsFollowTheMail ==
  \A m \in Mails : \A f \in Index :
    /\ Len(sentRows[m][f]) <= 1
    /\ sentRows[m][f] # <<>> => sentRows[m][f] = <<res[m][f].status>> /\ (sentRows[m][f] = <<"failed">>) = (m \notin answered)
    /\ m \in answered => taken[m][f] = res[m][f].sha /\ res[m][f].archive \in {0, taken[m][f]}
=============================================================================
