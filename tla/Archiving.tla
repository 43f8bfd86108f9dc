----------------------------- MODULE Archiving ------------------------------
(* The archive of mails, what is written of them, the copies made of them   *)
(* and the rights of the Agent that asks: turn says which one a behaviour   *)
(* is about.                                                                *)
EXTENDS Naturals, FiniteSets

CONSTANTS
  Mails, Archivers, ProcessOf, UidIn, MaxRuns, MaxTrouble,                        \* MailArchive
  Preparers, Shown, Note, Last, MaxVersion, MaxCopies, MaxEdits, MaxUpsets,       \* WorkCopies
  Accounts, Sender, Root, First, Settings, MaxSaves, MaxSlips,                    \* AgentAccess
  Messages, Ours, MaxLooks                                                        \* MailFacts

VARIABLES
  turn,
  row, seats, dir, work, epoch, trusted, told, runs, mishaps, shadowed, strained,
  mode, archive, facts, place, prep, flat, reported, calls, changes, upsets, had, broken, met,
  profile, keyring, rights, senders, editor, starter, applying, usable, reader, outgoing, live, seen, stale, saves, trouble,
  pkg, cabinet, maps, replies, external, request, look, done, looks

Archive == INSTANCE MailArchive
Copies == INSTANCE WorkCopies WITH MaxRuns <- MaxCopies, MaxTrouble <- MaxUpsets
Access == INSTANCE AgentAccess WITH MaxTrouble <- MaxSlips
Facts == INSTANCE MailFacts

ASSUME MailsAreNumbered == Archive!Numbered
ASSUME CopiesAreLaid == Copies!Laid
ASSUME SettingsAreOffered == Access!Offered
ASSUME EvidenceIsGenuine == Facts!Genuine

archiveVars == <<row, seats, dir, work, epoch, trusted, told, runs, mishaps, shadowed, strained>>
copyVars == <<mode, archive, facts, place, prep, flat, reported, calls, changes, upsets, had, broken, met>>
accessVars == <<profile, keyring, rights, senders, editor, starter, applying, usable, reader, outgoing, live, seen, stale, saves, trouble>>
factVars == <<pkg, cabinet, maps, replies, external, request, look, done, looks>>
vars == <<turn, archiveVars, copyVars, accessVars, factVars>>

Init ==
  /\ turn \in {"archive", "copies", "access", "facts"}
  /\ Archive!Init /\ Copies!Init /\ (turn # "copies" => mode = "complete") /\ Facts!Init
  /\ Access!Init /\ (turn # "access" => live = {CHOOSE s \in First : TRUE})

Next ==
  \/ turn = "archive" /\ Archive!Next /\ UNCHANGED <<turn, copyVars, accessVars, factVars>>
  \/ turn = "copies" /\ Copies!Next /\ UNCHANGED <<turn, archiveVars, accessVars, factVars>>
  \/ turn = "access" /\ Access!Next /\ UNCHANGED <<turn, archiveVars, copyVars, factVars>>
  \/ turn = "facts" /\ Facts!Next /\ UNCHANGED <<turn, archiveVars, copyVars, accessVars>>

Spec == Init /\ [][Next]_vars

TypesOK ==
  CASE turn = "archive" -> Archive!TypeOK
    [] turn = "copies" -> Copies!TypeOK
    [] turn = "access" -> Access!TypeOK
    [] turn = "facts" -> Facts!TypeOK
\* An archived mail: a package called ready has all its parts, what the caller was told is on disk and in
\* the rows, a published directory is complete, and its manifest says what it holds.  What is written of a
\* message beside it: the mail of ours that a Sent copy is matched with is the one it is a copy of and stays
\* that, two directions of one package are flagged, and a reply names the one mail that it refers to.
ArchiveIsWhole ==
  /\ turn = "archive" =>
       Archive!ReadyIsWhole /\ Archive!ToldIsKept /\ Archive!PublishedIsComplete /\ Archive!ManifestAgrees
  /\ turn = "facts" =>
       Facts!MatchIsTrue /\ Facts!NeverSwitches /\ Facts!DisagreementIsFlagged /\ Facts!OneParent
\* A prepared copy: it is of one state of the archive, a failed overwrite leaves one of the two copies, and
\* two resources of one call never take one name.
CopiesAreTrue == turn = "copies" => Copies!CopyIsOneState /\ Copies!OverwriteKeepsOne /\ Copies!PreparedIsKept
\* A working copy that the user changed is never replaced unless he asked for it.
EditsSurvive == Copies!EditsSurvive
\* The rights of a client: no scope of an identity is wider than a setting that was stored or being stored
\* while it was read, and what is sent is allowed by what is stored when it is sent.
AccessIsGranted == turn = "access" => Access!NoScopeIsWidened /\ Access!SentWasAllowed
\* docs: a prepared resource is reported with the hash of the file at its path; the note may replace it.
ReportIsTrue == Copies!ReportIsTrue
=============================================================================
