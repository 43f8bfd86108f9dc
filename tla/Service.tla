------------------------------ MODULE Service -------------------------------
(* Parts of the service that meet in no state: turn says which one a        *)
(* behaviour is about.                                                      *)
EXTENDS Naturals, Sequences, FiniteSets

CONSTANTS
  Keep, MaxEdits, MaxTasks, MaxTrouble,                                    \* ClientConfig
  Sessions, Readers, MaxTokens, MaxImports,                                \* OAuthSession
  Issues, PassOf, Repairable, MaxWrites, MaxTurns, MaxJobs, MaxFaults,     \* Maintenance
  Procs, Messages, Files, From, MaxTries, MaxChoices,                      \* Startup
  MaxSessions, MaxSaves                                                    \* AccountDialogs

VARIABLES
  turn,
  file, cred, client, plan, task, backups, edits, tasks, trouble, exposed, crashed,
  session, claimed, tokenLock, reader, token, written, oauthClient,
  db, copies, preview, job, receiving, rowsMade, turns, jobs, faults, gap, steady,
  version, receives, owner, config, scope, linked, bare, staging, root, unread, saved, proc, original, chosen, overtaken, starts, choices, failures,
  kind, shown, oauth, cancelled, asSaved, testing, closeAfterOAuth, closeAfterTest, settings, sessions, tests

Config == INSTANCE ClientConfig
OAuth == INSTANCE OAuthSession
Care == INSTANCE Maintenance WITH MaxTasks <- MaxJobs
Start == INSTANCE Startup WITH MaxTurns <- MaxTries
Dialog == INSTANCE AccountDialogs

ASSUME TroublesAreSorted == Care!Sorted
ASSUME ConfigIsBounded == Config!Bounded
ASSUME CallersAreApart == OAuth!Apart
ASSUME VersionsAreKnown == Start!Known

configVars == <<file, cred, client, plan, task, backups, edits, tasks, trouble, exposed, crashed>>
oauthVars == <<session, claimed, tokenLock, reader, token, written, oauthClient>>
careVars == <<db, copies, preview, job, receiving, rowsMade, turns, jobs, faults, gap, steady>>
startVars == <<version, receives, owner, config, scope, linked, bare, staging, root, unread, saved, proc, original, chosen, overtaken, starts, choices, failures>>
dialogVars == <<kind, shown, oauth, cancelled, asSaved, testing, closeAfterOAuth, closeAfterTest, settings, sessions, tests>>
vars == <<turn, configVars, oauthVars, careVars, startVars, dialogVars>>

Init ==
  /\ turn \in {"config", "oauth", "care", "start", "dialog"}
  /\ Config!Init /\ OAuth!Init /\ Care!Init
  /\ Start!Init /\ (turn # "start" => version = 1)
  /\ Dialog!Init /\ (turn # "dialog" => kind = "qq")

Next ==
  \/ turn = "config" /\ Config!Next /\ UNCHANGED <<turn, oauthVars, careVars, startVars, dialogVars>>
  \/ turn = "oauth" /\ OAuth!Next /\ UNCHANGED <<turn, configVars, careVars, startVars, dialogVars>>
  \/ turn = "care" /\ Care!Next /\ UNCHANGED <<turn, configVars, oauthVars, startVars, dialogVars>>
  \/ turn = "start" /\ Start!Next /\ UNCHANGED <<turn, configVars, oauthVars, careVars, dialogVars>>
  \/ turn = "dialog" /\ Dialog!Next /\ UNCHANGED <<turn, configVars, oauthVars, careVars, startVars>>

Spec == Init /\ [][Next]_vars

TypesOK ==
  CASE turn = "config" -> Config!TypeOK
    [] turn = "oauth" -> OAuth!TypeOK
    [] turn = "care" -> Care!TypeOK
    [] turn = "start" -> Start!TypeOK
    [] turn = "dialog" -> Dialog!TypeOK
\* A client's configuration: an edit by its owner survives the application and the restore; the token of
\* the file, of the keyring and of the row change together or not at all; the last backup is removed only
\* for a newer one.
ConfigIsKept ==
  /\ [](turn = "config" => Config!NoEditIsLost /\ Config!RotationIsAtomic)
  /\ Config!LastBackupSurvives
\* A browser session: no step of it is refused by its own table, only a success saves a token, the account
\* is authorised by the client that asked; a refresh replaces the token it read, never one that came between;
\* the dialog outlives what it started, and does not save over the settings that a session was begun with.
SessionIsRight ==
  /\ [](turn = "oauth" => OAuth!NoTransitionIsRejected /\ OAuth!OnlySuccessSaves /\ OAuth!AuthorizedIsRight)
  /\ OAuth!RefreshReplacesItsToken
  /\ [](turn = "dialog" => Dialog!DialogOutlivesItsWork /\ Dialog!SessionKeepsItsSettings)
\* A repair is backed up, leaves a trouble that has gone and acts on what the last scan saw; its audit says
\* what was done, and neither a repair nor a restore loses a row.
RepairIsCareful ==
  /\ [](turn = "care" => Care!AuditIsTrue /\ Care!NothingIsLost)
  /\ Care!RepairIsBackedUp /\ Care!PassedTroubleIsLeft /\ Care!ScanIsCurrent
\* A start: what it migrates was backed up first, what the owner chose and the accounts of older mail stay,
\* and a message it links to a package is whole there.
StartIsSafe ==
  /\ [](turn = "start" => Start!BackedUpFirst /\ Start!ChoicesSurvive /\ Start!LinkedIsWhole)
  /\ Start!OwnershipStays
=============================================================================
