# AgentMailBridge: a TLA+ model

AgentMailBridge runs on a user's desktop. It receives mail by IMAP or the Gmail API, archives it in
local packages, and lets AI agents (MCP clients) read the archive and submit mail to send, with or
without the user's confirmation. One data directory is shared by several processes: the GUI, one MCP
server per client, command-line calls. They share a SQLite database and a directory tree and nothing
else, so most of what is hard to get right is in the order of their transactions, file operations
and network calls, and in what a crash leaves. Within the GUI the same holds of the events of its
thread, the one task in its pool and the dialogs whose event loops let everything else go on.

This directory holds TLA+ modules that model those orders, TLC configurations that check them on
small instances, and TLAPS proofs for every instance. `PROJECT.json` lists the runs, the mutants
that show each property can fail, the lines each definition translates, the hazards and the
findings.

    tlc -workers 2 -config pipeline_lease.cfg MCSendPipeline.tla
    tlapm SendPipelineProofs.tla

## 1. The system

Paths are relative to `agent_mail_bridge/`.

| component | state it keeps | operations |
|---|---|---|
| **send request store**, `send_requests.py` | `send_requests`, one row per (client, idempotency key); `send_execution_leases`, at most one per request | create, expire, cancel, claim, record a stage, complete |
| **send execution**, `outbound_mail.py`, `mail_send.py`, parts of `application_service.py` | the local state of a call; `outbound_messages`, `outbound_resources`, `sent_files`, staged files | check, claim, build the MIME, SMTP, archive, complete; send one file; send a composed mail |
| **send recovery**, `send_recovery.py` | none of its own | startup recovery of a list of requests, archive recovery, the user's reconcile, mark and clone |
| **Sent reconciliation**, `send_reconciliation.py` | `sent_server_mappings` | match a message of a Sent mailbox with a request or a package |
| **mail archive**, `mail_archive.py`, `mail_processing.py`, `storage.py` | package directories, `mail_packages` and its resources | identify, stage, publish, store, archive again |
| **mailbox synchronisation**, `imap_sync.py`, `mailbox_checkpoint.py`, `gmail_api_receive.py`, `mail_receive.py`, `receive_rules.py`, `reconciliation_evidence.py` | `mailboxes` (uidvalidity, last_uid, checkpoint), retry rows, observations and their membership | scan, overlap, retry, snapshot reconciliation, labels |
| **receive scheduling**, `application_service.py`, `account_runtime.py`, `process_lock.py` | per-account automatic state, history imports, in-process and file locks | automatic and manual receive, back-off, pause, import of history |
| **snapshot retention**, `retention_cleanup.py` | snapshot directories, a quarantine, `cleanup_records` | recover, plan, delete in two phases, audit |
| **managed files**, `mail_resource_access.py`, `managed_files.py`, `trusted_downloads.py` | copies of archived mail in directories that agents and the user share | prepare whole and single copies, reuse, overwrite |
| **mail facts**, `mail_facts.py`, `mail_fact_membership.py`, `mail_threading.py` | which package and mailbox an observation belongs to, direction, thread relations | observe, match, relate |
| **client configuration**, `mcp_client_config.py`, `agent_integration.py`, `send_permissions.py` | configuration files of other programs, backups, tokens, rights | preview, apply, restore, rotate; save, migrate and check rights |
| **OAuth session**, `gmail_api_auth.py`, `oauth_flow.py`, `oauth_storage.py` | stored tokens, running browser sessions | authorise, cancel, refresh, clear |
| **accounts**, `account_management.py`, `credentials.py`, parts of `database.py` | `mail_accounts`, secrets in the keyring, token files, switches | create, save, enable, remove, take over older settings |
| **consistency**, `consistency_scan.py`, `consistency_repair.py`, backups in `application_service.py` | `consistency_issues`, repair audit, backups | scan, preview, repair, back up, restore |
| **database**, `database.py` | the schema | open, migrate, transactions |
| **desktop interface**, `ui/` | the task slot, timers, open pages and dialogs | one handler per event |
| MCP server, CLI, providers | arguments, tables, parsing | translate a call into one of the above |

How they interact:

* An MCP call `send_agent_mail` creates a request and, in autonomous mode, executes it at once; in
  confirm mode the GUI executes it when the user agrees. Both run the same code in different
  processes. The claim is a transaction that gives the request its one lease.
* The execution records each stage and renews its lease as it goes, so that a later reader of the
  row can tell how far it got. `smtp_data_started` is committed before the bytes leave.
* Each process that starts lists the requests whose status asks for recovery and decides each one,
  from two plain reads (row, lease) and the local archive. It has first backed up, migrated and
  completed the database, perhaps at the same time as another process.
* A receive takes a thread lock and a file lock of its account, scans, archives each message, maps
  it to mailboxes, and moves the checkpoint. A message in Sent is matched with a request or a
  package; that takes no lease.
* The GUI's timer starts a round over the accounts that are due; a search of an MCP client may
  refresh the same account, and both write its row.
* A call of a tool reads the client's identity in several statements and asks for a scope; a request
  that waits is asked again when it is executed.
* A snapshot of the MIME and its attachments is kept for recovery. Retention renames it into a
  quarantine, marks the row and deletes it.
* The GUI runs one task at a time in a pool; buttons, the timer and a question for confirmation
  compete for it, while pages show what was read some time ago.

What is hard: statements of many kinds of actors interleave over one row; no transaction covers a
read and the decision made on it; a process may die between any two steps; a lease may expire under
a slow but living owner; the answer of SMTP may be lost; directories, keyring, configuration files
and rows cannot be changed together; what the user looks at is older than what is.

What makes each component correct:

* **Sending**: a mail goes out at most once, and only with the user's consent or permission; what
  goes out is what was confirmed and hashed; what the row says about delivery is true, or says that
  it is not known; no request stays undecided for ever.
* **Retention**: recovery material disappears only when its row says so, and then does; nothing is
  marked as cleaned that could still be needed.
* **Archive**: one package per mail; a complete package never becomes incomplete; a row never points
  to files that are not there; a match is never to another mail.
* **Synchronisation**: each message of a mailbox is archived, deliberately skipped, or remembered
  for a retry, whatever order of failures, validity changes and crashes; a message still on the
  server is not marked absent.
* **Scheduling**: one receive per account at a time; a pause by the user is not undone by a receive
  under way; a back-off is kept; no account starves; no two callers wait for each other; an import
  of history passes over nothing.
* **Copies**: a copy is of one state of the archive, and what the user did to it is not overwritten
  unless he asked for that.
* **Client configuration**: an apply can be undone, and does not overwrite what another program has
  written since the preview; a rotation is whole or undone.
* **Rights**: no scope is wider than a setting the user made, and what goes out is allowed when it goes.
* **OAuth session**: a cleared session stays cleared; a refresh does not bring back old tokens; a
  session ends whatever happens to it.
* **Accounts**: an account stays as its owner left it, what was deleted stays deleted unless a call
  was already under way.
* **Consistency**: a repair changes only what is still as the scan found it, behind a backup; a
  restore loses nothing silently.
* **Desktop**: only what was confirmed is done, and the timer, the dialogs and the program itself
  come to an end when they should.

## 2. Modules

| module | models |
|---|---|
| `SendStore` | the two tables of `send_requests.py`; one operator per transaction |
| `SendPipeline` | every actor over those tables, in the steps the code takes between two statements or network calls |
| `SendContract` | what sending promises, with no lease, clock, stage or crash |
| `SendPipelineInv`, `SendPipelineProofs`, `SendTruthProofs` | the inductive invariants `IInv` and `TruthInv`, their proofs and the safety theorems; the first also has the refinement |
| `SnapshotCleanup`, `SnapshotCleanupProofs` | recovery and clean-up of snapshots by several processes; its theorems |
| `MailboxSync`, `MailboxSyncProofs` | the synchronisation of one IMAP mailbox, its checkpoint, retries and membership; its theorems |
| `GmailReceive` | rounds and rescans of a Gmail account by its API and by the older IMAP receiver |
| `ReceiveLocks` | the locks of a receive, in processes and between them |
| `AutoReceive` | the switch, the timer, the round over due accounts, back-off, MCP searches |
| `HistoryImport` | the import of older mail in segments, cancelled, cut, killed, resumed |
| `MailArchive` | identity, staging, publication and rows of packages, by several processes |
| `MailFacts` | matching, direction, mapping and threads of a message that is looked at |
| `WorkCopies` | copies of an archived mail, whole or resource by resource |
| `AgentAccess` | the rights of one client: saved, migrated, read, checked, revoked |
| `ClientConfig` | preview, apply, restore, prune and rotate over a configuration file |
| `OAuthSession` | browser sessions, refresh, clearing and import over one token file |
| `Accounts` | one account in its four stores, its owner and tasks beside him |
| `Maintenance` | backups, restores, scans and repairs |
| `Startup` | two processes that open a database of an older version |
| `FileSend` | one request to send one file, repeated |
| `ComposedMail` | `send_outbound_mail`, with its attachments |
| `Receiving`, `ReceivingProofs` | locks, rounds, history and one account beside each other; their theorems |
| `Archiving`, `ArchivingProofs` | packages, facts, copies and rights beside each other; their theorems |
| `Service`, `ServiceProofs` | a client configuration, a token file, maintenance, the starts and a dialog beside each other; their theorems |
| `Messaging`, `MessagingProofs` | a file, a composed mail, the window, a Gmail account and the pages of requests beside each other; their theorems |
| `WindowTasks` | the main window: task slot, timer, watchdog, confirmation, leaving |
| `SendPages` | the pages of waiting and of doubtful requests |
| `AccountDialogs` | the dialogs of an account, their browser session and their test |
| `MC...` | instances for TLC |

`SendPipeline` extends `SendStore`; the other component modules stand alone, because the parts they
model meet through one or two values only, and each says in its comment what it takes of a
neighbour. `MailFacts` takes from `ReceiveLocks` that one round looks at an account; `WindowTasks`
hands a mail to `ComposedMail` and keeps only what was handed over; `SendPages` keeps the status
that `SendStore` keeps a row for; `AutoReceive` takes a receive as one step that `ReceiveLocks`,
`MailboxSync` and `GmailReceive` split up.

**Several parts in one run.** `Receiving`, `Archiving`, `Service` and `Messaging` (with their values in
`MCReceiving`, `MCArchive`, `MCService` and `MCMessages`) and `MCLive` instantiate parts that share no
variable. `turn`, chosen at the start and never changed, says which part moves; the others stay in
their initial state, so the state space is the sum and not the
product of theirs. A property of such a module is a conjunction of named properties of the parts,
`LocksExclude == Locks!OneReceivePerAccount /\ Locks!ReturnedHoldsNothing` for instance, and the
mutant that refutes it names the part it breaks.

### SendStore and SendPipeline

`req[r]` is the `send_requests` row of one idempotency key and `lease[r]` its lease row (`NoLease`
when there is none). A row keeps the columns that some condition reads: status, stage, mode,
deadline, attempt count, acceptance, delivery and reconciliation status, who confirmed, and whether
the MIME, the outbound fact and the package are set. `clock` counts seconds, the resolution of the
stored times. Texts, hashes, the event log and provider results are left out: no condition reads
them.

Every operator of `SendStore` is one `BEGIN IMMEDIATE ... COMMIT` or one autocommit statement. The
code reads the clock *before* it begins most transactions, so an actor remembers `now` in a step of
its own (`ClaimReadsClock`, `StageReadsClock`) and time may pass before the transaction.
`get_send_request` is two autocommit SELECTs, so a worker reads row and lease in two steps and acts
on what it remembers.

| actors | code | steps |
|---|---|---|
| `Execs` | `send_agent_mail`, `confirm_agent_send_request`, `execute_agent_send` | look up, create, claim, seven stages each as clock and commit, SMTP DATA, the exception handlers, archive, facts, completion |
| `Recoverers` | `recover_incomplete_send_requests` at the start of a process | list, read, judge, reconcile with the local archive, verdict, archive recovery |
| `Users` | the GUI's reconcile and mark | the same procedures, and the unguarded write of a mark |
| `Syncs` | a synchronisation that finds the mail in Sent | prepare, archive, map, update the fact, update the row |

`sends[r]` counts the times the bytes entered SMTP DATA and `delivered[r]` says whether the provider
took them. Both are the outside world: no guard of an execution, recovery or user reads them, only
`SyncFinds` does, since a copy in Sent exists only of what was taken. `said[r]` remembers what the
user declared, since a declaration may be wrong and the properties must exempt it. SMTP DATA ends in
any combination of taken or not, answered or not. An archive ends as nothing, partial or ready. A
crash may hit any actor at any step; it leaves the rows and the lease as they are.

`SmtpStageError.delivery_unknown` is not a variable: the code sets it only after `smtp_data_started`
is recorded, so a handler that still owns the lease finds the same in the row. The stages between
`smtp_connecting` and `smtp_authenticated` are one stage, since no condition tells them apart.

### The other ways out: FileSend, ComposedMail

`FileSend` is one `request_id` by which one file is sent, by an agent, the command line or the
window. Several calls of several processes hash the source, stage it, read the row of `sent_files`,
create the attempt, copy, send, record, archive. Each statement is a step; `source` is edited at any
time, `staged` is shared by the calls, `inbox` is what the server took and `lost` that its answer
did not arrive. `ComposedMail` is `send_outbound_mail`: hash and stage each attachment, build, send,
archive each attachment and write its row, finish. Its state is local to a mail, apart from the
chosen files and rows; `told` is what the user was shown.

### The desktop: WindowTasks, SendPages, AccountDialogs

An action of `WindowTasks` is one event of the GUI thread or a step of the one pool task. `task` is
the slot, `dialog` the open question whose own event loop lets timer, watchdog and quit go on,
`confirmed` what the user said yes to and `mails` what was handed to the service. `SendPages` has
the pending list with its detail page and the recovery selector: `rows`, `kept`, `armed` are what
was listed, `store` what is; an answer begins a task for the request captured when its button was
pressed. `AccountDialogs` has the three account dialogs, by `kind`, with a browser session in a
thread, a test in the pool and the events by which both answer.

### SnapshotCleanup

`place[r]` says where the snapshot directory is (its root, a quarantine with a fresh name `n`,
gone), `whole[r]` whether a file of it has been deleted. `row[r]` has the columns
`_eligible_requests` joins. `writer` is SQLite's write lock. `Starters` recover once per start;
`Cleaners` recover, plan, then for each request begin a transaction, check again, rename, mark and
commit, and delete outside it; on an exception they roll back and rename back. The audit row is the
last step. The row changes under them by a Sent observation and by an archive that fails in part,
each in a transaction of its own. The death of a process gives back the lock and its uncommitted
row.

### MailboxSync

The server is `validity`, the `uid` of each message and `uidnext`: messages arrive and are expunged,
and the mailbox may be created anew, with the same messages under other UIDs. `cp` is the
`mailbox_sync_states` row, `rows` and `due` are `receive_retries`, keyed by UIDVALIDITY and UID.
`verdict` says whether the package of a message is complete or the rule has refused it. A partial
package is completed like a missing one, so only the session that made it (`mappart`) can tell.
`member` is `mail_package_mailboxes`: the generation and UID under which a package was last seen.

The locks of the account admit one session, a synchronisation or a rescan, and `s` is its local
state. It is modelled commit by commit: retire the old rows, search, fetch, then for each candidate
archive, map, clear or record, then the membership snapshot and the checkpoint. `Breaks` ends it
anywhere, with what is committed left in place; `cut`, which exists for a property only,
remembers the messages whose package a rescan had stored and not yet mapped when it ended. Between
SELECT, SEARCH and FETCH the server and the clock move; each of their moves is taken where the
session first notices it, since nothing tells it apart from an earlier or later one.

Candidates come in any order, although the code takes UIDs in ascending order and then the rows, and
the due rows are any batch, although the code takes the oldest: the model allows more. All
candidates are fetched at once, since a batch holds more than the runs' messages. Left out: servers
without UIDVALIDITY and rows of versions that knew none, other mailboxes of the account, the older
copy of the checkpoint in the account state.

### GmailReceive

`backend` chooses the API or the older IMAP receiver; neither keeps a checkpoint. `labels`, `gone`,
`recent` are the server, `rows` and `due` the retries, `scan` the round or rescan under way with its
label, page token, count and list. A page holds one message, so that a cap can fall between two
pages. A round collects, cuts, adds what is due and then works; a rescan by the API works on each
page as it comes. Of the rows that are due a round takes no more than the cap, and the model any that
many, although the code takes the oldest. `seen`, `torn`, `must` and `handled` exist for the
properties only.

### ReceiveLocks, AutoReceive, HistoryImport

`ReceiveLocks` has the three locks of a receive in the order the code takes them (the thread lock of
the account in its process, the old `receive.lock` for calls that name no account, the file lock of
the account), the ways out of it, a raising `acquire`, the death of a process and the probe of
`get_mail_sync_status`, which itself takes the locks. `AutoReceive` has the GUI's switch and timer,
the round of `sync_due_mail_accounts`, which reads a row, receives and writes the row back, and the
searches of other processes that do the same; times are ticks that remain. `HistoryImport` has the
row of a run and the call that goes through its segments, with the result of each scan any that
`historical_rescan` may return.

### MailArchive, MailFacts, WorkCopies

`MailArchive`: several archivers look for a package, stage files, publish by a rename, store the
rows; a UIDVALIDITY change renumbers the mails under them, downloads and writes fail, processes die.
`MailFacts`: the looks at messages, one at a time, each transaction a step, with the evidence of
`find_sent_candidate` strongest first, beside the sender that archives its own mail. `WorkCopies`:
preparers make whole copies (look, copy, snap again, replace, set aside, publish) or flat ones (pick
a name, copy, check, note), the archive is rewritten and the user edits and deletes.

### AgentAccess, ClientConfig, Accounts, OAuthSession

`AgentAccess`: one client's rights lie in three places; saving is three transactions, an identity is
read in as many steps, a starting process rewrites older rights, and a request is checked when it is
made, confirmed and executed. `live` and `seen` remember which settings were in the tables while one
was read. `ClientConfig`: preview, then check, back up, replace, verify, rows; the other program
edits between any two. `Accounts`: row, secrets, token and switch of one account, the owner's
operations step by step and tasks that take over an older version's secret or write back a state
they read. `OAuthSession`: sessions run through the table of `oauth_flow.py` under the token lock,
with a cancellation noticed where the code looks for one; readers refresh and clear.

### Maintenance, Startup

`Maintenance` has the one task of the window (scan, repair, backup, restore) in its transactions,
with troubles that arise and pass. A backup is the value of `db` when it was made, so that a restore
brings back rows and audit as they were. `Startup` has the steps of `initialize` by two processes:
what each reads before it opens the database, the backup, the migrations, then seeding, the
archiving of older messages and contacts, with the owner already at work in the first that is ready.

## 3. Runs

`CHECK_DEADLOCK FALSE` is set throughout: the system may stop, with every request decided and nobody
acting.

| run | who meets | checks | distinct states |
|---|---|---|---|
| `pipeline_lease` | two executions and a startup recovery, both modes | `AtMostOneData`, `DataIsLogged`, `FailedWasNotSent`, `IInv`, `OwnerKeepsVerdicts`, `FreshDenialIsTrue`, `ImplementsContract` | 0.54 M |
| `pipeline_meet` | an execution, a worker that is a startup recovery or a user, a Sent synchronisation | `SentIsTrue`, `SentHasArchive`, `MatchedHasMapping` | 1.5 M |
| `pipeline_live` | an execution, a recovery, a crash, under `FairSpec` | `SendingEnds`, `RecoveryRequiredEnds` | 0.25 M |
| `cleanup` | a start and a clean-up, two crashes, under `FairSpec` | `TypeOK`, `SnapshotIsKept`, `OnlyExpendableIsCleaned`, `QuarantineEmpties` | 45 k |
| `sync` | two messages, two generations, synchronisations, rescans, one failure | `TypeOK`, `NothingForgotten`, `ReconciledIsComplete` | 5.8 M |
| `receiving` | the locks; the automatic round; an import; an account | `TypesOK`, `LocksExclude`, `HistoryIsWhole`, `AccountIsKept`, `RoundHonours` | 1.6 M |
| `service` | a client configuration; a token file; maintenance; two starts; an account dialog | `TypesOK`, `ConfigIsKept`, `SessionIsRight`, `RepairIsCareful`, `StartIsSafe` | 1.7 M |
| `archive` | packages; copies; rights; facts | `TypesOK`, `ArchiveIsWhole`, `CopiesAreTrue`, `AccessIsGranted`, `EditsSurvive` | 1.3 M |
| `messages` | a file; a composed mail; the window; the Gmail receivers; the pages of requests | `TypesOK`, `SendsAreTrue`, `MailIsTakenIn` | 2.1 M |
| `live` | locks, rounds, sessions, one mailbox, window and dialog, each under its fairness | `CallsReturn`, `EveryAccountIsServed`, `EveryMailSettles` | 64 k |

What the runs of sending, retention and synchronisation show:

* **One transmission.** Whatever retries of one key, confirmations, takeovers and crashes meet, the
  bytes enter SMTP DATA at most once (`AtMostOneData`). The lease alone does not do it, since a slow
  owner outlives it: what does is that no path leads back from `sending` to a claimable status.
* **Write-ahead.** Each transmission was counted and staged first (`DataIsLogged`), so the row of a
  dead execution shows that bytes may have left.
* **`failed` is true** (`FailedWasNotSent`), although the handler decides on a row read in an
  earlier step: between that read and its write either it still owns the lease, and then nobody else
  changed the stage, or the write is refused.
* **A late owner is harmless** (`OwnerKeepsVerdicts`): it never overwrites the verdict of a recovery
  or of the user.
* **A fresh denial is true** (`FreshDenialIsTrue`): if row and lease are still what recovery read,
  then `definitely_not_sent` is right. The finding `denial_race` shows that the premise is needed
  and the code does not establish it.
* **Nothing is called sent that was not** (`SentIsTrue`), **`sent` has its package**
  (`SentHasArchive`), **`matched` its mapping** (`MatchedHasMapping`).
* **Requests do not hang** (`SendingEnds`, `RecoveryRequiredEnds`).
* **Snapshots** are whole until their row is committed as cleaned (`SnapshotIsKept`), rows are still
  expendable at that moment (`OnlyExpendableIsCleaned`), and the quarantine empties
  (`QuarantineEmpties`).
* **No message is forgotten** (`NothingForgotten`): the checkpoint passes over messages that failed,
  and each of them keeps a row until it is archived or refused. This needs a backlog within the
  limit of a session.
* **A reconciliation is complete when it says so** (`ReconciledIsComplete`), although the rows of
  the old generation went first and sessions failed on the way; it ends unless a message was given
  up. The exception is a package that a rescan had stored when it was cut off before the membership.

What the merged properties are made of:

| property | parts | what it says |
|---|---|---|
| `LocksExclude` | `OneReceivePerAccount`, `ReturnedHoldsNothing` | two calls never receive for one account; one that returned, however it ended, holds nothing but the thread lock of a call that raised on its way in |
| `HistoryIsWhole` | `NoSegmentIsPassedOver`, `CompletedIsTrue` | a resumed import skips nothing, and a completed one means it of all its last call went through |
| `AccountIsKept` | `RowIsAsChosen`, `CleanedIsClean`, `ToldIsTrue`, `SwitchFollows` | row and secrets are as the owner left them or was told, unless a task that was under way wrote over them |
| `RoundHonours` | `BackoffIsHonoured`, `PauseStopsTheRound` | a round under way keeps the delays and the pause |
| `ConfigIsKept` | `NoEditIsLost`, `RotationIsAtomic`, `LastBackupSurvives` | no edit is lost but between a check and its write; a rotation is whole or undone; pruning leaves a backup |
| `SessionIsRight` | `NoTransitionIsRejected`, `OnlySuccessSaves`, `AuthorizedIsRight`, `RefreshReplacesItsToken`, `DialogOutlivesItsWork`, `SessionKeepsItsSettings` | the table admits every end of a session; no refused session leaves a token; no refresh revives one; a dialog waits for what it started |
| `RepairIsCareful` | `AuditIsTrue`, `NothingIsLost`, `RepairIsBackedUp`, `PassedTroubleIsLeft`, `ScanIsCurrent` | repairs act behind a backup on what still stands, and rows survive restores |
| `StartIsSafe` | `BackedUpFirst`, `ChoicesSurvive`, `LinkedIsWhole`, `OwnershipStays` | two starts migrate behind a backup, link whole packages, and do not undo what the owner chose |
| `ArchiveIsWhole` | `ReadyIsWhole`, `ToldIsKept`, `PublishedIsComplete`, `ManifestAgrees`, `MatchIsTrue`, `NeverSwitches`, `DisagreementIsFlagged`, `OneParent` | a ready package has its files; what is reported archived is that mail; a match is to the mail it is a copy of, and stays |
| `CopiesAreTrue`, `EditsSurvive` | `CopyIsOneState`, `OverwriteKeepsOne`, `PreparedIsKept` | a copy is of one state of the archive, an overwrite leaves one of the two, edits give way only on request |
| `AccessIsGranted` | `NoScopeIsWidened`, `SentWasAllowed` | an identity mixes no scope wider than a setting that was live; what goes out is allowed when it goes |
| `SendsAreTrue` | `SentOnce`, `SentAsHashed`, `RowIsTrue`; `FinalStateIsTrue`, `RowsFollowTheMail`; `OnlyConfirmedGoesOut`, `NoneIsDisplaced`, `LeavesInOrder`, `DraftIsKept`; `OnlyAskedIsDone`, `OnlyConfirmedIsSent`, `CancelledStays`, `DetailIsKnown` | a repeated request sends once unless an answer was lost, what goes out is what was hashed and confirmed, and the pages do what was asked for the request it was asked for |
| `MailIsTakenIn` | `RoundIsWhole`, `LabelsAreTrue`, `ArchivedStays` | what a Gmail round lists is settled or waits, and a package has the labels last seen |
| `CallsReturn` | `CallsReturn`, `SessionsEnd`, `QuitEnds`, `AutoComesRound`, `CloseHappens` | locks, sessions, window, timer and dialog come to an end |
| `EveryMailSettles` | `EveryMailSettles`, `ReconciliationEnds` | a message is archived, refused or given up; a reconciliation ends |

### Bounds, and why they are enough

* One idempotency key, one snapshot. Rows, leases, packages and directories are per request, an
  actor serves one at a time, and no condition reads two requests. The one coupling, the write lock,
  is held inside one action (`SendStore`) or is a variable that two cleaners contend for
  (`SnapshotCleanup`).
* Two executions: a claim and a takeover or a refused claim; a third could only repeat what the
  second does. They are interchangeable, so `SYMMETRY` is sound; it is not used where liveness is
  checked.
* `LeaseTicks = 1`, `ConfirmTicks = 1`, `MaxClock = 2`: a time can be before, at and after a
  deadline, which is all that any guard asks. Time passes only while some deadline, stored,
  remembered or about to be stored, lies ahead (`DeadlineAhead`); after the last one a later time
  enables the same steps.
* In `pipeline_meet` one worker is both in `Recoverers` and in `Users`: it serves one of the two
  roles at a time and both meet the execution and the synchronisation.
* `MaxCrashes` is 0 to 2. An actor that stops for ever without a crash is in every run anyway, since
  `Spec` has no fairness; a crash adds that the actor's place can be taken again.
* `sync` has two messages, so that one may fail while the other moves the checkpoint, `MaxValidity =
  2` so that the mailbox is created anew once, `Overlap = 1` so that one message leaves the overlap,
  and `Cap = 2`: the backlog fits. `MaxAttempts = 2` tells a row that is retried from one that is
  given up (5 in the code). `MaxFaults` counts failures of a behaviour, since each of them may hit
  any step. Messages are interchangeable, so `SYMMETRY` is sound there. The part `sync` of `live`
  has one message: what another adds to its fate is the limit.
* `cleanup` has one start and one clean-up, which itself begins with a recovery; that more processes
  lose no snapshot is proved. `MaxTries = 2` quarantine names: one that is restored or deleted while
  another is in use.
* `receiving`: three calls and a probe in two processes on one account, one call that names it and
  one that does not in the same process, so every pair of lock orders meets; that more of them
  exclude each other is proved. Two accounts in a round: one that fails before or after one that
  does not; `Backoff` of two ticks against an interval of one. Three segments: one before, at and
  after the one that fails. One account, three operations of its owner: create, change, remove and
  create again, with a task that spans them. That was not enough for a first form of `CleanedIsClean`,
  which four operations refute (section 4); the form checked now is proved for any number.
* `service`: one edit and one trouble between any two statements of three tasks; `Keep = 1`, so that
  every new backup prunes. Two browser sessions, one refusing the other, and three tokens, one
  before, one by a session, one by a refresh. Two issues, one with a rule and one without. Two
  starting processes over databases of the versions where a migration differs, two files so that one
  can be copied and the other not.
* `archive`: two mails under one Message-ID, the least that can be confused, and two calls of three
  archivers, two of which share a process. Two preparers and three directory names, so that a taken
  name and a second taken one are met. Two accounts and four settings, of which one narrows and one
  widens another. Five messages: copies of two mails of ours, one with its Message-ID kept and one
  with it rewritten and only its marker left, another mail under the Message-ID of the first, and an
  answer.
* `messages`: two calls, three starts and two faults for one file; two attachments, so that one can
  fail and the other not; a draft that is edited once; two Gmail messages with a cap of one; two
  requests and three answers.
* Failures, deaths and edits are counted, not placed: each may hit any step.

The theorems hold without any of these bounds.

### Fairness

`pipeline_live` and `cleanup` assume that a running call goes on (weak fairness of the steps of each
actor, each in its own thread or process), that time passes, and that the application is started
again and again, each start listing every request or quarantine (strong fairness of `RecoveryLists`,
since the status may change between listings; weak fairness of `Starts`). `cleanup` also assumes
that the file system at last lets a directory be deleted or renamed (strong fairness of `RemoveEnds`
and `Restores`): each start tries again and the code has no other remedy.

`live` assumes, of the part whose turn it is: a call and a browser session go on (each has its
thread, and every wait in it has a timeout); the GUI is started again, a round and other tasks go on
and time passes, and the timer does not find a task running whenever it fires (strong fairness of
`TimerRuns`: it fires again and again); automatic receiving gets its turn between rescans (strong
fairness of `Selects`), its session goes on and the time of a retry comes; the pool, the event loop,
timer and watchdog of the window run; the workers of a dialog answer and its events are taken up.
Users, submissions, Sent copies, servers and failures are not fair.

## 4. What the code does not keep

Two runs refute a sentence of the repository; `PROJECT.json` quotes them.

| run | sentence | what happens |
|---|---|---|
| `denial_race` | an interruption before SMTP DATA recovers to `definitely_not_sent` | recovery reads row or lease, the execution then sends, recovery writes its old verdict: the user is told that a mail which went out did not |
| `prepared_lost` | a resource reported as prepared has its hash, and equal names are moved aside | the note is written to a fixed name after the resources; a resource of that name is reported and then replaced |

While modelling, the following was met too. The models contain each of these behaviours, and a
property that would be broken by one carries the exception, named in its comment. They have no run
of their own.

**Sending.** An acceptance may be recorded between the check and the write of a mark as not sent
(`send_recovery.py:383`). Of two processes that archive one mail the one that fails in part stores
`partial` over `ready` (`database.py:3917`). A verdict on an old row without a guard also turns a
request completed after it was listed back into an undecided one. `ready_to_send` left by a death
between creation and claim is in no recovery list (`application_service.py:3395`); `sent_reconciled`
is set back to `sent` by a late execution (`outbound_mail.py:535`). `docs/发件状态机与崩溃恢复.md:9` lets only
an unexpired owner renew, but `record_send_stage` compares with a time read before `BEGIN
IMMEDIATE`, so an owner that waits for the write lock renews an expired lease; `AtMostOneData` holds
all the same.

**Sending files.** An SMTP answer that is lost is recorded as failed, and the same `request_id`
sends again (`SentOnce` exempts a lost answer; `docs/安全与诊断说明.md:69`). After a death between the
attempt and the sending every repetition is a duplicate. A repetition with another file keeps the
row data of the first (`database.py:4365`). A composed mail left `sending` by a death has no
recovery; a database error after the acceptance is shown as a failure. `send_outbound_mail` sends
what it reads, the confirmed hash is compared before it only.

**Window and pages.** A task that begins under an open confirmation makes Yes refused while the
progress goes on showing "sending" (`ui/main_window.py:4193`); text typed while a send runs is
cleared by its success. When a confirmation ends well it leaves the page that is open, though that
is of another request by now; the button of an ended recovery task is enabled again until the next
listing. A clone of a request with files needs a client that may read the data directory.

**Retention.** A start takes the quarantine of an open transaction for an abandoned one; the row
ends as cleaned and the directory stays. `docs/临时资料生命周期.md:17` has the audit row committed before
the deletion; `_record_cleanup` is a transaction of its own after it (`retention_cleanup.py:174`).

**Synchronisation.** A message that failed in a rescan is retried ahead of a backlog beyond the
limit and moves the checkpoint over messages never fetched. As many given-up messages as a session
may take keep all later ones out. `docs/同步Checkpoint与UIDVALIDITY恢复.md:7` commits a checkpoint only
for a mailbox that was complete; `SUCCESS_RESULTS` counts a session in which messages failed as a
success, and the retry rows make up for it. A cap taken label by label can keep SENT out; a mail
older than the look-back when the program was off is never taken; a partial message that the rule
later refuses loses its retry row; a death between the store and the labels leaves labels behind
until the next look (`torn`). A rescan that dies between the package and its membership leaves the
package without one, and since the rescan keeps no row, a later reconciliation can be complete
without it (`cut`).

**Scheduling.** A round writes back the switch and the delay it read (`SwitchIsRestored` fails). A
resumed import forgets that an earlier segment had failed (`CompletedIsWhole` fails). A restore
looks for receiving before it takes its lock (`RestoreExcludesReceiving` fails,
`application_service.py:5675`).

**Archive, facts, copies.** Of two processes the one that publishes second stores rows of files that
were thrown away (`ReadyIsAlwaysWhole` fails). A reply archived before the mail it answers is
related only when looked at again; a copy seen while its request is still sending is recorded as
sent elsewhere. Two flat calls may pick one name (`mail_resource_access.py:257`), and a death in an
overwrite leaves only `.rollback` (498).

**Rights and configuration.** An identity may mix the accounts of one setting with the capabilities
of another, as long as no scope is wider than both (`NothingIsMixed` fails); a revocation under a
running configuration task is overwritten (`RevokedStays` fails, `ui/main_window.py:7591`); the
rewriting of older rights by a starting process can overwrite a narrower save
(`agent_integration.py:286`).

**Accounts and sessions.** An account that was removed and is saved again through the older dialogs
stays removed though the dialog says saved; `sync_mail_accounts` overwrites the user's provider
settings; a failed write of `.env` may put back a deleted secret, and so may a call under way; a
death between the removal of the row and of its secrets leaves them out of reach. An older version's
configuration that names the address again brings back secret and token after they were deleted. The newer account
dialog does not keep its session from being saved over (`DialogOutlivesItsWork` exempts it), and its
clearing and importing do not look for a running session. An older token is copied again after a
death before its marker (`oauth_storage.py:229`).

**Maintenance and start.** A repair whose first step committed is audited as failed
(`application_service.py:5775`); a scan stops at 500 rows and takes what lies beyond for resolved. A
death between the schema and the seeding never seeds again; a row that always fails makes every
start back up; a file that one start could not read and another could is stored as available and is
missing.

## 5. Proofs

TLAPS checks the following for every value of the constants: any number of requests, executions,
workers, synchronisations, processes, calls, segments, accounts, tasks, operations, mails, archivers,
preparers, settings, messages, sessions, readers, backups, troubles, starts, calls, attachments,
clicks and labels' sets, and any bound on clock, crashes and failures. The assumptions are
the named ones of the modules:

* bounds are natural numbers, owners and null values are distinct from each other and from members,
  and starters are not cleaners (`Distinct`);
* each account has one row and the last delay of the back-off table is its longest, as in the code
  (`Tabled`); a provider is one of those that `Accounts` tells apart (`Known`);
* within one UIDVALIDITY each mail has a UID of its own (`Numbered`, what IMAP guarantees);
* the empty file of a flat directory is no resource, and there is a directory name (`Laid`);
* a setting is one that the dialog can hold (`Offered`);
* a browser session is not a reader and neither is nobody (`Apart`); each trouble has the pass of the
  scan that looks for it (`Sorted`); a start finds a version that exists, and no file of a package
  has the name of the manifest (`Known` of `Startup`);
* a file request comes from the Agent, the command line or the window, and its file exists (`Known`
  of `FileSend`); a composed mail has an attachment, since one without has no row to be right about
  (`Bounded` of `ComposedMail`); the requests of the pages are finitely many (`Known` of
  `SendPages`); the labels are INBOX, SENT and one of the user's (`Known` of `GmailReceive`), and a
  failure can be recorded at least once;
* the evidence of a message is genuine (`Genuine`): equal bytes have one Message-ID and content, and
  these are of one mail; a provider's identifier names one message; copies of a mail refer to one
  mail; each mail of ours has a Message-ID of its own, and a marker is only on copies of the mail it
  was made for. A forged marker or a collision of hashes is outside. A stranger's mail may bear any
  Message-ID, also one of ours with other content.

* `SendPipelineProofs`: `Invariance` (`IInv`), `TypeCorrectness`, `OneTransmission`, `WriteAhead`,
  `FailureIsTrue`, `OwnersKeepVerdicts`, and `Refinement`, `Spec => Contract!Spec`.
* `SendTruthProofs`: `TruthInvariance` (`TruthInv`), `ReportsAreTrue`, `SentIsArchived`,
  `MatchedIsMapped`, `FreshDenials`.
* `SnapshotCleanupProofs`: `CleanupTypes`, `SnapshotSafety`, `Expendability`.
* `MailboxSyncProofs`: `TypeCorrect`, and `NothingIsForgotten` and `ReconciliationIsComplete`, that
  is `NothingForgotten` and `ReconciledIsComplete` under `BacklogFits`: the user imports no history,
  or there are never more messages than one session takes. Without either both are false.
* `ReceivingProofs`: `Invariance`, `EverythingIsTyped`, `LocksAlwaysExclude`,
  `HistoryIsAlwaysWhole`, `RoundsHonour`, `AccountIsAlwaysKept`: every property of the run
  `receiving`.
* `ArchivingProofs`: `CopiesInvariance` (`CopyInv`), `CopiesAreAlwaysTrue`, `EditsAlwaysSurvive`,
  `AccessInvariance` (`AccessInv`), `AccessIsAlwaysGranted`, `ArchiveInvariance` (`ArchiveInv` and
  `FactsInv`), `ArchiveIsAlwaysWhole`, `EverythingHasItsType`: the safety properties of the run
  `archive`.
* `ServiceProofs`: `Invariance`, `EverythingIsTyped`, `ConfigIsAlwaysKept`, `SessionIsAlwaysRight`,
  `RepairIsAlwaysCareful`, `StartIsAlwaysSafe`: every property of the run `service`.
* `MessagingProofs`: `Invariance`, `EverythingIsTyped`, `SendsAreAlwaysTrue`, `MailIsAlwaysTakenIn`:
  every property of the run `messages`.

**Why `IInv`.** `AtMostOneData` says nothing about executions that have not sent yet, so it is not
inductive. It needs that one execution at most ever runs a request (`OneExecution`) and that it has
sent nothing before its DATA step (`BeforeDataIsUnsent`). `OneExecution` is kept by a claim because
before the claim nobody runs the request (`UnclaimedIsQuiet`), and by everyone else because workers
only write to claimed requests (`WorkersFollowClaims`) and never back to a claimable status.
`DataIsLogged` needs that the stage before DATA counts: `FirstDataCounts` and `DataHasRecord`.
`FailedWasNotSent` is about a decision on an old row: `OwnerStageIsTrue` ties the stage an owner has
recorded to what it has sent, `OwnerFailsUnsent` carries that to the write, and
`OwnedIsSendingOrAccepted` says that whoever else decides a request takes the lease away, which is
also why `OwnerKeepsVerdicts` holds. TLC checks `IInv` in `pipeline_lease`.

**Why `TruthInv`.** What a row reports was decided by an actor from what it remembered, so the
invariant must say what each of them remembers: an execution behind DATA holds the acceptance
(`ExecutionsAreTrue`), a recovery or user has read a row that meant it (`WorkersAreTrue`), a
synchronisation has mapped the copy before it touches the row (`SyncsAreTrue`). They may have read
an old row; but the facts all of it rests on (taken or declared, stored, mapped) are never taken
back, so an old row only understates. For `FreshDenialIsTrue` it adds that the stage, in the row
while an execution owns the lease and in the lease once a later claim took it over, tells whether
bytes may have left (`StageIsTrue`).

The refinement maps a row to the contract's phase by its status, and `sends` to its transmissions. A
claim is `Clear`, cancellation and expiry are `Withdraw`, `SendData` is `Transmit` by
`BeforeDataIsUnsent` and `OneExecution`; every other step stutters.

For `SnapshotCleanup` the invariant adds that a process deletes only what is committed as cleaned
(`DeletesCleaned`) and that between the check and the mark the write lock keeps the row eligible
(`LockProtects`).

For `MailboxSync` the checkpoint becomes the highest UID a session has dealt with, so the invariant
must know that what the session left lies above it (`Covers`). A search takes the lowest `Cap` new
UIDs, but rows are taken whatever their UID. Without rescans a row was once among the lowest: fewer
than `Cap` messages lie between the checkpoint and it (`Ranked`), and since UIDs only grow and
checkpoints only rise, that stays so. Hence what lies below a row that is taken is taken as well.
`Deals` says what all steps that deal with a candidate have in common, so that each is shown once to
be of that kind, and the invariant once to be kept by them. `ReconciledIsComplete` speaks of every
generation, so `MInv` says where what an archived message is still owed is remembered: by a row, by a
candidate of the session, or by lying within the overlap that the next search takes again.

In `Receiving` a step of one part leaves the variables of the others alone (`StepsOfParts`), so each
part has its own invariant, and the invariant of the whole is their conjunction.

* **Locks.** Exclusion follows from where the calls are: a call at work holds the file lock of its
  account (`CallsHold`), a lock has one holder, and a probe that leaves frees only what it holds
  (`ProbesHold`). That `AfterRefusal` gives back the old lock needs that only calls without an
  account ever hold it.
* **History.** The row is what some call knew, so the invariant is about the call: what lies before
  its segment has been scanned (`VisitedHold`), and is clean as long as it has nothing to retry
  (`CleanHold`); a segment that stops the call is always one to retry (`RetryIsRight`), which is why
  an end without a retry is an end of the range.
* **Rounds** (`RoundInv`). A round receives from what it read, so what is owed must be compared with
  the row and the pause with what lies ahead: no more is owed than the row has still to wait
  (`BackoffIsKept`), and no account ahead of the round is enabled while the switch is off, unless a
  tool has written over it (`PauseIsSeen`).
* **Account** (`AccountInv`). The properties compare the stores with what the owner chose and was
  told; between the two lie operations half done and tasks that hold what they read. `RowInv` says
  of an operation what it has still to do, and `ReadInv` of a task that what it read agrees with the
  stores unless it was already under way when the owner wrote; `ToldInv` and `CleanInv` carry that to
  the answers and the deletions. TLC checked `AccountInv` beforehand: four operations with two
  failures (2.1 M states) and two tasks at once (10.0 M states).

In `Archiving` each part has its own invariant as well.

* **Packages** (`ArchiveInv`). A directory, a row, a seat in the mailbox and what an archiver
  remembers bear the name of one mail (`NamesAreTrue`): that is why a package is never filled from
  another mail. What a row calls ready, and what an archiver has already put down, is where a reader
  will look for it (`FilesAreThere`), also after another process has published or moved a directory
  away. That a manifest lists what the row names needs that one archiver at most has begun to write a
  package, unless it is *strained*, that is, its files and rows may stem from different runs
  (`OneWrites`); what an archiver holds is what the row says or will say (`ManifestsAgree`).
  `ArchiverGoes` states once what the steps of an archiver have in common.
* **Facts** (`FactsInv`). Each piece of evidence leads to a package of the copy's own mail (`Bears`),
  and only a match leads away from its Message-ID and content, to a package that carries its marker
  (`Leads`). So a later look, whatever it finds first, cannot switch to another mail of ours. That a
  second direction is flagged rests on what every message looked at has left in its package (`Shows`,
  `DoneIsShown`), one parent on what each reply refers to (`Refers`). `Grown` says what a change of a
  package must keep.
* **Copies** (`CopyInv`). `CopyIsOneState` compares what was read before and after the copying, so
  the invariant says that versions only grow (`HandGrows`) and that what is about to be published is
  of one state (`CopiesAreWhole`). While neither copy is in its place, the old one is in the hands of
  a preparer that publishes the new one or puts the old one back (`OneIsKept`). Names of single
  resources are taken once as long as no two calls met (`FlatIsKept`).
* **Rights** (`AccessInv`). A row may mix an old and a new setting, and a reader reads it in several
  statements. Each thing is tied to the setting it came from: the stored rights (`RightsAreGiven`),
  what a save has still to write (`SaveIsGiven`), what a reader has read so far, from a setting seen
  since it began (`ReaderIsGiven`), and what is on its way out (`SentIsGiven`).

In `Service` and `Messaging` the same holds again: one invariant for each part.

* **Client configuration** (`ConfigInv`). `NoEditIsLost` is about a file that several operations
  write from what they read earlier, so the invariant ties each plan and backup to the edits it was
  made of (`EditsAreKept`). `RotationIsAtomic` speaks of idle moments; between them, at each place
  of a rotation, it must be known which of the two tokens keyring, row and file hold
  (`TokensAgree`, `FileTells`), and that a revoked client stays without one (`Buried`). That
  pruning keeps a backup needs that the rows to keep are the last ones of those whose file is there.
* **Sessions** (`OAuthInv`). A refresh replaces what it read because whoever works on the token file
  holds its lock (`LockIsHeld`); where a session is says which states of the table it may be in
  (`SessionIsPlaced`), and a session that has saved can end in a success only (`SavedIsRight`).
* **Maintenance** (`CareInv`). A restore replaces the audit by an older one, so the audit of every
  backup must be true as well (`AuditsTell`). The row of the repair under way is as that repair left
  it, and so is the row in its backup (`RepairOwnsRow`); what a restore is about to overwrite is in a
  backup (`RestoreKeeps`); a scan has seen what stood all along in the passes behind it (`ScanSees`).
* **Start** (`StartInv`). A process decides on flags that it read while another one migrates. What it
  needed at the time is in its flags, or the database is no longer the one that was found
  (`HasBackup`); a start that seeds after the owner chose has read its flags before (`SeedsFirst`);
  what is published was complete in the staging directory, whoever moved it (`HasFiles`,
  `RootsAreWhole`).
* **A file** (`FileInv`). One call at most has the attempt of the row (`CallsAreApart`), what it
  copied is what it hashed (`HasHash`), and once the mail was taken the row shows it or that call is
  about to record it (`HasRow`, `HasMail`).
* **A composed mail** (`MailInv`). What each attachment has by now at each place of the loop
  (`AttachmentIsPlaced`), and that a mail that is over stays right (`MailIsRight`).
* **The window** (`WindowInv`). The task in the slot is of the last mail that was confirmed and has
  not gone out before it is done (`SlotIsConfirmed`); every mail that went out has a confirmation of its
  own (`MailsAreConfirmed`), and who left has no task (`QuitWaits`).
* **The pages** (`PagesInv`). Each yes has at most one task, and a task asks the service once
  (`AnswersAreTaken`); a request that was given out or is past its confirmation has a yes
  (`RequestIsRight`).
* **A Gmail account** (`GmailInv`). What a round still owes is in its list, under work or, in a rescan
  by pages, below its page token (`MustIsAhead`); what it has dealt with has a verdict or a row
  (`HandledIsRight`); labels are those seen last unless the message is just being written
  (`WorkIsRight`, `LabelsAreSeen`).

TLC checked each of these nine invariants beforehand on its part of the runs, and the tenth, of the
dialog, is small. TLC checked `ArchiveInv` and `CopyInv` beforehand at the bounds of the run `archive` (0.8 M states)
and `FactsInv` with one look more than there (1.1 M states); `AccessInv` compares a null value with
records, which TLC cannot evaluate.

**Only model-checked**: the liveness properties of `pipeline_live` (`SendingEnds`,
`RecoveryRequiredEnds`), `cleanup` (`QuarantineEmpties`) and `live`, since TLAPS does not reason
about fairness here. `DeniedWasNotSent` and `ReportIsTrue` are refuted (section 4).

## 6. Not modelled, and the plan

Not modelled, with the reason:

* `storage.py` and what `mail_receive.py` has beyond the rounds of `GmailReceive`: the one-file
  store of the older receiver, which the packages have replaced. The IMAP options UNSEEN and mark as
  seen, and messages dated out of range.
* `managed_files.py`, which lists; `trusted_downloads.py`, network input that ends in one file
  (`MailArchive` has its failure).
* The guard of a second desktop program; the copy of the older OAuth token;
  `replace_outbound_links`.
* `mcp_server.py` and the command line beyond the check of the caller: they translate arguments.
  Provider tables, parsing of settings, health, diagnosis and performance reports: no behaviour over
  time.
* Composing and parsing MIME, names of files, presentation. `release_send_request_lease` and
  `send_file_to_owner_gmail` have no caller.
* Denials in a client's rights: the window never sets one.

Plan: the guard of a second desktop program together with `Startup`, and mail dated out of range in
`GmailReceive`, if either begins to matter.
