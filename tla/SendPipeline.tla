--------------------------- MODULE SendPipeline ---------------------------
(***************************************************************************)
(* The actors that share the send tables of SendStore, each in the steps   *)
(* the code takes between two database statements or network calls:        *)
(*                                                                         *)
(*   Execs    an MCP tool call (send_agent_mail) or a GUI confirmation,    *)
(*            running prepare_agent_send and execute_agent_send            *)
(*   Recoverers  the startup recovery of one listed request               *)
(*   Users    a GUI thread: "reconcile" and "mark as sent / not sent"      *)
(*   Syncs    a mailbox synchronisation that meets a copy in Sent          *)
(*                                                                         *)
(* They live in several processes and threads; any of them may stop at any *)
(* step (crash, kill, unhandled exception), leaving its lease behind.      *)
(* get_send_request is several autocommit SELECTs, so a worker reads the   *)
(* request row and its lease row in two steps and acts on what it          *)
(* remembers.                                                              *)
(***************************************************************************)
EXTENDS SendStore, Sequences

CONSTANTS
  Recoverers, Users, Syncs,
  Modes,          \* the send modes the user has granted to clients
  NoReq,          \* no request: an idle actor
  MaxCrashes,     \* bound on the crashes of a behaviour
  MaxClock        \* bound on the clock

ASSUME ActorAssumption ==
  /\ NoReq \notin Reqs
  /\ Modes \subseteq {"confirm", "autonomous"}
  /\ MaxCrashes \in Nat /\ MaxClock \in Nat

VARIABLES
  exec,      \* local state of each execution
  work,      \* local state of each worker
  sync,      \* local state of each synchronisation
  pkg,       \* mail_packages.archive_status of the package holding r's MIME
  fact,      \* outbound_messages row of r: its status, and whether package_id is set
  mapped,    \* a sent_server_mappings row with status 'matched' names r's package
  sends,     \* how often the bytes of r went out in SMTP DATA
  delivered, \* the provider took r
  said,      \* what the user has declared about r
  crashes

\* Recoverers and Users run the same procedures: the workers.
Workers == Recoverers \cup Users

localVars == <<exec, work, sync>>
factVars  == <<pkg, fact, mapped>>
worldVars == <<sends, delivered, said>>
vars == <<storeVars, localVars, factVars, worldVars, crashes>>

\* "lowered": partial now, but a complete package was stored before.
PkgStates  == {"none", "partial", "ready", "lowered"}
ArchiveResults == {"none", "partial", "ready"}
FactStates == {"none", "sent_archive_pending", "sent_archive_failed", "sent"}
Verdicts   == {"none"} \cup TERMINAL_SEND_STATUSES

ExecPcs == {"idle", "create", "claim", "claiming", "stage", "staging", "data",
            "inspect", "settle", "pending", "archive", "store", "fact", "finish"}
WorkPcs == {"idle", "row", "lease", "judge", "rescan", "evidence", "reconcile",
            "verdict", "arow", "alease", "acheck", "aarchive", "astore", "afact", "afinish", "mark"}
SyncPcs == {"idle", "prepare", "archive", "store", "map", "fact", "row"}

IdleExec == [pc |-> "idle", r |-> NoReq, gui |-> FALSE, now |-> 0, k |-> 0,
             verdict |-> "none", link |-> FALSE]
IdleWork == [pc |-> "idle", r |-> NoReq, startup |-> FALSE, row |-> AbsentRow,
             lease |-> NoLease, verdict |-> "none", link |-> FALSE]
IdleSync == [pc |-> "idle", r |-> NoReq, request |-> FALSE]

ExecState == [pc : ExecPcs, r : Reqs \cup {NoReq}, gui : BOOLEAN, now : Nat,
              k : 0..8, verdict : Verdicts, link : BOOLEAN]
WorkState == [pc : WorkPcs, r : Reqs \cup {NoReq}, startup : BOOLEAN, row : Row,
              lease : Lease, verdict : Verdicts, link : BOOLEAN]
SyncState == [pc : SyncPcs, r : Reqs \cup {NoReq}, request : BOOLEAN]

\* Every row, lease and actor is in a state the code has a name for: statuses,
\* stages and remembered rows stay inside the alphabets of the schema.
TypeOK ==
  /\ StoreTypeOK
  /\ exec \in [Execs -> ExecState]
  /\ work \in [Workers -> WorkState]
  /\ sync \in [Syncs -> SyncState]
  /\ pkg \in [Reqs -> PkgStates]
  /\ fact \in [Reqs -> [status : FactStates, package : BOOLEAN]]
  /\ mapped \in [Reqs -> BOOLEAN]
  /\ sends \in [Reqs -> Nat]
  /\ delivered \in [Reqs -> BOOLEAN]
  /\ said \in [Reqs -> SUBSET {"sent", "not_sent"}]
  /\ crashes \in 0..MaxCrashes

Init ==
  /\ StoreInit
  /\ exec = [e \in Execs |-> IdleExec]
  /\ work = [w \in Workers |-> IdleWork]
  /\ sync = [s \in Syncs |-> IdleSync]
  /\ pkg = [r \in Reqs |-> "none"]
  /\ fact = [r \in Reqs |-> [status |-> "none", package |-> FALSE]]
  /\ mapped = [r \in Reqs |-> FALSE]
  /\ sends = [r \in Reqs |-> 0]
  /\ delivered = [r \in Reqs |-> FALSE]
  /\ said = [r \in Reqs |-> {}]
  /\ crashes = 0

-----------------------------------------------------------------------------
(* Executions: prepare_agent_send, then execute_agent_send.                 *)

ExecGoes(e, changes) == exec' = [exec EXCEPT ![e] = changes]
At(e, pc) == [exec[e] EXCEPT !.pc = pc]

\* send_agent_mail: get_by_idempotency found nothing; expires_at is computed.
SubmitLooksUp(e, r) ==
  /\ exec[e].pc = "idle"
  /\ req[r].status = "absent"
  /\ ExecGoes(e, [IdleExec EXCEPT !.pc = "create", !.r = r, !.now = clock])
  /\ UNCHANGED <<storeVars, work, sync, factVars, worldVars, crashes>>

\* create_send_request inserts; a new autonomous request is executed at once.
SubmitCreates(e, mode) ==
  LET r == exec[e].r IN
  /\ exec[e].pc = "create"
  /\ CreateSendRequest(r, mode, exec[e].now + ConfirmTicks)
  /\ ExecGoes(e, IF mode = "autonomous" THEN [At(e, "claim") EXCEPT !.now = 0] ELSE IdleExec)
  /\ UNCHANGED <<work, sync, factVars, worldVars, crashes>>

\* A second call with the same key got there first: its request is returned.
SubmitFindsDuplicate(e) ==
  /\ exec[e].pc = "create"
  /\ req[exec[e].r].status # "absent"
  /\ ExecGoes(e, IdleExec)
  /\ UNCHANGED <<storeVars, work, sync, factVars, worldVars, crashes>>

\* confirm_agent_send_request: the user may confirm whatever the GUI still shows.
GuiConfirms(e, r) ==
  /\ exec[e].pc = "idle"
  /\ req[r].status # "absent"
  /\ ExecGoes(e, [IdleExec EXCEPT !.pc = "claim", !.r = r, !.gui = TRUE])
  /\ UNCHANGED <<storeVars, work, sync, factVars, worldVars, crashes>>

ClaimReadsClock(e) ==
  /\ exec[e].pc = "claim"
  /\ ExecGoes(e, [At(e, "claiming") EXCEPT !.now = clock])
  /\ UNCHANGED <<storeVars, work, sync, factVars, worldVars, crashes>>

ClaimSucceeds(e) ==
  /\ exec[e].pc = "claiming"
  /\ ClaimForSend(exec[e].r, e, exec[e].now, exec[e].gui)
  /\ ExecGoes(e, [At(e, "stage") EXCEPT !.k = 1, !.gui = FALSE, !.now = 0])
  /\ UNCHANGED <<work, sync, factVars, worldVars, crashes>>

ClaimFails(e) ==
  LET r == exec[e].r IN
  /\ exec[e].pc = "claiming"
  /\ \/ ClaimTakesOverStaleLease(r, exec[e].now)
     \/ ClaimFindsExpired(r, exec[e].now)
     \/ ClaimRefused(r, exec[e].now, exec[e].gui)
  /\ ExecGoes(e, IdleExec)
  /\ UNCHANGED <<work, sync, factVars, worldVars, crashes>>

\* record_send_mime and record_send_stage read the clock, then BEGIN IMMEDIATE.
StageReadsClock(e) ==
  /\ exec[e].pc = "stage"
  /\ ExecGoes(e, [At(e, "staging") EXCEPT !.now = clock])
  /\ UNCHANGED <<storeVars, work, sync, factVars, worldVars, crashes>>

\* Variant with a bug: the bytes leave before smtp_data_started is recorded.
PcAfterStageUnlogged(k) ==
  CASE StageOrder[k] = "smtp_starting" -> "data"
    [] k = 6 -> "pending"
    [] StageOrder[k] = "archive_pending" -> "archive"
    [] OTHER -> "stage"

\* Where the execution continues after recording StageOrder[k].
PcAfterStage(k) ==
  CASE StageOrder[k] = "smtp_data_started" -> "data"
    [] k = 6 -> "pending"
    [] StageOrder[k] = "archive_pending" -> "archive"
    [] OTHER -> "stage"

StageCommits(e) ==
  LET r == exec[e].r  k == exec[e].k IN
  /\ exec[e].pc = "staging"
  /\ IF k = 1 THEN RecordSendMime(r, e, exec[e].now)
              ELSE RecordSendStage(r, e, exec[e].now, StageOrder[k])
  /\ ExecGoes(e, [At(e, PcAfterStage(k)) EXCEPT !.k = k + 1, !.now = 0])
  /\ UNCHANGED <<work, sync, factVars, worldVars, crashes>>

\* A stage is not reached or not recorded: the lease is lost, the database is
\* locked, permissions or attachments changed, the SMTP connection failed.
\* Before SMTP the handler writes "failed" at once; in SMTP it first re-reads
\* the row; after acceptance nothing catches the exception.
StageFails(e) ==
  /\ exec[e].pc \in {"stage", "staging"}
  /\ ExecGoes(e,
       CASE exec[e].k <= 2 -> [At(e, "settle") EXCEPT !.verdict = "failed", !.now = 0]
         [] exec[e].k \in 3..6 -> [At(e, "inspect") EXCEPT !.now = 0]
         [] OTHER -> IdleExec)
  /\ UNCHANGED <<storeVars, work, sync, factVars, worldVars, crashes>>

\* server.sendmail: accepted, or refused, or the answer is lost either way.
SendData(e, taken, answered) ==
  LET r == exec[e].r IN
  /\ exec[e].pc = "data"
  /\ sends' = [sends EXCEPT ![r] = @ + 1]
  /\ delivered' = [delivered EXCEPT ![r] = @ \/ taken]
  /\ ExecGoes(e, At(e, IF taken /\ answered THEN "stage" ELSE "inspect"))
  /\ UNCHANGED <<storeVars, work, sync, factVars, said, crashes>>

\* Variant with a bug: the recorded SMTP DATA stage is not looked at.
HandlerVerdictForgetsData(row) ==
  IF row.accepted THEN "sent_archive_failed" ELSE "failed"

\* The exception handlers of execute_agent_send: current = get_send_request(...).
\* The SmtpStageError handler also believes exc.delivery_unknown, but that is set
\* only after smtp_data_started was recorded, so an owner finds it in the row as well.
HandlerVerdict(row) ==
  CASE row.accepted -> "sent_archive_failed"
    [] row.stage \in {"smtp_data_started", "smtp_accepted"} -> "delivery_unknown"
    [] OTHER -> "failed"

HandlerInspects(e) ==
  /\ exec[e].pc = "inspect"
  /\ ExecGoes(e, [At(e, "settle") EXCEPT !.verdict = HandlerVerdict(req[exec[e].r])])
  /\ UNCHANGED <<storeVars, work, sync, factVars, worldVars, crashes>>

HandlerSettles(e) ==
  LET r == exec[e].r IN
  /\ exec[e].pc = "settle"
  /\ \/ CompleteAsOwner(r, e, exec[e].verdict, FALSE, FALSE)
     \/ lease[r].owner # e /\ UNCHANGED storeVars
  /\ ExecGoes(e, IdleExec)
  /\ UNCHANGED <<work, sync, factVars, worldVars, crashes>>

\* record_outbound_fact: an upsert that never clears package_id.
RecordFact(r, status, link) ==
  fact' = [fact EXCEPT ![r].status = status, ![r].package = @ \/ link]

\* After _append_provider_sent_copy, whose failure is tolerated.
RecordsPendingFact(e) ==
  /\ exec[e].pc = "pending"
  /\ RecordFact(exec[e].r, "sent_archive_pending", FALSE)
  /\ ExecGoes(e, At(e, "stage"))
  /\ UNCHANGED <<storeVars, work, sync, pkg, mapped, worldVars, crashes>>

\* archive_normalized_mail looks for a complete package, writes the files, then
\* stores the outcome whatever became of the package meanwhile: its lock is a
\* threading.Lock, so archivers of two processes do not exclude each other.
\* "none" is an exception before the transaction.
PackageStored(r, result) ==
  pkg' = [pkg EXCEPT ![r] = CASE result = "none" -> @
                              [] result = "partial" /\ @ \in {"ready", "lowered"} -> "lowered"
                              [] OTHER -> result]

\* related: record_thread_relations, after the archive, raised nothing.
LooksForPackage(e, related) ==
  /\ exec[e].pc = "archive"
  /\ ExecGoes(e, IF pkg[exec[e].r] = "ready"
       THEN [At(e, "fact") EXCEPT !.link = TRUE,
               !.verdict = IF related THEN "sent" ELSE "sent_archive_failed"]
       ELSE At(e, "store"))
  /\ UNCHANGED <<storeVars, work, sync, factVars, worldVars, crashes>>

\* link records that package_id was assigned before an exception.
StoresPackage(e, result, related) ==
  /\ exec[e].pc = "store"
  /\ PackageStored(exec[e].r, result)
  /\ ExecGoes(e, [At(e, "fact") EXCEPT !.link = result # "none",
       !.verdict = IF result = "ready" /\ related THEN "sent" ELSE "sent_archive_failed"])
  /\ UNCHANGED <<storeVars, work, sync, fact, mapped, worldVars, crashes>>

RecordsFinalFact(e) ==
  /\ exec[e].pc = "fact"
  /\ RecordFact(exec[e].r, exec[e].verdict, exec[e].link)
  /\ ExecGoes(e, At(e, "finish"))
  /\ UNCHANGED <<storeVars, work, sync, pkg, mapped, worldVars, crashes>>

Finishes(e) ==
  LET r == exec[e].r IN
  /\ exec[e].pc = "finish"
  /\ \/ CompleteAsOwner(r, e, exec[e].verdict, TRUE, exec[e].link)
     \/ lease[r].owner # e /\ UNCHANGED storeVars
  /\ ExecGoes(e, IdleExec)
  /\ UNCHANGED <<work, sync, factVars, worldVars, crashes>>

\* What an execution does once it has begun.
ExecStep(e) ==
  \/ \E mode \in Modes : SubmitCreates(e, mode)
  \/ SubmitFindsDuplicate(e)
  \/ ClaimReadsClock(e) \/ ClaimSucceeds(e) \/ ClaimFails(e)
  \/ StageReadsClock(e) \/ StageCommits(e) \/ StageFails(e)
  \/ \E taken, answered \in BOOLEAN : SendData(e, taken, answered)
  \/ HandlerInspects(e) \/ HandlerSettles(e)
  \/ RecordsPendingFact(e)
  \/ \E related \in BOOLEAN :
       \/ LooksForPackage(e, related)
       \/ \E result \in ArchiveResults : StoresPackage(e, result, related)
  \/ RecordsFinalFact(e) \/ Finishes(e)

ExecStarts(e) == \E r \in Reqs : SubmitLooksUp(e, r) \/ GuiConfirms(e, r)

-----------------------------------------------------------------------------
(* Workers: send_recovery.py and recover_agent_send_archive.                *)

WorkGoes(w, changes) == work' = [work EXCEPT ![w] = changes]
WAt(w, pc) == [work[w] EXCEPT !.pc = pc]
\* The steps of a worker that only read.
ReadOnly == UNCHANGED <<storeVars, exec, sync, factVars, worldVars, crashes>>

UNCERTAIN_STAGES == {"smtp_data_started", "smtp_accepted", "archive_pending"}
ArchiveRecoverable == {"smtp_accepted", "sent_archive_failed", "recovery_required"}

\* Variant with a bug: recovery does not list the stale leases it is meant for.
ListedForgetsTakeovers(status) == status \in RECOVERY_SEND_STATUSES \ {"recovery_required"}

Listed(status) == status \in RECOVERY_SEND_STATUSES

\* list_send_requests: SELECT the ids whose status asks for recovery.
RecoveryLists(w, r) ==
  /\ work[w].pc = "idle"
  /\ Listed(req[r].status)
  /\ WorkGoes(w, [IdleWork EXCEPT !.pc = "row", !.r = r, !.startup = TRUE])
  /\ ReadOnly

\* get_send_request, in its two autocommit reads.
RecoveryReadsRow(w) ==
  /\ work[w].pc = "row"
  /\ WorkGoes(w, [WAt(w, "lease") EXCEPT !.row = req[work[w].r]])
  /\ ReadOnly

RecoveryReadsLease(w) ==
  /\ work[w].pc = "lease"
  /\ WorkGoes(w, [WAt(w, "judge") EXCEPT !.lease = lease[work[w].r]])
  /\ ReadOnly

\* The head of _recover_incomplete_send_request: the clock is read only now.
RecoveryJudges(w) ==
  /\ work[w].pc = "judge"
  /\ WorkGoes(w,
       CASE LeaseActive(work[w].lease, clock) -> IdleWork
         [] ~LeaseActive(work[w].lease, clock)
              /\ work[w].row.status \in {"sent_archive_failed", "smtp_accepted"}
              -> [IdleWork EXCEPT !.pc = "arow", !.r = work[w].r]
         [] OTHER -> WAt(w, "rescan"))
  /\ ReadOnly

\* reconcile_send_request_locally reads the request afresh ...
ReconcileReadsRow(w) ==
  /\ work[w].pc = "rescan"
  /\ WorkGoes(w, [WAt(w, "evidence") EXCEPT
       !.verdict = IF req[work[w].r].status \in Verdicts THEN req[work[w].r].status ELSE "none"])
  /\ ReadOnly

\* Variant with a bug: a local package is taken for a match with the server.
LocalVerdictAlwaysMatched(r) == "sent_reconciled"

LocalVerdict(r) == IF mapped[r] THEN "sent_reconciled" ELSE "sent"

\* ... then its evidence: the package with the request's fixed MIME hash, and
\* whether a Sent mapping names it.  link records that the status will change.
ReconcileReadsEvidence(w) ==
  LET r == work[w].r  found == LocalVerdict(r) IN
  /\ work[w].pc = "evidence"
  /\ WorkGoes(w,
       IF pkg[r] = "ready"
         THEN [WAt(w, "reconcile") EXCEPT !.verdict = found, !.link = work[w].verdict # found]
         ELSE IF work[w].startup THEN [WAt(w, "verdict") EXCEPT !.verdict = "none"]
                                 ELSE IdleWork)
  /\ ReadOnly

\* complete_send_request without a lease owner.  An unchanged status makes the
\* recovery go on to a verdict of its own.
ReconcileWrites(w) ==
  /\ work[w].pc = "reconcile"
  /\ CompleteSendRequest(work[w].r, work[w].verdict, work[w].row.outbound, TRUE)
  /\ WorkGoes(w, IF work[w].startup /\ ~work[w].link
                   THEN [WAt(w, "verdict") EXCEPT !.verdict = "none"] ELSE IdleWork)
  /\ UNCHANGED <<exec, sync, factVars, worldVars, crashes>>

\* The tail of _recover_incomplete_send_request, on the remembered row and lease.
\* Variant with a bug: a takeover hides how far the execution had got.
InterruptedStageOfRow(row, l) == row.stage

InterruptedStage(row, l) ==
  IF row.stage = "stale_lease" /\ l # NoLease THEN l.stage ELSE row.stage

\* Variant with a bug: bytes that may have left are taken for accepted.
RecoveryVerdictOptimistic(row, l) ==
  CASE row.accepted \/ InterruptedStage(row, l) \in UNCERTAIN_STAGES -> "sent_archive_failed"
    [] OTHER -> "definitely_not_sent"

RecoveryVerdict(row, l) ==
  CASE row.accepted -> "sent_archive_failed"
    [] ~row.accepted /\ InterruptedStage(row, l) \in UNCERTAIN_STAGES -> "delivery_unknown"
    [] OTHER -> "definitely_not_sent"

RecoveryLeavesUnknown(w) ==
  /\ work[w].pc = "verdict"
  /\ work[w].row.status = "delivery_unknown"
  /\ WorkGoes(w, IdleWork)
  /\ ReadOnly

RecoveryDecides(w) ==
  LET v == RecoveryVerdict(work[w].row, work[w].lease)
      archive == v = "sent_archive_failed" IN
  /\ work[w].pc = "verdict"
  /\ work[w].row.status # "delivery_unknown"
  /\ CompleteSendRequest(work[w].r, v, archive /\ work[w].row.outbound,
                                       archive /\ work[w].row.package)
  /\ WorkGoes(w, IF archive THEN [IdleWork EXCEPT !.pc = "arow", !.r = work[w].r] ELSE IdleWork)
  /\ UNCHANGED <<exec, sync, factVars, worldVars, crashes>>

\* recover_agent_send_archive: never SMTP.
ArchiveReadsRow(w) ==
  /\ work[w].pc = "arow"
  /\ WorkGoes(w, IF req[work[w].r].status \in ArchiveRecoverable
                   THEN [WAt(w, "alease") EXCEPT !.row = req[work[w].r]] ELSE IdleWork)
  /\ ReadOnly

ArchiveReadsLease(w) ==
  /\ work[w].pc = "alease"
  /\ WorkGoes(w, [WAt(w, "acheck") EXCEPT !.lease = lease[work[w].r]])
  /\ ReadOnly

\* Variant with a bug: a linked package is used even if it is incomplete.
ReusableIncomplete(r, row) == row.package \/ fact[r].package

\* An existing package is used as it is, but only a complete one.
Reusable(r, row) == (row.package \/ fact[r].package) /\ pkg[r] = "ready"

ArchiveChecks(w) ==
  /\ work[w].pc = "acheck"
  /\ WorkGoes(w,
       IF LeaseActive(work[w].lease, clock) \/ ~AcceptanceProven(work[w].row) \/ ~work[w].row.mime
         THEN IdleWork
         ELSE [WAt(w, IF Reusable(work[w].r, work[w].row) THEN "afact" ELSE "aarchive")
                 EXCEPT !.lease = NoLease])
  /\ ReadOnly

ArchiveLooks(w, related) ==
  /\ work[w].pc = "aarchive"
  /\ WorkGoes(w, CASE pkg[work[w].r] # "ready" -> WAt(w, "astore")
                   [] pkg[work[w].r] = "ready" /\ related -> WAt(w, "afact")
                   [] OTHER -> IdleWork)
  /\ ReadOnly

ArchiveStores(w, result, related) ==
  /\ work[w].pc = "astore"
  /\ PackageStored(work[w].r, result)
  /\ WorkGoes(w, IF result = "ready" /\ related THEN WAt(w, "afact") ELSE IdleWork)
  /\ UNCHANGED <<storeVars, exec, sync, fact, mapped, worldVars, crashes>>

ArchiveRecordsFact(w) ==
  /\ work[w].pc = "afact"
  /\ RecordFact(work[w].r, "sent", TRUE)
  /\ WorkGoes(w, WAt(w, "afinish"))
  /\ UNCHANGED <<storeVars, exec, sync, pkg, mapped, worldVars, crashes>>

ArchiveFinishes(w) ==
  /\ work[w].pc = "afinish"
  /\ CompleteSendRequest(work[w].r, "sent", TRUE, TRUE)
  /\ WorkGoes(w, IdleWork)
  /\ UNCHANGED <<exec, sync, factVars, worldVars, crashes>>

\* reconcile_agent_send_request, the GUI's button: one of the two procedures.
UserReconciles(w, r) ==
  /\ work[w].pc = "idle"
  /\ req[r].status # "absent"
  /\ WorkGoes(w, [IdleWork EXCEPT !.r = r,
       !.row.outbound = req[r].outbound,
       !.pc = IF req[r].status \in ArchiveRecoverable /\ AcceptanceProven(req[r])
                THEN "arow" ELSE "rescan"])
  /\ ReadOnly

\* mark_send_request_resolution: check the row, later write the verdict.
Markable == {"delivery_unknown", "recovery_required", "sent_archive_failed"}

UserMarks(w, r, resolution) ==
  /\ work[w].pc = "idle"
  /\ req[r].status \in Markable
  /\ resolution = "not_sent" => ~AcceptanceProven(req[r])
  /\ WorkGoes(w, [IdleWork EXCEPT !.pc = "mark", !.r = r, !.row = req[r],
       !.verdict = CASE resolution = "not_sent" -> "definitely_not_sent"
                     [] resolution = "sent" /\ req[r].package -> "sent_reconciled"
                     [] OTHER -> "sent_archive_failed"])
  /\ ReadOnly

MarkWrites(w) ==
  LET r == work[w].r IN
  /\ work[w].pc = "mark"
  /\ CompleteSendRequest(r, work[w].verdict, work[w].row.outbound, work[w].row.package)
  /\ said' = [said EXCEPT ![r] = @ \cup
       {IF work[w].verdict = "definitely_not_sent" THEN "not_sent" ELSE "sent"}]
  /\ WorkGoes(w, IF work[w].verdict = "sent_archive_failed"
                   THEN [IdleWork EXCEPT !.pc = "arow", !.r = r] ELSE IdleWork)
  /\ UNCHANGED <<exec, sync, factVars, sends, delivered, crashes>>

WorkStep(w) ==
  \/ RecoveryReadsRow(w) \/ RecoveryReadsLease(w) \/ RecoveryJudges(w)
  \/ ReconcileReadsRow(w) \/ ReconcileReadsEvidence(w) \/ ReconcileWrites(w)
  \/ RecoveryLeavesUnknown(w) \/ RecoveryDecides(w)
  \/ ArchiveReadsRow(w) \/ ArchiveReadsLease(w) \/ ArchiveChecks(w)
  \/ \E related \in BOOLEAN :
       \/ ArchiveLooks(w, related)
       \/ \E result \in ArchiveResults : ArchiveStores(w, result, related)
  \/ ArchiveRecordsFact(w) \/ ArchiveFinishes(w) \/ MarkWrites(w)

UserActs(w) ==
  \E r \in Reqs :
    \/ UserReconciles(w, r)
    \/ \E resolution \in {"sent", "not_sent"} : UserMarks(w, r, resolution)

-----------------------------------------------------------------------------
(* Synchronisations: mail_processing.py and send_reconciliation.py on a     *)
(* copy found in a Sent mailbox.  The copy is the exact MIME, so a package  *)
(* that holds it matches by hash; otherwise a recoverable request without a *)
(* package does; otherwise the copy becomes a package of its own.           *)

SyncGoes(s, changes) == sync' = [sync EXCEPT ![s] = changes]
SAt(s, pc) == [sync[s] EXCEPT !.pc = pc]

Recoverable == {"smtp_accepted", "sent_archive_failed", "delivery_unknown",
                "recovery_required"}

SyncFinds(s, r) ==
  LET request == /\ pkg[r] = "none"
                 /\ req[r].status \in Recoverable
                 /\ ~req[r].package IN
  /\ sync[s].pc = "idle"
  /\ delivered[r]
  /\ SyncGoes(s, [pc |-> IF request THEN "prepare" ELSE "archive", r |-> r, request |-> request])
  /\ UNCHANGED <<storeVars, exec, work, factVars, worldVars, crashes>>

\* prepare_request_sent_observation
SyncPrepares(s) ==
  /\ sync[s].pc = "prepare"
  /\ RecordFact(sync[s].r, "sent", FALSE)
  /\ SyncGoes(s, SAt(s, "archive"))
  /\ UNCHANGED <<storeVars, exec, work, pkg, mapped, worldVars, crashes>>

SyncLooks(s) ==
  /\ sync[s].pc = "archive"
  /\ SyncGoes(s, SAt(s, IF pkg[sync[s].r] = "ready" THEN "map" ELSE "store"))
  /\ UNCHANGED <<storeVars, exec, work, factVars, worldVars, crashes>>

SyncStores(s, result) ==
  /\ sync[s].pc = "store"
  /\ PackageStored(sync[s].r, result)
  /\ SyncGoes(s, IF result = "none" THEN IdleSync ELSE SAt(s, "map"))
  /\ UNCHANGED <<storeVars, exec, work, fact, mapped, worldVars, crashes>>

\* reconcile_sent_observation: three autocommit statements.
SyncMaps(s) ==
  /\ sync[s].pc = "map"
  /\ mapped' = [mapped EXCEPT ![sync[s].r] = TRUE]
  /\ SyncGoes(s, SAt(s, "fact"))
  /\ UNCHANGED <<storeVars, exec, work, pkg, fact, worldVars, crashes>>

\* WHERE package_id = ? OR request_id = ?
SyncUpdatesFact(s) ==
  LET r == sync[s].r IN
  /\ sync[s].pc = "fact"
  /\ fact' = IF fact[r].package \/ (sync[s].request /\ fact[r].status # "none")
               THEN [fact EXCEPT ![r] = [status |-> "sent", package |-> TRUE]] ELSE fact
  /\ SyncGoes(s, SAt(s, "row"))
  /\ UNCHANGED <<storeVars, exec, work, pkg, mapped, worldVars, crashes>>

\* WHERE send_request_id = ? OR package_id = ? OR outbound_id IN (...)
SyncUpdatesRow(s) ==
  LET r == sync[s].r IN
  /\ sync[s].pc = "row"
  /\ IF sync[s].request \/ req[r].package \/ (req[r].outbound /\ fact[r].package)
       THEN ReconcileSentRow(r) ELSE UNCHANGED storeVars
  /\ SyncGoes(s, IdleSync)
  /\ UNCHANGED <<exec, work, factVars, worldVars, crashes>>

SyncStep(s) ==
  \/ SyncPrepares(s) \/ SyncLooks(s) \/ SyncMaps(s)
  \/ \E result \in ArchiveResults : SyncStores(s, result)
  \/ SyncUpdatesFact(s) \/ SyncUpdatesRow(s)

-----------------------------------------------------------------------------
(* The environment, and the whole.                                          *)

\* Time matters while a deadline, stored, remembered or about to be stored, lies
\* ahead; once the last one has passed, every later time enables the same steps.
DeadlineAhead ==
  \/ \E r \in Reqs : lease[r] # NoLease /\ lease[r].expires >= clock
  \/ \E r \in Reqs : req[r].status = "pending_confirmation" /\ req[r].deadline >= clock
  \/ \E w \in Workers : work[w].lease # NoLease /\ work[w].lease.expires >= clock
  \/ \E e \in Execs : exec[e].pc \in {"claiming", "staging"} /\ exec[e].now + LeaseTicks >= clock
  \/ \E e \in Execs : exec[e].pc = "create" /\ exec[e].now + ConfirmTicks >= clock

TimePasses ==
  /\ clock < MaxClock
  /\ DeadlineAhead
  /\ Tick
  /\ UNCHANGED <<localVars, factVars, worldVars, crashes>>

UserCancelsOrExpires(r) ==
  /\ CancelSendRequest(r) \/ ExpireDueSendRequest(r)
  /\ UNCHANGED <<localVars, factVars, worldVars, crashes>>

\* A process dies, or a thread of it ends with an exception nothing handles.
Crash ==
  /\ crashes < MaxCrashes
  /\ crashes' = crashes + 1
  /\ \/ /\ \E e \in Execs : exec[e].pc # "idle" /\ ExecGoes(e, IdleExec)
        /\ UNCHANGED <<work, sync>>
     \/ /\ \E w \in Workers : work[w].pc # "idle" /\ WorkGoes(w, IdleWork)
        /\ UNCHANGED <<exec, sync>>
     \/ /\ \E s \in Syncs : sync[s].pc # "idle" /\ SyncGoes(s, IdleSync)
        /\ UNCHANGED <<exec, work>>
  /\ UNCHANGED <<storeVars, factVars, worldVars>>

Next ==
  \/ \E e \in Execs : ExecStarts(e) \/ ExecStep(e)
  \/ \E w \in Recoverers, r \in Reqs : RecoveryLists(w, r)
  \/ \E w \in Users : UserActs(w)
  \/ \E w \in Workers : WorkStep(w)
  \/ \E s \in Syncs : SyncStep(s) \/ \E r \in Reqs : SyncFinds(s, r)
  \/ \E r \in Reqs : UserCancelsOrExpires(r)
  \/ TimePasses
  \/ Crash

Spec == Init /\ [][Next]_vars

-----------------------------------------------------------------------------
(* Fairness.  A running execution, recovery or synchronisation goes on (a   *)
(* dead one has crashed), time passes, and the application is started again *)
(* and again, each start listing every request that asks for recovery.      *)
(* Users, submissions and the appearance of Sent copies are not fair.       *)

Fairness ==
  /\ WF_vars(TimePasses)
  /\ \A e \in Execs : WF_vars(ExecStep(e))
  /\ \A w \in Workers : WF_vars(WorkStep(w))
  /\ \A s \in Syncs : WF_vars(SyncStep(s))
  /\ \A w \in Recoverers, r \in Reqs : SF_vars(RecoveryLists(w, r))

FairSpec == Spec /\ Fairness

-----------------------------------------------------------------------------
(* Safety.                                                                  *)

\* However many executions, retries of the same idempotency key, confirmations,
\* takeovers, recoveries and crashes meet, the bytes of a request enter SMTP
\* DATA at most once: the single lease, never given out again, is the lock.
AtMostOneData == \A r \in Reqs : sends[r] <= 1

\* smtp_attempt_count and the stage are a write-ahead record: bytes leave only
\* after "smtp_data_started" is committed, so a crash cannot hide a transmission.
DataIsLogged == \A r \in Reqs : sends[r] <= req[r].attempts

\* The verdict "failed", which lets the user clone the request, is written only
\* for a request whose bytes never left, although the handler that writes it
\* looks at a row read in an earlier step.
FailedWasNotSent == \A r \in Reqs : req[r].status = "failed" => sends[r] = 0

\* A request is reported as accepted, sent, archived or reconciled only if the
\* provider took it, unless the user has said so: no recovery and no
\* synchronisation turns an uncertain outcome into a delivery.
SentIsTrue ==
  \A r \in Reqs :
    /\ req[r].status \in {"smtp_accepted", "sent", "sent_archive_failed", "sent_reconciled"}
    /\ "sent" \notin said[r]
    => delivered[r]

\* "sent" is stored only when a complete package of the mail has been stored and is
\* linked: the archive comes first on every path, of the execution, of the archive
\* recovery and of the local reconciliation.
SentHasArchive ==
  \A r \in Reqs :
    req[r].status = "sent" => req[r].package /\ pkg[r] \in {"ready", "lowered"}

\* A request counts as matched with the server only if a Sent mapping of an
\* archived package exists, unless the user has declared it sent.
MatchedHasMapping ==
  \A r \in Reqs :
    req[r].recon = "matched" /\ "sent" \notin said[r] => mapped[r] /\ pkg[r] # "none"

OwnerKeepsVerdict ==
  \A e \in Execs, r \in Reqs :
    /\ exec[e].pc \in {"settle", "finish"} /\ exec'[e].pc = "idle" /\ exec[e].r = r
    /\ req'[r] # req[r]
    => req[r].status \in {"sending", "smtp_accepted", "sent_reconciled"}

\* The final write of an execution, with its lease owner, replaces only what that
\* execution or a Sent observation wrote, never the verdict of a recovery or the
\* word of the user, however late the execution wakes up.
OwnerKeepsVerdicts == [][OwnerKeepsVerdict]_vars

FreshDenial ==
  \A w \in Recoverers : LET r == work[w].r IN
    /\ work[w].pc = "verdict" /\ work'[w].pc # "verdict"
    /\ work[w].row = req[r] /\ work[w].lease = lease[r]
    /\ req[r].status \in RECOVERY_SEND_STATUSES
    /\ req'[r].status = "definitely_not_sent"
    => sends[r] = 0 /\ \A e \in Execs : ~(exec[e].r = r /\ exec[e].pc = "data")

\* When recovery denies the delivery of a request it listed, on a row and a lease
\* that are still those it read, then no byte has left and no execution is about
\* to send one: the stages tell the truth about an expired lease.
FreshDenialIsTrue == [][FreshDenial]_vars

(* Liveness, under FairSpec.                                                *)

\* A request does not stay in "sending" for ever: its execution decides it or
\* dies, then its lease expires and the recovery of a later start decides it.
SendingEnds == \A r \in Reqs : req[r].status = "sending" ~> req[r].status # "sending"

\* A stale lease that a claim took over is resolved by a later start.
RecoveryRequiredEnds ==
  \A r \in Reqs : req[r].status = "recovery_required" ~> req[r].status # "recovery_required"

(* Refinement: the pipeline implements SendContract.                        *)

ModeOf(row) == IF row.status = "absent" THEN "none" ELSE row.mode

PhaseOf(row) ==
  CASE row.status \in PreClaim -> "open"
    [] row.status \in {"cancelled", "expired"} -> "withdrawn"
    [] OTHER -> "cleared"

Contract == INSTANCE SendContract WITH
  mode    <- [r \in Reqs |-> ModeOf(req[r])],
  phase   <- [r \in Reqs |-> PhaseOf(req[r])],
  consent <- [r \in Reqs |-> req[r].confirmed],
  out     <- sends

\* One transmission per key, only once cleared, with the user's consent in
\* confirm mode, and none after a cancellation or an expiry.
ImplementsContract == Contract!Spec

-----------------------------------------------------------------------------
(* What the documents say and the code does not keep.                       *)

\* docs/发件状态机与崩溃恢复.md:15, an interruption before SMTP DATA is
\* "definitely_not_sent": so a request recovered to that status was not sent.
DeniedWasNotSent ==
  \A r \in Reqs :
    req[r].status = "definitely_not_sent" /\ "not_sent" \notin said[r] => sends[r] = 0

\* docs/统一邮件归档设计.md:24, archiving a mail again only adds what failed or is
\* missing: a complete package is not turned into a partial one.
CompleteArchiveIsKept == [][\A r \in Reqs : pkg[r] = "ready" => pkg'[r] = "ready"]_vars

\* send_recovery.py: a mail the provider has accepted cannot be marked as unsent.
AcceptedIsNotMarkedUnsent ==
  [][\A w \in Users, r \in Reqs :
       /\ work[w].pc = "mark" /\ work[w].r = r /\ work[w].verdict = "definitely_not_sent"
       /\ req'[r] # req[r]
       => ~AcceptanceProven(req[r])]_vars
=============================================================================
