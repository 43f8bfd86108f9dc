------------------------ MODULE SendPipelineProofs ------------------------
(***************************************************************************)
(* IInv is an inductive invariant of SendPipeline on every instance; the   *)
(* safety properties that follow from it, and the contract that the        *)
(* pipeline implements.                                                    *)
(*                                                                         *)
(* The proof that a step keeps IInv has one lemma per group of actions.    *)
(* Most actions move one actor and leave the send tables alone; for those  *)
(* WorkerMoves, OnlyFactsMove and ExecutionMoves say once what the new     *)
(* local state must satisfy.  The actions that write the send tables are   *)
(* proved one by one: the creation, the claim and its failures, a stage,   *)
(* the transmission, a verdict (with an owner, without one) and a Sent     *)
(* observation.                                                            *)
(***************************************************************************)
EXTENDS SendPipelineInv, TLAPS

-----------------------------------------------------------------------------
(* Operators of SendStore.                                                  *)

\* The statuses and stages the code writes belong to the columns' alphabets.
LEMMA AlphabetTypes ==
  /\ Statuses \subseteq RowStages /\ LeaseStages \subseteq RowStages
  /\ TERMINAL_SEND_STATUSES \subseteq Statuses
  /\ {"sending", "smtp_accepted", "recovery_required"} \subseteq Statuses
  /\ "stale_lease" \in RowStages
  /\ AbsentRow \in Row /\ NoLease \in Lease
  BY DEF Statuses, RowStages, RECOVERY_SEND_STATUSES, PreClaim, AbsentRow, Row, NoLease, Lease, LeaseStages

\* complete_send_request writes a well-typed row.
LEMMA CompletedType ==
  ASSUME NEW row \in Row, NEW status \in TERMINAL_SEND_STATUSES,
         NEW outbound \in BOOLEAN, NEW package \in BOOLEAN
  PROVE  Completed(row, status, outbound, package) \in Row
<1>1. status \in Statuses /\ status \in RowStages
  BY AlphabetTypes
<1>2. DeliveryOf(status) \in {"none", "smtp_accepted", "sent", "not_sent", "delivery_unknown"}
  BY DEF DeliveryOf
<1>3. ReconOf(status) \in {"not_started", "waiting", "matched", "unknown", "resolved_not_sent"}
  BY DEF ReconOf
<1>4. (row.outbound \/ outbound) \in BOOLEAN /\ (row.package \/ package) \in BOOLEAN
  OBVIOUS
<1> DEFINE o == row.outbound \/ outbound  p == row.package \/ package
<1>5. [row EXCEPT !.status = status, !.stage = status,
     !.delivery = DeliveryOf(status), !.recon = ReconOf(status),
     !.outbound = o, !.package = p] \in Row
  <2> HIDE DEF o, p
  <2>1. o \in BOOLEAN /\ p \in BOOLEAN
    BY <1>4 DEF o, p
  <2> QED
    BY <1>1, <1>2, <1>3, <2>1 DEF Row
<1> QED
  BY <1>5 DEF Completed

\* reconcile_sent_observation writes a well-typed row.
LEMMA ObservedType ==
  ASSUME NEW row \in Row
  PROVE  Observed(row) \in Row
<1>1. "sent_reconciled" \in Statuses /\ "sent_reconciled" \in RowStages
  BY DEF Statuses, RowStages, TERMINAL_SEND_STATUSES
<1> QED
  BY <1>1 DEF Observed, Row

\* record_send_stage writes a well-typed row.
LEMMA StageRecordedType ==
  ASSUME NEW row \in Row, NEW s \in LeaseStages, NEW stage \in LeaseStages
  PROVE  StageRecorded(row, s, stage) \in Row
<1>1. stage \in RowStages /\ "smtp_accepted" \in Statuses
  BY AlphabetTypes
<1> DEFINE a == row.accepted \/ stage = "smtp_accepted"
           n == IF stage = "smtp_data_started" /\ s \notin CountedAfter THEN row.attempts + 1 ELSE row.attempts
           accepted == stage = "smtp_accepted"
<1>2. a \in BOOLEAN /\ n \in Nat
  BY DEF Row
<1>3. [row EXCEPT !.stage = stage, !.attempts = n,
          !.status = IF accepted THEN "smtp_accepted" ELSE @,
          !.accepted = a,
          !.delivery = IF accepted THEN "smtp_accepted" ELSE @,
          !.recon = IF accepted THEN "waiting" ELSE @] \in Row
  <2> HIDE DEF a, n, accepted
  <2> QED
    BY <1>1, <1>2 DEF Row
<1> QED
  BY <1>3 DEF StageRecorded

\* What record_send_stage changes in the row, column by column: acceptance is
\* never taken back and the attempt count never falls.
LEMMA StageRecordedFields ==
  ASSUME NEW row \in Row, NEW s, NEW stage
  PROVE  LET new == StageRecorded(row, s, stage) IN
         /\ new.stage = stage /\ new.mode = row.mode /\ new.confirmed = row.confirmed
         /\ stage = "smtp_accepted" => new.accepted /\ new.status = "smtp_accepted"
         /\ stage # "smtp_accepted" => new.accepted = row.accepted /\ new.status = row.status
         /\ new.attempts >= row.attempts
         /\ stage = "smtp_data_started" /\ s \notin CountedAfter => new.attempts = row.attempts + 1
<1> DEFINE a == row.accepted \/ stage = "smtp_accepted"
           n == IF stage = "smtp_data_started" /\ s \notin CountedAfter THEN row.attempts + 1 ELSE row.attempts
           accepted == stage = "smtp_accepted"
           new == [row EXCEPT !.stage = stage, !.attempts = n,
                     !.status = IF accepted THEN "smtp_accepted" ELSE @,
                     !.accepted = a,
                     !.delivery = IF accepted THEN "smtp_accepted" ELSE @,
                     !.recon = IF accepted THEN "waiting" ELSE @]
<1>1. row.attempts \in Nat /\ row.accepted \in BOOLEAN
  BY DEF Row
<1>2. /\ n \in Nat /\ n >= row.attempts
      /\ stage = "smtp_data_started" /\ s \notin CountedAfter => n = row.attempts + 1
  BY <1>1
<1>3. (accepted => a) /\ (~accepted => a = row.accepted)
  BY <1>1
<1>4. /\ new.stage = stage /\ new.mode = row.mode /\ new.confirmed = row.confirmed
      /\ new.attempts = n /\ new.accepted = a
      /\ new.status = IF accepted THEN "smtp_accepted" ELSE row.status
  <2> HIDE DEF a, n, accepted
  <2> QED BY DEF Row
<1>5. new = StageRecorded(row, s, stage)
  BY DEF StageRecorded
<1> HIDE DEF a, n, new
<1> QED
  BY <1>2, <1>3, <1>4, <1>5

-----------------------------------------------------------------------------
(* Workers.                                                                 *)

\* The statuses a worker may write.
WorkWrites == {"sent", "sent_reconciled", "definitely_not_sent", "delivery_unknown", "sent_archive_failed"}

\* A local state a worker may be in, given the rows as they are.
WorkOK(s) ==
  /\ s \in WorkState
  /\ s.pc # "idle" => s.r \in Reqs
  /\ s.pc = "reconcile" => s.verdict \in {"sent", "sent_reconciled"}
  /\ s.pc = "mark" => s.verdict \in {"definitely_not_sent", "sent_reconciled", "sent_archive_failed"}
  /\ s.pc # "idle" /\ (s.startup \/ s.pc \notin {"rescan", "evidence"}) => Claimed(s.r)

\* A worker step that only reads keeps the invariant if the worker's new state
\* is a possible one.
LEMMA WorkerMoves ==
  ASSUME IInv, NEW w \in Workers, NEW s, WorkOK(s), WorkGoes(w, s), ReadOnly
  PROVE  IInv'
<1> USE DEF ReadOnly, storeVars, factVars, worldVars
<1>1. TypeOK'
  BY DEF IInv, TypeOK, StoreTypeOK, WorkOK, WorkGoes
<1>2. WorkShape' /\ WorkersFollowClaims'
  BY DEF IInv, TypeOK, WorkShape, WorkersFollowClaims, WorkOK, WorkGoes, Claimed
<1>3. ExecShape' /\ SyncShape' /\ UnclaimedIsQuiet' /\ PendingIsConfirm'
  BY DEF IInv, ExecShape, SyncShape, UnclaimedIsQuiet, PendingIsConfirm, Claimed, Runs
<1>4. OneExecution' /\ BeforeDataIsUnsent' /\ FirstDataCounts' /\ DataHasRecord' /\ AcceptanceHasRecord'
  BY DEF IInv, OneExecution, BeforeDataIsUnsent, FirstDataCounts, DataHasRecord, AcceptanceHasRecord, Runs, BeforeData, PastAcceptance
<1>5. OwnedIsSendingOrAccepted' /\ OwnerStageIsTrue' /\ OwnerFailsUnsent' /\ FailedIsOver'
  BY DEF IInv, OwnedIsSendingOrAccepted, OwnerStageIsTrue, OwnerFailsUnsent, FailedIsOver, Runs
<1>6. AtMostOneData' /\ DataIsLogged' /\ FailedWasNotSent'
  BY DEF IInv, AtMostOneData, DataIsLogged, FailedWasNotSent
<1> QED
  BY <1>1, <1>2, <1>3, <1>4, <1>5, <1>6 DEF IInv

\* What the invariant says of a worker: it works on a claimed request.
LEMMA WorkerFacts ==
  ASSUME IInv, NEW w \in Workers
  PROVE  /\ work[w] \in WorkState
         /\ work[w].pc # "idle" => work[w].r \in Reqs
         /\ work[w].pc \notin {"idle", "rescan", "evidence"} => Claimed(work[w].r)
         /\ work[w].pc # "idle" /\ work[w].startup => Claimed(work[w].r)
         /\ \A r \in Reqs : req[r] \in Row /\ lease[r] \in Lease
         /\ \A r \in Reqs : pkg[r] # "none" => Claimed(r)
  BY DEF IInv, TypeOK, StoreTypeOK, WorkShape, WorkersFollowClaims, UnclaimedIsQuiet

\* A worker may always stop.
LEMMA IdleWorkOK == WorkOK(IdleWork)
  BY AlphabetTypes, ActorAssumption DEF WorkOK, IdleWork, WorkState, WorkPcs, Verdicts

\* Listing, the two reads and the judgement of the startup recovery keep the
\* invariant.
LEMMA RecoveryReads ==
  ASSUME IInv, NEW w \in Workers
  PROVE  /\ \A r \in Reqs : RecoveryLists(w, r) => IInv'
         /\ RecoveryReadsRow(w) => IInv'
         /\ RecoveryReadsLease(w) => IInv'
         /\ RecoveryJudges(w) => IInv'
         /\ RecoveryLeavesUnknown(w) => IInv'
<1> USE WorkerFacts, IdleWorkOK
<1>1. ASSUME NEW r \in Reqs, RecoveryLists(w, r) PROVE IInv'
  <2>1. WorkOK([IdleWork EXCEPT !.pc = "row", !.r = r, !.startup = TRUE])
    BY <1>1, AlphabetTypes DEF RecoveryLists, Listed, RECOVERY_SEND_STATUSES, Claimed, PreClaim, WorkOK, WorkState, WorkPcs, IdleWork, Verdicts
  <2> QED BY <1>1, <2>1, WorkerMoves DEF RecoveryLists
<1>2. ASSUME RecoveryReadsRow(w) PROVE IInv'
  <2>1. WorkOK([WAt(w, "lease") EXCEPT !.row = req[work[w].r]])
    BY <1>2 DEF RecoveryReadsRow, WorkOK, WAt, WorkState, WorkPcs
  <2> QED BY <1>2, <2>1, WorkerMoves DEF RecoveryReadsRow
<1>3. ASSUME RecoveryReadsLease(w) PROVE IInv'
  <2>1. WorkOK([WAt(w, "judge") EXCEPT !.lease = lease[work[w].r]])
    BY <1>3 DEF RecoveryReadsLease, WorkOK, WAt, WorkState, WorkPcs
  <2> QED BY <1>3, <2>1, WorkerMoves DEF RecoveryReadsLease
<1>4. ASSUME RecoveryJudges(w) PROVE IInv'
  <2>1. WorkOK([IdleWork EXCEPT !.pc = "arow", !.r = work[w].r])
    BY <1>4, AlphabetTypes DEF RecoveryJudges, WorkOK, WorkState, WorkPcs, IdleWork, Verdicts
  <2>2. WorkOK(WAt(w, "rescan"))
    BY <1>4 DEF RecoveryJudges, WorkOK, WAt, WorkState, WorkPcs
  <2> QED BY <1>4, <2>1, <2>2, WorkerMoves DEF RecoveryJudges
<1>5. ASSUME RecoveryLeavesUnknown(w) PROVE IInv'
  BY <1>5, WorkerMoves DEF RecoveryLeavesUnknown
<1> QED
  BY <1>1, <1>2, <1>3, <1>4, <1>5

\* The reads of reconcile_send_request_locally keep the invariant.
LEMMA ReconcileReads ==
  ASSUME IInv, NEW w \in Workers
  PROVE  /\ ReconcileReadsRow(w) => IInv'
         /\ ReconcileReadsEvidence(w) => IInv'
<1> USE WorkerFacts, IdleWorkOK
<1>1. ASSUME ReconcileReadsRow(w) PROVE IInv'
  <2> DEFINE v == IF req[work[w].r].status \in Verdicts THEN req[work[w].r].status ELSE "none"
  <2>1. WorkOK([WAt(w, "evidence") EXCEPT !.verdict = v])
    <3>1. v \in Verdicts
      BY DEF Verdicts
    <3> HIDE DEF v
    <3> QED BY <1>1, <3>1 DEF ReconcileReadsRow, WorkOK, WAt, WorkState, WorkPcs
  <2> QED BY <1>1, <2>1, WorkerMoves DEF ReconcileReadsRow
<1>2. ASSUME ReconcileReadsEvidence(w) PROVE IInv'
  <2> DEFINE r == work[w].r  found == LocalVerdict(r)  changes == work[w].verdict # found
  <2>1. pkg[r] = "ready" => WorkOK([WAt(w, "reconcile") EXCEPT !.verdict = found, !.link = changes])
    <3>1. found \in {"sent", "sent_reconciled"} /\ found \in Verdicts /\ changes \in BOOLEAN
      BY DEF LocalVerdict, Verdicts, TERMINAL_SEND_STATUSES
    <3> HIDE DEF found, changes
    <3> QED BY <1>2, <3>1 DEF ReconcileReadsEvidence, WorkOK, WAt, WorkState, WorkPcs
  <2>2. work[w].startup => WorkOK([WAt(w, "verdict") EXCEPT !.verdict = "none"])
    BY <1>2 DEF ReconcileReadsEvidence, WorkOK, WAt, WorkState, WorkPcs, Verdicts
  <2>3. CASE pkg[r] = "ready"
    BY <1>2, <2>1, <2>3, WorkerMoves DEF ReconcileReadsEvidence
  <2>4. CASE pkg[r] # "ready"
    BY <1>2, <2>2, <2>4, WorkerMoves DEF ReconcileReadsEvidence
  <2> QED BY <2>3, <2>4
<1> QED
  BY <1>1, <1>2

\* The reads and checks of recover_agent_send_archive keep the invariant.
LEMMA ArchiveReads ==
  ASSUME IInv, NEW w \in Workers
  PROVE  /\ ArchiveReadsRow(w) => IInv'
         /\ ArchiveReadsLease(w) => IInv'
         /\ ArchiveChecks(w) => IInv'
         /\ \A related \in BOOLEAN : ArchiveLooks(w, related) => IInv'
<1> USE WorkerFacts, IdleWorkOK
<1>1. ASSUME ArchiveReadsRow(w) PROVE IInv'
  <2>1. WorkOK([WAt(w, "alease") EXCEPT !.row = req[work[w].r]])
    BY <1>1 DEF ArchiveReadsRow, WorkOK, WAt, WorkState, WorkPcs
  <2> QED BY <1>1, <2>1, WorkerMoves DEF ArchiveReadsRow
<1>2. ASSUME ArchiveReadsLease(w) PROVE IInv'
  <2>1. WorkOK([WAt(w, "acheck") EXCEPT !.lease = lease[work[w].r]])
    BY <1>2 DEF ArchiveReadsLease, WorkOK, WAt, WorkState, WorkPcs
  <2> QED BY <1>2, <2>1, WorkerMoves DEF ArchiveReadsLease
<1>3. ASSUME ArchiveChecks(w) PROVE IInv'
  <2>1. ASSUME NEW pc \in {"afact", "aarchive"} PROVE WorkOK([WAt(w, pc) EXCEPT !.lease = NoLease])
    BY <1>3, AlphabetTypes DEF ArchiveChecks, WorkOK, WAt, WorkState, WorkPcs
  <2> QED BY <1>3, <2>1, WorkerMoves DEF ArchiveChecks
<1>4. ASSUME NEW related \in BOOLEAN, ArchiveLooks(w, related) PROVE IInv'
  <2>1. ASSUME NEW pc \in {"afact", "astore"} PROVE WorkOK(WAt(w, pc))
    BY <1>4 DEF ArchiveLooks, WorkOK, WAt, WorkState, WorkPcs
  <2> QED BY <1>4, <2>1, WorkerMoves DEF ArchiveLooks
<1> QED
  BY <1>1, <1>2, <1>3, <1>4

\* The first halves of the user's reconcile and mark buttons keep the invariant.
LEMMA UserReads ==
  ASSUME IInv, NEW w \in Workers, NEW r \in Reqs
  PROVE  /\ UserReconciles(w, r) => IInv'
         /\ \A resolution \in {"sent", "not_sent"} : UserMarks(w, r, resolution) => IInv'
<1> USE WorkerFacts, IdleWorkOK
<1>1. ASSUME UserReconciles(w, r) PROVE IInv'
  <2> DEFINE pc == IF req[r].status \in ArchiveRecoverable /\ AcceptanceProven(req[r])
                     THEN "arow" ELSE "rescan"
  <2>1. WorkOK([IdleWork EXCEPT !.r = r, !.row.outbound = req[r].outbound, !.pc = pc])
    <3>1. pc \in {"arow", "rescan"} /\ (pc = "arow" => Claimed(r))
      BY DEF ArchiveRecoverable, Claimed, PreClaim
    <3>2. [AbsentRow EXCEPT !.outbound = req[r].outbound] \in Row
      BY AlphabetTypes DEF Row
    <3> HIDE DEF pc
    <3> QED BY <3>1, <3>2, AlphabetTypes DEF WorkOK, WorkState, WorkPcs, IdleWork, Verdicts
  <2> QED BY <1>1, <2>1, WorkerMoves DEF UserReconciles
<1>2. ASSUME NEW resolution \in {"sent", "not_sent"}, UserMarks(w, r, resolution) PROVE IInv'
  <2> DEFINE v == CASE resolution = "not_sent" -> "definitely_not_sent"
                    [] resolution = "sent" /\ req[r].package -> "sent_reconciled"
                    [] OTHER -> "sent_archive_failed"
  <2>1. WorkOK([IdleWork EXCEPT !.pc = "mark", !.r = r, !.row = req[r], !.verdict = v])
    <3>1. v \in {"definitely_not_sent", "sent_reconciled", "sent_archive_failed"} /\ v \in Verdicts
      BY DEF Verdicts, TERMINAL_SEND_STATUSES
    <3>2. Claimed(r)
      BY <1>2 DEF UserMarks, Markable, Claimed, PreClaim
    <3> HIDE DEF v
    <3> QED BY <3>1, <3>2, AlphabetTypes DEF WorkOK, WorkState, WorkPcs, IdleWork
  <2> QED BY <1>2, <2>1, WorkerMoves DEF UserMarks
<1> QED
  BY <1>1, <1>2

\* What complete_send_request changes: it takes the lease away and leaves mode,
\* consent, attempts and acceptance of every request as they are.
LEMMA CompletionEffect ==
  ASSUME IInv, NEW r \in Reqs, Claimed(r), NEW status \in TERMINAL_SEND_STATUSES \ {"cancelled", "expired"},
         NEW o \in BOOLEAN, NEW p \in BOOLEAN, CompleteSendRequest(r, status, o, p)
  PROVE  /\ req' \in [Reqs -> Row] /\ lease' \in [Reqs -> Lease] /\ clock' \in Nat
         /\ \A q \in Reqs : /\ Claimed(q)' <=> Claimed(q)
                            /\ req'[q].attempts = req[q].attempts
                            /\ req'[q].accepted = req[q].accepted
                            /\ req'[q].mode = req[q].mode
                            /\ req'[q].confirmed = req[q].confirmed
                            /\ q # r => req'[q] = req[q] /\ lease'[q] = lease[q]
         /\ req'[r].status = status /\ lease'[r] = NoLease
<1>1. req \in [Reqs -> Row] /\ lease \in [Reqs -> Lease] /\ clock \in Nat
  BY DEF IInv, TypeOK, StoreTypeOK
<1>2. Completed(req[r], status, o, p) \in Row
  BY <1>1, CompletedType
<1>3. /\ Completed(req[r], status, o, p).attempts = req[r].attempts
      /\ Completed(req[r], status, o, p).accepted = req[r].accepted
      /\ Completed(req[r], status, o, p).mode = req[r].mode
      /\ Completed(req[r], status, o, p).confirmed = req[r].confirmed
      /\ Completed(req[r], status, o, p).status = status
  BY <1>1 DEF Completed, Row
<1>4. req'[r] = Completed(req[r], status, o, p)
  BY <1>1 DEF CompleteSendRequest
<1>5. \A q \in Reqs : q # r => req'[q] = req[q] /\ lease'[q] = lease[q]
  BY <1>1 DEF CompleteSendRequest
<1>6. lease'[r] = NoLease
  BY <1>1 DEF CompleteSendRequest
<1>7. req' \in [Reqs -> Row] /\ lease' \in [Reqs -> Lease] /\ clock' \in Nat
  BY <1>1, <1>2, AlphabetTypes DEF CompleteSendRequest
<1>8. Claimed(r)'
  BY <1>3, <1>4 DEF Claimed, PreClaim, TERMINAL_SEND_STATUSES
<1> QED
  BY <1>3, <1>4, <1>5, <1>6, <1>7, <1>8 DEF Claimed

\* A verdict that a recovery or the user writes without a lease owner keeps the
\* invariant.
LEMMA WorkerCompletes ==
  ASSUME IInv, NEW w \in Workers, NEW s, WorkOK(s), NEW r \in Reqs, Claimed(r),
         NEW status \in WorkWrites, NEW o \in BOOLEAN, NEW p \in BOOLEAN,
         CompleteSendRequest(r, status, o, p), WorkGoes(w, s),
         UNCHANGED <<exec, sync, factVars, sends, delivered, crashes>>,
         said' \in [Reqs -> SUBSET {"sent", "not_sent"}]
  PROVE  IInv'
<1> USE DEF factVars
<1>0. status \in TERMINAL_SEND_STATUSES \ {"cancelled", "expired"} /\ status # "failed"
      /\ status \notin {"pending_confirmation"}
  BY DEF WorkWrites, TERMINAL_SEND_STATUSES
<1>a. /\ req' \in [Reqs -> Row] /\ lease' \in [Reqs -> Lease] /\ clock' \in Nat
      /\ \A q \in Reqs : /\ Claimed(q)' <=> Claimed(q)
                         /\ req'[q].attempts = req[q].attempts
                         /\ req'[q].accepted = req[q].accepted
                         /\ req'[q].mode = req[q].mode
                         /\ req'[q].confirmed = req[q].confirmed
                         /\ q # r => req'[q] = req[q] /\ lease'[q] = lease[q]
      /\ req'[r].status = status /\ lease'[r] = NoLease
  BY <1>0, CompletionEffect
<1>b. NoLease.owner \notin Execs
  BY OwnerAssumption DEF NoLease
<1>1. TypeOK'
  BY <1>a DEF IInv, TypeOK, StoreTypeOK, WorkOK, WorkGoes
<1>2. WorkShape' /\ WorkersFollowClaims'
  BY <1>a DEF IInv, TypeOK, WorkShape, WorkersFollowClaims, WorkOK, WorkGoes
<1>3. ExecShape' /\ SyncShape'
  BY DEF IInv, ExecShape, SyncShape
<1>4. UnclaimedIsQuiet' /\ PendingIsConfirm'
  BY <1>a, <1>0 DEF IInv, UnclaimedIsQuiet, PendingIsConfirm, Runs
<1>5. OneExecution' /\ BeforeDataIsUnsent' /\ DataHasRecord' /\ AcceptanceHasRecord'
  BY <1>a DEF IInv, OneExecution, BeforeDataIsUnsent, DataHasRecord, AcceptanceHasRecord, Runs, BeforeData, PastAcceptance
<1>6. FirstDataCounts' /\ OwnedIsSendingOrAccepted' /\ OwnerStageIsTrue' /\ OwnerFailsUnsent'
  BY <1>a, <1>b DEF IInv, FirstDataCounts, OwnedIsSendingOrAccepted, OwnerStageIsTrue, OwnerFailsUnsent, Runs
<1>7. FailedIsOver'
  BY <1>a, <1>0 DEF IInv, FailedIsOver, Runs
<1>8. AtMostOneData' /\ DataIsLogged' /\ FailedWasNotSent'
  BY <1>a, <1>0 DEF IInv, AtMostOneData, DataIsLogged, FailedWasNotSent
<1> QED
  BY <1>1, <1>2, <1>3, <1>4, <1>5, <1>6, <1>7, <1>8 DEF IInv

\* The four places where a worker writes a verdict keep the invariant.
LEMMA WorkerWrites ==
  ASSUME IInv, NEW w \in Workers
  PROVE  /\ ReconcileWrites(w) => IInv'
         /\ RecoveryDecides(w) => IInv'
         /\ ArchiveFinishes(w) => IInv'
         /\ MarkWrites(w) => IInv'
<1> USE WorkerFacts, IdleWorkOK DEF worldVars
<1>0. said \in [Reqs -> SUBSET {"sent", "not_sent"}]
  BY DEF IInv, TypeOK
<1>1. work[w].row.outbound \in BOOLEAN /\ work[w].row.package \in BOOLEAN
  BY DEF WorkState, Row
<1>2. ASSUME ReconcileWrites(w) PROVE IInv'
  <2>1. work[w].startup => WorkOK([WAt(w, "verdict") EXCEPT !.verdict = "none"])
    BY <1>2 DEF ReconcileWrites, WorkOK, WAt, WorkState, WorkPcs, Verdicts
  <2>2. work[w].verdict \in WorkWrites
    BY <1>2 DEF ReconcileWrites, IInv, WorkShape, WorkWrites
  <2>3. work[w].r \in Reqs /\ Claimed(work[w].r)
    BY <1>2 DEF ReconcileWrites
  <2>4. UNCHANGED <<exec, sync, factVars, sends, delivered, crashes>> /\ said' = said
        /\ CompleteSendRequest(work[w].r, work[w].verdict, work[w].row.outbound, TRUE)
    BY <1>2 DEF ReconcileWrites
  <2>5. CASE work[w].startup /\ ~work[w].link
    <3>1. WorkGoes(w, [WAt(w, "verdict") EXCEPT !.verdict = "none"])
      BY <1>2, <2>5 DEF ReconcileWrites
    <3> QED BY <1>0, <1>1, <2>1, <2>2, <2>3, <2>4, <2>5, <3>1, WorkerCompletes
  <2>6. CASE ~(work[w].startup /\ ~work[w].link)
    <3>1. WorkGoes(w, IdleWork)
      BY <1>2, <2>6 DEF ReconcileWrites
    <3> QED BY <1>0, <1>1, <2>2, <2>3, <2>4, <3>1, WorkerCompletes
  <2> QED BY <2>5, <2>6
<1>3. ASSUME RecoveryDecides(w) PROVE IInv'
  <2> DEFINE v == RecoveryVerdict(work[w].row, work[w].lease)
             archive == v = "sent_archive_failed"
             o == archive /\ work[w].row.outbound
             p == archive /\ work[w].row.package
             s == IF archive THEN [IdleWork EXCEPT !.pc = "arow", !.r = work[w].r] ELSE IdleWork
  <2>1. v \in WorkWrites
    BY DEF RecoveryVerdict, WorkWrites
  <2>2. work[w].r \in Reqs /\ Claimed(work[w].r)
    BY <1>3 DEF RecoveryDecides
  <2>3. WorkOK([IdleWork EXCEPT !.pc = "arow", !.r = work[w].r])
    BY <2>2, AlphabetTypes DEF WorkOK, WorkState, WorkPcs, IdleWork, Verdicts
  <2>4. WorkOK(s)
    BY <2>3
  <2>5. o \in BOOLEAN /\ p \in BOOLEAN
    OBVIOUS
  <2>6. CompleteSendRequest(work[w].r, v, o, p) /\ WorkGoes(w, s)
        /\ UNCHANGED <<exec, sync, factVars, sends, delivered, crashes>> /\ said' = said
    BY <1>3 DEF RecoveryDecides
  <2> HIDE DEF v, archive, o, p, s
  <2> QED BY <1>0, <2>1, <2>2, <2>4, <2>5, <2>6, WorkerCompletes
<1>4. ASSUME ArchiveFinishes(w) PROVE IInv'
  <2>1. "sent" \in WorkWrites /\ work[w].r \in Reqs /\ Claimed(work[w].r)
    BY <1>4 DEF ArchiveFinishes, WorkWrites
  <2> QED BY <1>0, <1>4, <2>1, WorkerCompletes DEF ArchiveFinishes
<1>5. ASSUME MarkWrites(w) PROVE IInv'
  <2> DEFINE r == work[w].r
             s == IF work[w].verdict = "sent_archive_failed"
                    THEN [IdleWork EXCEPT !.pc = "arow", !.r = r] ELSE IdleWork
  <2>1. work[w].verdict \in WorkWrites /\ r \in Reqs /\ Claimed(r)
    BY <1>5 DEF MarkWrites, IInv, WorkShape, WorkWrites
  <2>2. WorkOK([IdleWork EXCEPT !.pc = "arow", !.r = r])
    BY <2>1, AlphabetTypes DEF WorkOK, WorkState, WorkPcs, IdleWork, Verdicts
  <2>3. WorkOK(s)
    BY <2>2
  <2>4. said' \in [Reqs -> SUBSET {"sent", "not_sent"}]
    BY <1>0, <1>5, <2>1 DEF MarkWrites
  <2>5. CompleteSendRequest(r, work[w].verdict, work[w].row.outbound, work[w].row.package)
        /\ WorkGoes(w, s) /\ UNCHANGED <<exec, sync, factVars, sends, delivered, crashes>>
    BY <1>5 DEF MarkWrites
  <2> HIDE DEF r, s
  <2> QED BY <1>1, <2>1, <2>3, <2>4, <2>5, WorkerCompletes
<1> QED
  BY <1>2, <1>3, <1>4, <1>5

\* Only a claimed request gets a package.
PkgKept == \A q \in Reqs : pkg'[q] # pkg[q] => Claimed(q)

\* A step that changes only archives, outbound facts, mappings and the state of
\* workers or synchronisations keeps the invariant.
LEMMA OnlyFactsMove ==
  ASSUME IInv, UNCHANGED <<storeVars, exec, worldVars>>, crashes' \in 0..MaxCrashes,
         work' \in [Workers -> WorkState], WorkShape', WorkersFollowClaims',
         sync' \in [Syncs -> SyncState], SyncShape',
         pkg' \in [Reqs -> PkgStates], PkgKept,
         fact' \in [Reqs -> [status : FactStates, package : BOOLEAN]],
         mapped' \in [Reqs -> BOOLEAN]
  PROVE  IInv'
<1> USE DEF storeVars, worldVars
<1>1. TypeOK'
  BY DEF IInv, TypeOK, StoreTypeOK
<1>2. UnclaimedIsQuiet'
  BY DEF IInv, UnclaimedIsQuiet, PkgKept, Claimed, Runs
<1>3. ExecShape' /\ PendingIsConfirm'
  BY DEF IInv, ExecShape, PendingIsConfirm
<1>4. OneExecution' /\ BeforeDataIsUnsent' /\ FirstDataCounts' /\ DataHasRecord' /\ AcceptanceHasRecord'
  BY DEF IInv, OneExecution, BeforeDataIsUnsent, FirstDataCounts, DataHasRecord, AcceptanceHasRecord, Runs, BeforeData, PastAcceptance
<1>5. OwnedIsSendingOrAccepted' /\ OwnerStageIsTrue' /\ OwnerFailsUnsent' /\ FailedIsOver'
  BY DEF IInv, OwnedIsSendingOrAccepted, OwnerStageIsTrue, OwnerFailsUnsent, FailedIsOver, Runs
<1>6. AtMostOneData' /\ DataIsLogged' /\ FailedWasNotSent'
  BY DEF IInv, AtMostOneData, DataIsLogged, FailedWasNotSent
<1> QED
  BY <1>1, <1>2, <1>3, <1>4, <1>5, <1>6 DEF IInv

\* store_mail_archive_atomically stores a well-typed status, for one request only.
LEMMA PackageStoredType ==
  ASSUME IInv, NEW r \in Reqs, Claimed(r), NEW result \in ArchiveResults, PackageStored(r, result)
  PROVE  pkg' \in [Reqs -> PkgStates] /\ PkgKept
<1> DEFINE v == CASE result = "none" -> pkg[r]
                  [] result = "partial" /\ pkg[r] \in {"ready", "lowered"} -> "lowered"
                  [] OTHER -> result
<1>1. pkg \in [Reqs -> PkgStates]
  BY DEF IInv, TypeOK
<1>2. v \in PkgStates
  BY <1>1 DEF PkgStates, ArchiveResults
<1>3. pkg' = [pkg EXCEPT ![r] = v]
  BY DEF PackageStored
<1> HIDE DEF v
<1> QED BY <1>1, <1>2, <1>3 DEF PkgKept

\* record_outbound_fact stores a well-typed fact.
LEMMA RecordFactType ==
  ASSUME IInv, NEW r \in Reqs, NEW status \in FactStates, NEW link \in BOOLEAN, RecordFact(r, status, link)
  PROVE  fact' \in [Reqs -> [status : FactStates, package : BOOLEAN]]
<1> DEFINE p == fact[r].package \/ link
<1>1. fact \in [Reqs -> [status : FactStates, package : BOOLEAN]]
  BY DEF IInv, TypeOK
<1>2. p \in BOOLEAN
  OBVIOUS
<1>3. fact' = [fact EXCEPT ![r].status = status, ![r].package = p]
  BY DEF RecordFact
<1> HIDE DEF p
<1> QED BY <1>1, <1>2, <1>3

\* A worker that takes a possible state leaves all workers in possible states.
LEMMA WorkerStateMoves ==
  ASSUME IInv, NEW w \in Workers, NEW s, WorkOK(s), WorkGoes(w, s), UNCHANGED req
  PROVE  work' \in [Workers -> WorkState] /\ WorkShape' /\ WorkersFollowClaims'
  BY DEF IInv, TypeOK, WorkShape, WorkersFollowClaims, WorkOK, WorkGoes, Claimed

\* The archive and the fact written by the archive recovery keep the invariant.
LEMMA WorkerArchives ==
  ASSUME IInv, NEW w \in Workers
  PROVE  /\ ArchiveRecordsFact(w) => IInv'
         /\ \A result \in ArchiveResults, related \in BOOLEAN : ArchiveStores(w, result, related) => IInv'
<1> USE WorkerFacts, IdleWorkOK
<1>0. TypeOK /\ SyncShape
  BY DEF IInv
<1>1. ASSUME ArchiveRecordsFact(w) PROVE IInv'
  <2>1. WorkOK(WAt(w, "afinish"))
    BY <1>1 DEF ArchiveRecordsFact, WorkOK, WAt, WorkState, WorkPcs
  <2>2. fact' \in [Reqs -> [status : FactStates, package : BOOLEAN]]
    BY <1>1, RecordFactType DEF ArchiveRecordsFact, FactStates
  <2>3. work' \in [Workers -> WorkState] /\ WorkShape' /\ WorkersFollowClaims'
    BY <1>1, <2>1, WorkerStateMoves DEF ArchiveRecordsFact, storeVars
  <2> QED BY <1>0, <1>1, <2>2, <2>3, OnlyFactsMove DEF ArchiveRecordsFact, PkgKept, SyncShape, TypeOK, worldVars
<1>2. ASSUME NEW result \in ArchiveResults, NEW related \in BOOLEAN, ArchiveStores(w, result, related) PROVE IInv'
  <2> DEFINE s == IF result = "ready" /\ related THEN WAt(w, "afact") ELSE IdleWork
  <2>1. WorkOK(WAt(w, "afact"))
    BY <1>2 DEF ArchiveStores, WorkOK, WAt, WorkState, WorkPcs
  <2>2. WorkOK(s)
    BY <2>1
  <2>3. pkg' \in [Reqs -> PkgStates] /\ PkgKept
    BY <1>2, PackageStoredType DEF ArchiveStores
  <2>4. work' \in [Workers -> WorkState] /\ WorkShape' /\ WorkersFollowClaims'
    <3>1. WorkGoes(w, s) /\ UNCHANGED req
      BY <1>2 DEF ArchiveStores, storeVars
    <3> HIDE DEF s
    <3> QED BY <2>2, <3>1, WorkerStateMoves
  <2> QED BY <1>0, <1>2, <2>3, <2>4, OnlyFactsMove DEF ArchiveStores, SyncShape, TypeOK, worldVars
<1> QED
  BY <1>1, <1>2

-----------------------------------------------------------------------------
(* Synchronisations.                                                        *)

\* A local state a synchronisation may be in.
SyncOK(s) ==
  /\ s \in SyncState
  /\ s.pc # "idle" => s.r \in Reqs /\ delivered[s.r]

\* A synchronisation that takes a possible state leaves all of them in one.
LEMMA SyncMoves ==
  ASSUME IInv, NEW s \in Syncs, NEW t, SyncOK(t), SyncGoes(s, t), UNCHANGED delivered
  PROVE  sync' \in [Syncs -> SyncState] /\ SyncShape'
  BY DEF IInv, TypeOK, SyncShape, SyncOK, SyncGoes

\* A synchronisation may always stop.
LEMMA IdleSyncOK == SyncOK(IdleSync)
  BY DEF SyncOK, IdleSync, SyncState, SyncPcs

\* A busy synchronisation works on a request the provider took, a claimed one.
LEMMA SyncFacts ==
  ASSUME IInv, NEW s \in Syncs, sync[s].pc # "idle"
  PROVE  /\ sync[s].r \in Reqs /\ Claimed(sync[s].r)
         /\ \A pc \in SyncPcs : SyncOK(SAt(s, pc))
<1>1. sync[s] \in SyncState /\ sync[s].r \in Reqs /\ delivered[sync[s].r]
  BY DEF IInv, TypeOK, SyncShape
<1>2. Claimed(sync[s].r)
  BY <1>1 DEF IInv, UnclaimedIsQuiet
<1>3. \A pc \in SyncPcs : SyncOK(SAt(s, pc))
  BY <1>1 DEF SyncOK, SAt, SyncState
<1> QED
  BY <1>1, <1>2, <1>3

\* Every step of a synchronisation before its last keeps the invariant.
LEMMA SyncSteps ==
  ASSUME IInv, NEW s \in Syncs
  PROVE  /\ \A r \in Reqs : SyncFinds(s, r) => IInv'
         /\ SyncPrepares(s) => IInv'
         /\ SyncLooks(s) => IInv'
         /\ \A result \in ArchiveResults : SyncStores(s, result) => IInv'
         /\ SyncMaps(s) => IInv'
         /\ SyncUpdatesFact(s) => IInv'
<1>0. TypeOK /\ WorkShape /\ WorkersFollowClaims
  BY DEF IInv
<1>a. ASSUME UNCHANGED <<req, work>>
      PROVE  work' \in [Workers -> WorkState] /\ WorkShape' /\ WorkersFollowClaims'
  BY <1>0, <1>a DEF TypeOK, WorkShape, WorkersFollowClaims, Claimed
<1> USE DEF storeVars, factVars, worldVars
<1>1. ASSUME NEW r \in Reqs, SyncFinds(s, r) PROVE IInv'
  <2> DEFINE b == pkg[r] = "none" /\ req[r].status \in Recoverable /\ ~req[r].package
             t == [pc |-> IF b THEN "prepare" ELSE "archive", r |-> r, request |-> b]
  <2>1. b \in BOOLEAN
    OBVIOUS
  <2>2. SyncOK(t)
    <3> HIDE DEF b
    <3> QED BY <1>1, <2>1 DEF SyncFinds, SyncOK, SyncState, SyncPcs
  <2>3. SyncGoes(s, t) /\ UNCHANGED <<storeVars, exec, work, factVars, worldVars, crashes>>
    BY <1>1 DEF SyncFinds
  <2>4. sync' \in [Syncs -> SyncState] /\ SyncShape'
    <3> HIDE DEF t
    <3> QED BY <2>2, <2>3, SyncMoves
  <2> QED BY <1>0, <1>a, <2>3, <2>4, OnlyFactsMove DEF PkgKept, TypeOK
<1>2. ASSUME SyncPrepares(s) PROVE IInv'
  <2>1. fact' \in [Reqs -> [status : FactStates, package : BOOLEAN]]
    BY <1>2, SyncFacts, RecordFactType DEF SyncPrepares, FactStates
  <2>2. sync' \in [Syncs -> SyncState] /\ SyncShape'
    BY <1>2, SyncFacts, SyncMoves DEF SyncPrepares, SyncPcs
  <2> QED BY <1>0, <1>2, <1>a, <2>1, <2>2, OnlyFactsMove DEF SyncPrepares, PkgKept, TypeOK
<1>3. ASSUME SyncLooks(s) PROVE IInv'
  <2>1. sync' \in [Syncs -> SyncState] /\ SyncShape'
    BY <1>3, SyncFacts, SyncMoves DEF SyncLooks, SyncPcs
  <2> QED BY <1>0, <1>3, <1>a, <2>1, OnlyFactsMove DEF SyncLooks, PkgKept, TypeOK
<1>4. ASSUME NEW result \in ArchiveResults, SyncStores(s, result) PROVE IInv'
  <2>1. pkg' \in [Reqs -> PkgStates] /\ PkgKept
    BY <1>4, SyncFacts, PackageStoredType DEF SyncStores
  <2>2. sync' \in [Syncs -> SyncState] /\ SyncShape'
    BY <1>4, SyncFacts, IdleSyncOK, SyncMoves DEF SyncStores, SyncPcs
  <2> QED BY <1>0, <1>4, <1>a, <2>1, <2>2, OnlyFactsMove DEF SyncStores, TypeOK
<1>5. ASSUME SyncMaps(s) PROVE IInv'
  <2>1. sync' \in [Syncs -> SyncState] /\ SyncShape'
    BY <1>5, SyncFacts, SyncMoves DEF SyncMaps, SyncPcs
  <2>2. mapped' \in [Reqs -> BOOLEAN]
    BY <1>0, <1>5 DEF SyncMaps, TypeOK
  <2> QED BY <1>0, <1>5, <1>a, <2>1, <2>2, OnlyFactsMove DEF SyncMaps, PkgKept, TypeOK
<1>6. ASSUME SyncUpdatesFact(s) PROVE IInv'
  <2>1. sync' \in [Syncs -> SyncState] /\ SyncShape'
    BY <1>6, SyncFacts, SyncMoves DEF SyncUpdatesFact, SyncPcs
  <2>2. fact' \in [Reqs -> [status : FactStates, package : BOOLEAN]]
    BY <1>0, <1>6 DEF SyncUpdatesFact, TypeOK, FactStates
  <2> QED BY <1>0, <1>6, <1>a, <2>1, <2>2, OnlyFactsMove DEF SyncUpdatesFact, PkgKept, TypeOK
<1> QED
  BY <1>1, <1>2, <1>3, <1>4, <1>5, <1>6

\* What reconcile_sent_observation changes in the row: a status of its list
\* becomes sent_reconciled, acceptance, attempts, mode and consent stay.
LEMMA ObservedEffect ==
  ASSUME NEW row \in Row
  PROVE  /\ Observed(row) \in Row
         /\ Observed(row).attempts = row.attempts /\ Observed(row).accepted = row.accepted
         /\ Observed(row).mode = row.mode /\ Observed(row).confirmed = row.confirmed
         /\ \/ row.status \in Reconcilable /\ Observed(row).status = "sent_reconciled"
            \/ Observed(row).status = row.status /\ Observed(row).stage = row.stage
  BY ObservedType DEF Observed, Row

\* The last write of a synchronisation keeps the invariant: an owner whose row it
\* reconciles has its acceptance recorded already.
LEMMA SyncEnds ==
  ASSUME IInv, NEW s \in Syncs, SyncUpdatesRow(s)
  PROVE  IInv'
<1> USE DEF factVars, worldVars, storeVars
<1> DEFINE r == sync[s].r
<1>1. r \in Reqs /\ Claimed(r)
  BY SyncFacts DEF SyncUpdatesRow
<1>2. req \in [Reqs -> Row] /\ lease \in [Reqs -> Lease]
  BY DEF IInv, TypeOK, StoreTypeOK
<1>3. UNCHANGED <<exec, work, pkg, fact, mapped, sends, delivered, said, crashes, clock, lease>>
      /\ SyncGoes(s, IdleSync) /\ (req' = [req EXCEPT ![r] = Observed(@)] \/ req' = req)
  BY DEF SyncUpdatesRow, ReconcileSentRow
<1>4. sync' \in [Syncs -> SyncState] /\ SyncShape'
  BY <1>3, IdleSyncOK, SyncMoves
<1> HIDE DEF r
<1>5. /\ req' \in [Reqs -> Row]
      /\ \A q \in Reqs : /\ req'[q].attempts = req[q].attempts
                         /\ req'[q].accepted = req[q].accepted
                         /\ req'[q].mode = req[q].mode
                         /\ req'[q].confirmed = req[q].confirmed
                         /\ \/ req[q].status \in Reconcilable /\ req'[q].status = "sent_reconciled"
                            \/ req'[q].status = req[q].status /\ req'[q].stage = req[q].stage
  BY <1>1, <1>2, <1>3, ObservedEffect
<1>6. \A q \in Reqs : Claimed(q)' <=> Claimed(q)
  BY <1>5 DEF Claimed, PreClaim, Reconcilable
<1>7. \A q \in Reqs : lease[q].owner \in Execs /\ req[q].status \in Reconcilable => req[q].accepted
  BY DEF IInv, OwnedIsSendingOrAccepted, Reconcilable
<1>8. TypeOK'
  BY <1>3, <1>4, <1>5 DEF IInv, TypeOK, StoreTypeOK
<1>9. WorkShape' /\ WorkersFollowClaims' /\ ExecShape'
  <2>1. \A w \in Workers : work[w].pc # "idle" => work[w].r \in Reqs
    BY DEF IInv, WorkShape
  <2> QED BY <1>3, <1>6, <2>1 DEF IInv, WorkShape, WorkersFollowClaims, ExecShape
<1>10. UnclaimedIsQuiet' /\ PendingIsConfirm'
  BY <1>3, <1>5, <1>6 DEF IInv, UnclaimedIsQuiet, PendingIsConfirm, Runs
<1>11. OneExecution' /\ BeforeDataIsUnsent' /\ FirstDataCounts' /\ DataHasRecord' /\ AcceptanceHasRecord'
  BY <1>3, <1>5 DEF IInv, OneExecution, BeforeDataIsUnsent, FirstDataCounts, DataHasRecord, AcceptanceHasRecord, Runs, BeforeData, PastAcceptance
<1>12. OwnedIsSendingOrAccepted' /\ OwnerFailsUnsent' /\ FailedIsOver'
  BY <1>3, <1>5, <1>7 DEF IInv, OwnedIsSendingOrAccepted, OwnerFailsUnsent, FailedIsOver, Runs
<1>13. OwnerStageIsTrue'
  <2>1. \A e \in Execs, q \in Reqs : lease[q].owner = e => lease[q].owner \in Execs
    OBVIOUS
  <2> QED BY <1>3, <1>5, <1>7, <2>1 DEF IInv, OwnerStageIsTrue, Runs
<1>14. AtMostOneData' /\ DataIsLogged' /\ FailedWasNotSent'
  BY <1>3, <1>5 DEF IInv, AtMostOneData, DataIsLogged, FailedWasNotSent
<1> QED
  BY <1>4, <1>8, <1>9, <1>10, <1>11, <1>12, <1>13, <1>14 DEF IInv

-----------------------------------------------------------------------------
(* Time, withdrawals, crashes.                                              *)

\* No part of the invariant depends on the clock.
LEMMA TimeIsHarmless ==
  ASSUME IInv, TimePasses
  PROVE  IInv'
<1> USE DEF TimePasses, Tick, localVars, factVars, worldVars
<1>1. TypeOK'
  BY DEF IInv, TypeOK, StoreTypeOK
<1>2. WorkShape' /\ WorkersFollowClaims' /\ ExecShape' /\ SyncShape' /\ UnclaimedIsQuiet' /\ PendingIsConfirm'
  BY DEF IInv, WorkShape, WorkersFollowClaims, ExecShape, SyncShape, UnclaimedIsQuiet, PendingIsConfirm, Claimed, Runs
<1>3. OneExecution' /\ BeforeDataIsUnsent' /\ FirstDataCounts' /\ DataHasRecord' /\ AcceptanceHasRecord'
  BY DEF IInv, OneExecution, BeforeDataIsUnsent, FirstDataCounts, DataHasRecord, AcceptanceHasRecord, Runs, BeforeData, PastAcceptance
<1>4. OwnedIsSendingOrAccepted' /\ OwnerStageIsTrue' /\ OwnerFailsUnsent' /\ FailedIsOver'
  BY DEF IInv, OwnedIsSendingOrAccepted, OwnerStageIsTrue, OwnerFailsUnsent, FailedIsOver, Runs
<1>5. AtMostOneData' /\ DataIsLogged' /\ FailedWasNotSent'
  BY DEF IInv, AtMostOneData, DataIsLogged, FailedWasNotSent
<1> QED
  BY <1>1, <1>2, <1>3, <1>4, <1>5 DEF IInv

\* r is withdrawn and nothing else changes.
LEMMA WithdrawalIsHarmless ==
  ASSUME IInv, NEW r \in Reqs, req[r].status \in PreClaim, NEW s \in {"cancelled", "expired"},
         req' = [req EXCEPT ![r].status = s], UNCHANGED <<clock, lease, work, sync, factVars, worldVars, crashes>>,
         ExecShape', exec' \in [Execs -> ExecState],
         \A e \in Execs : exec'[e] = exec[e] \/ exec'[e].pc = "idle"
  PROVE  IInv'
<1> USE DEF factVars, worldVars
<1>1. req \in [Reqs -> Row] /\ s \in Statuses
  BY DEF IInv, TypeOK, StoreTypeOK, Statuses, TERMINAL_SEND_STATUSES
<1>2. /\ req' \in [Reqs -> Row] /\ req'[r].status = s
      /\ \A q \in Reqs : /\ q # r => req'[q] = req[q]
                         /\ req'[q].attempts = req[q].attempts /\ req'[q].accepted = req[q].accepted
                         /\ req'[q].mode = req[q].mode /\ req'[q].stage = req[q].stage
                         /\ req'[q].confirmed = req[q].confirmed
  BY <1>1 DEF Row
<1>3. ~Claimed(r) /\ ~Claimed(r)' /\ \A q \in Reqs : Claimed(q)' <=> Claimed(q)
  BY <1>2 DEF Claimed, PreClaim
<1>4. TypeOK'
  BY <1>2 DEF IInv, TypeOK, StoreTypeOK
<1>5. \A e \in Execs, q \in Reqs : Runs(e, q)' => Runs(e, q) /\ exec'[e] = exec[e]
  BY DEF Runs, InFlightPcs, StagePcs
<1>6. \A w \in Workers : work[w].pc # "idle" => work[w].r \in Reqs
  BY DEF IInv, WorkShape
<1>7. WorkShape' /\ SyncShape'
  BY DEF IInv, WorkShape, SyncShape
<1>a. WorkersFollowClaims'
  BY <1>3, <1>6 DEF IInv, WorkersFollowClaims
<1>8. UnclaimedIsQuiet' /\ PendingIsConfirm'
  BY <1>2, <1>3, <1>5 DEF IInv, UnclaimedIsQuiet, PendingIsConfirm
<1>9. OneExecution' /\ BeforeDataIsUnsent' /\ FirstDataCounts' /\ DataHasRecord' /\ AcceptanceHasRecord'
  BY <1>2, <1>5 DEF IInv, OneExecution, BeforeDataIsUnsent, FirstDataCounts, DataHasRecord, AcceptanceHasRecord, BeforeData, PastAcceptance
<1>10. OwnedIsSendingOrAccepted'
  <2>1. lease[r].owner \notin Execs
    BY <1>3, OwnerAssumption DEF IInv, UnclaimedIsQuiet, NoLease
  <2> QED BY <1>2, <2>1 DEF IInv, OwnedIsSendingOrAccepted
<1>11. OwnerStageIsTrue' /\ OwnerFailsUnsent' /\ FailedIsOver'
  BY <1>2, <1>5 DEF IInv, OwnerStageIsTrue, OwnerFailsUnsent, FailedIsOver
<1>12. AtMostOneData' /\ DataIsLogged' /\ FailedWasNotSent'
  BY <1>2 DEF IInv, AtMostOneData, DataIsLogged, FailedWasNotSent
<1> QED
  BY <1>4, <1>7, <1>a, <1>8, <1>9, <1>10, <1>11, <1>12 DEF IInv

\* cancel_send_request and expire_due_send_requests keep the invariant.
LEMMA UserWithdraws ==
  ASSUME IInv, NEW r \in Reqs, UserCancelsOrExpires(r)
  PROVE  IInv'
<1>1. ExecShape' /\ exec' \in [Execs -> ExecState]
  BY DEF IInv, ExecShape, TypeOK, UserCancelsOrExpires, localVars
<1> QED
  BY <1>1, WithdrawalIsHarmless DEF UserCancelsOrExpires, CancelSendRequest, ExpireDueSendRequest, Expire, PreClaim, localVars

\* An execution may always stop.
LEMMA IdleExecOK == IdleExec \in ExecState /\ IdleExec.pc = "idle"
  BY DEF IdleExec, ExecState, ExecPcs, Verdicts

\* An execution that only stops running a request disturbs nothing.
LEMMA ExecutionStops ==
  ASSUME IInv, NEW e \in Execs, ExecGoes(e, IdleExec),
         UNCHANGED <<storeVars, work, sync, factVars, worldVars>>, crashes' \in 0..MaxCrashes
  PROVE  IInv'
<1> USE DEF storeVars, factVars, worldVars
<1>1. exec' \in [Execs -> ExecState] /\ exec'[e].pc = "idle" /\ \A f \in Execs \ {e} : exec'[f] = exec[f]
  BY IdleExecOK DEF ExecGoes, IInv, TypeOK
<1>2. TypeOK'
  BY <1>1 DEF IInv, TypeOK, StoreTypeOK
<1>3. \A f \in Execs, q \in Reqs : Runs(f, q)' => Runs(f, q) /\ exec'[f] = exec[f]
  BY <1>1 DEF Runs, InFlightPcs, StagePcs
<1>4. ExecShape'
  BY <1>1 DEF IInv, ExecShape, StagePcs
<1>5. WorkShape' /\ WorkersFollowClaims' /\ SyncShape'
  BY DEF IInv, WorkShape, WorkersFollowClaims, SyncShape, Claimed
<1>6. UnclaimedIsQuiet' /\ PendingIsConfirm'
  BY <1>3 DEF IInv, UnclaimedIsQuiet, PendingIsConfirm, Claimed
<1>7. OneExecution' /\ BeforeDataIsUnsent' /\ FirstDataCounts' /\ DataHasRecord' /\ AcceptanceHasRecord'
  BY <1>3 DEF IInv, OneExecution, BeforeDataIsUnsent, FirstDataCounts, DataHasRecord, AcceptanceHasRecord, BeforeData, PastAcceptance
<1>8. OwnedIsSendingOrAccepted' /\ OwnerStageIsTrue' /\ OwnerFailsUnsent' /\ FailedIsOver'
  BY <1>3 DEF IInv, OwnedIsSendingOrAccepted, OwnerStageIsTrue, OwnerFailsUnsent, FailedIsOver
<1>9. AtMostOneData' /\ DataIsLogged' /\ FailedWasNotSent'
  BY DEF IInv, AtMostOneData, DataIsLogged, FailedWasNotSent
<1> QED
  BY <1>2, <1>4, <1>5, <1>6, <1>7, <1>8, <1>9 DEF IInv

\* A crash of any actor at any step keeps the invariant.
LEMMA CrashIsHarmless ==
  ASSUME IInv, Crash
  PROVE  IInv'
<1>0. TypeOK /\ WorkShape /\ WorkersFollowClaims /\ SyncShape
  BY DEF IInv
<1>1. crashes' \in 0..MaxCrashes /\ UNCHANGED <<storeVars, factVars, worldVars>>
  BY <1>0, ActorAssumption DEF TypeOK, Crash
<1> USE DEF storeVars, factVars, worldVars
<1>2. CASE (\E e \in Execs : exec[e].pc # "idle" /\ ExecGoes(e, IdleExec)) /\ UNCHANGED <<work, sync>>
  BY <1>1, <1>2, ExecutionStops
<1>3. CASE (\E w \in Workers : work[w].pc # "idle" /\ WorkGoes(w, IdleWork)) /\ UNCHANGED <<exec, sync>>
  <2>1. work' \in [Workers -> WorkState] /\ WorkShape' /\ WorkersFollowClaims'
    BY <1>1, <1>3, IdleWorkOK, WorkerStateMoves
  <2> QED BY <1>0, <1>1, <1>3, <2>1, OnlyFactsMove DEF TypeOK, SyncShape, PkgKept
<1>4. CASE (\E s \in Syncs : sync[s].pc # "idle" /\ SyncGoes(s, IdleSync)) /\ UNCHANGED <<exec, work>>
  <2>1. sync' \in [Syncs -> SyncState] /\ SyncShape'
    BY <1>1, <1>4, IdleSyncOK, SyncMoves
  <2>2. WorkShape' /\ WorkersFollowClaims'
    BY <1>0, <1>1, <1>4 DEF WorkShape, WorkersFollowClaims, Claimed
  <2> QED BY <1>0, <1>1, <1>4, <2>1, <2>2, OnlyFactsMove DEF TypeOK, PkgKept
<1> QED
  BY <1>2, <1>3, <1>4 DEF Crash

-----------------------------------------------------------------------------
(* Executions.                                                              *)

\* The result and the position an execution in state x carries are possible ones.
ExecOK(x) ==
  /\ x \in ExecState
  /\ x.pc # "idle" => x.r \in Reqs
  /\ x.pc \in StagePcs => x.k \in 1..7
  /\ x.pc = "data" => x.k = 5
  /\ x.pc = "settle" => x.verdict \in {"failed", "delivery_unknown", "sent_archive_failed"}
  /\ x.pc = "pending" => x.k = 7
  /\ x.pc \in {"fact", "finish"} => x.verdict \in {"sent", "sent_archive_failed"}

\* What the invariant says of an execution and of the send tables.
LEMMA ExecFacts ==
  ASSUME IInv, NEW e \in Execs
  PROVE  /\ ExecOK(exec[e])
         /\ \A f \in Execs : ExecOK(exec[f])
         /\ req \in [Reqs -> Row] /\ lease \in [Reqs -> Lease] /\ clock \in Nat
         /\ exec \in [Execs -> ExecState]
  BY DEF IInv, TypeOK, StoreTypeOK, ExecShape, ExecOK

\* An execution that takes a possible state leaves all of them in one.
LEMMA ExecutionStateMoves ==
  ASSUME IInv, NEW e \in Execs, NEW x, ExecOK(x), ExecGoes(e, x)
  PROVE  /\ exec' \in [Execs -> ExecState] /\ ExecShape'
         /\ exec'[e] = x /\ \A f \in Execs \ {e} : exec'[f] = exec[f]
<1>1. exec' \in [Execs -> ExecState] /\ exec'[e] = x /\ \A f \in Execs \ {e} : exec'[f] = exec[f]
  BY DEF IInv, TypeOK, ExecOK, ExecGoes
<1> QED
  BY <1>1 DEF IInv, ExecShape, ExecOK

\* An execution takes a step that changes neither its tables nor the world.
LEMMA ExecutionMoves ==
  ASSUME IInv, NEW e \in Execs, NEW x, ExecOK(x), ExecGoes(e, x),
         UNCHANGED <<storeVars, work, sync, mapped, worldVars, crashes>>,
         pkg' \in [Reqs -> PkgStates], PkgKept,
         fact' \in [Reqs -> [status : FactStates, package : BOOLEAN]],
         x.pc \in InFlightPcs => Runs(e, x.r),
         x.pc # "data",
         x.pc \in StagePcs /\ x.k <= 4 => exec[e].pc \in StagePcs /\ exec[e].k = x.k,
         x.pc \in {"pending", "archive", "store", "fact", "finish"} => PastAcceptance(e),
         x.pc \in StagePcs /\ x.k >= 6 => PastAcceptance(e),
         x.pc = "settle" /\ x.verdict = "failed" /\ lease[x.r].owner = e => sends[x.r] = 0
  PROVE  IInv'
<1> USE DEF storeVars, worldVars
<1>1. /\ exec' \in [Execs -> ExecState] /\ ExecShape'
      /\ exec'[e] = x /\ \A f \in Execs \ {e} : exec'[f] = exec[f]
  BY ExecutionStateMoves
<1>2. \A f \in Execs, q \in Reqs : Runs(f, q)' => Runs(f, q)
  BY <1>1 DEF Runs
<1>3. TypeOK'
  BY <1>1 DEF IInv, TypeOK, StoreTypeOK
<1>4. WorkShape' /\ WorkersFollowClaims' /\ SyncShape'
  BY DEF IInv, WorkShape, WorkersFollowClaims, SyncShape, Claimed
<1>5. UnclaimedIsQuiet' /\ PendingIsConfirm'
  BY <1>2 DEF IInv, UnclaimedIsQuiet, PendingIsConfirm, Claimed, PkgKept
<1>6. OneExecution'
  BY <1>2 DEF IInv, OneExecution
<1>7. BeforeDataIsUnsent' /\ FirstDataCounts' /\ DataHasRecord' /\ AcceptanceHasRecord'
  <2>1. \A f \in Execs : BeforeData(f)' => BeforeData(f)
    BY <1>1 DEF BeforeData
  <2>2. \A f \in Execs : PastAcceptance(f)' => PastAcceptance(f)
    BY <1>1 DEF PastAcceptance
  <2>3. FirstDataCounts'
    BY <1>1, <1>2 DEF IInv, FirstDataCounts
  <2>4. DataHasRecord'
    BY <1>1, <1>2 DEF IInv, DataHasRecord
  <2> QED BY <1>2, <2>1, <2>2, <2>3, <2>4 DEF IInv, BeforeDataIsUnsent, AcceptanceHasRecord
<1>8. OwnedIsSendingOrAccepted' /\ FailedIsOver'
  BY <1>2 DEF IInv, OwnedIsSendingOrAccepted, FailedIsOver
<1>9. OwnerStageIsTrue'
  BY <1>1, <1>2 DEF IInv, OwnerStageIsTrue
<1>10. OwnerFailsUnsent'
  BY <1>1, <1>2 DEF IInv, OwnerFailsUnsent, Runs
<1>11. AtMostOneData' /\ DataIsLogged' /\ FailedWasNotSent'
  BY DEF IInv, AtMostOneData, DataIsLogged, FailedWasNotSent
<1> QED
  BY <1>1, <1>3, <1>4, <1>5, <1>6, <1>7, <1>8, <1>9, <1>10, <1>11 DEF IInv

\* The steps of an execution that write no table keep the invariant.  The exception
\* handler may say "failed" because, while it owns the lease, the row it reads
\* shows whether its bytes may have left.
LEMMA ExecutionReads ==
  ASSUME IInv, NEW e \in Execs
  PROVE  /\ \A r \in Reqs : SubmitLooksUp(e, r) => IInv'
         /\ SubmitFindsDuplicate(e) => IInv'
         /\ \A r \in Reqs : GuiConfirms(e, r) => IInv'
         /\ ClaimReadsClock(e) => IInv'
         /\ StageReadsClock(e) => IInv'
         /\ StageFails(e) => IInv'
         /\ HandlerInspects(e) => IInv'
         /\ \A related \in BOOLEAN : LooksForPackage(e, related) => IInv'
<1>a. ExecOK(exec[e]) /\ clock \in Nat /\ TypeOK
  BY ExecFacts DEF IInv
<1> USE DEF factVars, ExecOK, ExecState, ExecPcs, At, StagePcs, InFlightPcs
<1>b. ASSUME UNCHANGED factVars
      PROVE  /\ pkg' \in [Reqs -> PkgStates] /\ PkgKept /\ UNCHANGED mapped
             /\ fact' \in [Reqs -> [status : FactStates, package : BOOLEAN]]
  BY <1>a, <1>b DEF TypeOK, PkgKept
<1>1. ASSUME NEW r \in Reqs, SubmitLooksUp(e, r) PROVE IInv'
  <2> DEFINE x == [IdleExec EXCEPT !.pc = "create", !.r = r, !.now = clock]
  <2>1. ExecOK(x) /\ x.pc = "create"
    BY <1>a, IdleExecOK
  <2> QED BY <1>1, <1>b, <2>1, ExecutionMoves DEF SubmitLooksUp
<1>2. ASSUME SubmitFindsDuplicate(e) PROVE IInv'
  BY <1>2, <1>a, ExecutionStops DEF SubmitFindsDuplicate, TypeOK
<1>3. ASSUME NEW r \in Reqs, GuiConfirms(e, r) PROVE IInv'
  <2> DEFINE x == [IdleExec EXCEPT !.pc = "claim", !.r = r, !.gui = TRUE]
  <2>1. ExecOK(x) /\ x.pc = "claim"
    BY <1>a, IdleExecOK
  <2> QED BY <1>3, <1>b, <2>1, ExecutionMoves DEF GuiConfirms
<1>4. ASSUME ClaimReadsClock(e) PROVE IInv'
  <2> DEFINE x == [At(e, "claiming") EXCEPT !.now = clock]
  <2>1. ExecOK(x) /\ x.pc = "claiming"
    BY <1>4, <1>a DEF ClaimReadsClock
  <2> QED BY <1>4, <1>b, <2>1, ExecutionMoves DEF ClaimReadsClock
<1>5. ASSUME StageReadsClock(e) PROVE IInv'
  <2> DEFINE x == [At(e, "staging") EXCEPT !.now = clock]
  <2>1. ExecOK(x) /\ x.pc = "staging" /\ x.k = exec[e].k /\ x.r = exec[e].r
    BY <1>5, <1>a DEF StageReadsClock
  <2> HIDE DEF x
  <2>2. Runs(e, x.r) /\ (x.k >= 6 => PastAcceptance(e))
    BY <1>5, <2>1 DEF StageReadsClock, Runs, PastAcceptance
  <2> QED BY <1>5, <1>b, <2>1, <2>2, ExecutionMoves DEF StageReadsClock, x
<1>6. ASSUME StageFails(e) PROVE IInv'
  <2>1. exec[e].k \in 1..7 /\ exec[e].r \in Reqs /\ Runs(e, exec[e].r)
    BY <1>6, <1>a DEF StageFails, Runs
  <2>2. CASE exec[e].k <= 2
    <3> DEFINE x == [At(e, "settle") EXCEPT !.verdict = "failed", !.now = 0]
    <3>1. ExecOK(x) /\ x.pc = "settle" /\ x.r = exec[e].r
      BY <1>6, <1>a, <2>1 DEF StageFails, Verdicts, TERMINAL_SEND_STATUSES
    <3>2. sends[exec[e].r] = 0
      BY <1>6, <2>1, <2>2 DEF StageFails, IInv, BeforeDataIsUnsent, BeforeData
    <3>3. ExecGoes(e, x)
      BY <1>6, <2>1, <2>2 DEF StageFails
    <3> HIDE DEF x
    <3> QED BY <1>6, <1>b, <2>1, <3>1, <3>2, <3>3, ExecutionMoves DEF StageFails
  <2>3. CASE exec[e].k \in 3..6
    <3> DEFINE x == [At(e, "inspect") EXCEPT !.now = 0]
    <3>1. ExecOK(x) /\ x.pc = "inspect" /\ x.r = exec[e].r
      BY <1>6, <1>a, <2>1 DEF StageFails
    <3>2. ExecGoes(e, x)
      BY <1>6, <2>1, <2>3 DEF StageFails
    <3> HIDE DEF x
    <3> QED BY <1>6, <1>b, <2>1, <3>1, <3>2, ExecutionMoves DEF StageFails
  <2>4. CASE exec[e].k = 7
    BY <1>6, <1>a, <2>4, ExecutionStops DEF StageFails, TypeOK
  <2> QED BY <2>1, <2>2, <2>3, <2>4
<1>7. ASSUME HandlerInspects(e) PROVE IInv'
  <2> DEFINE v == HandlerVerdict(req[exec[e].r])
             x == [At(e, "settle") EXCEPT !.verdict = v]
  <2>1. v \in {"failed", "delivery_unknown", "sent_archive_failed"} /\ v \in Verdicts
    BY DEF HandlerVerdict, Verdicts, TERMINAL_SEND_STATUSES
  <2>2. ExecOK(x) /\ x.pc = "settle" /\ x.r = exec[e].r /\ x.verdict = v /\ exec[e].r \in Reqs
    <3> HIDE DEF v
    <3> QED BY <1>7, <1>a, <2>1 DEF HandlerInspects
  <2>3. Runs(e, exec[e].r)
    BY <1>7 DEF HandlerInspects, Runs
  <2>4. v = "failed" /\ lease[exec[e].r].owner = e => sends[exec[e].r] = 0
    <3>1. v = "failed" => ~req[exec[e].r].accepted /\ req[exec[e].r].stage \notin {"smtp_data_started", "smtp_accepted"}
      BY DEF HandlerVerdict
    <3>2. sends[exec[e].r] \in Nat /\ sends[exec[e].r] <= 1
      BY <1>a, <2>2 DEF IInv, TypeOK, AtMostOneData
    <3> HIDE DEF v
    <3> QED BY <2>2, <2>3, <3>1, <3>2 DEF IInv, OwnerStageIsTrue
  <2>5. ExecGoes(e, x)
    BY <1>7 DEF HandlerInspects
  <2> HIDE DEF v, x
  <2> QED BY <1>7, <1>b, <2>2, <2>3, <2>4, <2>5, ExecutionMoves DEF HandlerInspects
<1>8. ASSUME NEW related \in BOOLEAN, LooksForPackage(e, related) PROVE IInv'
  <2> DEFINE v == IF related THEN "sent" ELSE "sent_archive_failed"
             x == IF pkg[exec[e].r] = "ready" THEN [At(e, "fact") EXCEPT !.link = TRUE, !.verdict = v]
                                              ELSE At(e, "store")
  <2>1. v \in {"sent", "sent_archive_failed"} /\ v \in Verdicts
    BY DEF Verdicts, TERMINAL_SEND_STATUSES
  <2>2. ExecOK(x) /\ x.pc \in {"fact", "store"} /\ x.r = exec[e].r
    <3> HIDE DEF v
    <3> QED BY <1>8, <1>a, <2>1 DEF LooksForPackage
  <2>3. Runs(e, exec[e].r) /\ PastAcceptance(e)
    BY <1>8 DEF LooksForPackage, Runs, PastAcceptance
  <2>4. ExecGoes(e, x)
    BY <1>8 DEF LooksForPackage
  <2> HIDE DEF v, x
  <2> QED BY <1>8, <1>b, <2>2, <2>3, <2>4, ExecutionMoves DEF LooksForPackage
<1> QED
  BY <1>1, <1>2, <1>3, <1>4, <1>5, <1>6, <1>7, <1>8

\* The archive and the facts an execution writes keep the invariant.
LEMMA ExecutionArchives ==
  ASSUME IInv, NEW e \in Execs
  PROVE  /\ RecordsPendingFact(e) => IInv'
         /\ \A result \in ArchiveResults, related \in BOOLEAN : StoresPackage(e, result, related) => IInv'
         /\ RecordsFinalFact(e) => IInv'
<1>a. ExecOK(exec[e]) /\ TypeOK
  BY ExecFacts DEF IInv
<1> USE DEF ExecOK, ExecState, ExecPcs, At, StagePcs, InFlightPcs
<1>1. ASSUME RecordsPendingFact(e) PROVE IInv'
  <2>1. ExecOK(At(e, "stage")) /\ At(e, "stage").r = exec[e].r /\ Runs(e, exec[e].r) /\ PastAcceptance(e)
    BY <1>1, <1>a DEF RecordsPendingFact, Runs, PastAcceptance
  <2>2. fact' \in [Reqs -> [status : FactStates, package : BOOLEAN]]
    BY <1>1, <1>a, RecordFactType DEF RecordsPendingFact, FactStates
  <2>3. pkg' \in [Reqs -> PkgStates] /\ PkgKept
    BY <1>1, <1>a DEF RecordsPendingFact, TypeOK, PkgKept
  <2> QED BY <1>1, <1>a, <2>1, <2>2, <2>3, ExecutionMoves DEF RecordsPendingFact
<1>2. ASSUME NEW result \in ArchiveResults, NEW related \in BOOLEAN, StoresPackage(e, result, related) PROVE IInv'
  <2> DEFINE v == IF result = "ready" /\ related THEN "sent" ELSE "sent_archive_failed"
             linked == result # "none"
             x == [At(e, "fact") EXCEPT !.link = linked, !.verdict = v]
  <2>1. v \in {"sent", "sent_archive_failed"} /\ v \in Verdicts /\ linked \in BOOLEAN
    BY DEF Verdicts, TERMINAL_SEND_STATUSES
  <2>2. ExecOK(x) /\ x.pc = "fact" /\ x.r = exec[e].r /\ exec[e].r \in Reqs
    <3> HIDE DEF v, linked
    <3> QED BY <1>2, <1>a, <2>1 DEF StoresPackage
  <2>3. Runs(e, exec[e].r) /\ PastAcceptance(e)
    BY <1>2 DEF StoresPackage, Runs, PastAcceptance
  <2>4. ExecGoes(e, x) /\ PackageStored(exec[e].r, result)
        /\ UNCHANGED <<storeVars, work, sync, fact, mapped, worldVars, crashes>>
    BY <1>2 DEF StoresPackage
  <2>5. Claimed(exec[e].r)
    BY <2>2, <2>3 DEF IInv, UnclaimedIsQuiet
  <2>6. pkg' \in [Reqs -> PkgStates] /\ PkgKept
    BY <2>2, <2>4, <2>5, PackageStoredType
  <2>7. fact' \in [Reqs -> [status : FactStates, package : BOOLEAN]]
    BY <1>a, <2>4 DEF TypeOK
  <2> HIDE DEF v, linked, x
  <2> QED BY <2>2, <2>3, <2>4, <2>6, <2>7, ExecutionMoves
<1>3. ASSUME RecordsFinalFact(e) PROVE IInv'
  <2>1. /\ ExecOK(At(e, "finish")) /\ At(e, "finish").r = exec[e].r /\ At(e, "finish").pc = "finish"
        /\ Runs(e, exec[e].r) /\ PastAcceptance(e)
    BY <1>3, <1>a DEF RecordsFinalFact, Runs, PastAcceptance
  <2>2. fact' \in [Reqs -> [status : FactStates, package : BOOLEAN]]
    BY <1>3, <1>a, RecordFactType DEF RecordsFinalFact, FactStates
  <2>3. pkg' \in [Reqs -> PkgStates] /\ PkgKept
    BY <1>3, <1>a DEF RecordsFinalFact, TypeOK, PkgKept
  <2> QED BY <1>3, <1>a, <2>1, <2>2, <2>3, ExecutionMoves DEF RecordsFinalFact
<1> QED
  BY <1>1, <1>2, <1>3

\* The last write of an execution keeps the invariant: no other execution runs the
\* request it decides.
LEMMA ExecutionCompletes ==
  ASSUME IInv, NEW e \in Execs, NEW r \in Reqs, Runs(e, r),
         NEW status \in {"failed", "delivery_unknown", "sent", "sent_archive_failed"},
         NEW o \in BOOLEAN, NEW p \in BOOLEAN, status = "failed" => sends[r] = 0,
         CompleteSendRequest(r, status, o, p), ExecGoes(e, IdleExec),
         UNCHANGED <<work, sync, factVars, worldVars, crashes>>
  PROVE  IInv'
<1> USE DEF factVars, worldVars
<1>0. status \in TERMINAL_SEND_STATUSES \ {"cancelled", "expired"} /\ Claimed(r)
  BY DEF TERMINAL_SEND_STATUSES, IInv, UnclaimedIsQuiet
<1>a. /\ req' \in [Reqs -> Row] /\ lease' \in [Reqs -> Lease] /\ clock' \in Nat
      /\ \A q \in Reqs : /\ Claimed(q)' <=> Claimed(q)
                         /\ req'[q].attempts = req[q].attempts
                         /\ req'[q].accepted = req[q].accepted
                         /\ req'[q].mode = req[q].mode
                         /\ req'[q].confirmed = req[q].confirmed
                         /\ q # r => req'[q] = req[q] /\ lease'[q] = lease[q]
      /\ req'[r].status = status /\ lease'[r] = NoLease
  BY <1>0, CompletionEffect
<1>b. NoLease.owner \notin Execs
  BY OwnerAssumption DEF NoLease
<1>c. /\ exec' \in [Execs -> ExecState] /\ ExecShape' /\ exec'[e].pc = "idle"
      /\ \A f \in Execs \ {e} : exec'[f] = exec[f]
  <2>1. ExecOK(IdleExec)
    BY IdleExecOK DEF ExecOK, StagePcs
  <2> QED BY <2>1, IdleExecOK, ExecutionStateMoves
<1>d. \A f \in Execs, q \in Reqs : Runs(f, q)' => Runs(f, q) /\ exec'[f] = exec[f] /\ q # r
  <2>1. \A f \in Execs, q \in Reqs : Runs(f, q)' => Runs(f, q) /\ exec'[f] = exec[f] /\ f # e
    BY <1>c DEF Runs, InFlightPcs, StagePcs
  <2> QED BY <2>1 DEF IInv, OneExecution
<1>1. TypeOK'
  BY <1>a, <1>c DEF IInv, TypeOK, StoreTypeOK
<1>2. WorkShape' /\ SyncShape'
  BY DEF IInv, WorkShape, SyncShape
<1>3. WorkersFollowClaims'
  BY <1>a DEF IInv, WorkShape, WorkersFollowClaims
<1>4. UnclaimedIsQuiet' /\ PendingIsConfirm'
  BY <1>a, <1>0, <1>d DEF IInv, UnclaimedIsQuiet, PendingIsConfirm
<1>5. OneExecution' /\ BeforeDataIsUnsent' /\ DataHasRecord' /\ AcceptanceHasRecord'
  BY <1>a, <1>d DEF IInv, OneExecution, BeforeDataIsUnsent, DataHasRecord, AcceptanceHasRecord, BeforeData, PastAcceptance
<1>6. FirstDataCounts' /\ OwnedIsSendingOrAccepted' /\ OwnerStageIsTrue' /\ OwnerFailsUnsent'
  BY <1>a, <1>b, <1>d DEF IInv, FirstDataCounts, OwnedIsSendingOrAccepted, OwnerStageIsTrue, OwnerFailsUnsent
<1>7. FailedIsOver'
  BY <1>a, <1>d DEF IInv, FailedIsOver
<1>8. AtMostOneData' /\ DataIsLogged' /\ FailedWasNotSent'
  BY <1>a DEF IInv, AtMostOneData, DataIsLogged, FailedWasNotSent
<1> QED
  BY <1>1, <1>2, <1>3, <1>4, <1>5, <1>6, <1>7, <1>8, <1>c DEF IInv

\* Both ways an execution ends keep the invariant, whether or not it still owns
\* the lease.
LEMMA ExecutionEnds ==
  ASSUME IInv, NEW e \in Execs
  PROVE  /\ HandlerSettles(e) => IInv'
         /\ Finishes(e) => IInv'
<1>a. ExecOK(exec[e]) /\ TypeOK
  BY ExecFacts DEF IInv
<1>1. ASSUME HandlerSettles(e) PROVE IInv'
  <2>1. CASE lease[exec[e].r].owner # e /\ UNCHANGED storeVars
    BY <1>1, <1>a, <2>1, ExecutionStops DEF HandlerSettles, TypeOK
  <2>2. CASE CompleteAsOwner(exec[e].r, e, exec[e].verdict, FALSE, FALSE)
    <3>1. Runs(e, exec[e].r) /\ exec[e].r \in Reqs
          /\ exec[e].verdict \in {"failed", "delivery_unknown", "sent", "sent_archive_failed"}
      BY <1>1, <1>a DEF HandlerSettles, Runs, InFlightPcs, ExecOK
    <3>2. exec[e].verdict = "failed" => sends[exec[e].r] = 0
      BY <1>1, <2>2, <3>1 DEF HandlerSettles, CompleteAsOwner, IInv, OwnerFailsUnsent
    <3> QED BY <1>1, <2>2, <3>1, <3>2, ExecutionCompletes DEF HandlerSettles, CompleteAsOwner
  <2> QED BY <1>1, <2>1, <2>2 DEF HandlerSettles
<1>2. ASSUME Finishes(e) PROVE IInv'
  <2>1. CASE lease[exec[e].r].owner # e /\ UNCHANGED storeVars
    BY <1>2, <1>a, <2>1, ExecutionStops DEF Finishes, TypeOK
  <2>2. CASE CompleteAsOwner(exec[e].r, e, exec[e].verdict, TRUE, exec[e].link)
    <3>1. Runs(e, exec[e].r) /\ exec[e].r \in Reqs /\ exec[e].link \in BOOLEAN
          /\ exec[e].verdict \in {"sent", "sent_archive_failed"}
      BY <1>2, <1>a DEF Finishes, Runs, InFlightPcs, ExecOK, ExecState
    <3> QED BY <1>2, <2>2, <3>1, ExecutionCompletes DEF Finishes, CompleteAsOwner
  <2> QED BY <1>2, <2>1, <2>2 DEF Finishes
<1> QED
  BY <1>1, <1>2

\* create_send_request keeps the invariant.
LEMMA SubmissionCreates ==
  ASSUME IInv, NEW e \in Execs, NEW mode \in Modes, SubmitCreates(e, mode)
  PROVE  IInv'
<1> USE DEF factVars, worldVars
<1> DEFINE r == exec[e].r
           status == IF mode = "confirm" THEN "pending_confirmation" ELSE "ready_to_send"
           row == [AbsentRow EXCEPT !.mode = mode, !.deadline = exec[e].now + ConfirmTicks,
                     !.status = status,
                     !.stage = IF mode = "confirm" THEN "pending_confirmation" ELSE "ready"]
           x == IF mode = "autonomous" THEN [At(e, "claim") EXCEPT !.now = 0] ELSE IdleExec
<1>1. ExecOK(exec[e]) /\ req \in [Reqs -> Row] /\ lease \in [Reqs -> Lease] /\ clock \in Nat
  BY ExecFacts
<1>2. r \in Reqs /\ mode \in {"confirm", "autonomous"} /\ ~Claimed(r)
  BY <1>1, ActorAssumption DEF SubmitCreates, ExecOK, CreateSendRequest, Claimed, PreClaim
<1>3. ExecOK(x) /\ x.pc \in {"claim", "idle"}
  BY <1>1, <1>2, IdleExecOK DEF SubmitCreates, ExecOK, ExecState, ExecPcs, At, StagePcs
<1>4. row \in Row /\ row.attempts = 0 /\ ~row.confirmed /\ row.status = status /\ row.mode = mode
  <2>1. exec[e].now + ConfirmTicks \in Nat
    BY <1>1, LeaseAssumption DEF ExecOK, ExecState
  <2>2. AbsentRow \in Row /\ AbsentRow.attempts = 0 /\ ~AbsentRow.confirmed
    BY AlphabetTypes DEF AbsentRow
  <2> QED BY <1>2, <2>1, <2>2 DEF Row, RowStages, Statuses, PreClaim
<1>5. status \in PreClaim /\ (status = "pending_confirmation" => mode = "confirm")
  BY DEF PreClaim
<1>6. req' = [req EXCEPT ![r] = row] /\ UNCHANGED <<clock, lease, work, sync, factVars, worldVars, crashes>>
      /\ ExecGoes(e, x)
  BY DEF SubmitCreates, CreateSendRequest
<1> HIDE DEF r, row, x, status
<1>7. /\ exec' \in [Execs -> ExecState] /\ ExecShape' /\ exec'[e] = x
      /\ \A f \in Execs \ {e} : exec'[f] = exec[f]
  BY <1>3, <1>6, ExecutionStateMoves
<1>8. \A f \in Execs, q \in Reqs : Runs(f, q)' => Runs(f, q) /\ exec'[f] = exec[f] /\ q # r
  <2>1. \A f \in Execs, q \in Reqs : Runs(f, q)' => Runs(f, q) /\ exec'[f] = exec[f]
    BY <1>3, <1>7 DEF Runs, InFlightPcs, StagePcs
  <2> QED BY <1>2, <2>1 DEF IInv, UnclaimedIsQuiet
<1>9. req' \in [Reqs -> Row] /\ req'[r] = row /\ \A q \in Reqs \ {r} : req'[q] = req[q]
  BY <1>1, <1>2, <1>4, <1>6
<1>10. \A q \in Reqs : (q = r => ~Claimed(q)') /\ (Claimed(q)' <=> Claimed(q))
  BY <1>2, <1>4, <1>5, <1>9 DEF Claimed
<1>11. TypeOK'
  BY <1>6, <1>7, <1>9 DEF IInv, TypeOK, StoreTypeOK
<1>12. WorkShape' /\ SyncShape'
  BY <1>6 DEF IInv, WorkShape, SyncShape
<1>13. WorkersFollowClaims'
  BY <1>6, <1>10 DEF IInv, WorkShape, WorkersFollowClaims
<1>14. UnclaimedIsQuiet' /\ PendingIsConfirm'
  BY <1>4, <1>5, <1>6, <1>8, <1>9, <1>10 DEF IInv, UnclaimedIsQuiet, PendingIsConfirm
<1>15. OneExecution' /\ BeforeDataIsUnsent' /\ FirstDataCounts' /\ DataHasRecord' /\ AcceptanceHasRecord'
  BY <1>6, <1>8, <1>9 DEF IInv, OneExecution, BeforeDataIsUnsent, FirstDataCounts, DataHasRecord, AcceptanceHasRecord, BeforeData, PastAcceptance
<1>16. lease[r].owner \notin Execs /\ sends[r] = 0
  BY <1>2, OwnerAssumption DEF IInv, UnclaimedIsQuiet, NoLease
<1>17. OwnedIsSendingOrAccepted' /\ OwnerStageIsTrue' /\ OwnerFailsUnsent' /\ FailedIsOver'
  BY <1>6, <1>8, <1>9, <1>16 DEF IInv, OwnedIsSendingOrAccepted, OwnerStageIsTrue, OwnerFailsUnsent, FailedIsOver
<1>18. AtMostOneData' /\ DataIsLogged' /\ FailedWasNotSent'
  BY <1>4, <1>6, <1>9, <1>16 DEF IInv, AtMostOneData, DataIsLogged, FailedWasNotSent
<1> QED
  BY <1>7, <1>11, <1>12, <1>13, <1>14, <1>15, <1>17, <1>18 DEF IInv

\* The claim is what makes an execution the only one.
LEMMA ExecutionClaims ==
  ASSUME IInv, NEW e \in Execs, ClaimSucceeds(e)
  PROVE  IInv'
<1> USE DEF factVars, worldVars
<1> DEFINE r == exec[e].r
           c == req[r].confirmed \/ exec[e].gui
           row == [req[r] EXCEPT !.status = "sending", !.stage = "lease_acquired", !.confirmed = c]
           l == [owner |-> e, expires |-> exec[e].now + LeaseTicks, stage |-> "lease_acquired"]
           x == [At(e, "stage") EXCEPT !.k = 1, !.gui = FALSE, !.now = 0]
<1>1. ExecOK(exec[e]) /\ req \in [Reqs -> Row] /\ lease \in [Reqs -> Lease] /\ clock \in Nat
  BY ExecFacts
<1>2. r \in Reqs /\ ~Claimed(r)
  BY <1>1 DEF ClaimSucceeds, ExecOK, ClaimForSend, Claimable, ExpectedStatus, Claimed, PreClaim
<1>3. ExecOK(x) /\ x.pc = "stage" /\ x.k = 1 /\ x.r = r
  <2> DEFINE first == 1  zero == 0  no == FALSE
             y == [At(e, "stage") EXCEPT !.k = first, !.gui = no, !.now = zero]
  <2>1. y \in ExecState /\ y.pc = "stage" /\ y.k = first /\ y.r = exec[e].r
    <3>1. first \in 0..8 /\ zero \in Nat /\ no \in BOOLEAN /\ exec[e] \in ExecState
      BY <1>1 DEF ExecOK
    <3> HIDE DEF first, zero, no
    <3> QED BY <3>1 DEF ExecState, ExecPcs, At
  <2>2. x = y /\ y.k = 1 /\ y.r = r
    BY <2>1
  <2> HIDE DEF x, y, r
  <2> QED BY <1>2, <2>1, <2>2 DEF ExecOK, StagePcs
<1>4. row \in Row /\ row.attempts = req[r].attempts /\ row.status = "sending" /\ row.mode = req[r].mode
  <2>1. c \in BOOLEAN
    OBVIOUS
  <2> HIDE DEF c
  <2>2. req[r] \in Row /\ "sending" \in Statuses /\ "lease_acquired" \in RowStages
    BY <1>1, <1>2, AlphabetTypes DEF LeaseStages
  <2> HIDE DEF r
  <2> QED BY <2>1, <2>2 DEF Row
<1>5. l \in Lease /\ l.owner = e /\ l.stage = "lease_acquired"
  BY <1>1, LeaseAssumption DEF Lease, LeaseStages, ExecOK, ExecState
<1>6. /\ req' = [req EXCEPT ![r] = row] /\ lease' = [lease EXCEPT ![r] = l]
      /\ UNCHANGED <<clock, work, sync, factVars, worldVars, crashes>>
      /\ ExecGoes(e, x)
  BY <1>1, <1>2 DEF ClaimSucceeds, ClaimForSend
<1> HIDE DEF r, row, x, l
<1>7. /\ exec' \in [Execs -> ExecState] /\ ExecShape' /\ exec'[e] = x
      /\ \A f \in Execs \ {e} : exec'[f] = exec[f]
  BY <1>3, <1>6, ExecutionStateMoves
<1>8. \A f \in Execs, q \in Reqs :
        Runs(f, q)' => (f = e /\ q = r) \/ (f # e /\ q # r /\ Runs(f, q) /\ exec'[f] = exec[f])
  <2>1. \A f \in Execs : ~Runs(f, r)
    BY <1>2 DEF IInv, UnclaimedIsQuiet
  <2> QED BY <1>3, <1>7, <2>1 DEF Runs
<1>9. /\ req' \in [Reqs -> Row] /\ req'[r] = row /\ \A q \in Reqs \ {r} : req'[q] = req[q]
      /\ lease' \in [Reqs -> Lease] /\ lease'[r] = l /\ \A q \in Reqs \ {r} : lease'[q] = lease[q]
  BY <1>1, <1>2, <1>4, <1>5, <1>6
<1>10. \A q \in Reqs : (q = r => Claimed(q)') /\ (Claimed(q) => Claimed(q)')
  BY <1>4, <1>9 DEF Claimed, PreClaim
<1>11. TypeOK'
  BY <1>6, <1>7, <1>9 DEF IInv, TypeOK, StoreTypeOK
<1>12. WorkShape' /\ SyncShape'
  BY <1>6 DEF IInv, WorkShape, SyncShape
<1>13. WorkersFollowClaims'
  BY <1>6, <1>10 DEF IInv, WorkShape, WorkersFollowClaims
<1>14. UnclaimedIsQuiet' /\ PendingIsConfirm'
  <2>1. \A q \in Reqs : ~Claimed(q)' => q # r /\ ~Claimed(q)
    BY <1>10
  <2>2. \A q \in Reqs : ~Claimed(q)' => \A f \in Execs : ~Runs(f, q)'
    BY <1>8, <2>1 DEF IInv, UnclaimedIsQuiet
  <2> QED BY <1>4, <1>6, <1>9, <2>1, <2>2 DEF IInv, UnclaimedIsQuiet, PendingIsConfirm
<1>15. sends[r] = 0
  BY <1>2 DEF IInv, UnclaimedIsQuiet
<1>16. OneExecution' /\ BeforeDataIsUnsent'
  BY <1>6, <1>8, <1>15 DEF IInv, OneExecution, BeforeDataIsUnsent, BeforeData
<1>17. FirstDataCounts' /\ DataHasRecord' /\ AcceptanceHasRecord'
  BY <1>3, <1>5, <1>7, <1>8, <1>9 DEF IInv, FirstDataCounts, DataHasRecord, AcceptanceHasRecord, PastAcceptance, CountedAfter
<1>18. OwnedIsSendingOrAccepted' /\ OwnerStageIsTrue' /\ OwnerFailsUnsent' /\ FailedIsOver'
  BY <1>3, <1>4, <1>6, <1>7, <1>8, <1>9, <1>15 DEF IInv, OwnedIsSendingOrAccepted, OwnerStageIsTrue, OwnerFailsUnsent, FailedIsOver
<1>19. AtMostOneData' /\ DataIsLogged' /\ FailedWasNotSent'
  BY <1>4, <1>6, <1>9, <1>15 DEF IInv, AtMostOneData, DataIsLogged, FailedWasNotSent
<1> QED
  BY <1>7, <1>11, <1>12, <1>13, <1>14, <1>16, <1>17, <1>18, <1>19 DEF IInv

\* A claim that fails keeps the invariant: a takeover of a stale lease, an expiry
\* found late, a refusal.
LEMMA ExecutionFailsToClaim ==
  ASSUME IInv, NEW e \in Execs, ClaimFails(e)
  PROVE  IInv'
<1> USE DEF factVars, worldVars
<1> DEFINE r == exec[e].r  now == exec[e].now
<1>1. /\ ExecOK(exec[e]) /\ req \in [Reqs -> Row] /\ lease \in [Reqs -> Lease] /\ clock \in Nat
      /\ r \in Reqs /\ now \in Nat
  BY ExecFacts DEF ClaimFails, ExecOK, ExecState
<1>2. /\ ExecGoes(e, IdleExec) /\ UNCHANGED <<work, sync, factVars, worldVars, crashes>>
  BY DEF ClaimFails
<1>3. ExecOK(IdleExec)
  BY IdleExecOK DEF ExecOK, StagePcs
<1>4. /\ exec' \in [Execs -> ExecState] /\ ExecShape' /\ exec'[e].pc = "idle"
      /\ \A f \in Execs \ {e} : exec'[f] = exec[f]
  BY <1>2, <1>3, IdleExecOK, ExecutionStateMoves
<1>5. CASE ClaimTakesOverStaleLease(r, now)
  <2> DEFINE row == [req[r] EXCEPT !.status = "recovery_required", !.stage = "stale_lease"]
             l == [lease[r] EXCEPT !.owner = Recovery, !.expires = now]
  <2>1. /\ row \in Row /\ row.attempts = req[r].attempts /\ row.status = "recovery_required"
        /\ row.mode = req[r].mode /\ row.accepted = req[r].accepted
    <3>1. req[r] \in Row /\ "recovery_required" \in Statuses /\ "stale_lease" \in RowStages
      BY <1>1, AlphabetTypes
    <3> HIDE DEF r
    <3> QED BY <3>1 DEF Row
  <2>2. l \in Lease /\ l.owner = Recovery
    BY <1>1 DEF Lease
  <2>3. req' = [req EXCEPT ![r] = row] /\ lease' = [lease EXCEPT ![r] = l] /\ UNCHANGED clock
        /\ req[r].status = "sending"
    BY <1>1, <1>5 DEF ClaimTakesOverStaleLease, StaleLease
  <2> HIDE DEF r, now, row, l
  <2>4. /\ req' \in [Reqs -> Row] /\ req'[r] = row /\ \A q \in Reqs \ {r} : req'[q] = req[q]
        /\ lease' \in [Reqs -> Lease] /\ lease'[r] = l /\ \A q \in Reqs \ {r} : lease'[q] = lease[q]
    BY <1>1, <2>1, <2>2, <2>3
  <2>5. \A f \in Execs, q \in Reqs : Runs(f, q)' => Runs(f, q) /\ exec'[f] = exec[f]
    BY <1>4 DEF Runs, InFlightPcs, StagePcs
  <2>6. \A q \in Reqs : Claimed(q)' <=> Claimed(q)
    BY <2>1, <2>3, <2>4 DEF Claimed, PreClaim
  <2>7. TypeOK'
    BY <1>2, <1>4, <2>3, <2>4 DEF IInv, TypeOK, StoreTypeOK
  <2>8. WorkShape' /\ SyncShape'
    BY <1>2 DEF IInv, WorkShape, SyncShape
  <2>9. WorkersFollowClaims'
    BY <1>2, <2>6 DEF IInv, WorkShape, WorkersFollowClaims
  <2>10. UnclaimedIsQuiet' /\ PendingIsConfirm'
    <3>1. Claimed(r)
      BY <2>3 DEF Claimed, PreClaim
    <3> QED BY <1>2, <2>1, <2>4, <2>5, <2>6, <3>1 DEF IInv, UnclaimedIsQuiet, PendingIsConfirm
  <2>11. OneExecution' /\ BeforeDataIsUnsent' /\ DataHasRecord' /\ AcceptanceHasRecord'
    BY <1>2, <2>1, <2>4, <2>5 DEF IInv, OneExecution, BeforeDataIsUnsent, DataHasRecord, AcceptanceHasRecord, BeforeData, PastAcceptance
  <2>12. FirstDataCounts' /\ OwnedIsSendingOrAccepted' /\ OwnerStageIsTrue' /\ OwnerFailsUnsent'
    BY <1>2, <2>2, <2>4, <2>5, OwnerAssumption DEF IInv, FirstDataCounts, OwnedIsSendingOrAccepted, OwnerStageIsTrue, OwnerFailsUnsent
  <2>13. FailedIsOver'
    BY <2>1, <2>4, <2>5 DEF IInv, FailedIsOver
  <2>14. AtMostOneData' /\ DataIsLogged' /\ FailedWasNotSent'
    BY <1>2, <2>1, <2>4 DEF IInv, AtMostOneData, DataIsLogged, FailedWasNotSent
  <2> QED
    BY <1>4, <2>7, <2>8, <2>9, <2>10, <2>11, <2>12, <2>13, <2>14 DEF IInv
<1>6. CASE ClaimFindsExpired(r, now)
  <2>1. \A f \in Execs : exec'[f] = exec[f] \/ exec'[f].pc = "idle"
    BY <1>4
  <2> QED BY <1>1, <1>2, <1>4, <1>6, <2>1, WithdrawalIsHarmless DEF ClaimFindsExpired, Expire
<1>7. CASE ClaimRefused(r, now, exec[e].gui)
  BY <1>2, <1>7, ExecutionStops DEF ClaimRefused, IInv, TypeOK
<1> QED
  BY <1>5, <1>6, <1>7 DEF ClaimFails

\* What recording the k-th stage does to the row and the lease of r.
LEMMA StageEffect ==
  ASSUME IInv, NEW e \in Execs, StageCommits(e), NEW r \in Reqs, exec[e].r = r,
         NEW k \in 1..7, exec[e].k = k
  PROVE  /\ req' \in [Reqs -> Row] /\ lease' \in [Reqs -> Lease] /\ UNCHANGED clock
         /\ \A q \in Reqs \ {r} : req'[q] = req[q] /\ lease'[q] = lease[q]
         /\ lease[r].owner = e /\ lease'[r].owner = e /\ lease'[r].stage = StageOrder[k]
         /\ req'[r].mode = req[r].mode /\ req'[r].stage = StageOrder[k]
         /\ req'[r].confirmed = req[r].confirmed
         /\ req'[r].accepted \in BOOLEAN
         /\ k \in {5, 6} => req'[r].accepted /\ req'[r].status = "smtp_accepted"
         /\ k \notin {5, 6} => req'[r].accepted = req[r].accepted /\ req'[r].status = req[r].status
         /\ req'[r].attempts >= req[r].attempts
         /\ k = 4 /\ lease[r].stage \notin CountedAfter => req'[r].attempts = req[r].attempts + 1
<1> DEFINE row == req[r]  stage == StageOrder[k]
<1>1. req \in [Reqs -> Row] /\ lease \in [Reqs -> Lease] /\ row \in Row /\ clock \in Nat /\ exec[e].now \in Nat
  BY ExecFacts DEF ExecOK, ExecState
<1>2. /\ stage \in LeaseStages
      /\ k \in {5, 6} <=> stage = "smtp_accepted"
      /\ k = 4 <=> stage = "smtp_data_started"
      /\ k = 1 => stage = "mime_built"
  BY DEF StageOrder, LeaseStages
<1>3. exec[e].now + LeaseTicks \in Nat /\ clock + LeaseTicks \in Nat
  BY <1>1, LeaseAssumption
<1>4. CASE k = 1
  <2> DEFINE new == [row EXCEPT !.mime = TRUE, !.stage = "mime_built"]
             l == [lease[r] EXCEPT !.expires = clock + LeaseTicks, !.stage = "mime_built"]
  <2>1. req' = [req EXCEPT ![r] = new] /\ lease' = [lease EXCEPT ![r] = l] /\ clock' = clock /\ lease[r].owner = e
    BY <1>1, <1>4 DEF StageCommits, RecordSendMime, LeaseHeld
  <2>2. new \in Row /\ new.stage = "mime_built" /\ new.mode = row.mode /\ new.accepted = row.accepted
        /\ new.status = row.status /\ new.attempts = row.attempts /\ new.confirmed = row.confirmed
        /\ row.accepted \in BOOLEAN /\ row.attempts \in Nat
    <3>1. "mime_built" \in RowStages
      BY <1>2, <1>4, AlphabetTypes
    <3> HIDE DEF row
    <3> QED BY <1>1, <3>1 DEF Row
  <2>3. l \in Lease /\ l.owner = lease[r].owner /\ l.stage = "mime_built"
    BY <1>1, <1>3 DEF Lease, LeaseStages
  <2> HIDE DEF new, l
  <2> QED BY <1>1, <1>2, <1>4, <2>1, <2>2, <2>3
<1>5. CASE k # 1
  <2> DEFINE new == StageRecorded(row, lease[r].stage, stage)
             l == [lease[r] EXCEPT !.expires = exec[e].now + LeaseTicks, !.stage = stage]
  <2>1. req' = [req EXCEPT ![r] = new] /\ lease' = [lease EXCEPT ![r] = l] /\ clock' = clock /\ lease[r].owner = e
    BY <1>1, <1>5 DEF StageCommits, RecordSendStage, LeaseHeld
  <2>2. lease[r].stage \in LeaseStages
    BY <1>1 DEF Lease
  <2>3. new \in Row
    BY <1>1, <1>2, <2>2, StageRecordedType
  <2>4. /\ new.stage = stage /\ new.mode = row.mode /\ new.confirmed = row.confirmed
        /\ stage = "smtp_accepted" => new.accepted /\ new.status = "smtp_accepted"
        /\ stage # "smtp_accepted" => new.accepted = row.accepted /\ new.status = row.status
        /\ new.attempts >= row.attempts
        /\ stage = "smtp_data_started" /\ lease[r].stage \notin CountedAfter => new.attempts = row.attempts + 1
    BY <1>1, StageRecordedFields
  <2>5. new.accepted \in BOOLEAN
    BY <2>3 DEF Row
  <2>6. l \in Lease /\ l.owner = lease[r].owner /\ l.stage = stage
    BY <1>1, <1>2, <1>3 DEF Lease
  <2> HIDE DEF new, l
  <2> QED BY <1>1, <1>2, <1>5, <2>1, <2>3, <2>4, <2>5, <2>6
<1> QED
  BY <1>4, <1>5

\* Recording a stage keeps the invariant: the DATA stage is counted before the
\* bytes leave, the acceptance is recorded before the archive.
LEMMA StageIsRecorded ==
  ASSUME IInv, NEW e \in Execs, StageCommits(e)
  PROVE  IInv'
<1> USE DEF factVars, worldVars
<1>1. PICK r \in Reqs, k \in 1..7 : r = exec[e].r /\ k = exec[e].k
  BY ExecFacts DEF StageCommits, ExecOK, StagePcs
<1> DEFINE pc == PcAfterStage(k)
           x == [At(e, pc) EXCEPT !.k = k + 1, !.now = 0]
<1>2. /\ req' \in [Reqs -> Row] /\ lease' \in [Reqs -> Lease] /\ UNCHANGED clock
      /\ \A q \in Reqs \ {r} : req'[q] = req[q] /\ lease'[q] = lease[q]
      /\ lease[r].owner = e /\ lease'[r].owner = e /\ lease'[r].stage = StageOrder[k]
      /\ req'[r].mode = req[r].mode /\ req'[r].stage = StageOrder[k]
      /\ req'[r].accepted \in BOOLEAN
      /\ k \in {5, 6} => req'[r].accepted /\ req'[r].status = "smtp_accepted"
      /\ k \notin {5, 6} => req'[r].accepted = req[r].accepted /\ req'[r].status = req[r].status
      /\ req'[r].attempts >= req[r].attempts
      /\ k = 4 /\ lease[r].stage \notin CountedAfter => req'[r].attempts = req[r].attempts + 1
  BY <1>1, StageEffect
<1>3. /\ k \in {1, 2, 3} => pc = "stage" /\ StageOrder[k] \notin CountedAfter
      /\ k = 4 => pc = "data" /\ StageOrder[k] = "smtp_data_started"
      /\ (k = 5 => pc = "stage") /\ (k = 6 => pc = "pending") /\ (k = 7 => pc = "archive")
  BY DEF PcAfterStage, StageOrder, CountedAfter
<1>4. pc \in {"stage", "data", "pending", "archive"}
      /\ (pc = "stage" => k \in {1, 2, 3, 5}) /\ (pc = "data" => k = 4)
      /\ (pc = "pending" => k = 6) /\ (pc = "archive" => k = 7)
  BY DEF PcAfterStage, StageOrder
<1>5. ExecOK(exec[e]) /\ exec[e].pc = "staging" /\ Runs(e, r)
  BY <1>1, ExecFacts DEF StageCommits, Runs, InFlightPcs, StagePcs
<1>6. ExecOK(x) /\ x.pc = pc /\ x.k = k + 1 /\ x.r = r
  <2> DEFINE n == k + 1  zero == 0
             y == [At(e, pc) EXCEPT !.k = n, !.now = zero]
  <2>1. pc \in ExecPcs
    BY <1>4 DEF ExecPcs
  <2>2. y \in ExecState /\ y.pc = pc /\ y.k = n /\ y.r = r
    <3>1. n \in 0..8 /\ zero \in Nat /\ exec[e] \in ExecState
      BY <1>5 DEF ExecOK
    <3> HIDE DEF n, zero, pc
    <3> QED BY <1>1, <2>1, <3>1 DEF ExecState, At
  <2>3. x = y
    OBVIOUS
  <2> HIDE DEF x, y, pc
  <2> QED BY <1>4, <2>2, <2>3 DEF ExecOK, StagePcs, n
<1>7. ExecGoes(e, x) /\ UNCHANGED <<work, sync, factVars, worldVars, crashes>>
  BY <1>1 DEF StageCommits
<1> HIDE DEF x, pc
<1>8. /\ exec' \in [Execs -> ExecState] /\ ExecShape' /\ exec'[e] = x
      /\ \A f \in Execs \ {e} : exec'[f] = exec[f]
  BY <1>6, <1>7, ExecutionStateMoves
<1>9. \A f \in Execs, q \in Reqs :
        Runs(f, q)' => Runs(f, q) /\ ((f = e /\ q = r) \/ (f # e /\ q # r /\ exec'[f] = exec[f]))
  <2>1. \A f \in Execs : Runs(f, r) => f = e
    BY <1>5 DEF IInv, OneExecution
  <2> QED BY <1>5, <1>6, <1>8, <2>1 DEF Runs
<1>10. Claimed(r) /\ req[r].status # "failed"
  BY <1>5 DEF IInv, UnclaimedIsQuiet, FailedIsOver
<1>11. \A q \in Reqs : Claimed(q)' <=> Claimed(q)
  <2>1. \A q \in Reqs : q = r => Claimed(q)'
    BY <1>2, <1>10 DEF Claimed, PreClaim
  <2> QED BY <1>2, <1>10, <2>1 DEF Claimed
<1>12. sends \in [Reqs -> Nat] /\ sends[r] \in Nat /\ req[r].attempts \in Nat /\ req'[r].attempts \in Nat
       /\ sends[r] <= 1 /\ sends[r] <= req[r].attempts
  BY <1>2 DEF IInv, TypeOK, StoreTypeOK, Row, AtMostOneData, DataIsLogged
<1>13. k <= 4 => sends[r] = 0 /\ lease[r].stage \notin CountedAfter
  BY <1>1, <1>2, <1>5 DEF IInv, BeforeDataIsUnsent, FirstDataCounts, BeforeData, StagePcs
<1>14. k >= 6 => req[r].accepted
  BY <1>1, <1>5 DEF IInv, AcceptanceHasRecord, PastAcceptance, StagePcs
<1>15. TypeOK'
  BY <1>2, <1>7, <1>8 DEF IInv, TypeOK, StoreTypeOK
<1>16. WorkShape' /\ SyncShape'
  BY <1>7 DEF IInv, WorkShape, SyncShape
<1>17. WorkersFollowClaims'
  BY <1>7, <1>11 DEF IInv, WorkShape, WorkersFollowClaims
<1>18. UnclaimedIsQuiet' /\ PendingIsConfirm'
  <2>1. PendingIsConfirm'
    BY <1>2 DEF IInv, PendingIsConfirm
  <2>2. UnclaimedIsQuiet'
    BY <1>2, <1>7, <1>9, <1>10, <1>11 DEF IInv, UnclaimedIsQuiet
  <2> QED BY <2>1, <2>2
<1>19. OneExecution'
  BY <1>9 DEF IInv, OneExecution
<1>20. BeforeDataIsUnsent'
  <2>1. BeforeData(e)' => k <= 4
    BY <1>4, <1>6, <1>8 DEF BeforeData
  <2> QED BY <1>7, <1>9, <1>13, <2>1 DEF IInv, BeforeDataIsUnsent, BeforeData
<1>21. FirstDataCounts'
  <2>1. exec'[e].pc \in StagePcs /\ exec'[e].k <= 4 => k \in {1, 2, 3}
    BY <1>4, <1>6, <1>8 DEF StagePcs
  <2> QED BY <1>2, <1>3, <1>9, <2>1 DEF IInv, FirstDataCounts
<1>22. DataHasRecord'
  <2>1. exec'[e].pc = "data" => req'[r].attempts >= 1
    BY <1>2, <1>4, <1>6, <1>8, <1>12, <1>13
  <2> QED BY <1>2, <1>9, <2>1 DEF IInv, DataHasRecord
<1>23. AcceptanceHasRecord'
  <2>1. PastAcceptance(e)' => k >= 5
    BY <1>4, <1>6, <1>8 DEF PastAcceptance, StagePcs
  <2>2. k >= 5 => req'[r].accepted
    BY <1>2, <1>14
  <2> QED BY <1>2, <1>9, <2>1, <2>2 DEF IInv, AcceptanceHasRecord, PastAcceptance
<1>24. OwnedIsSendingOrAccepted' /\ OwnerFailsUnsent' /\ FailedIsOver'
  <2>1. OwnedIsSendingOrAccepted'
    BY <1>2 DEF IInv, OwnedIsSendingOrAccepted
  <2>2. OwnerFailsUnsent'
    BY <1>2, <1>4, <1>6, <1>7, <1>8, <1>9 DEF IInv, OwnerFailsUnsent
  <2>3. FailedIsOver'
    BY <1>2, <1>9, <1>10 DEF IInv, FailedIsOver
  <2> QED BY <2>1, <2>2, <2>3
<1>25. OwnerStageIsTrue'
  <2>1. k \in {1, 2, 3} => sends[r] = 0 /\ exec'[e].pc = "stage"
    BY <1>3, <1>6, <1>8, <1>13
  <2>2. k \in 4..7 => req'[r].accepted \/ req'[r].stage = "smtp_data_started"
    BY <1>2, <1>3, <1>14
  <2> QED BY <1>2, <1>7, <1>9, <2>1, <2>2 DEF IInv, OwnerStageIsTrue
<1>26. AtMostOneData' /\ DataIsLogged' /\ FailedWasNotSent'
  BY <1>2, <1>7, <1>10, <1>12 DEF IInv, AtMostOneData, DataIsLogged, FailedWasNotSent
<1> QED
  BY <1>8, <1>15, <1>16, <1>17, <1>18, <1>19, <1>20, <1>21, <1>22, <1>23, <1>24, <1>25, <1>26 DEF IInv

\* server.sendmail keeps the invariant: it is the first transmission and it is on
\* record.
LEMMA DataIsSent ==
  ASSUME IInv, NEW e \in Execs, NEW taken \in BOOLEAN, NEW answered \in BOOLEAN, SendData(e, taken, answered)
  PROVE  IInv'
<1> USE DEF factVars, storeVars
<1>1. PICK r \in Reqs : r = exec[e].r
  BY ExecFacts DEF SendData, ExecOK
<1> DEFINE pc == IF taken /\ answered THEN "stage" ELSE "inspect"
           took == delivered[r] \/ taken
           x == At(e, pc)
<1>2. ExecOK(exec[e]) /\ exec[e].pc = "data" /\ exec[e].k = 5 /\ Runs(e, r)
  BY <1>1, ExecFacts DEF SendData, ExecOK, Runs, InFlightPcs
<1>3. pc \in {"stage", "inspect"} /\ took \in BOOLEAN
  OBVIOUS
<1>4. /\ sends' = [sends EXCEPT ![r] = @ + 1] /\ delivered' = [delivered EXCEPT ![r] = took]
      /\ ExecGoes(e, x) /\ UNCHANGED <<storeVars, work, sync, factVars, said, crashes>>
  BY <1>1 DEF SendData
<1> HIDE DEF pc, took
<1>5. ExecOK(x) /\ x.pc = pc /\ x.k = 5 /\ x.r = r
  BY <1>1, <1>2, <1>3 DEF ExecOK, ExecState, ExecPcs, At, StagePcs
<1> HIDE DEF x
<1>6. /\ exec' \in [Execs -> ExecState] /\ ExecShape' /\ exec'[e] = x
      /\ \A f \in Execs \ {e} : exec'[f] = exec[f]
  BY <1>4, <1>5, ExecutionStateMoves
<1>7. \A f \in Execs, q \in Reqs :
        Runs(f, q)' => Runs(f, q) /\ ((f = e /\ q = r) \/ (f # e /\ q # r /\ exec'[f] = exec[f]))
  <2>1. \A f \in Execs : Runs(f, r) => f = e
    BY <1>2 DEF IInv, OneExecution
  <2> QED BY <1>2, <1>5, <1>6, <2>1 DEF Runs
<1>8. Claimed(r) /\ req[r].status # "failed" /\ req[r].attempts \in Nat /\ req[r].attempts >= 1
  BY <1>2 DEF IInv, UnclaimedIsQuiet, FailedIsOver, DataHasRecord, TypeOK, StoreTypeOK, Row
<1>9. /\ sends \in [Reqs -> Nat] /\ sends[r] = 0 /\ delivered \in [Reqs -> BOOLEAN]
      /\ sends' \in [Reqs -> Nat] /\ sends'[r] = 1 /\ \A q \in Reqs \ {r} : sends'[q] = sends[q]
      /\ delivered' \in [Reqs -> BOOLEAN] /\ \A q \in Reqs \ {r} : delivered'[q] = delivered[q]
  <2>1. sends \in [Reqs -> Nat] /\ delivered \in [Reqs -> BOOLEAN]
    BY DEF IInv, TypeOK
  <2>2. sends[r] = 0
    BY <1>2 DEF IInv, BeforeDataIsUnsent, BeforeData
  <2> QED BY <1>3, <1>4, <2>1, <2>2
<1>a. \A q \in Reqs : delivered[q] => delivered'[q]
  <2>1. delivered[r] => took
    BY DEF took
  <2>2. delivered'[r] = took
    BY <1>4, <1>9
  <2> QED BY <1>9, <2>1, <2>2
<1>10. TypeOK'
  BY <1>4, <1>6, <1>9 DEF IInv, TypeOK, StoreTypeOK
<1>11. WorkShape' /\ WorkersFollowClaims'
  BY <1>4 DEF IInv, WorkShape, WorkersFollowClaims, Claimed
<1>12. SyncShape'
  BY <1>4, <1>a DEF IInv, SyncShape
<1>13. \A q \in Reqs : Claimed(q)' <=> Claimed(q)
  BY <1>4 DEF Claimed
<1>14. UnclaimedIsQuiet' /\ PendingIsConfirm'
  BY <1>4, <1>7, <1>8, <1>9, <1>13 DEF IInv, UnclaimedIsQuiet, PendingIsConfirm
<1>15. OneExecution'
  BY <1>7 DEF IInv, OneExecution
<1>16. BeforeDataIsUnsent' /\ DataHasRecord' /\ AcceptanceHasRecord'
  BY <1>3, <1>4, <1>5, <1>6, <1>7, <1>9 DEF IInv, BeforeDataIsUnsent, DataHasRecord, AcceptanceHasRecord, BeforeData, PastAcceptance
<1>17. FirstDataCounts' /\ OwnedIsSendingOrAccepted' /\ FailedIsOver'
  BY <1>3, <1>4, <1>5, <1>6, <1>7 DEF IInv, FirstDataCounts, OwnedIsSendingOrAccepted, FailedIsOver
<1>18. OwnerStageIsTrue'
  <2>1. lease[r].owner = e => req[r].accepted \/ req[r].stage \in {"smtp_data_started", "smtp_accepted"}
    BY <1>2 DEF IInv, OwnerStageIsTrue
  <2> QED BY <1>4, <1>7, <1>9, <2>1 DEF IInv, OwnerStageIsTrue
<1>19. OwnerFailsUnsent'
  BY <1>3, <1>4, <1>5, <1>6, <1>7, <1>9 DEF IInv, OwnerFailsUnsent
<1>20. AtMostOneData' /\ DataIsLogged' /\ FailedWasNotSent'
  BY <1>4, <1>8, <1>9 DEF IInv, AtMostOneData, DataIsLogged, FailedWasNotSent
<1> QED
  BY <1>6, <1>10, <1>11, <1>12, <1>14, <1>15, <1>16, <1>17, <1>18, <1>19, <1>20 DEF IInv

-----------------------------------------------------------------------------
(* The inductive invariant, and what follows from it.                       *)

\* The empty database satisfies the invariant.
LEMMA InitHolds == Init => IInv
<1> SUFFICES ASSUME Init PROVE IInv
  OBVIOUS
<1> USE DEF Init, StoreInit
<1>1. TypeOK
  <2>1. StoreTypeOK
    BY AlphabetTypes DEF StoreTypeOK
  <2>2. IdleExec \in ExecState /\ IdleWork \in WorkState /\ IdleSync \in SyncState
    BY IdleExecOK, IdleWorkOK, IdleSyncOK DEF WorkOK, SyncOK
  <2> QED BY <2>1, <2>2, ActorAssumption DEF TypeOK, PkgStates, FactStates
<1>2. /\ \A e \in Execs : exec[e].pc = "idle"
      /\ \A w \in Workers : work[w].pc = "idle"
      /\ \A s \in Syncs : sync[s].pc = "idle"
  BY DEF IdleExec, IdleWork, IdleSync
<1>3. \A e \in Execs, r \in Reqs : ~Runs(e, r)
  BY <1>2 DEF Runs, InFlightPcs, StagePcs
<1>4. \A r \in Reqs : /\ ~Claimed(r) /\ req[r].status = "absent" /\ req[r].attempts = 0 /\ ~req[r].confirmed
                      /\ lease[r].owner \notin Execs
  BY OwnerAssumption DEF AbsentRow, Claimed, PreClaim, NoLease
<1>5. ExecShape /\ WorkShape /\ SyncShape /\ WorkersFollowClaims
  BY <1>2 DEF ExecShape, WorkShape, SyncShape, WorkersFollowClaims, StagePcs
<1>6. UnclaimedIsQuiet /\ PendingIsConfirm /\ OneExecution /\ BeforeDataIsUnsent /\ FirstDataCounts
  BY <1>3, <1>4 DEF UnclaimedIsQuiet, PendingIsConfirm, OneExecution, BeforeDataIsUnsent, FirstDataCounts
<1>7. DataHasRecord /\ AcceptanceHasRecord /\ OwnedIsSendingOrAccepted /\ OwnerStageIsTrue /\ OwnerFailsUnsent /\ FailedIsOver
  BY <1>3, <1>4 DEF DataHasRecord, AcceptanceHasRecord, OwnedIsSendingOrAccepted, OwnerStageIsTrue, OwnerFailsUnsent, FailedIsOver
<1>8. AtMostOneData /\ DataIsLogged /\ FailedWasNotSent
  BY <1>4 DEF AtMostOneData, DataIsLogged, FailedWasNotSent
<1> QED
  BY <1>1, <1>5, <1>6, <1>7, <1>8 DEF IInv

\* Every step of an execution keeps the invariant.
LEMMA ExecutionSteps ==
  ASSUME IInv, NEW e \in Execs, ExecStarts(e) \/ ExecStep(e)
  PROVE  IInv'
<1>1. CASE ExecStarts(e)
  BY <1>1, ExecutionReads DEF ExecStarts
<1>2. CASE ExecStep(e)
  BY <1>2, ExecutionReads, ExecutionArchives, ExecutionEnds, SubmissionCreates, ExecutionClaims,
     ExecutionFailsToClaim, StageIsRecorded, DataIsSent DEF ExecStep
<1> QED
  BY <1>1, <1>2

\* Every step of a recovery or of the user keeps the invariant.
LEMMA WorkerSteps ==
  ASSUME IInv, NEW w \in Workers,
         WorkStep(w) \/ UserActs(w) \/ \E r \in Reqs : RecoveryLists(w, r)
  PROVE  IInv'
  BY RecoveryReads, ReconcileReads, ArchiveReads, UserReads, WorkerWrites, WorkerArchives DEF WorkStep, UserActs

\* Every step of a synchronisation keeps the invariant.
LEMMA SynchronisationSteps ==
  ASSUME IInv, NEW s \in Syncs, SyncStep(s) \/ \E r \in Reqs : SyncFinds(s, r)
  PROVE  IInv'
  BY SyncSteps, SyncEnds DEF SyncStep

\* Stuttering keeps the invariant.
LEMMA NothingMoves ==
  ASSUME IInv, UNCHANGED vars
  PROVE  IInv'
<1>1. TypeOK' /\ WorkShape' /\ WorkersFollowClaims' /\ SyncShape'
  BY DEF IInv, TypeOK, StoreTypeOK, WorkShape, WorkersFollowClaims, SyncShape, Claimed,
         vars, storeVars, localVars, factVars, worldVars
<1> QED
  BY <1>1, OnlyFactsMove DEF TypeOK, PkgKept, vars, storeVars, localVars, factVars, worldVars

\* The invariant is inductive.
LEMMA StepHolds == IInv /\ [Next]_vars => IInv'
<1> SUFFICES ASSUME IInv, [Next]_vars PROVE IInv'
  OBVIOUS
<1>1. CASE \E e \in Execs : ExecStarts(e) \/ ExecStep(e)
  BY <1>1, ExecutionSteps
<1>2. CASE \E w \in Workers : WorkStep(w) \/ UserActs(w) \/ \E r \in Reqs : RecoveryLists(w, r)
  BY <1>2, WorkerSteps
<1>3. CASE \E s \in Syncs : SyncStep(s) \/ \E r \in Reqs : SyncFinds(s, r)
  BY <1>3, SynchronisationSteps
<1>4. CASE \E r \in Reqs : UserCancelsOrExpires(r)
  BY <1>4, UserWithdraws
<1>5. CASE TimePasses
  BY <1>5, TimeIsHarmless
<1>6. CASE Crash
  BY <1>6, CrashIsHarmless
<1>7. CASE UNCHANGED vars
  BY <1>7, NothingMoves
<1> QED
  BY <1>1, <1>2, <1>3, <1>4, <1>5, <1>6, <1>7 DEF Next, Workers

\* The inductive invariant holds in every behaviour, for any number of requests,
\* executions, recoveries, users, synchronisations and crashes.
THEOREM Invariance == Spec => []IInv
  BY InitHolds, StepHolds, PTL DEF Spec

\* Every row, lease and actor stays in a state the code has a name for.
THEOREM TypeCorrectness == Spec => []TypeOK
<1>1. IInv => TypeOK
  BY DEF IInv
<1> QED BY <1>1, Invariance, PTL

\* The bytes of a request enter SMTP DATA at most once, however many executions,
\* retries, confirmations, takeovers, recoveries and crashes meet.
THEOREM OneTransmission == Spec => []AtMostOneData
<1>1. IInv => AtMostOneData
  BY DEF IInv
<1> QED BY <1>1, Invariance, PTL

\* A transmission is on record in smtp_attempt_count before it happens, so no crash
\* hides it.
THEOREM WriteAhead == Spec => []DataIsLogged
<1>1. IInv => DataIsLogged
  BY DEF IInv
<1> QED BY <1>1, Invariance, PTL

\* A request whose status is "failed" was never transmitted.
THEOREM FailureIsTrue == Spec => []FailedWasNotSent
<1>1. IInv => FailedWasNotSent
  BY DEF IInv
<1> QED BY <1>1, Invariance, PTL

-----------------------------------------------------------------------------
(* The last write of an execution.                                          *)

\* Only its own steps and a crash make an execution idle.
LEMMA OthersLeaveExecutionAlone ==
  ASSUME IInv, [Next]_vars, NEW e \in Execs, exec'[e] # exec[e]
  PROVE  ExecStarts(e) \/ ExecStep(e) \/ Crash
<1>0. exec \in [Execs -> ExecState]
  BY DEF IInv, TypeOK
<1>1. ASSUME NEW f \in Execs, ExecStarts(f) \/ ExecStep(f) PROVE f = e
  <2>1. \E x : ExecGoes(f, x)
    BY <1>1 DEF ExecStarts, ExecStep, SubmitLooksUp, GuiConfirms, SubmitCreates, SubmitFindsDuplicate,
       ClaimReadsClock, ClaimSucceeds, ClaimFails, StageReadsClock, StageCommits, StageFails, SendData,
       HandlerInspects, HandlerSettles, RecordsPendingFact, LooksForPackage, StoresPackage,
       RecordsFinalFact, Finishes
  <2> QED BY <1>0, <2>1 DEF ExecGoes
<1>2. ASSUME NEW w \in Workers, WorkStep(w) \/ UserActs(w) \/ \E r \in Reqs : RecoveryLists(w, r)
      PROVE  FALSE
  BY <1>2 DEF WorkStep, UserActs, RecoveryLists, RecoveryReadsRow, RecoveryReadsLease, RecoveryJudges,
     ReconcileReadsRow, ReconcileReadsEvidence, ReconcileWrites, RecoveryLeavesUnknown, RecoveryDecides,
     ArchiveReadsRow, ArchiveReadsLease, ArchiveChecks, ArchiveLooks, ArchiveStores, ArchiveRecordsFact,
     ArchiveFinishes, UserReconciles, UserMarks, MarkWrites, ReadOnly
<1>3. ASSUME NEW s \in Syncs, SyncStep(s) \/ \E r \in Reqs : SyncFinds(s, r) PROVE FALSE
  BY <1>3 DEF SyncStep, SyncFinds, SyncPrepares, SyncLooks, SyncStores, SyncMaps, SyncUpdatesFact, SyncUpdatesRow
<1>4. ASSUME NEW r \in Reqs, UserCancelsOrExpires(r) PROVE FALSE
  BY <1>4 DEF UserCancelsOrExpires, localVars
<1>5. ~TimePasses /\ ~UNCHANGED vars
  BY DEF TimePasses, vars, localVars
<1> QED
  BY <1>1, <1>2, <1>3, <1>4, <1>5 DEF Next, Workers

\* An execution that writes its verdict owns the lease, and whoever else decides a
\* request takes the lease away.
LEMMA OwnerIsCareful == IInv /\ [Next]_vars => OwnerKeepsVerdict
<1> SUFFICES ASSUME IInv, [Next]_vars, NEW e \in Execs, NEW r \in Reqs,
                    exec[e].pc \in {"settle", "finish"}, exec'[e].pc = "idle", exec[e].r = r,
                    req'[r] # req[r]
             PROVE  req[r].status \in {"sending", "smtp_accepted", "sent_reconciled"}
  BY DEF OwnerKeepsVerdict
<1>1. ExecStarts(e) \/ ExecStep(e) \/ Crash
  BY OthersLeaveExecutionAlone
<1>2. ~Crash /\ ~ExecStarts(e)
  BY DEF Crash, storeVars, ExecStarts, SubmitLooksUp, GuiConfirms
<1>3. HandlerSettles(e) \/ Finishes(e)
  BY <1>1, <1>2 DEF ExecStep, SubmitCreates, SubmitFindsDuplicate, ClaimReadsClock, ClaimSucceeds,
     ClaimFails, StageReadsClock, StageCommits, StageFails, SendData, HandlerInspects,
     RecordsPendingFact, LooksForPackage, StoresPackage, RecordsFinalFact
<1>4. lease[r].owner = e
  BY <1>3 DEF HandlerSettles, Finishes, CompleteAsOwner, storeVars
<1> QED
  BY <1>4 DEF IInv, OwnedIsSendingOrAccepted

\* However late an execution wakes up, its last write replaces only what it wrote
\* itself or what a Sent observation found, on every instance.
THEOREM OwnersKeepVerdicts == Spec => OwnerKeepsVerdicts
  BY Invariance, OwnerIsCareful, PTL DEF Spec, OwnerKeepsVerdicts

-----------------------------------------------------------------------------
(* The pipeline implements the contract, for every number of requests,     *)
(* executions, recoveries, users, synchronisations and crashes.  Every     *)
(* step of the pipeline is one step of the contract or a stutter:          *)
(*                                                                         *)
(*   SubmitCreates                                   Submit                *)
(*   ClaimSucceeds                                   Clear                 *)
(*   cancellation, expiry (also found by a claim)    Withdraw              *)
(*   SendData                                        Transmit              *)
(*   everything else                                 stutter               *)

\* The parts of the row of every request that the contract sees are kept.
RowsKept ==
  \A q \in Reqs : /\ ModeOf(req'[q]) = ModeOf(req[q])
                  /\ PhaseOf(req'[q]) = PhaseOf(req[q])
                  /\ req'[q].confirmed = req[q].confirmed

\* A step that keeps them and sends nothing is a stutter of the contract.
LEMMA Stutters ==
  ASSUME RowsKept, UNCHANGED sends
  PROVE  UNCHANGED Contract!vars
  BY DEF RowsKept, Contract!vars

\* A claimed request stays cleared in the contract while its row keeps its mode
\* and its consent, whatever status it takes among those of claimed requests.
LEMMA ClaimedRowKept ==
  ASSUME NEW r \in Reqs, Claimed(r), Claimed(r)', req'[r].mode = req[r].mode
  PROVE  ModeOf(req'[r]) = ModeOf(req[r]) /\ PhaseOf(req'[r]) = PhaseOf(req[r])
  BY DEF Claimed, ModeOf, PhaseOf, PreClaim

\* Steps that leave the request table alone.
LEMMA TableKept ==
  ASSUME UNCHANGED <<req, sends>>
  PROVE  UNCHANGED Contract!vars
  BY Stutters DEF RowsKept

\* complete_send_request on a claimed request.
LEMMA CompletionStutters ==
  ASSUME IInv, NEW r \in Reqs, Claimed(r),
         NEW status \in TERMINAL_SEND_STATUSES \ {"cancelled", "expired"},
         NEW o \in BOOLEAN, NEW p \in BOOLEAN, CompleteSendRequest(r, status, o, p), UNCHANGED sends
  PROVE  UNCHANGED Contract!vars
<1>1. /\ Claimed(r)' /\ req'[r].mode = req[r].mode
      /\ \A q \in Reqs : q # r => req'[q] = req[q]
      /\ \A q \in Reqs : req'[q].confirmed = req[q].confirmed
  BY CompletionEffect
<1>2. RowsKept
  BY <1>1, ClaimedRowKept DEF RowsKept
<1> QED
  BY <1>2, Stutters

\* No step of a recovery or of the user is visible in the contract.
LEMMA WorkerStutters ==
  ASSUME IInv, NEW w \in Workers,
         WorkStep(w) \/ UserActs(w) \/ \E r \in Reqs : RecoveryLists(w, r)
  PROVE  UNCHANGED Contract!vars
<1> USE DEF storeVars, factVars, worldVars, ReadOnly
<1>1. CASE ReconcileWrites(w) \/ RecoveryDecides(w) \/ ArchiveFinishes(w) \/ MarkWrites(w)
  <2> DEFINE r == work[w].r
  <2>1. r \in Reqs /\ Claimed(r) /\ work[w] \in WorkState
    BY <1>1, WorkerFacts DEF ReconcileWrites, RecoveryDecides, ArchiveFinishes, MarkWrites
  <2>2. work[w].row.outbound \in BOOLEAN /\ work[w].row.package \in BOOLEAN
    BY <2>1 DEF WorkState, Row
  <2>3. CASE ReconcileWrites(w)
    <3>1. work[w].verdict \in TERMINAL_SEND_STATUSES \ {"cancelled", "expired"}
      BY <2>3 DEF ReconcileWrites, IInv, WorkShape, TERMINAL_SEND_STATUSES
    <3> QED BY <2>1, <2>2, <2>3, <3>1, CompletionStutters DEF ReconcileWrites
  <2>4. CASE RecoveryDecides(w)
    <3> DEFINE v == RecoveryVerdict(work[w].row, work[w].lease)
               archive == v = "sent_archive_failed"
               o == archive /\ work[w].row.outbound
               p == archive /\ work[w].row.package
    <3>1. v \in TERMINAL_SEND_STATUSES \ {"cancelled", "expired"}
      BY DEF RecoveryVerdict, TERMINAL_SEND_STATUSES
    <3>2. o \in BOOLEAN /\ p \in BOOLEAN
      OBVIOUS
    <3>3. CompleteSendRequest(r, v, o, p) /\ UNCHANGED sends
      BY <2>4 DEF RecoveryDecides
    <3> HIDE DEF v, archive, o, p
    <3> QED BY <2>1, <3>1, <3>2, <3>3, CompletionStutters
  <2>5. CASE ArchiveFinishes(w)
    <3>1. "sent" \in TERMINAL_SEND_STATUSES \ {"cancelled", "expired"}
      BY DEF TERMINAL_SEND_STATUSES
    <3> QED BY <2>1, <2>5, <3>1, CompletionStutters DEF ArchiveFinishes
  <2>6. CASE MarkWrites(w)
    <3>1. work[w].verdict \in TERMINAL_SEND_STATUSES \ {"cancelled", "expired"}
      BY <2>6 DEF MarkWrites, IInv, WorkShape, TERMINAL_SEND_STATUSES
    <3> QED BY <2>1, <2>2, <2>6, <3>1, CompletionStutters DEF MarkWrites
  <2> QED BY <1>1, <2>3, <2>4, <2>5, <2>6
<1>2. CASE ~(ReconcileWrites(w) \/ RecoveryDecides(w) \/ ArchiveFinishes(w) \/ MarkWrites(w))
  <2>1. UNCHANGED <<req, sends>>
    BY <1>2 DEF WorkStep, UserActs, RecoveryLists, RecoveryReadsRow, RecoveryReadsLease,
       RecoveryJudges, ReconcileReadsRow, ReconcileReadsEvidence, RecoveryLeavesUnknown,
       ArchiveReadsRow, ArchiveReadsLease, ArchiveChecks, ArchiveLooks, ArchiveStores,
       ArchiveRecordsFact, UserReconciles, UserMarks
  <2> QED BY <2>1, TableKept
<1> QED
  BY <1>1, <1>2

\* No step of a synchronisation is visible in the contract.
LEMMA SynchronisationStutters ==
  ASSUME IInv, NEW s \in Syncs, SyncStep(s) \/ \E r \in Reqs : SyncFinds(s, r)
  PROVE  UNCHANGED Contract!vars
<1> USE DEF storeVars, factVars, worldVars
<1>1. CASE SyncUpdatesRow(s)
  <2> DEFINE r == sync[s].r
  <2>1. r \in Reqs /\ Claimed(r) /\ req \in [Reqs -> Row]
    BY <1>1, SyncFacts DEF SyncUpdatesRow, IInv, TypeOK, StoreTypeOK
  <2>2. UNCHANGED sends /\ (req' = [req EXCEPT ![r] = Observed(@)] \/ req' = req)
    BY <1>1 DEF SyncUpdatesRow, ReconcileSentRow
  <2> HIDE DEF r
  <2>3. PICK q0 \in Reqs : q0 = r
    BY <2>1
  <2>4. Claimed(q0) /\ UNCHANGED sends /\ (req' = [req EXCEPT ![q0] = Observed(req[q0])] \/ req' = req)
    BY <2>1, <2>2, <2>3
  <2>5. /\ req'[q0].mode = req[q0].mode /\ req'[q0].confirmed = req[q0].confirmed
        /\ req'[q0].status \in {req[q0].status, "sent_reconciled"}
        /\ \A q \in Reqs \ {q0} : req'[q] = req[q]
    BY <2>1, <2>4, ObservedEffect
  <2>6. Claimed(q0)'
    BY <2>4, <2>5 DEF Claimed, PreClaim
  <2>7. RowsKept
    BY <2>4, <2>5, <2>6, ClaimedRowKept DEF RowsKept
  <2> QED BY <2>4, <2>7, Stutters
<1>2. CASE ~SyncUpdatesRow(s)
  <2>1. UNCHANGED <<req, sends>>
    BY <1>2 DEF SyncStep, SyncFinds, SyncPrepares, SyncLooks, SyncStores, SyncMaps, SyncUpdatesFact
  <2> QED BY <2>1, TableKept
<1> QED
  BY <1>1, <1>2

\* The steps of an execution that decide nothing for the contract.
LEMMA ExecutionStutters ==
  ASSUME IInv, NEW e \in Execs, ExecStarts(e) \/ ExecStep(e),
         \A mode \in Modes : ~SubmitCreates(e, mode),
         ~ClaimSucceeds(e), ~ClaimFails(e),
         \A taken, answered \in BOOLEAN : ~SendData(e, taken, answered)
  PROVE  UNCHANGED Contract!vars
<1> USE DEF storeVars, factVars, worldVars
<1>a. ExecOK(exec[e])
  BY ExecFacts
<1>1. CASE StageCommits(e)
  <2>1. PICK r \in Reqs, k \in 1..7 : r = exec[e].r /\ k = exec[e].k
    BY <1>1, <1>a DEF StageCommits, ExecOK, StagePcs
  <2>2. /\ \A q \in Reqs \ {r} : req'[q] = req[q]
        /\ req'[r].mode = req[r].mode /\ req'[r].confirmed = req[r].confirmed
        /\ req'[r].status \in {req[r].status, "smtp_accepted"}
    BY <1>1, <2>1, StageEffect
  <2>3. Claimed(r)
    BY <1>1, <2>1 DEF StageCommits, Runs, InFlightPcs, StagePcs, IInv, UnclaimedIsQuiet
  <2>4. Claimed(r)'
    BY <2>2, <2>3 DEF Claimed, PreClaim
  <2>5. RowsKept
    BY <2>2, <2>3, <2>4, ClaimedRowKept DEF RowsKept
  <2> QED BY <1>1, <2>5, Stutters DEF StageCommits
<1>2. CASE HandlerSettles(e)
  <2>1. CASE CompleteAsOwner(exec[e].r, e, exec[e].verdict, FALSE, FALSE)
    <3>1. exec[e].r \in Reqs /\ Claimed(exec[e].r)
      BY <1>2, <1>a DEF HandlerSettles, ExecOK, Runs, InFlightPcs, IInv, UnclaimedIsQuiet
    <3>2. exec[e].verdict \in TERMINAL_SEND_STATUSES \ {"cancelled", "expired"}
      BY <1>2, <1>a DEF HandlerSettles, ExecOK, TERMINAL_SEND_STATUSES
    <3> QED BY <1>2, <2>1, <3>1, <3>2, CompletionStutters DEF HandlerSettles, CompleteAsOwner
  <2>2. CASE UNCHANGED storeVars
    BY <1>2, <2>2, TableKept DEF HandlerSettles
  <2> QED BY <1>2, <2>1, <2>2 DEF HandlerSettles
<1>3. CASE Finishes(e)
  <2>1. CASE CompleteAsOwner(exec[e].r, e, exec[e].verdict, TRUE, exec[e].link)
    <3>1. exec[e].r \in Reqs /\ Claimed(exec[e].r) /\ exec[e].link \in BOOLEAN
      BY <1>3, <1>a DEF Finishes, ExecOK, ExecState, Runs, InFlightPcs, IInv, UnclaimedIsQuiet
    <3>2. exec[e].verdict \in TERMINAL_SEND_STATUSES \ {"cancelled", "expired"}
      BY <1>3, <1>a DEF Finishes, ExecOK, TERMINAL_SEND_STATUSES
    <3> QED BY <1>3, <2>1, <3>1, <3>2, CompletionStutters DEF Finishes, CompleteAsOwner
  <2>2. CASE UNCHANGED storeVars
    BY <1>3, <2>2, TableKept DEF Finishes
  <2> QED BY <1>3, <2>1, <2>2 DEF Finishes
<1>4. CASE ~StageCommits(e) /\ ~HandlerSettles(e) /\ ~Finishes(e)
  <2>1. UNCHANGED <<req, sends>>
    BY <1>4 DEF ExecStarts, ExecStep, SubmitLooksUp, GuiConfirms, SubmitFindsDuplicate,
       ClaimReadsClock, StageReadsClock, StageFails, HandlerInspects, RecordsPendingFact,
       LooksForPackage, StoresPackage, RecordsFinalFact
  <2> QED BY <2>1, TableKept
<1> QED
  BY <1>1, <1>2, <1>3, <1>4

\* create_send_request is the submission.
LEMMA CreationSubmits ==
  ASSUME IInv, NEW e \in Execs, NEW mode \in Modes, SubmitCreates(e, mode)
  PROVE  Contract!Next
<1>1. PICK r \in Reqs : r = exec[e].r
  BY ExecFacts DEF SubmitCreates, ExecOK
<1>2. mode \in {"confirm", "autonomous"} /\ req \in [Reqs -> Row]
  BY ActorAssumption DEF IInv, TypeOK, StoreTypeOK
<1>3. req[r].status = "absent" /\ ~req[r].confirmed /\ req[r].confirmed \in BOOLEAN
  BY <1>1, <1>2 DEF SubmitCreates, CreateSendRequest, IInv, UnclaimedIsQuiet, Claimed, PreClaim, Row
<1>4. /\ req'[r].status \in {"pending_confirmation", "ready_to_send"} /\ req'[r].mode = mode
      /\ req'[r].confirmed = FALSE /\ \A q \in Reqs \ {r} : req'[q] = req[q]
  BY <1>1, <1>2 DEF SubmitCreates, CreateSendRequest, AbsentRow
<1>5. ModeOf(req[r]) = "none" /\ ModeOf(req'[r]) = mode
  BY <1>3, <1>4 DEF ModeOf
<1>6. PhaseOf(req[r]) = "open" /\ PhaseOf(req'[r]) = "open"
  BY <1>3, <1>4 DEF PhaseOf, PreClaim
<1>7. UNCHANGED sends
  BY DEF SubmitCreates, worldVars
<1>8. Contract!Submit(r, mode)
  BY <1>3, <1>4, <1>5, <1>6, <1>7 DEF Contract!Submit
<1> QED
  BY <1>2, <1>8 DEF Contract!Next

\* A successful claim_for_send clears the request, with the user's consent when
\* the mode asks for it.
LEMMA ClaimClears ==
  ASSUME IInv, NEW e \in Execs, ClaimSucceeds(e)
  PROVE  Contract!Next
<1>1. PICK r \in Reqs : r = exec[e].r
  BY ExecFacts DEF ClaimSucceeds, ExecOK
<1>2. req \in [Reqs -> Row] /\ exec[e].gui \in BOOLEAN
  BY ExecFacts DEF ExecOK, ExecState
<1>3. /\ req[r].status \in {"pending_confirmation", "ready_to_send"}
      /\ req[r].mode = "confirm" => exec[e].gui
  BY <1>1 DEF ClaimSucceeds, ClaimForSend, Claimable, ExpectedStatus
<1>4. ~req[r].confirmed /\ req[r].confirmed \in BOOLEAN
  BY <1>2, <1>3 DEF IInv, UnclaimedIsQuiet, Claimed, PreClaim, Row
<1>5. /\ req'[r].status = "sending" /\ req'[r].mode = req[r].mode /\ req'[r].confirmed = exec[e].gui
      /\ \A q \in Reqs \ {r} : req'[q] = req[q]
  <2> DEFINE c == req[r].confirmed \/ exec[e].gui
  <2>1. c = exec[e].gui
    BY <1>2, <1>4
  <2>2. req' = [req EXCEPT ![r] = [req[r] EXCEPT !.status = "sending", !.stage = "lease_acquired", !.confirmed = c]]
    BY <1>1, <1>2 DEF ClaimSucceeds, ClaimForSend
  <2> HIDE DEF c
  <2>3. /\ req'[r] = [req[r] EXCEPT !.status = "sending", !.stage = "lease_acquired", !.confirmed = c]
        /\ \A q \in Reqs \ {r} : req'[q] = req[q]
    BY <1>2, <2>2
  <2> QED BY <1>2, <2>1, <2>3 DEF Row
<1>6. ModeOf(req[r]) = req[r].mode /\ ModeOf(req'[r]) = req[r].mode /\ req[r].mode # "none"
  BY <1>2, <1>3, <1>5 DEF ModeOf, Row
<1>7. PhaseOf(req[r]) = "open" /\ PhaseOf(req'[r]) = "cleared"
  BY <1>3, <1>5 DEF PhaseOf, PreClaim
<1>8. UNCHANGED sends
  BY DEF ClaimSucceeds, worldVars
<1>9. PICK gui \in BOOLEAN : gui = exec[e].gui
  BY <1>2
<1>10. Contract!Clear(r, gui)
  BY <1>3, <1>5, <1>6, <1>7, <1>8, <1>9 DEF Contract!Clear
<1> QED
  BY <1>10 DEF Contract!Next

\* A request that leaves a state before the claim for "cancelled" or "expired".
LEMMA WithdrawalWithdraws ==
  ASSUME IInv, NEW r \in Reqs, req[r].status \in {"pending_confirmation", "ready_to_send"},
         req[r].mode = "confirm", NEW s \in {"cancelled", "expired"},
         req' = [req EXCEPT ![r].status = s], UNCHANGED sends
  PROVE  Contract!Next
<1>1. req \in [Reqs -> Row]
  BY DEF IInv, TypeOK, StoreTypeOK
<1>2. /\ req'[r].status = s /\ req'[r].mode = "confirm" /\ req'[r].confirmed = req[r].confirmed
      /\ \A q \in Reqs \ {r} : req'[q] = req[q]
  BY <1>1 DEF Row
<1>3. ModeOf(req[r]) = "confirm" /\ ModeOf(req'[r]) = "confirm"
  BY <1>2 DEF ModeOf
<1>4. PhaseOf(req[r]) = "open" /\ PhaseOf(req'[r]) = "withdrawn"
  BY <1>2 DEF PhaseOf, PreClaim
<1>5. \A q \in Reqs : ModeOf(req'[q]) = ModeOf(req[q]) /\ req'[q].confirmed = req[q].confirmed
  BY <1>2, <1>3
<1>6. \A q \in Reqs \ {r} : PhaseOf(req'[q]) = PhaseOf(req[q])
  BY <1>2
<1>7. Contract!Withdraw(r)
  BY <1>3, <1>4, <1>5, <1>6 DEF Contract!Withdraw
<1> QED
  BY <1>7 DEF Contract!Next

\* cancel_send_request and expire_due_send_requests withdraw the request.
LEMMA UserWithdrawsInContract ==
  ASSUME IInv, NEW r \in Reqs, UserCancelsOrExpires(r)
  PROVE  Contract!Next
<1>1. req[r].status = "pending_confirmation" /\ req[r].mode = "confirm" /\ UNCHANGED sends
  BY DEF UserCancelsOrExpires, CancelSendRequest, ExpireDueSendRequest, IInv, PendingIsConfirm, worldVars
<1> QED
  BY <1>1, WithdrawalWithdraws DEF UserCancelsOrExpires, CancelSendRequest, ExpireDueSendRequest, Expire

\* A failed claim withdraws an expired request, or decides nothing.
LEMMA FailedClaimInContract ==
  ASSUME IInv, NEW e \in Execs, ClaimFails(e)
  PROVE  Contract!Next \/ UNCHANGED Contract!vars
<1>1. PICK r \in Reqs : r = exec[e].r
  BY ExecFacts DEF ClaimFails, ExecOK
<1>2. req \in [Reqs -> Row] /\ UNCHANGED sends
  BY DEF IInv, TypeOK, StoreTypeOK, ClaimFails, worldVars
<1>3. CASE ClaimTakesOverStaleLease(r, exec[e].now)
  <2>1. req[r].status = "sending" /\ req'[r].status = "recovery_required"
        /\ req'[r].mode = req[r].mode /\ req'[r].confirmed = req[r].confirmed
        /\ \A q \in Reqs \ {r} : req'[q] = req[q]
    BY <1>2, <1>3 DEF ClaimTakesOverStaleLease, StaleLease, Row
  <2>2. RowsKept
    BY <2>1, ClaimedRowKept DEF RowsKept, Claimed, PreClaim
  <2> QED BY <1>2, <2>2, Stutters
<1>4. CASE ClaimFindsExpired(r, exec[e].now)
  <2>1. req[r].status \in {"pending_confirmation", "ready_to_send"} /\ req[r].mode = "confirm"
    BY <1>4 DEF ClaimFindsExpired, PreClaim, Due
  <2> QED BY <1>2, <1>4, <2>1, WithdrawalWithdraws DEF ClaimFindsExpired, Expire
<1>5. CASE ClaimRefused(r, exec[e].now, exec[e].gui)
  BY <1>2, <1>5, TableKept DEF ClaimRefused, storeVars
<1> QED
  BY <1>1, <1>3, <1>4, <1>5 DEF ClaimFails

\* server.sendmail is the transmission.
LEMMA DataTransmits ==
  ASSUME IInv, NEW e \in Execs, NEW taken \in BOOLEAN, NEW answered \in BOOLEAN,
         SendData(e, taken, answered)
  PROVE  Contract!Next
<1>1. PICK r \in Reqs : r = exec[e].r
  BY ExecFacts DEF SendData, ExecOK
<1>2. Runs(e, r) /\ exec[e].pc = "data"
  BY <1>1 DEF SendData, Runs, InFlightPcs
<1>3. Claimed(r) /\ sends[r] = 0 /\ sends \in [Reqs -> Nat]
  BY <1>2 DEF IInv, UnclaimedIsQuiet, BeforeDataIsUnsent, BeforeData, TypeOK
<1>4. sends' = [sends EXCEPT ![r] = 1] /\ UNCHANGED req
  BY <1>1, <1>3 DEF SendData, storeVars
<1>5. PhaseOf(req[r]) = "cleared"
  BY <1>3 DEF Claimed, PhaseOf, PreClaim
<1>6. Contract!Transmit(r)
  BY <1>3, <1>4, <1>5 DEF Contract!Transmit
<1> QED
  BY <1>6 DEF Contract!Next

\* The empty database is the initial state of the contract.
LEMMA InitRefines == Init => Contract!Init
<1>1. ModeOf(AbsentRow) = "none" /\ PhaseOf(AbsentRow) = "open" /\ AbsentRow.confirmed = FALSE
  BY DEF ModeOf, PhaseOf, AbsentRow, PreClaim
<1> QED
  BY <1>1 DEF Init, StoreInit, Contract!Init

\* Every step of the pipeline is a step of the contract or a stutter.
LEMMA StepRefines == IInv /\ [Next]_vars => [Contract!Next]_(Contract!vars)
<1> SUFFICES ASSUME IInv, [Next]_vars PROVE Contract!Next \/ UNCHANGED Contract!vars
  OBVIOUS
<1>1. ASSUME NEW e \in Execs, ExecStarts(e) \/ ExecStep(e)
      PROVE  Contract!Next \/ UNCHANGED Contract!vars
  BY <1>1, ExecutionStutters, CreationSubmits, ClaimClears, FailedClaimInContract, DataTransmits
<1>2. ASSUME NEW w \in Workers, WorkStep(w) \/ UserActs(w) \/ \E r \in Reqs : RecoveryLists(w, r)
      PROVE  UNCHANGED Contract!vars
  BY <1>2, WorkerStutters
<1>3. ASSUME NEW s \in Syncs, SyncStep(s) \/ \E r \in Reqs : SyncFinds(s, r)
      PROVE  UNCHANGED Contract!vars
  BY <1>3, SynchronisationStutters
<1>4. ASSUME NEW r \in Reqs, UserCancelsOrExpires(r)
      PROVE  Contract!Next
  BY <1>4, UserWithdrawsInContract
<1>5. CASE TimePasses \/ Crash \/ UNCHANGED vars
  <2>1. UNCHANGED <<req, sends>>
    BY <1>5 DEF TimePasses, Tick, Crash, vars, storeVars, worldVars
  <2> QED BY <2>1, TableKept
<1> QED
  BY <1>1, <1>2, <1>3, <1>4, <1>5 DEF Next, Workers

\* Whatever the executions, retries, confirmations, recoveries, synchronisations and
\* crashes, a request is sent at most once, only once cleared, in confirm mode only
\* with the user's consent, and never after a cancellation or an expiry.
THEOREM Refinement == Spec => ImplementsContract
<1>1. Spec => []IInv
  BY Invariance
<1>2. Init => Contract!Init
  BY InitRefines
<1>3. IInv /\ [Next]_vars => [Contract!Next]_(Contract!vars)
  BY StepRefines
<1> QED
  BY <1>1, <1>2, <1>3, PTL DEF Spec, ImplementsContract, Contract!Spec
=============================================================================
