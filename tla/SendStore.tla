----------------------------- MODULE SendStore -----------------------------
(***************************************************************************)
(* The two SQLite tables of the send state machine and the transactions    *)
(* that send_requests.py runs on them.                                     *)
(*                                                                         *)
(*   req[r]    the send_requests row of the idempotency key r              *)
(*             (client_id, idempotency_key is UNIQUE, so a key is a row)   *)
(*   lease[r]  the send_execution_leases row of r, NoLease when absent     *)
(*   clock     wall-clock time, in units of the one-second strings the     *)
(*             tables store                                                *)
(*                                                                         *)
(* Every action below is one BEGIN IMMEDIATE ... COMMIT (or one autocommit *)
(* statement).  The code reads the clock BEFORE it begins a transaction,   *)
(* so a transaction takes the time `now' its caller read earlier; the      *)
(* callers in SendPipeline read it in a step of its own.                   *)
(*                                                                         *)
(* Left out, since nothing branches on them: error texts, provider_result, *)
(* the send_attempt_events log, process_id, heartbeat_at, fixed hashes.    *)
(***************************************************************************)
EXTENDS Naturals

CONSTANTS
  Reqs,         \* idempotency keys
  Execs,        \* executions of execute_agent_send: the lease owners "send_..."
  NoOwner,      \* the owner of an absent lease row
  Recovery,     \* any owner that starts with "recovery_"
  LeaseTicks,   \* DEFAULT_SEND_LEASE_SECONDS
  ConfirmTicks  \* DEFAULT_CONFIRM_TTL_SECONDS

ASSUME LeaseAssumption ==
  /\ LeaseTicks \in Nat
  /\ ConfirmTicks \in Nat

ASSUME OwnerAssumption == NoOwner \notin Execs /\ Recovery \notin Execs /\ NoOwner # Recovery

VARIABLES clock, req, lease

storeVars == <<clock, req, lease>>

-----------------------------------------------------------------------------
(* The alphabets.  "absent" is a key that has no row yet.                   *)

PreClaim == {"absent", "pending_confirmation", "ready_to_send"}

TERMINAL_SEND_STATUSES ==
  {"sent", "sent_reconciled", "sent_archive_failed", "failed",
   "delivery_unknown", "definitely_not_sent", "cancelled", "expired"}

\* sent_archive_pending and sent_waiting_reconciliation are also members in the
\* source; no statement of the source ever stores them in send_requests.
RECOVERY_SEND_STATUSES ==
  {"sending", "smtp_accepted", "sent_archive_failed", "delivery_unknown",
   "recovery_required"}

Statuses == PreClaim \cup TERMINAL_SEND_STATUSES \cup RECOVERY_SEND_STATUSES

\* The stages of one execution, in the order execute_agent_send records them.
\* The first is record_send_mime, which stores "mime_built" itself; smtp_starting
\* stands for smtp_connecting, smtp_connected, smtp_tls_ready and
\* smtp_authenticated too, the same transaction with stages no condition tells
\* apart; smtp_accepted is recorded by the SMTP callback and once more after it.
StageOrder ==
  <<"mime_built", "mime_built", "smtp_starting", "smtp_data_started",
    "smtp_accepted", "smtp_accepted", "archive_pending">>

LeaseStages == {"none", "lease_acquired", "mime_built", "smtp_starting",
                "smtp_data_started", "smtp_accepted", "archive_pending"}

RowStages == LeaseStages \cup Statuses \cup {"ready", "stale_lease"}

Row ==
  [status : Statuses, stage : RowStages, mode : {"confirm", "autonomous"},
   deadline : Nat,           \* expires_at, meaningful in confirm mode only
   attempts : Nat,           \* smtp_attempt_count
   accepted : BOOLEAN,       \* smtp_accepted_at IS NOT NULL
   delivery : {"none", "smtp_accepted", "sent", "not_sent", "delivery_unknown"},
   recon    : {"not_started", "waiting", "matched", "unknown", "resolved_not_sent"},
   confirmed: BOOLEAN,       \* confirmed_by = 'gui'
   mime     : BOOLEAN,       \* raw_eml_path and raw_eml_sha256 are set
   outbound : BOOLEAN,       \* outbound_id is set
   package  : BOOLEAN]       \* package_id is set

AbsentRow ==
  [status |-> "absent", stage |-> "none", mode |-> "confirm", deadline |-> 0,
   attempts |-> 0, accepted |-> FALSE, delivery |-> "none",
   recon |-> "not_started", confirmed |-> FALSE, mime |-> FALSE,
   outbound |-> FALSE, package |-> FALSE]

Lease == [owner : Execs \cup {NoOwner, Recovery}, expires : Nat, stage : LeaseStages]

NoLease == [owner |-> NoOwner, expires |-> 0, stage |-> "none"]

StoreTypeOK ==
  /\ clock \in Nat
  /\ req \in [Reqs -> Row]
  /\ lease \in [Reqs -> Lease]

StoreInit ==
  /\ clock = 0
  /\ req = [r \in Reqs |-> AbsentRow]
  /\ lease = [r \in Reqs |-> NoLease]

-----------------------------------------------------------------------------
(* Predicates on rows.                                                      *)

\* request_expires_at and request_expires_at < now: autonomous rows store NULL.
Due(row, now) == row.mode = "confirm" /\ row.deadline < now

\* Variant with a bug: a lease whose owner died is never given up.
LeaseActiveForEver(l, now) == l.owner \notin {NoOwner, Recovery}

\* send_lease_is_active on a lease row that was read at some earlier time.
LeaseActive(l, now) == l.owner \notin {NoOwner, Recovery} /\ l.expires >= now

\* The guard of record_send_stage and record_send_mime.
LeaseHeld(r, e, now) == lease[r].owner = e /\ lease[r].expires >= now

\* delivery_status IN ('sent', 'smtp_accepted') or smtp_accepted_at IS NOT NULL.
AcceptanceProven(row) == row.accepted \/ row.delivery \in {"sent", "smtp_accepted"}

-----------------------------------------------------------------------------
(* The transactions.                                                        *)

Tick == clock' = clock + 1 /\ UNCHANGED <<req, lease>>

CreateSendRequest(r, mode, deadline) ==
  /\ req[r].status = "absent"
  /\ req' = [req EXCEPT ![r] =
       [AbsentRow EXCEPT !.mode = mode, !.deadline = deadline,
          !.status = IF mode = "confirm" THEN "pending_confirmation" ELSE "ready_to_send",
          !.stage  = IF mode = "confirm" THEN "pending_confirmation" ELSE "ready"]]
  /\ UNCHANGED <<clock, lease>>

Expire(r) == req' = [req EXCEPT ![r].status = "expired"]

\* expire_due_send_requests and expire_send_request_if_due, one row.
ExpireDueSendRequest(r) ==
  /\ req[r].status = "pending_confirmation"
  /\ Due(req[r], clock)
  /\ Expire(r)
  /\ UNCHANGED <<clock, lease>>

\* Variant with a bug: a request whose execution is under way is cancelled too.
CancelWhileSending(r) ==
  /\ req[r].status \in {"pending_confirmation", "sending"}
  /\ req' = [req EXCEPT ![r].status = "cancelled"]
  /\ UNCHANGED <<clock, lease>>

CancelSendRequest(r) ==
  /\ req[r].status = "pending_confirmation"
  /\ req' = [req EXCEPT ![r].status = "cancelled"]
  /\ UNCHANGED <<clock, lease>>

(* claim_for_send, one disjunct of the code per operator.                   *)

StaleLease(r, now) ==
  req[r].status = "sending" /\ lease[r] # NoLease /\ lease[r].expires < now

ExpectedStatus(row) ==
  IF row.mode = "confirm" THEN "pending_confirmation" ELSE "ready_to_send"

\* Variant with a bug: a request waiting for recovery is executed again.
ClaimableForRetry(r, now, gui) ==
  /\ req[r].status \in {ExpectedStatus(req[r]), "recovery_required"}
  /\ ~Due(req[r], now)
  /\ req[r].mode = "confirm" => gui

Claimable(r, now, gui) ==
  /\ req[r].status = ExpectedStatus(req[r])
  /\ ~Due(req[r], now)
  /\ req[r].mode = "confirm" => gui

ClaimForSend(r, e, now, gui) ==
  /\ Claimable(r, now, gui)
  /\ req' = [req EXCEPT ![r].status = "sending", ![r].stage = "lease_acquired",
                        ![r].confirmed = @ \/ gui]
  /\ lease' = [lease EXCEPT ![r] =
       [owner |-> e, expires |-> now + LeaseTicks, stage |-> "lease_acquired"]]
  /\ UNCHANGED clock

\* The lease keeps its stage: recovery reads there how far the execution got.
ClaimTakesOverStaleLease(r, now) ==
  /\ StaleLease(r, now)
  /\ req' = [req EXCEPT ![r].status = "recovery_required", ![r].stage = "stale_lease"]
  /\ lease' = [lease EXCEPT ![r].owner = Recovery, ![r].expires = now]
  /\ UNCHANGED clock

ClaimFindsExpired(r, now) ==
  /\ req[r].status \in PreClaim \ {"absent"}
  /\ Due(req[r], now)
  /\ Expire(r)
  /\ UNCHANGED <<clock, lease>>

\* An active lease, a terminal or recovery status, a state or caller that is not
\* entitled to send: the transaction writes nothing.
ClaimRefused(r, now, gui) ==
  /\ ~Claimable(r, now, gui) /\ ~StaleLease(r, now)
  /\ ~(req[r].status \in PreClaim /\ Due(req[r], now))
  /\ UNCHANGED storeVars

(* record_send_mime renews from the clock inside the transaction,           *)
(* record_send_stage from the time it read before it.                       *)

RecordSendMime(r, e, now) ==
  /\ LeaseHeld(r, e, now)
  /\ req' = [req EXCEPT ![r].mime = TRUE, ![r].stage = "mime_built"]
  /\ lease' = [lease EXCEPT ![r].expires = clock + LeaseTicks, ![r].stage = "mime_built"]
  /\ UNCHANGED clock

CountedAfter == {"smtp_data_started", "smtp_accepted", "archive_pending"}

StageRecorded(row, leaseStage, stage) ==
  [row EXCEPT
     !.stage    = stage,
     !.attempts = IF stage = "smtp_data_started" /\ leaseStage \notin CountedAfter
                    THEN @ + 1 ELSE @,
     !.status   = IF stage = "smtp_accepted" THEN "smtp_accepted" ELSE @,
     !.accepted = @ \/ stage = "smtp_accepted",
     !.delivery = IF stage = "smtp_accepted" THEN "smtp_accepted" ELSE @,
     !.recon    = IF stage = "smtp_accepted" THEN "waiting" ELSE @]

RecordSendStage(r, e, now, stage) ==
  /\ LeaseHeld(r, e, now)
  /\ req' = [req EXCEPT ![r] = StageRecorded(@, lease[r].stage, stage)]
  /\ lease' = [lease EXCEPT ![r].expires = now + LeaseTicks, ![r].stage = stage]
  /\ UNCHANGED clock

(* complete_send_request.  With a lease_owner the lease must be that        *)
(* owner's (whatever its expiry); without one it writes unconditionally.    *)
(* outbound_id and package_id are COALESCEd.                                *)

DeliveryOf(status) ==
  CASE status \in {"sent", "sent_reconciled", "sent_archive_failed"} -> "sent"
    [] status = "delivery_unknown" -> "delivery_unknown"
    [] OTHER -> "not_sent"

ReconOf(status) ==
  CASE status = "sent_reconciled" -> "matched"
    [] status \in {"sent", "sent_archive_failed"} -> "waiting"
    [] status = "delivery_unknown" -> "unknown"
    [] status = "definitely_not_sent" -> "resolved_not_sent"
    [] OTHER -> "not_started"

Completed(row, status, outbound, package) ==
  [row EXCEPT !.status = status, !.stage = status,
     !.delivery = DeliveryOf(status), !.recon = ReconOf(status),
     !.outbound = @ \/ outbound, !.package = @ \/ package]

CompleteSendRequest(r, status, outbound, package) ==
  /\ req' = [req EXCEPT ![r] = Completed(@, status, outbound, package)]
  /\ lease' = [lease EXCEPT ![r] = NoLease]
  /\ UNCHANGED clock

\* Variant with a bug: the execution does not ask whether it still owns the lease.
CompleteUnowned(r, e, status, outbound, package) ==
  CompleteSendRequest(r, status, outbound, package)

CompleteAsOwner(r, e, status, outbound, package) ==
  /\ lease[r].owner = e
  /\ CompleteSendRequest(r, status, outbound, package)

(* The UPDATE send_requests of reconcile_sent_observation: no look at the   *)
(* lease, and a status outside the list keeps its value.                    *)

Reconcilable ==
  {"sent", "delivery_unknown", "recovery_required", "smtp_accepted",
   "sent_archive_failed"}

Observed(row) ==
  LET m == [row EXCEPT !.recon = "matched", !.outbound = TRUE, !.package = TRUE] IN
  IF row.status \in Reconcilable
    THEN [m EXCEPT !.status = "sent_reconciled", !.stage = "sent_reconciled",
                   !.delivery = "sent"]
    ELSE m

ReconcileSentRow(r) ==
  /\ req' = [req EXCEPT ![r] = Observed(@)]
  /\ UNCHANGED <<clock, lease>>
=============================================================================
