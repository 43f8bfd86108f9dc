-------------------------- MODULE SendPipelineInv --------------------------
(***************************************************************************)
(* The inductive invariant behind the safety properties of SendPipeline.   *)
(* TLC checks it as an invariant of a small instance; SendPipelineProofs   *)
(* proves it for every instance.                                           *)
(***************************************************************************)
EXTENDS SendPipeline

Claimed(r) == req[r].status \notin PreClaim \cup {"cancelled", "expired"}

StagePcs == {"stage", "staging"}
InFlightPcs == StagePcs \cup {"data", "inspect", "settle", "pending", "archive", "store", "fact", "finish"}

\* e holds the only execution of r that will ever be: it has claimed r.
Runs(e, r) == exec[e].pc \in InFlightPcs /\ exec[e].r = r

BeforeData(e) == exec[e].pc = "data" \/ (exec[e].pc \in StagePcs /\ exec[e].k <= 4)

PastAcceptance(e) ==
  \/ exec[e].pc \in {"pending", "archive", "store", "fact", "finish"}
  \/ exec[e].pc \in StagePcs /\ exec[e].k >= 6

\* Every busy actor has a request, and a result it may write.
ExecShape ==
  \A e \in Execs :
    /\ exec[e].pc # "idle" => exec[e].r \in Reqs
    /\ exec[e].pc \in StagePcs => exec[e].k \in 1..7
    /\ exec[e].pc = "data" => exec[e].k = 5
    /\ exec[e].pc = "settle" =>
         exec[e].verdict \in {"failed", "delivery_unknown", "sent_archive_failed"}
    /\ exec[e].pc = "pending" => exec[e].k = 7
    /\ exec[e].pc \in {"fact", "finish"} => exec[e].verdict \in {"sent", "sent_archive_failed"}

\* A worker has a request and, where it is about to write one, a verdict.
WorkShape ==
  \A w \in Workers :
    /\ work[w].pc # "idle" => work[w].r \in Reqs
    /\ work[w].pc = "reconcile" => work[w].verdict \in {"sent", "sent_reconciled"}
    /\ work[w].pc = "mark" =>
         work[w].verdict \in {"definitely_not_sent", "sent_reconciled", "sent_archive_failed"}

\* A synchronisation holds a copy the provider has made, so the request was taken.
SyncShape ==
  \A s \in Syncs : sync[s].pc # "idle" => sync[s].r \in Reqs /\ delivered[sync[s].r]

\* Before the claim, and after a withdrawal, nothing has happened to a request.
UnclaimedIsQuiet ==
  \A r \in Reqs : ~Claimed(r) =>
    /\ sends[r] = 0 /\ ~delivered[r] /\ pkg[r] = "none" /\ lease[r] = NoLease
    /\ req[r].attempts = 0 /\ ~req[r].confirmed
    /\ \A e \in Execs : ~Runs(e, r)

\* Only confirm mode waits for the user.
PendingIsConfirm ==
  \A r \in Reqs : req[r].status = "pending_confirmation" => req[r].mode = "confirm"

\* A worker that will write or archive works on a claimed request.
WorkersFollowClaims ==
  \A w \in Workers :
    work[w].pc # "idle" /\ (work[w].startup \/ work[w].pc \notin {"rescan", "evidence"})
      => Claimed(work[w].r)

\* A claim is given out once: two executions never run the same request.
OneExecution ==
  \A e1, e2 \in Execs, r \in Reqs : Runs(e1, r) /\ Runs(e2, r) => e1 = e2

\* Before its DATA step the execution of a request has sent nothing.
BeforeDataIsUnsent ==
  \A e \in Execs, r \in Reqs : Runs(e, r) /\ BeforeData(e) => sends[r] = 0

\* The lease of an execution that has not reached DATA does not suppress the count.
FirstDataCounts ==
  \A e \in Execs, r \in Reqs :
    Runs(e, r) /\ exec[e].pc \in StagePcs /\ exec[e].k <= 4 /\ lease[r].owner = e
      => lease[r].stage \notin CountedAfter

\* An execution about to send has counted its attempt.
DataHasRecord ==
  \A e \in Execs, r \in Reqs : Runs(e, r) /\ exec[e].pc = "data" => req[r].attempts >= 1

\* An execution that archives has recorded the acceptance.
AcceptanceHasRecord ==
  \A e \in Execs, r \in Reqs : Runs(e, r) /\ PastAcceptance(e) => req[r].accepted

\* Whoever decides a request takes its lease away; a Sent observation does not.
OwnedIsSendingOrAccepted ==
  \A r \in Reqs : lease[r].owner \in Execs =>
    \/ req[r].status = "sending"
    \/ req[r].accepted /\ req[r].status \in {"smtp_accepted", "sent_reconciled"}

\* As long as e owns the lease, the row shows that its bytes may have left.
OwnerStageIsTrue ==
  \A e \in Execs, r \in Reqs :
    Runs(e, r) /\ lease[r].owner = e /\ (sends[r] = 1 \/ exec[e].pc = "data")
      => req[r].accepted \/ req[r].stage \in {"smtp_data_started", "smtp_accepted"}

\* An owner that is about to write "failed" has sent nothing.
OwnerFailsUnsent ==
  \A e \in Execs, r \in Reqs :
    Runs(e, r) /\ lease[r].owner = e /\ exec[e].pc = "settle" /\ exec[e].verdict = "failed"
      => sends[r] = 0

\* "failed" is written by the execution itself, as its last step.
FailedIsOver ==
  \A r \in Reqs : req[r].status = "failed" => \A e \in Execs : ~Runs(e, r)

\* The inductive invariant.  At most one transmission needs OneExecution, which
\* needs UnclaimedIsQuiet; that "failed" is true needs OwnerStageIsTrue, which ties
\* the stage an owner has recorded to what it has sent.
IInv ==
  /\ TypeOK
  /\ ExecShape /\ WorkShape /\ SyncShape
  /\ UnclaimedIsQuiet /\ PendingIsConfirm /\ WorkersFollowClaims
  /\ OneExecution /\ BeforeDataIsUnsent /\ FirstDataCounts
  /\ DataHasRecord /\ AcceptanceHasRecord
  /\ OwnedIsSendingOrAccepted /\ OwnerStageIsTrue /\ OwnerFailsUnsent /\ FailedIsOver
  /\ AtMostOneData /\ DataIsLogged /\ FailedWasNotSent

-----------------------------------------------------------------------------
(* The inductive invariant behind the properties about what is reported:    *)
(* every status, and every remembered row or verdict that will become one,  *)
(* rests on a fact of the world, and those facts are never taken back.      *)

\* The facts that the reports rest on.
Happened(r) == delivered[r] \/ "sent" \in said[r]
Stored(r) == pkg[r] \in {"ready", "lowered"}
Reported == {"smtp_accepted", "sent", "sent_archive_failed", "sent_reconciled"}

\* A row reports what has happened, its stage too: what an execution has recorded
\* tells that its bytes may have left, in the row while it owns the lease and in the
\* lease when a later claim took that over.
DataBegun(r) == sends[r] > 0 \/ \E e \in Execs : exec[e].r = r /\ exec[e].pc = "data"

RowIsTrue(r) ==
  /\ req[r].status \in Reported => Happened(r)
  /\ req[r].accepted => delivered[r]
  /\ AcceptanceProven(req[r]) => Happened(r)
  /\ req[r].status = "smtp_accepted" => req[r].accepted
  /\ req[r].status = "sent" => req[r].package /\ Stored(r)
  /\ req[r].recon = "matched" /\ "sent" \notin said[r] => mapped[r] /\ pkg[r] # "none"

StageIsTrue(r) ==
  /\ req[r].status = "sending" =>
       /\ lease[r].stage = req[r].stage
       /\ DataBegun(r) => req[r].stage \in UNCERTAIN_STAGES
  /\ req[r].status = "recovery_required" =>
       /\ req[r].stage = "stale_lease" /\ lease[r].owner = Recovery
       /\ DataBegun(r) => lease[r].stage \in UNCERTAIN_STAGES

RowsAreTrue == \A r \in Reqs : RowIsTrue(r) /\ StageIsTrue(r)

\* Only a mail that was taken is archived.
PackagesAreOfSent == \A r \in Reqs : pkg[r] # "none" => Happened(r)

\* An execution behind its DATA step has the answer of the provider, and a
\* package where it says "sent".
ExecIsTrue(x) ==
  /\ x.pc \in StagePcs /\ x.k >= 5 => delivered[x.r]
  /\ x.pc \in {"pending", "archive", "store", "fact", "finish"} => delivered[x.r]
  /\ x.pc = "settle" /\ x.verdict = "sent_archive_failed" => delivered[x.r]
  /\ x.pc \in {"fact", "finish"} /\ x.verdict = "sent" => x.link /\ Stored(x.r)

ExecutionsAreTrue == \A e \in Execs : ExecIsTrue(exec[e])

\* What a worker remembers was so, and what it is about to write is.
WorkIsTrue(x) ==
  /\ x.row.accepted => x.r \in Reqs /\ delivered[x.r]
  /\ x.pc \in {"alease", "acheck"} /\ AcceptanceProven(x.row) => Happened(x.r)
  /\ x.pc \in {"aarchive", "astore", "afact", "afinish", "reconcile"} => Happened(x.r)
  /\ x.pc \in {"afact", "afinish", "reconcile"} => Stored(x.r)
  /\ x.pc = "reconcile" /\ x.verdict = "sent_reconciled" => mapped[x.r]

\* A recovery that comes to a verdict of its own has not read an archiving status.
VerdictIsDue(x) ==
  /\ x.pc = "verdict" => x.startup
  /\ x.startup /\ x.pc \in {"rescan", "evidence", "reconcile", "verdict"}
       => x.row.status \notin {"sent_archive_failed", "smtp_accepted"}

WorkersAreTrue == \A w \in Workers : WorkIsTrue(work[w]) /\ VerdictIsDue(work[w])

\* A synchronisation maps the copy to a package before it touches the row.
SyncIsTrue(x) ==
  /\ x.pc \in {"map", "fact", "row"} => pkg[x.r] # "none"
  /\ x.pc \in {"fact", "row"} => mapped[x.r]

SyncsAreTrue == \A s \in Syncs : SyncIsTrue(sync[s])

TruthInv ==
  RowsAreTrue /\ PackagesAreOfSent /\ ExecutionsAreTrue /\ WorkersAreTrue /\ SyncsAreTrue
=============================================================================
