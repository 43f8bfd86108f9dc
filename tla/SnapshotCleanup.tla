-------------------------- MODULE SnapshotCleanup --------------------------
(***************************************************************************)
(* The explicit clean-up of send snapshots (retention_cleanup.py): the     *)
(* directory of a request is renamed into a quarantine inside a database   *)
(* transaction, the row is marked, and the quarantine is deleted after the *)
(* commit.  Every process recovers interrupted clean-ups when it starts,   *)
(* and a clean-up does so before it plans.                                 *)
(*                                                                         *)
(* The GUI and the MCP server are two processes on one data directory: the *)
(* SQLite write lock excludes two transactions, nothing excludes a         *)
(* recovery from a clean-up that is under way.                             *)
(***************************************************************************)
EXTENDS Naturals

CONSTANTS
  Reqs,        \* send requests
  Starters,    \* processes that start: initialize() recovers
  Cleaners,    \* calls of execute_safe_cleanup
  NoProc,      \* the write lock is free
  NoReq,
  MaxTries,    \* bound on the quarantine names made for a request
  MaxCrashes   \* bound on the crashes of a behaviour

ASSUME ProcAssumption ==
  /\ Starters \cap Cleaners = {}
  /\ NoProc \notin Starters \cup Cleaners
  /\ NoReq \notin Reqs
  /\ MaxTries \in Nat /\ MaxCrashes \in Nat

Procs == Starters \cup Cleaners

VARIABLES
  row,       \* the send_requests row and what _eligible_requests joins to it
  place,     \* where the snapshot directory is; n is the uuid of a quarantine
  whole,     \* no file of the directory has been deleted
  tries,     \* quarantine names made for the request
  writer,    \* the process inside BEGIN IMMEDIATE ... COMMIT
  recorded,  \* requests named by a row of cleanup_records
  proc,      \* local state of each process
  crashes

vars == <<row, place, whole, tries, writer, recorded, proc, crashes>>

-----------------------------------------------------------------------------

PROTECTED_STATUSES ==
  {"pending_confirmation", "sending", "smtp_accepted", "sent_archive_failed",
   "delivery_unknown", "recovery_required"}

ShortRetention == {"cancelled", "expired", "definitely_not_sent", "failed"}
LongRetention  == {"sent", "sent_reconciled"}

\* age: 1 when SHORT_RETENTION_DAYS have passed since updated_at, 2 when
\* RECONCILED_RETENTION_DAYS have.  A failed row never has recovery_required.
Rows == [status : PROTECTED_STATUSES \cup ShortRetention \cup LongRetention,
         age : 0..2, ready : BOOLEAN, matched : BOOLEAN, cleaned : BOOLEAN]

Eligible(r) ==
  /\ ~row[r].cleaned
  /\ \/ row[r].status \in ShortRetention /\ row[r].age >= 1
     \/ row[r].status \in LongRetention /\ row[r].age = 2 /\ row[r].ready /\ row[r].matched

Pcs == {"idle", "list", "next", "read", "restore", "remove", "removing",
        "plan", "each", "move", "mark", "undo", "size", "record"}

\* todo: quarantine directories still to be recovered; plan: requests still to be
\* cleaned; items: the planned requests.
Idle == [pc |-> "idle", todo |-> {}, plan |-> {}, items |-> {}, r |-> NoReq, n |-> 0]

ProcState == [pc : Pcs, todo : SUBSET (Reqs \X Nat), plan : SUBSET Reqs,
              items : SUBSET Reqs, r : Reqs \cup {NoReq}, n : Nat]

AtRoot(r) == place[r].at = "root"
InQuarantine(r, n) == place[r] = [at |-> "quarantine", n |-> n]

\* Rows, directories and processes stay inside their alphabets.
TypeOK ==
  /\ row \in [Reqs -> Rows]
  /\ place \in [Reqs -> [at : {"root", "quarantine", "gone"}, n : Nat]]
  /\ whole \in [Reqs -> BOOLEAN]
  /\ tries \in [Reqs -> Nat]
  /\ writer \in Procs \cup {NoProc}
  /\ recorded \subseteq Reqs
  /\ proc \in [Procs -> ProcState]
  /\ crashes \in 0..MaxCrashes

Init ==
  /\ row \in [Reqs -> {x \in Rows : x.age = 2 /\ ~x.cleaned
                                    /\ x.status \in {"cancelled", "sent", "delivery_unknown"}}]
  /\ place = [r \in Reqs |-> [at |-> "root", n |-> 0]]
  /\ whole = [r \in Reqs |-> TRUE]
  /\ tries = [r \in Reqs |-> 0]
  /\ writer = NoProc
  /\ recorded = {}
  /\ proc = [p \in Procs |-> Idle]
  /\ crashes = 0

Goes(p, state) == proc' = [proc EXCEPT ![p] = state]
At(p, pc) == [proc[p] EXCEPT !.pc = pc]
MovesTo(r, at, n) == place' = [place EXCEPT ![r] = [at |-> at, n |-> n]]

\* The next quarantine directory, or the next planned request.
Resumes(p) == Goes(p, [proc[p] EXCEPT !.pc = IF proc[p].plan = {} /\ proc[p].items = {}
                                               THEN "next" ELSE "each",
                                      !.r = NoReq, !.n = 0])

-----------------------------------------------------------------------------
(* recover_snapshot_cleanup_transactions.                                   *)

Starts(p) ==
  /\ proc[p].pc = "idle"
  /\ Goes(p, [Idle EXCEPT !.pc = "list"])
  /\ UNCHANGED <<row, place, whole, tries, writer, recorded, crashes>>

Lists(p) ==
  /\ proc[p].pc = "list"
  /\ Goes(p, [At(p, "next") EXCEPT !.todo =
       {<<r, place[r].n>> : r \in {x \in Reqs : place[x].at = "quarantine"}}])
  /\ UNCHANGED <<row, place, whole, tries, writer, recorded, crashes>>

TakesNext(p) ==
  /\ proc[p].pc = "next"
  /\ \/ \E x \in proc[p].todo :
          Goes(p, [At(p, "read") EXCEPT !.r = x[1], !.n = x[2], !.todo = @ \ {x}])
     \/ proc[p].todo = {} /\ Goes(p, IF p \in Cleaners THEN At(p, "plan") ELSE Idle)
  /\ UNCHANGED <<row, place, whole, tries, writer, recorded, crashes>>

\* Variant with a bug: the quarantine of a finished clean-up is left to itself.
AfterReadLeaves(p) == IF row[proc[p].r].cleaned THEN "next" ELSE "restore"

\* Variant with a bug: the quarantine of a clean-up that did not commit is deleted.
AfterReadPurges(p) == "remove"

\* The committed value: a reader does not wait for the writer.
AfterRead(p) == IF row[proc[p].r].cleaned THEN "remove" ELSE "restore"

\* A directory that has vanished is skipped.
ReadsRow(p) ==
  /\ proc[p].pc = "read"
  /\ IF InQuarantine(proc[p].r, proc[p].n) THEN Goes(p, At(p, AfterRead(p))) ELSE Resumes(p)
  /\ UNCHANGED <<row, place, whole, tries, writer, recorded, crashes>>

\* not root.exists(), then replace_atomically(quarantine, root).
Restores(p) ==
  LET r == proc[p].r IN
  /\ proc[p].pc = "restore"
  /\ InQuarantine(r, proc[p].n)
  /\ MovesTo(r, "root", 0)
  /\ Resumes(p)
  /\ UNCHANGED <<row, whole, tries, writer, recorded, crashes>>

\* "unresolved": the quarantine has vanished, or the file system refuses.
RestoreFails(p) ==
  /\ proc[p].pc = "restore"
  /\ Resumes(p)
  /\ UNCHANGED <<row, place, whole, tries, writer, recorded, crashes>>

\* shutil.rmtree(quarantine), of a recovery and of a clean-up: the files go one by
\* one, and the call may fail half way.
RemoveBegins(p) ==
  LET r == proc[p].r IN
  /\ proc[p].pc = "remove"
  /\ IF InQuarantine(r, proc[p].n)
       THEN whole' = [whole EXCEPT ![r] = FALSE] /\ Goes(p, At(p, "removing"))
       ELSE Resumes(p) /\ UNCHANGED whole
  /\ UNCHANGED <<row, place, tries, writer, recorded, crashes>>

RemoveEnds(p) ==
  LET r == proc[p].r IN
  /\ proc[p].pc = "removing"
  /\ IF InQuarantine(r, proc[p].n) THEN MovesTo(r, "gone", 0) ELSE UNCHANGED place
  /\ Resumes(p)
  /\ UNCHANGED <<row, whole, tries, writer, recorded, crashes>>

RemoveFails(p) ==
  /\ proc[p].pc = "removing"
  /\ Resumes(p)
  /\ UNCHANGED <<row, place, whole, tries, writer, recorded, crashes>>

-----------------------------------------------------------------------------
(* cleanup_send_snapshots: plan, then _delete_snapshot_if_still_eligible    *)
(* for each planned request, then the audit row.                            *)

Plans(p) ==
  LET items == {r \in Reqs : Eligible(r)} IN
  /\ proc[p].pc = "plan"
  /\ Goes(p, [At(p, IF items = {} THEN "record" ELSE "each") EXCEPT !.plan = items, !.items = items])
  /\ UNCHANGED <<row, place, whole, tries, writer, recorded, crashes>>

\* Variant with a bug: the plan is not looked at again.
StillEligibleOfPlan(r) == TRUE

StillEligible(r) == Eligible(r)

\* BEGIN IMMEDIATE, and the plan is checked again inside the transaction.
Begins(p) ==
  /\ proc[p].pc = "each"
  /\ writer = NoProc
  /\ \E r \in proc[p].plan :
       IF StillEligible(r)
         THEN /\ writer' = p
              /\ Goes(p, [At(p, "move") EXCEPT !.r = r, !.plan = @ \ {r}])
         ELSE /\ Goes(p, [proc[p] EXCEPT !.plan = @ \ {r}])
              /\ UNCHANGED writer
  /\ UNCHANGED <<row, place, whole, tries, recorded, crashes>>

\* A request without a directory is only marked.
Moves(p) ==
  LET r == proc[p].r IN
  /\ proc[p].pc = "move"
  /\ IF AtRoot(r)
       THEN /\ tries[r] < MaxTries
            /\ tries' = [tries EXCEPT ![r] = @ + 1]
            /\ MovesTo(r, "quarantine", tries[r] + 1)
            /\ Goes(p, [At(p, "mark") EXCEPT !.n = tries[r] + 1])
       ELSE Goes(p, At(p, "mark")) /\ UNCHANGED <<tries, place>>
  /\ UNCHANGED <<row, whole, writer, recorded, crashes>>

\* _mark_snapshot_cleaned and COMMIT; then quarantine.exists() is asked.
Marks(p) ==
  LET r == proc[p].r IN
  /\ proc[p].pc = "mark"
  /\ row' = [row EXCEPT ![r].cleaned = TRUE, ![r].age = 0]
  /\ writer' = NoProc
  /\ IF proc[p].n > 0 /\ InQuarantine(r, proc[p].n) THEN Goes(p, At(p, "size")) ELSE Resumes(p)
  /\ UNCHANGED <<place, whole, tries, recorded, crashes>>

\* _tree_size walks the directory; it raises when another process is deleting it.
Sizes(p) ==
  /\ proc[p].pc = "size"
  /\ \/ Goes(p, At(p, "remove"))
     \/ ~whole[proc[p].r] /\ Goes(p, At(p, "undo"))
  /\ UNCHANGED <<row, place, whole, tries, writer, recorded, crashes>>

\* The path check, the rename, the updates or the commit fails: ROLLBACK.
Fails(p) ==
  /\ proc[p].pc \in {"move", "mark"}
  /\ writer' = NoProc
  /\ IF proc[p].pc = "mark" /\ proc[p].n > 0 THEN Goes(p, At(p, "undo")) ELSE Resumes(p)
  /\ UNCHANGED <<row, place, whole, tries, recorded, crashes>>

\* The except branch: a directory that was moved goes back, if it can.
Undoes(p) ==
  LET r == proc[p].r IN
  /\ proc[p].pc = "undo"
  /\ \/ InQuarantine(r, proc[p].n) /\ MovesTo(r, "root", 0)
     \/ UNCHANGED place
  /\ Resumes(p)
  /\ UNCHANGED <<row, whole, tries, writer, recorded, crashes>>

PlanIsDone(p) ==
  /\ proc[p].pc = "each"
  /\ proc[p].plan = {}
  /\ Goes(p, At(p, "record"))
  /\ UNCHANGED <<row, place, whole, tries, writer, recorded, crashes>>

\* _record_cleanup
Records(p) ==
  /\ proc[p].pc = "record"
  /\ writer = NoProc
  /\ recorded' = recorded \cup proc[p].items
  /\ Goes(p, Idle)
  /\ UNCHANGED <<row, place, whole, tries, writer, crashes>>

Step(p) ==
  \/ Lists(p) \/ TakesNext(p) \/ ReadsRow(p)
  \/ Restores(p) \/ RestoreFails(p)
  \/ RemoveBegins(p) \/ RemoveEnds(p) \/ RemoveFails(p)
  \/ Plans(p) \/ Begins(p) \/ Moves(p) \/ Marks(p) \/ Sizes(p)
  \/ Fails(p) \/ Undoes(p) \/ PlanIsDone(p) \/ Records(p)

-----------------------------------------------------------------------------
(* The environment: other transactions change the rows, processes die.      *)

\* Variant with a bug: a status no reader of the table knows.
SentObservedMisspelt(r) ==
  /\ writer = NoProc
  /\ row[r].status \in {"sent", "sent_reconciled"}
  /\ row' = [row EXCEPT ![r].status = "sent_observed"]
  /\ UNCHANGED <<place, whole, tries, writer, recorded, proc, crashes>>

\* reconcile_sent_observation, for one more copy of a sent mail.
SentObserved(r) ==
  /\ writer = NoProc
  /\ row[r].status \in {"sent", "sent_reconciled"}
  /\ row' = [row EXCEPT ![r].status = "sent_reconciled", ![r].matched = TRUE, ![r].age = 0]
  /\ UNCHANGED <<place, whole, tries, writer, recorded, proc, crashes>>

\* An archive attempt that fails in part lowers mail_packages.archive_status.
PackageLowered(r) ==
  /\ writer = NoProc
  /\ row[r].ready
  /\ row' = [row EXCEPT ![r].ready = FALSE]
  /\ UNCHANGED <<place, whole, tries, writer, recorded, proc, crashes>>

\* The lock and the uncommitted row of a dead process are given back by SQLite.
Crash(p) ==
  /\ proc[p].pc # "idle"
  /\ crashes < MaxCrashes
  /\ crashes' = crashes + 1
  /\ writer' = IF writer = p THEN NoProc ELSE writer
  /\ Goes(p, Idle)
  /\ UNCHANGED <<row, place, whole, tries, recorded>>

Next ==
  \/ \E p \in Procs : Starts(p) \/ Step(p) \/ Crash(p)
  \/ \E r \in Reqs : SentObserved(r) \/ PackageLowered(r)

Spec == Init /\ [][Next]_vars

\* A running process goes on; the application is started again and again, and the
\* file system lets a directory be deleted or renamed at last.
Fairness ==
  /\ \A p \in Procs : WF_vars(Step(p)) /\ SF_vars(RemoveEnds(p)) /\ SF_vars(Restores(p))
  /\ \A p \in Starters : WF_vars(Starts(p))

FairSpec == Spec /\ Fairness

-----------------------------------------------------------------------------
(* Properties.                                                              *)

\* Until its row is committed as cleaned, a snapshot exists whole, at its place or
\* in a quarantine that recovery finds, whatever recoveries, failures, roll-backs
\* and crashes meet.
SnapshotIsKept ==
  \A r \in Reqs : ~row[r].cleaned => whole[r] /\ place[r].at # "gone"

\* At the moment a request is marked as cleaned it still has none of the statuses
\* that need recovery material and, if it was sent, a ready package matched in Sent.
OnlyExpendableIsCleaned ==
  [][\A r \in Reqs : row'[r].cleaned # row[r].cleaned =>
       /\ row[r].status \notin PROTECTED_STATUSES
       /\ row[r].status \in LongRetention => row[r].ready /\ row[r].matched]_vars

\* No snapshot stays in the quarantine for ever: a clean-up that died between rename
\* and delete is finished or undone by a later start.
QuarantineEmpties ==
  \A r \in Reqs : place[r].at = "quarantine" ~> place[r].at # "quarantine"

(* What the documents say and the code does not keep.                       *)

\* docs/临时资料生命周期.md:17, crash recovery deletes or restores according to the
\* state of the transaction: with nobody at work, a cleaned request has no snapshot.
CleanedHasNoSnapshot ==
  (\A p \in Procs : proc[p].pc = "idle") =>
    \A r \in Reqs : row[r].cleaned => ~AtRoot(r)
=============================================================================
