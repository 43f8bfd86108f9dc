---------------------------- MODULE Maintenance -----------------------------
(***************************************************************************)
(* Backups, restores, consistency scans and single repairs.  The desktop   *)
(* program runs one of these tasks at a time, so its maintenance lock is   *)
(* always free; receiving and the MCP process write in between.            *)
(***************************************************************************)
EXTENDS Naturals, Sequences, FiniteSets

CONSTANTS
  Issues,      \* the troubles that may arise
  PassOf,      \* the pass of the scan that looks for an issue: "files", "packages", "tables", "snapshots"
  Repairable,  \* the issues with a rule in _REPAIR_RULES
  MaxWrites,   \* bound on the rows of other writers
  MaxTurns,    \* bound on the troubles that arise or pass without a repair
  MaxTasks,    \* bound on the tasks
  MaxFaults    \* bound on failing calls and crashes

VARIABLES
  db,         \* the database: rows of others, troubles, health issues, newest scan, repair audit
  copies,     \* the backups, oldest first
  preview,    \* the repair preview on the screen
  job,        \* the task under way
  receiving,  \* an account lock is held in this process
  rowsMade, turns, jobs, faults,
  gap,        \* rows written between a safety backup and the copy that follows it
  steady      \* troubles that have stood, and those that were absent, all through the scan

vars == <<db, copies, preview, job, receiving, rowsMade, turns, jobs, faults, gap, steady>>

Passes == <<"files", "packages", "tables", "snapshots">>
\* Each trouble has the pass that looks for it.
Sorted ==
  /\ MaxWrites \in Nat /\ MaxTasks \in Nat
  /\ PassOf \in [Issues -> {"files", "packages", "tables", "snapshots"}]
NoPreview == [scan |-> 0, issues |-> {}]
NoJob == [op |-> "none", at |-> "idle", issue |-> "", scan |-> 0, saw |-> {}, copy |-> 0,
          row |-> 0, done |-> FALSE]

\* did is what the action really changed; the code has no such column.
AuditRow == [issue : Issues, scan : 0..MaxTasks, copy : 0..Len(copies), did : BOOLEAN,
             status : {"awaiting_backup", "executing", "completed", "no_change", "failed"}]

TypeOK ==
  /\ db.rows \subseteq 1..MaxWrites /\ db.trouble \subseteq Issues
  /\ db.health \in [Issues -> {"none", "open", "resolved"}]
  /\ db.newest \in 0..MaxTasks
  /\ \A i \in DOMAIN db.audit : db.audit[i] \in AuditRow
  /\ preview \in [scan : 0..MaxTasks, issues : SUBSET Issues]
  /\ job.at \in {"idle", "begin", "backup", "mark", "act", "finish", "safety", "copy", "check", "commit"}
               \cup {Passes[n] : n \in 1..4}
  /\ gap \subseteq 1..MaxWrites /\ receiving \in BOOLEAN
  /\ steady.there \subseteq Issues /\ steady.absent \subseteq Issues

Init ==
  /\ db = [rows |-> {}, trouble |-> {}, health |-> [i \in Issues |-> "none"], newest |-> 0, audit |-> <<>>]
  /\ copies = <<>> /\ preview = NoPreview /\ job = NoJob /\ receiving = FALSE
  /\ rowsMade = 0 /\ turns = 0 /\ jobs = 0 /\ faults = 0
  /\ gap = {} /\ steady = [there |-> {}, absent |-> {}]

At(place) == job.at = place
Goes(place) == job' = [job EXCEPT !.at = place]
Faulty == faults < MaxFaults /\ faults' = faults + 1
bounds == <<rowsMade, turns, jobs, faults>>

-----------------------------------------------------------------------------
(* The others: receiving in this process, the MCP process, time.            *)

\* With _account_receive_locks; no receive looks at the maintenance lock.
ReceiveTurns ==
  /\ receiving' = ~receiving
  /\ UNCHANGED <<db, copies, preview, job, bounds, gap, steady>>

OtherWrites ==
  /\ rowsMade < MaxWrites /\ rowsMade' = rowsMade + 1
  /\ db' = [db EXCEPT !.rows = @ \cup {rowsMade + 1}]
  /\ gap' = IF job.at \in {"copy", "check"} THEN gap \cup {rowsMade + 1} ELSE gap
  /\ UNCHANGED <<copies, preview, job, receiving, turns, jobs, faults, steady>>

Stays(troubles) ==
  steady' = [there |-> steady.there \cap troubles, absent |-> steady.absent \ troubles]

\* A send is interrupted, a file goes, or a later run of its owner puts it right.
TroubleTurns(i) ==
  /\ turns < MaxTurns /\ turns' = turns + 1
  /\ LET now == IF i \in db.trouble THEN db.trouble \ {i} ELSE db.trouble \cup {i} IN
       /\ db' = [db EXCEPT !.trouble = now]
       /\ Stays(now)
  /\ UNCHANGED <<copies, preview, job, receiving, rowsMade, jobs, faults, gap>>

-----------------------------------------------------------------------------
(* The scan: four passes, each with reads of its own, and one commit.       *)

Starts == job = NoJob /\ jobs < MaxTasks /\ jobs' = jobs + 1

Scans(base) ==
  /\ job' = [base EXCEPT !.at = "files", !.scan = jobs', !.saw = {}]
  /\ steady' = [there |-> db.trouble, absent |-> Issues \ db.trouble]

ScanStarts ==
  /\ Starts /\ Scans([NoJob EXCEPT !.op = "scan"])
  /\ UNCHANGED <<db, copies, preview, receiving, rowsMade, turns, faults, gap>>

Seen(pass) == {i \in db.trouble : PassOf[i] = pass}

Look(n) ==
  /\ At(Passes[n])
  /\ job' = [job EXCEPT !.saw = @ \cup Seen(Passes[n]), !.at = IF n = 4 THEN "commit" ELSE Passes[n + 1]]
  /\ UNCHANGED <<db, copies, preview, receiving, bounds, gap, steady>>

LookAtFiles == Look(1)
LookAtPackages == Look(2)
LookAtTables == Look(3)
LookAtSnapshots == Look(4)

\* Mutant: an issue stays as it was first filed.
SyncedOnce(health, saw) ==
  [i \in Issues |-> IF i \in saw /\ health[i] = "none" THEN "open"
                    ELSE IF i \notin saw /\ health[i] = "open" THEN "resolved" ELSE health[i]]

\* _sync_health_issues.
Synced(health, saw) ==
  [i \in Issues |-> IF i \in saw THEN "open" ELSE IF health[i] = "open" THEN "resolved" ELSE health[i]]

ScanCommits ==
  /\ At("commit")
  /\ db' = [db EXCEPT !.newest = job.scan, !.health = Synced(@, job.saw)]
  /\ preview' = [scan |-> job.scan, issues |-> job.saw]
  /\ job' = NoJob
  /\ UNCHANGED <<copies, receiving, bounds, gap, steady>>

\* A task that fails shows its error; the old preview stays on the screen.
ScanFails ==
  /\ job.at \in {Passes[n] : n \in 1..4} \cup {"commit"} /\ Faulty
  /\ job' = NoJob
  /\ UNCHANGED <<db, copies, preview, receiving, rowsMade, turns, jobs, gap, steady>>

-----------------------------------------------------------------------------
(* A repair: begin, backup, mark, act, finish, and a scan.                  *)

RepairStarts(i) ==
  /\ Starts /\ i \in preview.issues \cap Repairable
  /\ job' = [NoJob EXCEPT !.op = "repair", !.at = "begin", !.issue = i, !.scan = preview.scan]
  /\ UNCHANGED <<db, copies, preview, receiving, rowsMade, turns, faults, gap, steady>>

MayBegin(d) == d.newest = job.scan /\ d.health[job.issue] = "open"

RepairBegins ==
  /\ At("begin")
  /\ IF MayBegin(db)
       THEN /\ db' = [db EXCEPT !.audit = Append(@, [issue |-> job.issue, scan |-> job.scan, copy |-> 0,
                                                      did |-> FALSE, status |-> "awaiting_backup"])]
            /\ job' = [job EXCEPT !.at = "backup", !.row = Len(db.audit) + 1]
       ELSE job' = NoJob /\ UNCHANGED db
  /\ UNCHANGED <<copies, preview, receiving, bounds, gap, steady>>

\* finish_consistency_repair.
Finished(d, row, status) ==
  IF d.audit[row].status \in {"awaiting_backup", "executing"}
    THEN [d EXCEPT !.audit[row].status = status] ELSE d

\* create_database_backup: a manual one, or the one before a repair.
BackupStarts ==
  /\ Starts /\ job' = [NoJob EXCEPT !.op = "backup", !.at = "backup"]
  /\ UNCHANGED <<db, copies, preview, receiving, rowsMade, turns, faults, gap, steady>>

BackupIsMade ==
  /\ At("backup")
  /\ copies' = Append(copies, db)
  /\ job' = IF job.op = "backup" THEN NoJob ELSE [job EXCEPT !.at = "mark", !.copy = Len(copies) + 1]
  /\ UNCHANGED <<db, preview, receiving, bounds, gap, steady>>

\* Mutant: the repair goes on without a backup.
BackupFailsOn ==
  /\ At("backup") /\ Faulty
  /\ job' = IF job.op = "repair" THEN [job EXCEPT !.at = "act"] ELSE NoJob
  /\ UNCHANGED <<db, copies, preview, receiving, rowsMade, turns, jobs, gap, steady>>

BackupFails ==
  /\ At("backup") /\ Faulty
  /\ db' = IF job.op = "repair" THEN Finished(db, job.row, "failed") ELSE db
  /\ job' = NoJob
  /\ UNCHANGED <<copies, preview, receiving, rowsMade, turns, jobs, gap, steady>>

\* mark_consistency_repair_backup.
Marked(d) ==
  [d EXCEPT !.audit[job.row].copy = job.copy, !.audit[job.row].status = "executing"]

RepairIsMarked ==
  /\ At("mark")
  /\ db' = Marked(db)
  /\ Goes("act")
  /\ UNCHANGED <<copies, preview, receiving, bounds, gap, steady>>

\* Mutant: the action trusts the scan.
StillThereOnScan(d) == TRUE

\* Every action of _execute_consistency_repair_action reads the state of its request anew.
StillThere(d) == job.issue \in d.trouble

RepairActs ==
  /\ At("act")
  /\ \/ /\ StillThere(db)
        /\ db' = [db EXCEPT !.trouble = @ \ {job.issue}, !.audit[job.row].did = TRUE]
        /\ job' = [job EXCEPT !.at = "finish", !.done = TRUE]
        /\ Stays(db.trouble \ {job.issue})
     \/ /\ Goes("finish")
        /\ UNCHANGED <<db, steady>>
  /\ UNCHANGED <<copies, preview, receiving, bounds, gap>>

\* The action fails, maybe after its first step has been committed: the request is
\* completed as sent_archive_failed and its archive fails again.
RepairActFails ==
  /\ At("act") /\ Faulty
  /\ \E first \in IF StillThere(db) THEN BOOLEAN ELSE {FALSE} :
       db' = Finished([db EXCEPT !.audit[job.row].did = first], job.row, "failed")
  /\ job' = NoJob
  /\ UNCHANGED <<copies, preview, receiving, rowsMade, turns, jobs, gap, steady>>

\* Mutant: an action that returns is a success.
OutcomeAlways(done) == "completed"

Outcome(done) == IF done THEN "completed" ELSE "no_change"

RepairFinishes ==
  /\ At("finish") /\ jobs < MaxTasks
  /\ jobs' = jobs + 1
  /\ db' = Finished(db, job.row, Outcome(job.done))
  /\ Scans(job)
  /\ UNCHANGED <<copies, preview, receiving, rowsMade, turns, faults, gap>>

-----------------------------------------------------------------------------
(* A restore.                                                               *)

RestoreStarts(n) ==
  /\ Starts /\ ~receiving
  /\ job' = [NoJob EXCEPT !.op = "restore", !.at = "safety", !.copy = n]
  /\ UNCHANGED <<db, copies, preview, receiving, rowsMade, turns, faults, gap, steady>>

\* Mutant: the last backup will do.
SecuredOnce(d) == IF copies = <<>> THEN <<d>> ELSE copies

Secured(d) == Append(copies, d)

SafetyIsMade ==
  /\ At("safety")
  /\ copies' = Secured(db)
  /\ job' = [job EXCEPT !.at = "copy", !.row = Len(copies')]
  /\ UNCHANGED <<db, preview, receiving, bounds, gap, steady>>

SafetyFails ==
  /\ At("safety") /\ Faulty
  /\ job' = NoJob
  /\ UNCHANGED <<db, copies, preview, receiving, rowsMade, turns, jobs, gap, steady>>

\* The copy replaces all pages in one step and excludes writers meanwhile.
Copied ==
  /\ At("copy")
  /\ db' = copies[job.copy]
  /\ Goes("check")
  /\ Stays(copies[job.copy].trouble)
  /\ UNCHANGED <<copies, preview, receiving, bounds, gap>>

RestoreEnds ==
  /\ At("check")
  /\ job' = NoJob
  /\ UNCHANGED <<db, copies, preview, receiving, bounds, gap, steady>>

\* The copy or the check fails and the safety backup is put back.
RollsBack ==
  /\ job.at \in {"copy", "check"} /\ Faulty
  /\ db' = copies[job.row]
  /\ job' = NoJob
  /\ Stays(copies[job.row].trouble)
  /\ UNCHANGED <<copies, preview, receiving, rowsMade, turns, jobs, gap>>

\* The program ends anywhere and comes up again.
Crash ==
  /\ job # NoJob /\ Faulty
  /\ job' = NoJob /\ preview' = NoPreview /\ receiving' = FALSE
  /\ UNCHANGED <<db, copies, rowsMade, turns, jobs, gap, steady>>

Next ==
  \/ ReceiveTurns \/ OtherWrites
  \/ \E i \in Issues : TroubleTurns(i) \/ RepairStarts(i)
  \/ ScanStarts \/ LookAtFiles \/ LookAtPackages \/ LookAtTables \/ LookAtSnapshots
  \/ ScanCommits \/ ScanFails
  \/ RepairBegins \/ BackupStarts \/ BackupIsMade \/ BackupFails \/ RepairIsMarked
  \/ RepairActs \/ RepairActFails \/ RepairFinishes
  \/ \E n \in DOMAIN copies : RestoreStarts(n)
  \/ SafetyIsMade \/ SafetyFails \/ Copied \/ RestoreEnds \/ RollsBack
  \/ Crash

Spec == Init /\ [][Next]_vars

-----------------------------------------------------------------------------
(* Properties.                                                              *)

RepairsBy(i) == job.op = "repair" /\ ~db.audit[i].did /\ db'.audit[i].did

\* A repair changes a request only while its audit row says executing and names a backup
\* that holds that row as awaiting_backup: the backup was taken after the repair began.
RepairIsBackedUp == [][
  \A i \in DOMAIN db.audit :
    RepairsBy(i) =>
      /\ db.audit[i].status = "executing"
      /\ db.audit[i].copy \in DOMAIN copies
      /\ i \in DOMAIN copies[db.audit[i].copy].audit
      /\ copies[db.audit[i].copy].audit[i].status = "awaiting_backup"]_vars

\* A repair leaves alone a request whose trouble has passed since the scan.
PassedTroubleIsLeft == [][
  \A i \in DOMAIN db.audit :
    RepairsBy(i) => db.audit[i].issue \in db.trouble]_vars

\* The audit says completed only of a repair that changed something and no_change only of
\* one that did not, whatever is restored in between.
AuditIsTrue ==
  \A i \in DOMAIN db.audit :
    /\ db.audit[i].status = "completed" => db.audit[i].did
    /\ db.audit[i].status = "no_change" => ~db.audit[i].did

\* Every row ever written is in the database or in a backup, but for those written
\* between the safety backup of a restore and the end of that restore.
NothingIsLost ==
  \A w \in 1..rowsMade :
    w \in db.rows \/ w \in gap \/ \E n \in DOMAIN copies : w \in copies[n].rows

\* After a scan a trouble that stood all through it is open, a resolved one that came
\* back included, and one that was absent all through it is not.
ScanIsCurrent == [][
  db'.newest > db.newest /\ job' = NoJob /\ job.at = "commit" =>
    \A i \in Issues : /\ i \in steady.there => db'.health[i] = "open"
                      /\ i \in steady.absent => db'.health[i] # "open"]_vars

\* What restore_backup says of itself, and what its check before the lock does not give.
RestoreExcludesReceiving == ~(job.op = "restore" /\ receiving)
=============================================================================
