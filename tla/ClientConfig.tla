---------------------------- MODULE ClientConfig ----------------------------
(***************************************************************************)
(* The configuration file of an Agent client: AgentMailBridge previews a   *)
(* change, applies it behind a backup, restores backups, and rotates the   *)
(* scoped token in the credential store, the database and that file.  The  *)
(* client's own program edits the file meanwhile.  A hash stands for the   *)
(* content: ours is the token of our entry, other the rest of the file.    *)
(***************************************************************************)
EXTENDS Naturals, Sequences, FiniteSets

CONSTANTS
  Keep,         \* AGENT_CONFIG_BACKUP_MAX_COUNT
  MaxEdits,     \* bound on the edits of the other program
  MaxTasks,     \* bound on the tasks
  MaxTrouble    \* bound on crashes, failing statements and lost backup files

VARIABLES
  file,      \* the configuration file
  cred,      \* the token in the credential store, 0 for none
  client,    \* the row of agent_clients
  plan,      \* the previewed plan that waits for its confirmation
  task,      \* the task under way
  backups,   \* rows and files of the backups, oldest first
  edits, tasks, trouble,
  exposed,   \* "write": an edit fell between a check and its write; "row": an edit or a
             \* failure fell between a write and its row
  crashed

vars == <<file, cred, client, plan, task, backups, edits, tasks, trouble, exposed, crashed>>

Bounded == MaxEdits \in Nat /\ MaxTasks \in Nat /\ MaxTrouble \in Nat
Tokens == 0..MaxTasks + 1
Content == [ours : Tokens, other : 0..MaxEdits]
Applied == {"reload_required", "restored_reload_required"}
NoPlan == [action |-> "none", orig |-> [ours |-> 0, other |-> 0], planned |-> [ours |-> 0, other |-> 0]]
NoTask == [op |-> "none", at |-> "idle", plan |-> NoPlan, old |-> 0, row |-> 0]

Places == {"idle", "check", "backup", "replace", "verify", "row", "client", "prune",
           "cred", "hash", "rollback", "revoke", "compare", "write", "mark"}

TypeOK ==
  /\ file \in Content
  /\ cred \in Tokens
  /\ client \in [state : {"active", "paused", "revoked"}, hash : Tokens,
                 config : Applied \cup {"not_configured", "removed"}, agree : BOOLEAN]
  /\ plan \in [action : {"none", "apply", "remove"}, orig : Content, planned : Content]
  /\ task.at \in Places
  /\ task.row \in 0..Len(backups)
  /\ \A i \in DOMAIN backups :
       backups[i] \in [orig : Content, applied : Content, there : BOOLEAN, open : BOOLEAN, row : BOOLEAN]
  /\ exposed \subseteq {"write", "row"} /\ crashed \in BOOLEAN
  /\ edits \in 0..MaxEdits /\ tasks \in 0..MaxTasks /\ trouble \in 0..MaxTrouble

\* agree: the last rotation did not report that its rollback has failed.
Init ==
  /\ file = [ours |-> 0, other |-> 0]
  /\ cred = 1
  /\ client = [state |-> "active", hash |-> 1, config |-> "not_configured", agree |-> TRUE]
  /\ plan = NoPlan
  /\ task = NoTask
  /\ backups = <<>>
  /\ edits = 0 /\ tasks = 0 /\ trouble = 0
  /\ exposed = {} /\ crashed = FALSE

Fresh == tasks + 1
Goes(place) == task' = [task EXCEPT !.at = place]
Ends == task' = NoTask
Trouble == trouble < MaxTrouble /\ trouble' = trouble + 1

\* get_scoped_token.
TokenIsReadable == client.state # "revoked" /\ cred = client.hash

\* The merged file: our entry is set or removed, the rest stays.
Planned(action, token, content) == [content EXCEPT !.ours = IF action = "remove" THEN 0 ELSE token]

\* preview_client_config, of the file as it is now.
PlanOf(action, token) == [action |-> action, orig |-> file, planned |-> Planned(action, token, file)]

-----------------------------------------------------------------------------
(* The GUI: a modal dialog between preview and confirmation, one task.      *)

Previews(action) ==
  /\ plan = NoPlan /\ task.op # "rotate" /\ TokenIsReadable
  /\ plan' = PlanOf(action, cred)
  /\ UNCHANGED <<file, cred, client, task, backups, edits, tasks, trouble, exposed, crashed>>

\* apply_agent_client_config pops the plan; a removal belongs to a revocation.
\* _run_task starts nothing beside another task, and the confirmed plan is left.
Confirms ==
  /\ plan # NoPlan
  /\ plan' = NoPlan
  /\ IF task.op = "none" /\ tasks < MaxTasks
       THEN tasks' = tasks + 1 /\ task' = [NoTask EXCEPT !.op = plan.action, !.at = "check", !.plan = plan]
       ELSE UNCHANGED <<tasks, task>>
  /\ UNCHANGED <<file, cred, client, backups, edits, trouble, exposed, crashed>>

Cancels ==
  /\ plan # NoPlan
  /\ plan' = NoPlan
  /\ UNCHANGED <<file, cred, client, task, backups, edits, tasks, trouble, exposed, crashed>>

\* _toggle_agent_client, at once and beside any task.
Toggles ==
  /\ plan = NoPlan /\ client.state # "revoked"
  /\ client' = [client EXCEPT !.state = IF @ = "paused" THEN "active" ELSE "paused"]
  /\ UNCHANGED <<file, cred, plan, task, backups, edits, tasks, trouble, exposed, crashed>>

\* A client whose file is not managed is revoked without a task.
RevokesAtOnce ==
  /\ plan = NoPlan /\ client.state # "revoked"
  /\ client' = [client EXCEPT !.state = "revoked"]
  /\ cred' = 0
  /\ UNCHANGED <<file, plan, task, backups, edits, tasks, trouble, exposed, crashed>>

RestoreStarts ==
  /\ task.op = "none" /\ plan = NoPlan /\ tasks < MaxTasks
  /\ \E i \in DOMAIN backups :
       /\ backups[i].row /\ backups[i].open
       /\ \A j \in i + 1..Len(backups) : ~(backups[j].row /\ backups[j].open)
       /\ task' = [NoTask EXCEPT !.op = "restore", !.at = "compare", !.row = i]
  /\ tasks' = tasks + 1
  /\ UNCHANGED <<file, cred, client, plan, backups, edits, trouble, exposed, crashed>>

\* rotate_agent_client_token up to the credential, with the preview of a managed file.
RotateStarts ==
  /\ task.op = "none" /\ plan = NoPlan /\ tasks < MaxTasks /\ TokenIsReadable
  /\ tasks' = tasks + 1
  /\ task' = [NoTask EXCEPT !.op = "rotate", !.at = "cred", !.old = cred,
                !.plan = [PlanOf("apply", Fresh + 1) EXCEPT
                            !.action = IF client.config \in Applied THEN "apply" ELSE "none"]]
  /\ UNCHANGED <<file, cred, client, plan, backups, edits, trouble, exposed, crashed>>

-----------------------------------------------------------------------------
(* apply_client_config and the rows after it.                               *)

\* Variant with a bug: the new token stays when the file could not be written.
AfterRefusalKeeps == IF task.op = "remove" THEN "revoke" ELSE "idle"

\* Where a refused or failed change leads: a rotation takes its token back, and a
\* revocation goes on.
AfterRefusal == IF task.op = "rotate" THEN "rollback" ELSE IF task.op = "remove" THEN "revoke" ELSE "idle"

Refused == IF AfterRefusal = "idle" THEN Ends ELSE Goes(AfterRefusal)

\* Variant with a bug: the plan is applied to whatever the file has become.
UnchangedNever(content) == TRUE

\* Hash and time of the file are those of the preview.
UnchangedSince(content) == file = content

Checks ==
  /\ task.at = "check"
  /\ IF UnchangedSince(task.plan.orig) THEN Goes("backup") ELSE Refused
  /\ UNCHANGED <<file, cred, client, plan, backups, edits, tasks, trouble, exposed, crashed>>

\* The copy of the old content; its row comes later.
BacksUp ==
  /\ task.at = "backup"
  /\ backups' = Append(backups, [orig |-> task.plan.orig, applied |-> task.plan.planned,
                                 there |-> TRUE, open |-> TRUE, row |-> FALSE])
  /\ task' = [task EXCEPT !.at = "replace", !.row = Len(backups) + 1]
  /\ UNCHANGED <<file, cred, client, plan, edits, tasks, trouble, exposed, crashed>>

BackupFails ==
  /\ task.at = "backup" /\ Trouble
  /\ Refused
  /\ UNCHANGED <<file, cred, client, plan, backups, edits, tasks, exposed, crashed>>

\* Nothing is written when the plan changes nothing.
Replaces ==
  /\ task.at = "replace"
  /\ IF task.plan.orig = task.plan.planned THEN Goes("row") /\ UNCHANGED file
     ELSE Goes("verify") /\ file' = task.plan.planned
  /\ UNCHANGED <<cred, client, plan, backups, edits, tasks, trouble, exposed, crashed>>

\* The write fails: the old content is written back.
ReplaceFails ==
  /\ task.at = "replace" /\ task.plan.orig # task.plan.planned /\ Trouble
  /\ file' = task.plan.orig
  /\ Refused
  /\ UNCHANGED <<cred, client, plan, backups, edits, tasks, exposed, crashed>>

\* The content is read again; a difference counts as a failed write.
Verifies ==
  /\ task.at = "verify"
  /\ IF file = task.plan.planned THEN Goes("row") /\ UNCHANGED file
     ELSE file' = task.plan.orig /\ Refused
  /\ UNCHANGED <<cred, client, plan, backups, edits, tasks, trouble, exposed, crashed>>

InsertsRow ==
  /\ task.at = "row"
  /\ backups' = [backups EXCEPT ![task.row].row = TRUE]
  /\ Goes("client")
  /\ UNCHANGED <<file, cred, client, plan, edits, tasks, trouble, exposed, crashed>>

\* update_agent_client, the last statement that can still undo the change.
UpdatesClient ==
  /\ task.at = "client"
  /\ client' = [client EXCEPT !.config = IF task.op = "remove" THEN "removed" ELSE "reload_required"]
  /\ Goes("prune")
  /\ UNCHANGED <<file, cred, plan, backups, edits, tasks, trouble, exposed, crashed>>

\* Either statement fails: restore_client_config, unless the file has changed again.
StatementFails ==
  /\ task.at \in {"row", "client"} /\ Trouble
  /\ file' = IF file = task.plan.planned THEN task.plan.orig ELSE file
  /\ Refused
  /\ UNCHANGED <<cred, client, plan, backups, edits, tasks, exposed, crashed>>

-----------------------------------------------------------------------------
(* _prune_agent_config_backups.                                             *)

Rows == {i \in DOMAIN backups : backups[i].row}
Newest(S) == {i \in S : \A j \in S : j <= i}

\* Variant with a bug: the newest row is kept, whether its file is there or not.
PreservedRow == Newest(Rows)

\* valid_rows[0].
Preserved == Newest({i \in Rows : backups[i].there})

\* Expired are the oldest rows; beyond the limit are those with Keep newer ones.
Doomed(expired) ==
  {i \in Rows \ Preserved : i <= expired \/ Cardinality({j \in Rows : j > i}) >= Keep}

\* The file goes before its row, and the row may stay.  The new state of a client
\* that was configured follows in the GUI thread, that of a revocation in the task.
Prunes ==
  /\ task.at = "prune"
  /\ \E expired \in 0..Len(backups) : \E kept \in SUBSET Doomed(expired) :
       /\ IF kept = {} THEN UNCHANGED trouble ELSE Trouble
       /\ backups' = [i \in DOMAIN backups |->
            IF i \in Doomed(expired) THEN [backups[i] EXCEPT !.there = FALSE, !.row = i \in kept]
            ELSE backups[i]]
  /\ IF task.op = "remove" THEN Goes("revoke") ELSE Ends
  /\ client' = IF task.op = "apply" THEN [client EXCEPT !.state = "active"] ELSE client
  /\ UNCHANGED <<file, cred, plan, edits, tasks, exposed, crashed>>

-----------------------------------------------------------------------------
(* Rotation, revocation and restore.                                        *)

\* CredentialService.set, which verifies and undoes itself.
SetsCredential ==
  /\ task.at = "cred"
  /\ cred' = task.plan.planned.ours
  /\ Goes("hash")
  /\ UNCHANGED <<file, client, plan, backups, edits, tasks, trouble, exposed, crashed>>

SetsHash ==
  /\ task.at = "hash"
  /\ client' = [client EXCEPT !.hash = task.plan.planned.ours]
  /\ IF task.plan.action = "none" THEN Ends ELSE Goes("check")
  /\ UNCHANGED <<file, cred, plan, backups, edits, tasks, trouble, exposed, crashed>>

\* The row is not written: the old credential is put back, or that fails as well.
HashFails ==
  /\ task.at = "hash" /\ Trouble
  /\ \/ cred' = task.old /\ UNCHANGED client
     \/ client' = [client EXCEPT !.agree = FALSE] /\ UNCHANGED cred
  /\ Ends
  /\ UNCHANGED <<file, plan, backups, edits, tasks, exposed, crashed>>

\* restore_client_token; a client revoked meanwhile has no token to restore.
RollsBack ==
  /\ task.at = "rollback"
  /\ IF TokenIsReadable
       THEN cred' = task.old /\ client' = [client EXCEPT !.hash = task.old]
       ELSE UNCHANGED <<cred, client>>
  /\ Ends
  /\ UNCHANGED <<file, plan, backups, edits, tasks, trouble, exposed, crashed>>

\* "token_rotation_rollback_failed": the new token stays, in both places or in one.
RollbackFails ==
  /\ task.at = "rollback" /\ TokenIsReadable /\ Trouble
  /\ cred' \in {cred, task.old}
  /\ client' = [client EXCEPT !.agree = FALSE]
  /\ Ends
  /\ UNCHANGED <<file, plan, backups, edits, tasks, exposed, crashed>>

\* set_client_state("revoked"), also when the removal was refused.
Revokes ==
  /\ task.at = "revoke"
  /\ client' = [client EXCEPT !.state = "revoked"]
  /\ cred' = 0
  /\ Ends
  /\ UNCHANGED <<file, plan, backups, edits, tasks, trouble, exposed, crashed>>

\* Variant with a bug: a restore does not ask what the file holds.
RestorableAlways(b) == b.there

\* The backup is there and the file still holds what was applied.
Restorable(b) == b.there /\ file = b.applied

Compares ==
  /\ task.at = "compare"
  /\ IF Restorable(backups[task.row]) THEN Goes("write") ELSE Ends
  /\ UNCHANGED <<file, cred, client, plan, backups, edits, tasks, trouble, exposed, crashed>>

WritesBack ==
  /\ task.at = "write"
  /\ file' = backups[task.row].orig
  /\ Goes("mark")
  /\ UNCHANGED <<cred, client, plan, backups, edits, tasks, trouble, exposed, crashed>>

Marks ==
  /\ task.at = "mark"
  /\ backups' = [backups EXCEPT ![task.row].open = FALSE]
  /\ client' = [client EXCEPT !.config = "restored_reload_required"]
  /\ Ends
  /\ UNCHANGED <<file, cred, plan, edits, tasks, trouble, exposed, crashed>>

RestoreFails ==
  /\ task.at \in {"write", "mark"} /\ Trouble
  /\ Ends
  /\ exposed' = IF task.at = "mark" THEN exposed \cup {"row"} ELSE exposed
  /\ UNCHANGED <<file, cred, client, plan, backups, edits, tasks, crashed>>

-----------------------------------------------------------------------------

\* The client's program changes its own settings; it keeps our entry.
Edits ==
  /\ edits < MaxEdits
  /\ edits' = edits + 1
  /\ file' = [file EXCEPT !.other = edits + 1]
  /\ exposed' = exposed \cup {w \in {"write", "row"} :
       task.at \in IF w = "write" THEN {"backup", "replace", "verify", "write"} ELSE {"row", "client"}}
  /\ UNCHANGED <<cred, client, plan, task, backups, tasks, trouble, crashed>>

\* Somebody deletes a backup file.
BackupVanishes ==
  /\ Trouble
  /\ \E i \in DOMAIN backups : backups[i].there /\ backups' = [backups EXCEPT ![i].there = FALSE]
  /\ UNCHANGED <<file, cred, client, plan, task, edits, tasks, exposed, crashed>>

\* Plans live in memory.
Crashes ==
  /\ task.op # "none" /\ Trouble
  /\ Ends
  /\ plan' = NoPlan
  /\ crashed' = TRUE
  /\ UNCHANGED <<file, cred, client, backups, edits, tasks, exposed>>

Next ==
  \/ Previews("apply") \/ Previews("remove") \/ Confirms \/ Cancels \/ Toggles \/ RevokesAtOnce
  \/ RestoreStarts \/ RotateStarts
  \/ Checks \/ BacksUp \/ BackupFails \/ Replaces \/ ReplaceFails \/ Verifies
  \/ InsertsRow \/ UpdatesClient \/ StatementFails \/ Prunes
  \/ SetsCredential \/ SetsHash \/ HashFails \/ RollsBack \/ RollbackFails \/ Revokes
  \/ Compares \/ WritesBack \/ Marks \/ RestoreFails
  \/ Edits \/ BackupVanishes \/ Crashes

-----------------------------------------------------------------------------
(* Properties.                                                              *)

\* docs, Agent Client design: a concurrent change is refused.  Whatever is applied,
\* undone, restored or interrupted, the latest edit of the other program is in the
\* file, unless it fell into the few statements between a check and its write.
NoEditIsLost == "write" \notin exposed => file.other = edits

\* docs, token rotation: a rotation takes effect in credential store, database and
\* file, or in none, unless it reports that its rollback failed.
RotationIsAtomic ==
  task.op = "none" /\ client.state # "revoked" /\ cred # 0 /\ client.agree /\ ~crashed =>
    /\ cred = client.hash
    /\ client.config = "reload_required" /\ exposed = {} /\ file.ours # 0 => file.ours = client.hash

\* docs, at least the newest valid copy is kept: pruning leaves something to go back to.
LastBackupSurvives ==
  [][Prunes /\ (\E i \in Rows : backups[i].there) => \E i \in Rows' : backups'[i].there]_vars
=============================================================================
