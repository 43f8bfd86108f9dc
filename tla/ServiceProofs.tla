--------------------------- MODULE ServiceProofs ----------------------------
(***************************************************************************)
(* The parts of the service, for any number of clients' edits, sessions,   *)
(* readers, troubles, messages and starts: each part has an inductive      *)
(* invariant of its own, and a step of one part leaves the others alone.   *)
(***************************************************************************)
EXTENDS Service, TLAPS, NaturalsInduction, WellFoundedInduction

-----------------------------------------------------------------------------
(* ClientConfig: what a plan was made of is in the file until the change is *)
(* written, and the three tokens go through a rotation together.            *)

PlanTypes == [action : {"none", "apply", "remove"}, orig : Config!Content, planned : Config!Content]
BackupTypes == [orig : Config!Content, applied : Config!Content, there : BOOLEAN, open : BOOLEAN, row : BOOLEAN]
Writing == {"check", "backup", "replace", "verify", "row", "client", "prune"}
TaskTypes(n) ==
  [op : {"none", "apply", "remove", "rotate", "restore"}, at : Config!Places, plan : PlanTypes,
   old : Config!Tokens, row : 0..n]
ClientTypes ==
  [state : {"active", "paused", "revoked"}, hash : Config!Tokens,
   config : Config!Applied \cup {"not_configured", "removed"}, agree : BOOLEAN]
ConfigIsTyped ==
  /\ file \in Config!Content /\ cred \in Config!Tokens
  /\ client \in ClientTypes
  /\ plan \in PlanTypes /\ backups \in Seq(BackupTypes)
  /\ task \in TaskTypes(Len(backups))
  /\ exposed \subseteq {"write", "row"} /\ crashed \in BOOLEAN
  /\ edits \in 0..MaxEdits /\ tasks \in 0..MaxTasks /\ trouble \in 0..MaxTrouble

\* Which task may be where, and with which plan.
TaskIsPlaced ==
  /\ task.op = "none" <=> task.at = "idle"
  /\ task.op = "apply" => task.at \in Writing /\ task.plan.action = "apply"
  /\ task.op = "remove" => task.at \in Writing \cup {"revoke"} /\ task.plan.action = "remove"
  /\ task.op = "rotate" => /\ task.at \in Writing \cup {"cred", "hash", "rollback"} /\ plan.action = "none"
                              /\ task.plan.action # "remove"
                           /\ task.at \in Writing \cup {"rollback"} => task.plan.action = "apply"
  /\ task.op = "restore" => task.at \in {"compare", "write", "mark"}
  /\ task.at \in {"replace", "verify", "row", "client", "compare", "write", "mark"} => task.row \in DOMAIN backups
  /\ plan.action = "none" => plan = Config!NoPlan

\* A plan and a backup leave alone what is not ours, and what the change writes or puts back is what the owner had.
EditsAreKept ==
  /\ plan.orig.other = plan.planned.other /\ task.plan.orig.other = task.plan.planned.other
  /\ \A i \in DOMAIN backups : backups[i].orig.other = backups[i].applied.other
  /\ "write" \notin exposed =>
       /\ file.other = edits
       /\ task.at \in {"backup", "replace", "verify"} => task.plan.orig.other = edits
       /\ task.at = "write" => backups[task.row].orig.other = edits

\* A client with a token that no crash, revocation or failed rollback has left in doubt; it never comes back.
Alive == client.state # "revoked" /\ cred # 0 /\ client.agree /\ ~crashed
Buried ==
  /\ client.hash # 0 /\ (plan.action # "none" /\ client.state = "revoked" => cred = 0)
  /\ task.op = "apply" /\ client.state = "revoked" => cred = 0
  /\ task.op = "rotate" => task.old # 0 /\ task.plan.planned.ours # 0 /\ (client.state # "revoked" => cred # 0)

\* What the credential and the row hold, and what a plan will write.
TokensAgree ==
  /\ plan.action = "apply" => plan.planned.ours = client.hash
  /\ plan.action = "remove" => plan.planned.ours = 0
  /\ task.op = "apply" => task.plan.planned.ours = client.hash
  /\ task.op = "remove" => task.plan.planned.ours = 0
  /\ task.op = "rotate" /\ task.at \in {"cred", "hash"} => client.hash = task.old
  /\ task.op = "rotate" /\ task.at \in Writing \cup {"rollback"} => client.hash = task.plan.planned.ours
  /\ task.op = "rotate" /\ task.plan.action = "none" => client.config \notin Config!Applied
  /\ Alive => cred = IF task.op = "rotate" /\ task.at # "cred" THEN task.plan.planned.ours ELSE client.hash

\* The file holds the token of the row, or the one a rotation may still go back to.
Back == IF task.op = "rotate" THEN task.old ELSE client.hash
Held == IF task.at \in {"check", "backup", "replace", "rollback"} THEN Back ELSE client.hash
Configured == Alive /\ client.config = "reload_required" /\ exposed = {}
FileTells ==
  /\ exposed = {} => /\ task.at \in {"backup", "replace"} => file = task.plan.orig
                     /\ task.at \in {"verify", "row", "client"} => file = task.plan.planned
  /\ Configured /\ task.at # "mark" /\ file.ours # 0 => file.ours = Held
  /\ Configured /\ task.at \in {"backup", "replace", "verify", "row", "client"} /\ task.plan.orig.ours # 0 =>
       task.plan.orig.ours = Back
  /\ task.at = "prune" /\ exposed = {} => file.ours = task.plan.planned.ours

ConfigInv == ConfigIsTyped /\ TaskIsPlaced /\ EditsAreKept /\ Buried /\ TokensAgree /\ FileTells

\* The invariant holds at the start.
LEMMA ConfigInit == ASSUME Config!Bounded, Config!Init PROVE ConfigInv
<1> USE DEF Config!Init, Config!Bounded
<1>0. /\ [ours |-> 0, other |-> 0] \in Config!Content /\ 0 \in Config!Tokens /\ 1 \in Config!Tokens
  BY DEF Config!Content, Config!Tokens
<1>1. Config!NoPlan \in PlanTypes BY <1>0 DEF PlanTypes, Config!NoPlan
<1>2. backups \in Seq(BackupTypes) /\ Len(backups) = 0 OBVIOUS
<1>3. task \in TaskTypes(Len(backups)) BY <1>0, <1>1, <1>2 DEF TaskTypes, Config!NoTask, Config!Places
<1>4. ConfigIsTyped
  <2>1. client \in ClientTypes BY <1>0 DEF ClientTypes
  <2>2. edits \in 0..MaxEdits /\ tasks \in 0..MaxTasks /\ trouble \in 0..MaxTrouble OBVIOUS
  <2> QED BY <1>0, <1>1, <1>2, <1>3, <2>1, <2>2 DEF ConfigIsTyped
<1>5. TaskIsPlaced /\ EditsAreKept BY DEF TaskIsPlaced, EditsAreKept, Config!NoTask, Config!NoPlan
<1>6. Buried /\ TokensAgree BY DEF Buried, TokensAgree, Config!NoTask, Config!NoPlan
<1>7. FileTells BY DEF FileTells, Configured, Config!NoTask
<1> QED BY <1>4, <1>5, <1>6, <1>7 DEF ConfigInv

\* No task and no plan.
LEMMA NoConfigTask ==
  ASSUME Config!Bounded
  PROVE  /\ Config!NoPlan \in PlanTypes /\ Config!NoPlan.action = "none"
         /\ Config!NoPlan.orig = [ours |-> 0, other |-> 0] /\ Config!NoPlan.planned = [ours |-> 0, other |-> 0]
         /\ Config!NoTask.op = "none" /\ Config!NoTask.at = "idle" /\ Config!NoTask.plan = Config!NoPlan
         /\ Config!NoTask.old = 0 /\ Config!NoTask.row = 0 /\ 0 \in Config!Tokens
<1>0. /\ [ours |-> 0, other |-> 0] \in Config!Content /\ 0 \in Config!Tokens
  BY DEF Config!Content, Config!Tokens, Config!Bounded
<1> QED BY <1>0 DEF PlanTypes, Config!NoPlan, Config!NoTask

\* Nothing under way is a task, however many backups there are.
LEMMA NoTaskIsTyped == ASSUME Config!Bounded, NEW n \in Nat PROVE Config!NoTask \in TaskTypes(n)
BY NoConfigTask DEF TaskTypes, Config!NoTask, Config!Places

\* How a task goes on.
LEMMA TaskGoes ==
  ASSUME Config!Bounded, NEW n \in Nat, task \in TaskTypes(n)
  PROVE  /\ \A p \in Config!Places : Config!Goes(p) =>
              /\ task' \in TaskTypes(n) /\ task'.op = task.op /\ task'.at = p /\ task'.plan = task.plan
              /\ task'.old = task.old /\ task'.row = task.row
         /\ Config!Ends => /\ task' \in TaskTypes(n) /\ task'.op = "none" /\ task'.at = "idle"
                              /\ task'.plan = Config!NoPlan
                           /\ task'.old = 0 /\ task'.row = 0
         /\ Config!Refused =>
              \/ task.op = "rotate" /\ Config!Goes("rollback")
              \/ task.op = "remove" /\ Config!Goes("revoke")
              \/ task.op \notin {"rotate", "remove"} /\ Config!Ends
<1>1. \A p \in Config!Places : Config!Goes(p) =>
              /\ task' \in TaskTypes(n) /\ task'.op = task.op /\ task'.at = p /\ task'.plan = task.plan
              /\ task'.old = task.old /\ task'.row = task.row
  BY DEF Config!Goes, TaskTypes
<1>2. Config!Ends => /\ task' \in TaskTypes(n) /\ task'.op = "none" /\ task'.at = "idle" /\ task'.plan = Config!NoPlan
                           /\ task'.old = 0 /\ task'.row = 0
  <2> QED BY NoTaskIsTyped, NoConfigTask DEF Config!Ends
<1>3. Config!Refused =>
              \/ task.op = "rotate" /\ Config!Goes("rollback")
              \/ task.op = "remove" /\ Config!Goes("revoke")
              \/ task.op \notin {"rotate", "remove"} /\ Config!Ends
  BY DEF Config!Refused, Config!AfterRefusal
<1> QED BY <1>1, <1>2, <1>3

\* What every proof about a step of ClientConfig starts from.
LEMMA ConfigFacts ==
  ASSUME Config!Bounded, ConfigInv
  PROVE  /\ Len(backups) \in Nat /\ task \in TaskTypes(Len(backups))
         /\ \A p \in Config!Places : Config!Goes(p) =>
              /\ task' \in TaskTypes(Len(backups)) /\ task'.op = task.op /\ task'.at = p /\ task'.plan = task.plan
              /\ task'.old = task.old /\ task'.row = task.row
         /\ Config!Ends => /\ task' \in TaskTypes(Len(backups)) /\ task'.op = "none" /\ task'.at = "idle"
                           /\ task'.plan = Config!NoPlan /\ task'.old = 0 /\ task'.row = 0
         /\ Config!Refused =>
              \/ task.op = "rotate" /\ Config!Goes("rollback")
              \/ task.op = "remove" /\ Config!Goes("revoke")
              \/ task.op \notin {"rotate", "remove"} /\ Config!Ends
         /\ task.op \in {"none", "apply", "remove", "rotate", "restore"} /\ task.at \in Config!Places
             /\ task.plan \in PlanTypes
         /\ task.old \in Config!Tokens /\ task.row \in 0..Len(backups)
         /\ task.plan.orig \in Config!Content /\ task.plan.planned \in Config!Content
         /\ plan.orig \in Config!Content /\ plan.planned \in Config!Content
         /\ file.ours \in Config!Tokens /\ file.other \in 0..MaxEdits
         /\ DOMAIN backups = 1..Len(backups) /\ \A i \in DOMAIN backups : backups[i] \in BackupTypes
<1>1. ConfigIsTyped BY DEF ConfigInv
<1>2. Len(backups) \in Nat /\ DOMAIN backups = 1..Len(backups) /\ \A i \in DOMAIN backups : backups[i] \in BackupTypes
  BY <1>1 DEF ConfigIsTyped
<1>3. task \in TaskTypes(Len(backups)) BY <1>1 DEF ConfigIsTyped
<1>4. /\ task.op \in {"none", "apply", "remove", "rotate", "restore"} /\ task.at \in Config!Places
         /\ task.plan \in PlanTypes
      /\ task.old \in Config!Tokens /\ task.row \in 0..Len(backups)
  BY <1>3 DEF TaskTypes
<1>5. /\ task.plan.orig \in Config!Content /\ task.plan.planned \in Config!Content
      /\ plan.orig \in Config!Content /\ plan.planned \in Config!Content
  BY <1>1, <1>4 DEF ConfigIsTyped, PlanTypes
<1>6. file.ours \in Config!Tokens /\ file.other \in 0..MaxEdits BY <1>1 DEF ConfigIsTyped, Config!Content
<1> QED BY <1>2, <1>3, <1>4, <1>5, <1>6, TaskGoes

\* The plan that a preview makes.
LEMMA PlanMade ==
  ASSUME Config!Bounded, NEW action \in {"apply", "remove"}, NEW wanted \in Config!Tokens, file \in Config!Content
  PROVE  /\ Config!PlanOf(action, wanted) \in PlanTypes /\ Config!PlanOf(action, wanted).action = action
         /\ Config!PlanOf(action, wanted).orig = file /\ Config!PlanOf(action, wanted).planned.other = file.other
         /\ Config!PlanOf(action, wanted).planned.ours = IF action = "remove" THEN 0 ELSE wanted
<1> DEFINE t == IF action = "remove" THEN 0 ELSE wanted
           c == [file EXCEPT !.ours = t]
<1>1. t \in Config!Tokens BY NoConfigTask
<1> HIDE DEF t
<1>2. c \in Config!Content /\ c.ours = t /\ c.other = file.other BY <1>1 DEF Config!Content
<1>3. Config!PlanOf(action, wanted) = [action |-> action, orig |-> file, planned |-> c]
  BY DEF Config!PlanOf, Config!Planned, t
<1> HIDE DEF c
<1> QED BY <1>2, <1>3 DEF PlanTypes, t

\* The plan of a rotation.
LEMMA RotationPlanned ==
  ASSUME Config!Bounded, ConfigInv, Config!RotateStarts
  PROVE  /\ task' \in TaskTypes(Len(backups)) /\ task'.op = "rotate" /\ task'.at = "cred" /\ task'.old = cred
         /\ task'.plan.orig = file /\ task'.plan.planned.other = file.other /\ task'.plan.planned.ours = tasks + 2
         /\ task'.plan.action = IF client.config \in Config!Applied THEN "apply" ELSE "none"
<1>1. /\ file \in Config!Content /\ cred \in Config!Tokens /\ tasks \in 0..MaxTasks /\ tasks < MaxTasks
         /\ Len(backups) \in Nat
  BY ConfigFacts DEF ConfigInv, ConfigIsTyped, Config!RotateStarts
<1>2. tasks + 2 \in Config!Tokens /\ Config!Fresh + 1 = tasks + 2
  BY <1>1 DEF Config!Bounded, Config!Tokens, Config!Fresh
<1> DEFINE p == Config!PlanOf("apply", tasks + 2)
           a == IF client.config \in Config!Applied THEN "apply" ELSE "none"
           q == [p EXCEPT !.action = a]
<1>3. /\ p \in PlanTypes /\ p.orig = file /\ p.planned.other = file.other /\ p.planned.ours = tasks + 2
  BY <1>1, <1>2, PlanMade
<1>4. a \in {"apply", "none"} OBVIOUS
<1>5. task' = [Config!NoTask EXCEPT !.op = "rotate", !.at = "cred", !.old = cred, !.plan = q]
  BY <1>2 DEF Config!RotateStarts
<1> HIDE DEF p, a
<1>6. q \in PlanTypes /\ q.orig = file /\ q.planned = p.planned /\ q.action = a BY <1>3, <1>4 DEF PlanTypes
<1> HIDE DEF q
<1>7. /\ task' \in TaskTypes(Len(backups)) /\ task'.op = "rotate" /\ task'.at = "cred" /\ task'.old = cred
         /\ task'.plan = q
  BY <1>1, <1>5, <1>6, NoTaskIsTyped DEF TaskTypes, Config!Places
<1> QED BY <1>3, <1>6, <1>7 DEF a

\* A backup is written, the backups get a new one, and they are pruned.
LEMMA BackupWritten ==
  ASSUME Config!Bounded, ConfigInv, NEW i \in DOMAIN backups, NEW b \in BackupTypes
  PROVE  /\ [backups EXCEPT ![i] = b] \in Seq(BackupTypes) /\ Len([backups EXCEPT ![i] = b]) = Len(backups)
         /\ DOMAIN [backups EXCEPT ![i] = b] = DOMAIN backups
         /\ \A j \in DOMAIN backups : [backups EXCEPT ![i] = b][j] = IF j = i THEN b ELSE backups[j]
BY DEF ConfigInv, ConfigIsTyped

\* A new backup is of what the plan was made of; the others stay.
LEMMA BackupMade ==
  ASSUME Config!Bounded, ConfigInv, Config!BacksUp
  PROVE  /\ backups' \in Seq(BackupTypes) /\ Len(backups') = Len(backups) + 1
         /\ \A i \in DOMAIN backups : i \in DOMAIN backups' /\ backups'[i] = backups[i]
         /\ Len(backups) + 1 \in DOMAIN backups' /\ backups'[Len(backups) + 1].orig = task.plan.orig
         /\ backups'[Len(backups) + 1].applied = task.plan.planned
             /\ DOMAIN backups' = DOMAIN backups \cup {Len(backups) + 1}
<1> DEFINE b == [orig |-> task.plan.orig, applied |-> task.plan.planned, there |-> TRUE, open |-> TRUE, row |-> FALSE]
<1>1. b \in BackupTypes BY ConfigFacts DEF BackupTypes
<1>2. backups' = Append(backups, b) BY DEF Config!BacksUp
<1>3. backups \in Seq(BackupTypes) BY DEF ConfigInv, ConfigIsTyped
<1> HIDE DEF b
<1>4. /\ backups' \in Seq(BackupTypes) /\ Len(backups') = Len(backups) + 1
      /\ \A i \in DOMAIN backups : i \in DOMAIN backups' /\ backups'[i] = backups[i]
      /\ Len(backups) + 1 \in DOMAIN backups' /\ backups'[Len(backups) + 1] = b
          /\ DOMAIN backups' = DOMAIN backups \cup {Len(backups) + 1}
  BY <1>1, <1>2, <1>3
<1> QED BY <1>4 DEF b

\* Pruning takes files and rows away, never what a backup was of.
LEMMA BackupsPruned ==
  ASSUME Config!Bounded, ConfigInv, Config!Prunes
  PROVE  /\ backups' \in Seq(BackupTypes) /\ Len(backups') = Len(backups) /\ DOMAIN backups' = DOMAIN backups
         /\ \A i \in DOMAIN backups : backups'[i].orig = backups[i].orig /\ backups'[i].applied = backups[i].applied
<1>1. /\ Len(backups) \in Nat /\ DOMAIN backups = 1..Len(backups)
         /\ \A i \in DOMAIN backups : backups[i] \in BackupTypes
  BY ConfigFacts
<1>2. PICK doomed, kept : backups' = [i \in DOMAIN backups |->
            IF i \in doomed THEN [backups[i] EXCEPT !.there = FALSE, !.row = i \in kept] ELSE backups[i]]
  BY DEF Config!Prunes
<1>3. DOMAIN backups' = 1..Len(backups) BY <1>1, <1>2
<1>4. ASSUME NEW i \in DOMAIN backups
      PROVE  backups'[i] \in BackupTypes /\ backups'[i].orig = backups[i].orig
          /\ backups'[i].applied = backups[i].applied
  <2> DEFINE r == i \in kept
  <2>1. backups'[i] = IF i \in doomed THEN [backups[i] EXCEPT !.there = FALSE, !.row = r] ELSE backups[i]
    BY <1>2, <1>4
  <2>2. r \in BOOLEAN OBVIOUS
  <2> HIDE DEF r
  <2> QED BY <1>1, <2>1, <2>2 DEF BackupTypes
<1>5. backups' \in Seq(BackupTypes) /\ Len(backups') = Len(backups)
  <2>1. backups' \in [1..Len(backups) -> BackupTypes] BY <1>1, <1>2, <1>3, <1>4
  <2> QED BY <2>1, <1>1
<1> QED BY <1>1, <1>3, <1>4, <1>5

\* Everything keeps its type.
LEMMA ConfigTypeStep ==
  ASSUME Config!Bounded, ConfigInv, Config!Next
  PROVE  ConfigIsTyped'
<1>1. ConfigIsTyped BY DEF ConfigInv
<1>2. \A p \in Config!Places : Config!Goes(p) => task' \in TaskTypes(Len(backups)) BY ConfigFacts
<1>3. Config!Ends => task' \in TaskTypes(Len(backups)) BY ConfigFacts
<1>4. Config!Refused => task' \in TaskTypes(Len(backups)) BY ConfigFacts, <1>2, <1>3 DEF Config!Places
<1>5. CASE Config!Previews("apply")
  <2>1. plan' \in PlanTypes BY <1>5, <1>1, PlanMade DEF Config!Previews, ConfigIsTyped
  <2> QED
    BY <2>1, <1>5, <1>1, <1>2, <1>3, <1>4, ConfigFacts, NoConfigTask
    DEF Config!Previews, ConfigIsTyped, Config!Places, Config!Bounded, Config!Trouble
<1>6. CASE Config!Previews("remove")
  <2>1. plan' \in PlanTypes BY <1>6, <1>1, PlanMade DEF Config!Previews, ConfigIsTyped
  <2> QED
    BY <2>1, <1>6, <1>1, <1>2, <1>3, <1>4, ConfigFacts, NoConfigTask
    DEF Config!Previews, ConfigIsTyped, Config!Places, Config!Bounded, Config!Trouble
<1>7. CASE Config!Confirms
  <2>1. task' \in TaskTypes(Len(backups))
    <3>1. plan \in PlanTypes /\ plan.action \in {"none", "apply", "remove"} BY <1>1 DEF ConfigIsTyped, PlanTypes
    <3>2. CASE task.op = "none" /\ tasks < MaxTasks
      <4>1. task' = [Config!NoTask EXCEPT !.op = plan.action, !.at = "check", !.plan = plan]
        BY <3>2, <1>7 DEF Config!Confirms
      <4> QED BY <3>1, <4>1, ConfigFacts, NoTaskIsTyped DEF TaskTypes, Config!Places
    <3>3. CASE ~(task.op = "none" /\ tasks < MaxTasks) BY <3>3, <1>7, ConfigFacts DEF Config!Confirms
    <3> QED BY <3>2, <3>3
  <2> QED
    BY <2>1, <1>7, <1>1, <1>2, <1>3, <1>4, ConfigFacts, NoConfigTask
    DEF Config!Confirms, ConfigIsTyped, Config!Places, Config!Bounded, Config!Trouble
<1>8. CASE Config!Cancels
  BY <1>8, <1>1, <1>2, <1>3, <1>4, ConfigFacts, NoConfigTask
  DEF Config!Cancels, ConfigIsTyped, Config!Places, Config!Bounded, Config!Trouble
<1>9. CASE Config!Toggles
  <2>1. client' \in ClientTypes BY <1>9, <1>1, ConfigFacts DEF Config!Toggles, ConfigIsTyped, ClientTypes
  <2> QED
    BY <2>1, <1>9, <1>1, <1>2, <1>3, <1>4, ConfigFacts, NoConfigTask
    DEF Config!Toggles, ConfigIsTyped, Config!Places, Config!Bounded, Config!Trouble
<1>10. CASE Config!RevokesAtOnce
  <2>1. client' \in ClientTypes BY <1>10, <1>1, ConfigFacts DEF Config!RevokesAtOnce, ConfigIsTyped, ClientTypes
  <2> QED
    BY <2>1, <1>10, <1>1, <1>2, <1>3, <1>4, ConfigFacts, NoConfigTask
    DEF Config!RevokesAtOnce, ConfigIsTyped, Config!Places, Config!Bounded, Config!Trouble
<1>11. CASE Config!RestoreStarts
  <2>1. task' \in TaskTypes(Len(backups))
    <3>1. PICK i \in DOMAIN backups : task' = [Config!NoTask EXCEPT !.op = "restore", !.at = "compare", !.row = i]
      BY <1>11 DEF Config!RestoreStarts
    <3>2. i \in 0..Len(backups) /\ Len(backups) \in Nat BY ConfigFacts
    <3> QED BY <3>1, <3>2, NoTaskIsTyped DEF TaskTypes, Config!Places
  <2> QED
    BY <2>1, <1>11, <1>1, <1>2, <1>3, <1>4, ConfigFacts, NoConfigTask
    DEF Config!RestoreStarts, ConfigIsTyped, Config!Places, Config!Bounded, Config!Trouble
<1>12. CASE Config!RotateStarts
  <2>1. task' \in TaskTypes(Len(backups)) BY <1>12, RotationPlanned
  <2> QED
    BY <2>1, <1>12, <1>1, <1>2, <1>3, <1>4, ConfigFacts, NoConfigTask
    DEF Config!RotateStarts, ConfigIsTyped, Config!Places, Config!Bounded, Config!Trouble
<1>13. CASE Config!Checks
  BY <1>13, <1>1, <1>2, <1>3, <1>4, ConfigFacts, NoConfigTask
  DEF Config!Checks, ConfigIsTyped, Config!Places, Config!Bounded, Config!Trouble
<1>14. CASE Config!BacksUp
  <2>2. /\ backups' \in Seq(BackupTypes) /\ Len(backups') = Len(backups) + 1 BY <1>14, BackupMade
  <2>1. task' \in TaskTypes(Len(backups')) /\ backups' \in Seq(BackupTypes)
    <3>1. task' = [task EXCEPT !.at = "replace", !.row = Len(backups')] /\ Len(backups') \in 0..Len(backups')
        /\ task \in TaskTypes(Len(backups))
      BY <2>2, <1>14, ConfigFacts DEF Config!BacksUp
    <3>2. 0..Len(backups) \subseteq 0..Len(backups') BY <2>2, ConfigFacts
    <3> QED BY <2>2, <3>1, <3>2 DEF TaskTypes, Config!Places
  <2> QED
    BY <2>1, <1>14, <1>1, <1>2, <1>3, <1>4, ConfigFacts, NoConfigTask
    DEF Config!BacksUp, ConfigIsTyped, Config!Places, Config!Bounded, Config!Trouble
<1>15. CASE Config!BackupFails
  BY <1>15, <1>1, <1>2, <1>3, <1>4, ConfigFacts, NoConfigTask
  DEF Config!BackupFails, ConfigIsTyped, Config!Places, Config!Bounded, Config!Trouble
<1>16. CASE Config!Replaces
  BY <1>16, <1>1, <1>2, <1>3, <1>4, ConfigFacts, NoConfigTask
  DEF Config!Replaces, ConfigIsTyped, Config!Places, Config!Bounded, Config!Trouble
<1>17. CASE Config!ReplaceFails
  BY <1>17, <1>1, <1>2, <1>3, <1>4, ConfigFacts, NoConfigTask
  DEF Config!ReplaceFails, ConfigIsTyped, Config!Places, Config!Bounded, Config!Trouble
<1>18. CASE Config!Verifies
  BY <1>18, <1>1, <1>2, <1>3, <1>4, ConfigFacts, NoConfigTask
  DEF Config!Verifies, ConfigIsTyped, Config!Places, Config!Bounded, Config!Trouble
<1>19. CASE Config!InsertsRow
  <2>2. [backups[task.row] EXCEPT !.row = TRUE] \in BackupTypes
    BY <1>19, ConfigFacts DEF Config!InsertsRow, ConfigInv, TaskIsPlaced, BackupTypes
  <2>3. backups' = [backups EXCEPT ![task.row] = [backups[task.row] EXCEPT !.row = TRUE]]
    BY <1>19 DEF Config!InsertsRow
  <2>4. task.row \in DOMAIN backups BY <1>19 DEF Config!InsertsRow, ConfigInv, TaskIsPlaced
  <2>1. backups' \in Seq(BackupTypes) /\ Len(backups') = Len(backups) BY <2>2, <2>3, <2>4, BackupWritten
  <2> QED
    BY <2>1, <1>19, <1>1, <1>2, <1>3, <1>4, ConfigFacts, NoConfigTask
    DEF Config!InsertsRow, ConfigIsTyped, Config!Places, Config!Bounded, Config!Trouble
<1>20. CASE Config!UpdatesClient
  <2>1. client' \in ClientTypes BY <1>20, <1>1 DEF Config!UpdatesClient, ConfigIsTyped, ClientTypes, Config!Applied
  <2> QED
    BY <2>1, <1>20, <1>1, <1>2, <1>3, <1>4, ConfigFacts, NoConfigTask
    DEF Config!UpdatesClient, ConfigIsTyped, Config!Places, Config!Bounded, Config!Trouble
<1>21. CASE Config!StatementFails
  BY <1>21, <1>1, <1>2, <1>3, <1>4, ConfigFacts, NoConfigTask
  DEF Config!StatementFails, ConfigIsTyped, Config!Places, Config!Bounded, Config!Trouble
<1>22. CASE Config!Prunes
  <2>2. client' \in ClientTypes BY <1>22, <1>1 DEF Config!Prunes, ConfigIsTyped, ClientTypes
  <2>1. client' \in ClientTypes /\ backups' \in Seq(BackupTypes) /\ Len(backups') = Len(backups)
    BY <2>2, <1>22, BackupsPruned
  <2>3. task' \in TaskTypes(Len(backups)) BY <1>22, <1>2, <1>3 DEF Config!Prunes, Config!Places
  <2>6. trouble' = trouble \/ Config!Trouble BY <1>22 DEF Config!Prunes
  <2>4. trouble' \in 0..MaxTrouble BY <2>6, <1>1 DEF Config!Trouble, ConfigIsTyped, Config!Bounded
  <2>5. UNCHANGED <<file, cred, plan, edits, tasks, exposed, crashed>> BY <1>22 DEF Config!Prunes
  <2> QED BY <2>1, <2>3, <2>4, <2>5, <1>1 DEF ConfigIsTyped
<1>23. CASE Config!SetsCredential
  <2>1. cred' \in Config!Tokens BY <1>23, ConfigFacts DEF Config!SetsCredential, Config!Content
  <2> QED
    BY <2>1, <1>23, <1>1, <1>2, <1>3, <1>4, ConfigFacts, NoConfigTask
    DEF Config!SetsCredential, ConfigIsTyped, Config!Places, Config!Bounded, Config!Trouble
<1>24. CASE Config!SetsHash
  <2>2. task.plan.planned.ours \in Config!Tokens BY ConfigFacts DEF Config!Content
  <2>1. client' \in ClientTypes BY <2>2, <1>24, <1>1 DEF Config!SetsHash, ConfigIsTyped, ClientTypes
  <2> QED
    BY <2>1, <1>24, <1>1, <1>2, <1>3, <1>4, ConfigFacts, NoConfigTask
    DEF Config!SetsHash, ConfigIsTyped, Config!Places, Config!Bounded, Config!Trouble
<1>25. CASE Config!HashFails
  <2>1. client' \in ClientTypes /\ cred' \in Config!Tokens
    BY <1>25, <1>1, ConfigFacts DEF Config!HashFails, ConfigIsTyped, ClientTypes
  <2> QED
    BY <2>1, <1>25, <1>1, <1>2, <1>3, <1>4, ConfigFacts, NoConfigTask
    DEF Config!HashFails, ConfigIsTyped, Config!Places, Config!Bounded, Config!Trouble
<1>26. CASE Config!RollsBack
  <2>1. client' \in ClientTypes BY <1>26, <1>1, ConfigFacts DEF Config!RollsBack, ConfigIsTyped, ClientTypes
  <2> QED
    BY <2>1, <1>26, <1>1, <1>2, <1>3, <1>4, ConfigFacts, NoConfigTask
    DEF Config!RollsBack, ConfigIsTyped, Config!Places, Config!Bounded, Config!Trouble
<1>27. CASE Config!RollbackFails
  <2>1. client' \in ClientTypes /\ cred' \in Config!Tokens
    BY <1>27, <1>1, ConfigFacts DEF Config!RollbackFails, ConfigIsTyped, ClientTypes
  <2> QED
    BY <2>1, <1>27, <1>1, <1>2, <1>3, <1>4, ConfigFacts, NoConfigTask
    DEF Config!RollbackFails, ConfigIsTyped, Config!Places, Config!Bounded, Config!Trouble
<1>28. CASE Config!Revokes
  <2>1. client' \in ClientTypes BY <1>28, <1>1, ConfigFacts DEF Config!Revokes, ConfigIsTyped, ClientTypes
  <2> QED
    BY <2>1, <1>28, <1>1, <1>2, <1>3, <1>4, ConfigFacts, NoConfigTask
    DEF Config!Revokes, ConfigIsTyped, Config!Places, Config!Bounded, Config!Trouble
<1>29. CASE Config!Compares
  BY <1>29, <1>1, <1>2, <1>3, <1>4, ConfigFacts, NoConfigTask
  DEF Config!Compares, ConfigIsTyped, Config!Places, Config!Bounded, Config!Trouble
<1>30. CASE Config!WritesBack
  <2>1. file' \in Config!Content BY <1>30, ConfigFacts DEF Config!WritesBack, ConfigInv, TaskIsPlaced, BackupTypes
  <2> QED
    BY <2>1, <1>30, <1>1, <1>2, <1>3, <1>4, ConfigFacts, NoConfigTask
    DEF Config!WritesBack, ConfigIsTyped, Config!Places, Config!Bounded, Config!Trouble
<1>31. CASE Config!Marks
  <2>2. client' \in ClientTypes BY <1>31, <1>1 DEF Config!Marks, ConfigIsTyped, ClientTypes, Config!Applied
  <2>3. [backups[task.row] EXCEPT !.open = FALSE] \in BackupTypes
    BY <1>31, ConfigFacts DEF Config!Marks, ConfigInv, TaskIsPlaced, BackupTypes
  <2>4. backups' = [backups EXCEPT ![task.row] = [backups[task.row] EXCEPT !.open = FALSE]] BY <1>31 DEF Config!Marks
  <2>5. task.row \in DOMAIN backups BY <1>31 DEF Config!Marks, ConfigInv, TaskIsPlaced
  <2>1. client' \in ClientTypes /\ backups' \in Seq(BackupTypes) /\ Len(backups') = Len(backups)
    BY <2>2, <2>3, <2>4, <2>5, BackupWritten
  <2> QED
    BY <2>1, <1>31, <1>1, <1>2, <1>3, <1>4, ConfigFacts, NoConfigTask
    DEF Config!Marks, ConfigIsTyped, Config!Places, Config!Bounded, Config!Trouble
<1>32. CASE Config!RestoreFails
  BY <1>32, <1>1, <1>2, <1>3, <1>4, ConfigFacts, NoConfigTask
  DEF Config!RestoreFails, ConfigIsTyped, Config!Places, Config!Bounded, Config!Trouble
<1>33. CASE Config!Edits
  <2>2. edits + 1 \in 0..MaxEdits BY <1>33, <1>1 DEF Config!Edits, ConfigIsTyped, Config!Bounded
  <2>3. file' \in Config!Content BY <2>2, <1>33, <1>1 DEF Config!Edits, ConfigIsTyped, Config!Content
  <2>4. exposed' \subseteq {"write", "row"} BY <1>33, <1>1 DEF Config!Edits, ConfigIsTyped
  <2>1. file' \in Config!Content /\ edits' \in 0..MaxEdits /\ exposed' \subseteq {"write", "row"}
    BY <2>2, <2>3, <2>4, <1>33 DEF Config!Edits
  <2> QED
    BY <2>1, <1>33, <1>1, <1>2, <1>3, <1>4, ConfigFacts, NoConfigTask
    DEF Config!Edits, ConfigIsTyped, Config!Places, Config!Bounded, Config!Trouble
<1>34. CASE Config!BackupVanishes
  <2>2. PICK i \in DOMAIN backups : backups' = [backups EXCEPT ![i].there = FALSE] BY <1>34 DEF Config!BackupVanishes
  <2>3. [backups[i] EXCEPT !.there = FALSE] \in BackupTypes BY ConfigFacts DEF BackupTypes
  <2>1. backups' \in Seq(BackupTypes) /\ Len(backups') = Len(backups)
    BY <2>2, <2>3, <1>1, ConfigFacts DEF ConfigIsTyped
  <2> QED
    BY <2>1, <1>34, <1>1, <1>2, <1>3, <1>4, ConfigFacts, NoConfigTask
    DEF Config!BackupVanishes, ConfigIsTyped, Config!Places, Config!Bounded, Config!Trouble
<1>35. CASE Config!Crashes
  BY <1>35, <1>1, <1>2, <1>3, <1>4, ConfigFacts, NoConfigTask
  DEF Config!Crashes, ConfigIsTyped, Config!Places, Config!Bounded, Config!Trouble
<1> QED
  BY <1>5, <1>6, <1>7, <1>8, <1>9, <1>10, <1>11, <1>12, <1>13, <1>14, <1>15, <1>16, <1>17, <1>18, <1>19, <1>20,
     <1>21, <1>22, <1>23, <1>24, <1>25, <1>26, <1>27, <1>28, <1>29, <1>30, <1>31, <1>32, <1>33, <1>34, <1>35
  DEF Config!Next

\* A preview, and its confirmation.
LEMMA Previewed ==
  ASSUME Config!Bounded, ConfigInv, NEW action \in {"apply", "remove"}, Config!Previews(action)
  PROVE  /\ plan' \in PlanTypes /\ plan'.action = action /\ plan'.orig = file /\ plan'.planned.other = file.other
         /\ plan'.planned.ours = IF action = "remove" THEN 0 ELSE client.hash
         /\ cred = client.hash /\ client.state # "revoked" /\ task.op # "rotate"
         /\ UNCHANGED <<file, cred, client, task, backups, edits, tasks, trouble, exposed, crashed>>
<1>1. cred \in Config!Tokens /\ file \in Config!Content BY DEF ConfigInv, ConfigIsTyped
<1>2. plan' = Config!PlanOf(action, cred) /\ cred = client.hash BY DEF Config!Previews, Config!TokenIsReadable
<1> QED BY <1>1, <1>2, PlanMade DEF Config!Previews, Config!TokenIsReadable

\* A plan is used up when it is confirmed, by a task or by none.
LEMMA Confirmed ==
  ASSUME Config!Bounded, ConfigInv, Config!Confirms
  PROVE  /\ plan.action \in {"apply", "remove"} /\ plan' = Config!NoPlan /\ task.op # "rotate"
         /\ \/ UNCHANGED task
            \/ task.op = "none" /\ task'.op = plan.action /\ task'.at = "check" /\ task'.plan = plan /\ task'.row = 0
         /\ UNCHANGED <<file, cred, client, backups, edits, trouble, exposed, crashed>>
<1>1. plan.action \in {"apply", "remove"} /\ task.op # "rotate"
  BY DEF ConfigInv, ConfigIsTyped, PlanTypes, TaskIsPlaced, Config!Confirms
<1>2. CASE UNCHANGED task BY <1>1, <1>2 DEF Config!Confirms
<1>3. CASE task.op = "none" /\ task' = [Config!NoTask EXCEPT !.op = plan.action, !.at = "check", !.plan = plan]
  <2>1. task'.op = plan.action /\ task'.at = "check" /\ task'.plan = plan /\ task'.row = 0 BY <1>3 DEF Config!NoTask
  <2> QED BY <1>1, <1>3, <2>1 DEF Config!Confirms
<1> QED BY <1>2, <1>3 DEF Config!Confirms


\* A task is where it may be.
LEMMA ConfigPlacedStep ==
  ASSUME Config!Bounded, ConfigInv, ConfigIsTyped', Config!Next
  PROVE  TaskIsPlaced'
<1>1. ConfigIsTyped /\ TaskIsPlaced /\ EditsAreKept /\ Buried /\ TokensAgree /\ FileTells
    /\ client \in ClientTypes /\ plan \in PlanTypes
  BY DEF ConfigInv, ConfigIsTyped
<1>2. CASE Config!Previews("apply") BY <1>2, <1>1, ConfigFacts, NoConfigTask, Previewed DEF TaskIsPlaced, Writing
<1>3. CASE Config!Previews("remove") BY <1>3, <1>1, ConfigFacts, NoConfigTask, Previewed DEF TaskIsPlaced, Writing
<1>4. CASE Config!Confirms BY <1>4, <1>1, ConfigFacts, NoConfigTask, Confirmed DEF TaskIsPlaced, Writing
<1>5. CASE Config!Cancels
  BY <1>5, <1>1, ConfigFacts, NoConfigTask DEF Config!Cancels, Config!Places, ClientTypes, TaskIsPlaced, Writing
<1>6. CASE Config!Toggles
  BY <1>6, <1>1, ConfigFacts, NoConfigTask DEF Config!Toggles, Config!Places, ClientTypes, TaskIsPlaced, Writing
<1>7. CASE Config!RevokesAtOnce
  BY <1>7, <1>1, ConfigFacts, NoConfigTask DEF Config!RevokesAtOnce, Config!Places, ClientTypes, TaskIsPlaced, Writing
<1>8. CASE Config!RestoreStarts
  BY <1>8, <1>1, ConfigFacts, NoConfigTask DEF Config!RestoreStarts, Config!Places, ClientTypes, TaskIsPlaced, Writing
<1>9. CASE Config!RotateStarts
  BY <1>9, <1>1, ConfigFacts, NoConfigTask, RotationPlanned
  DEF Config!RotateStarts, Config!Places, ClientTypes, TaskIsPlaced, Writing, Config!TokenIsReadable
<1>10. CASE Config!Checks
  BY <1>10, <1>1, ConfigFacts, NoConfigTask
  DEF Config!Checks, Config!Places, ClientTypes, TaskIsPlaced, Writing, Config!UnchangedSince
<1>11. CASE Config!BacksUp
  BY <1>11, <1>1, ConfigFacts, NoConfigTask, BackupMade
  DEF Config!BacksUp, Config!Places, ClientTypes, TaskIsPlaced, Writing
<1>12. CASE Config!BackupFails
  BY <1>12, <1>1, ConfigFacts, NoConfigTask DEF Config!BackupFails, Config!Places, ClientTypes, TaskIsPlaced, Writing
<1>13. CASE Config!Replaces
  BY <1>13, <1>1, ConfigFacts, NoConfigTask DEF Config!Replaces, Config!Places, ClientTypes, TaskIsPlaced, Writing
<1>14. CASE Config!ReplaceFails
  BY <1>14, <1>1, ConfigFacts, NoConfigTask DEF Config!ReplaceFails, Config!Places, ClientTypes, TaskIsPlaced, Writing
<1>15. CASE Config!Verifies
  BY <1>15, <1>1, ConfigFacts, NoConfigTask DEF Config!Verifies, Config!Places, ClientTypes, TaskIsPlaced, Writing
<1>16. CASE Config!InsertsRow
  BY <1>16, <1>1, ConfigFacts, NoConfigTask DEF Config!InsertsRow, Config!Places, ClientTypes, TaskIsPlaced, Writing
<1>17. CASE Config!UpdatesClient
  BY <1>17, <1>1, ConfigFacts, NoConfigTask
  DEF Config!UpdatesClient, Config!Places, ClientTypes, TaskIsPlaced, Writing
<1>18. CASE Config!StatementFails
  BY <1>18, <1>1, ConfigFacts, NoConfigTask
  DEF Config!StatementFails, Config!Places, ClientTypes, TaskIsPlaced, Writing
<1>19. CASE Config!Prunes
  BY <1>19, <1>1, ConfigFacts, NoConfigTask, BackupsPruned
  DEF Config!Prunes, Config!Places, ClientTypes, TaskIsPlaced, Writing
<1>20. CASE Config!SetsCredential
  BY <1>20, <1>1, ConfigFacts, NoConfigTask
  DEF Config!SetsCredential, Config!Places, ClientTypes, TaskIsPlaced, Writing
<1>21. CASE Config!SetsHash
  <2>1. task.op = "rotate" /\ task.at = "hash" BY <1>21, <1>1, ConfigFacts DEF Config!SetsHash, TaskIsPlaced, Writing
  <2>2. task.plan.action \in {"none", "apply"} BY <2>1, <1>1, ConfigFacts DEF TaskIsPlaced, PlanTypes
  <2>3. UNCHANGED <<plan, backups>> BY <1>21 DEF Config!SetsHash
  <2>4. CASE Config!Ends BY <2>3, <2>4, <1>1, ConfigFacts DEF TaskIsPlaced
  <2>5. CASE Config!Goes("check") /\ task.plan.action = "apply"
    <3>1. task'.op = "rotate" /\ task'.at = "check" /\ task'.plan = task.plan
      BY <2>1, <2>5, ConfigFacts DEF Config!Places
    <3> QED BY <2>1, <2>3, <2>5, <3>1, <1>1 DEF TaskIsPlaced, Writing
  <2> QED BY <2>2, <2>4, <2>5, <1>21 DEF Config!SetsHash
<1>22. CASE Config!HashFails
  BY <1>22, <1>1, ConfigFacts, NoConfigTask DEF Config!HashFails, Config!Places, ClientTypes, TaskIsPlaced, Writing
<1>23. CASE Config!RollsBack
  BY <1>23, <1>1, ConfigFacts, NoConfigTask
  DEF Config!RollsBack, Config!Places, ClientTypes, TaskIsPlaced, Writing, Config!TokenIsReadable
<1>24. CASE Config!RollbackFails
  BY <1>24, <1>1, ConfigFacts, NoConfigTask
  DEF Config!RollbackFails, Config!Places, ClientTypes, TaskIsPlaced, Writing
<1>25. CASE Config!Revokes
  BY <1>25, <1>1, ConfigFacts, NoConfigTask DEF Config!Revokes, Config!Places, ClientTypes, TaskIsPlaced, Writing
<1>26. CASE Config!Compares
  BY <1>26, <1>1, ConfigFacts, NoConfigTask
  DEF Config!Compares, Config!Places, ClientTypes, TaskIsPlaced, Writing, Config!Restorable
<1>27. CASE Config!WritesBack
  BY <1>27, <1>1, ConfigFacts, NoConfigTask DEF Config!WritesBack, Config!Places, ClientTypes, TaskIsPlaced, Writing
<1>28. CASE Config!Marks
  BY <1>28, <1>1, ConfigFacts, NoConfigTask DEF Config!Marks, Config!Places, ClientTypes, TaskIsPlaced, Writing
<1>29. CASE Config!RestoreFails
  BY <1>29, <1>1, ConfigFacts, NoConfigTask DEF Config!RestoreFails, Config!Places, ClientTypes, TaskIsPlaced, Writing
<1>30. CASE Config!Edits
  BY <1>30, <1>1, ConfigFacts, NoConfigTask
  DEF Config!Edits, Config!Places, ClientTypes, TaskIsPlaced, Writing, Config!Content
<1>31. CASE Config!BackupVanishes
  BY <1>31, <1>1, ConfigFacts, NoConfigTask
  DEF Config!BackupVanishes, Config!Places, ClientTypes, TaskIsPlaced, Writing
<1>32. CASE Config!Crashes
  BY <1>32, <1>1, ConfigFacts, NoConfigTask DEF Config!Crashes, Config!Places, ClientTypes, TaskIsPlaced, Writing
<1> QED
  BY <1>2, <1>3, <1>4, <1>5, <1>6, <1>7, <1>8, <1>9, <1>10, <1>11, <1>12, <1>13, <1>14, <1>15, <1>16, <1>17, <1>18,
     <1>19, <1>20, <1>21, <1>22, <1>23, <1>24, <1>25, <1>26, <1>27, <1>28, <1>29, <1>30, <1>31, <1>32
  DEF Config!Next


\* The edits of the owner are kept.
LEMMA ConfigEditsStep ==
  ASSUME Config!Bounded, ConfigInv, ConfigIsTyped', Config!Next
  PROVE  EditsAreKept'
<1>1. ConfigIsTyped /\ TaskIsPlaced /\ EditsAreKept /\ Buried /\ TokensAgree /\ FileTells
    /\ client \in ClientTypes /\ plan \in PlanTypes
  BY DEF ConfigInv, ConfigIsTyped
<1>2. CASE Config!Previews("apply") BY <1>2, <1>1, ConfigFacts, NoConfigTask, Previewed DEF EditsAreKept, TaskIsPlaced
<1>3. CASE Config!Previews("remove")
  BY <1>3, <1>1, ConfigFacts, NoConfigTask, Previewed DEF EditsAreKept, TaskIsPlaced
<1>4. CASE Config!Confirms BY <1>4, <1>1, ConfigFacts, NoConfigTask, Confirmed DEF EditsAreKept, TaskIsPlaced
<1>5. CASE Config!Cancels
  BY <1>5, <1>1, ConfigFacts, NoConfigTask DEF Config!Cancels, Config!Places, ClientTypes, EditsAreKept, TaskIsPlaced
<1>6. CASE Config!Toggles
  BY <1>6, <1>1, ConfigFacts, NoConfigTask DEF Config!Toggles, Config!Places, ClientTypes, EditsAreKept, TaskIsPlaced
<1>7. CASE Config!RevokesAtOnce
  BY <1>7, <1>1, ConfigFacts, NoConfigTask
  DEF Config!RevokesAtOnce, Config!Places, ClientTypes, EditsAreKept, TaskIsPlaced
<1>8. CASE Config!RestoreStarts
  BY <1>8, <1>1, ConfigFacts, NoConfigTask
  DEF Config!RestoreStarts, Config!Places, ClientTypes, EditsAreKept, TaskIsPlaced
<1>9. CASE Config!RotateStarts
  BY <1>9, <1>1, ConfigFacts, NoConfigTask, RotationPlanned
  DEF Config!RotateStarts, Config!Places, ClientTypes, EditsAreKept, TaskIsPlaced, Config!TokenIsReadable
<1>10. CASE Config!Checks
  BY <1>10, <1>1, ConfigFacts, NoConfigTask
  DEF Config!Checks, Config!Places, ClientTypes, EditsAreKept, TaskIsPlaced, Config!UnchangedSince
<1>11. CASE Config!BacksUp
  BY <1>11, <1>1, ConfigFacts, NoConfigTask, BackupMade
  DEF Config!BacksUp, Config!Places, ClientTypes, EditsAreKept, TaskIsPlaced
<1>12. CASE Config!BackupFails
  BY <1>12, <1>1, ConfigFacts, NoConfigTask
  DEF Config!BackupFails, Config!Places, ClientTypes, EditsAreKept, TaskIsPlaced
<1>13. CASE Config!Replaces
  BY <1>13, <1>1, ConfigFacts, NoConfigTask
  DEF Config!Replaces, Config!Places, ClientTypes, EditsAreKept, TaskIsPlaced
<1>14. CASE Config!ReplaceFails
  BY <1>14, <1>1, ConfigFacts, NoConfigTask
  DEF Config!ReplaceFails, Config!Places, ClientTypes, EditsAreKept, TaskIsPlaced
<1>15. CASE Config!Verifies
  BY <1>15, <1>1, ConfigFacts, NoConfigTask
  DEF Config!Verifies, Config!Places, ClientTypes, EditsAreKept, TaskIsPlaced
<1>16. CASE Config!InsertsRow
  BY <1>16, <1>1, ConfigFacts, NoConfigTask
  DEF Config!InsertsRow, Config!Places, ClientTypes, EditsAreKept, TaskIsPlaced
<1>17. CASE Config!UpdatesClient
  BY <1>17, <1>1, ConfigFacts, NoConfigTask
  DEF Config!UpdatesClient, Config!Places, ClientTypes, EditsAreKept, TaskIsPlaced
<1>18. CASE Config!StatementFails
  BY <1>18, <1>1, ConfigFacts, NoConfigTask
  DEF Config!StatementFails, Config!Places, ClientTypes, EditsAreKept, TaskIsPlaced
<1>19. CASE Config!Prunes
  <2>1. UNCHANGED <<file, plan, edits, exposed>> BY <1>19 DEF Config!Prunes
  <2>2. task'.at \in {"revoke", "idle"} /\ (task'.plan = task.plan \/ task'.plan = Config!NoPlan)
    BY <1>19, ConfigFacts DEF Config!Prunes, Config!Places
  <2>3. /\ DOMAIN backups' = DOMAIN backups
        /\ \A i \in DOMAIN backups : backups'[i].orig = backups[i].orig /\ backups'[i].applied = backups[i].applied
    BY <1>19, BackupsPruned
  <2> QED BY <2>1, <2>2, <2>3, <1>1, NoConfigTask DEF EditsAreKept
<1>20. CASE Config!SetsCredential
  BY <1>20, <1>1, ConfigFacts, NoConfigTask
  DEF Config!SetsCredential, Config!Places, ClientTypes, EditsAreKept, TaskIsPlaced
<1>21. CASE Config!SetsHash
  BY <1>21, <1>1, ConfigFacts, NoConfigTask
  DEF Config!SetsHash, Config!Places, ClientTypes, EditsAreKept, TaskIsPlaced
<1>22. CASE Config!HashFails
  BY <1>22, <1>1, ConfigFacts, NoConfigTask
  DEF Config!HashFails, Config!Places, ClientTypes, EditsAreKept, TaskIsPlaced
<1>23. CASE Config!RollsBack
  BY <1>23, <1>1, ConfigFacts, NoConfigTask
  DEF Config!RollsBack, Config!Places, ClientTypes, EditsAreKept, TaskIsPlaced, Config!TokenIsReadable
<1>24. CASE Config!RollbackFails
  BY <1>24, <1>1, ConfigFacts, NoConfigTask
  DEF Config!RollbackFails, Config!Places, ClientTypes, EditsAreKept, TaskIsPlaced
<1>25. CASE Config!Revokes
  BY <1>25, <1>1, ConfigFacts, NoConfigTask DEF Config!Revokes, Config!Places, ClientTypes, EditsAreKept, TaskIsPlaced
<1>26. CASE Config!Compares
  BY <1>26, <1>1, ConfigFacts, NoConfigTask
  DEF Config!Compares, Config!Places, ClientTypes, EditsAreKept, TaskIsPlaced, Config!Restorable
<1>27. CASE Config!WritesBack
  BY <1>27, <1>1, ConfigFacts, NoConfigTask
  DEF Config!WritesBack, Config!Places, ClientTypes, EditsAreKept, TaskIsPlaced
<1>28. CASE Config!Marks
  BY <1>28, <1>1, ConfigFacts, NoConfigTask DEF Config!Marks, Config!Places, ClientTypes, EditsAreKept, TaskIsPlaced
<1>29. CASE Config!RestoreFails
  BY <1>29, <1>1, ConfigFacts, NoConfigTask
  DEF Config!RestoreFails, Config!Places, ClientTypes, EditsAreKept, TaskIsPlaced
<1>30. CASE Config!Edits
  BY <1>30, <1>1, ConfigFacts, NoConfigTask
  DEF Config!Edits, Config!Places, ClientTypes, EditsAreKept, TaskIsPlaced, Config!Content
<1>31. CASE Config!BackupVanishes
  BY <1>31, <1>1, ConfigFacts, NoConfigTask
  DEF Config!BackupVanishes, Config!Places, ClientTypes, EditsAreKept, TaskIsPlaced
<1>32. CASE Config!Crashes
  BY <1>32, <1>1, ConfigFacts, NoConfigTask DEF Config!Crashes, Config!Places, ClientTypes, EditsAreKept, TaskIsPlaced
<1> QED
  BY <1>2, <1>3, <1>4, <1>5, <1>6, <1>7, <1>8, <1>9, <1>10, <1>11, <1>12, <1>13, <1>14, <1>15, <1>16, <1>17, <1>18,
     <1>19, <1>20, <1>21, <1>22, <1>23, <1>24, <1>25, <1>26, <1>27, <1>28, <1>29, <1>30, <1>31, <1>32
  DEF Config!Next


\* A client in doubt stays so.
LEMMA ConfigBuriedStep ==
  ASSUME Config!Bounded, ConfigInv, ConfigIsTyped', Config!Next
  PROVE  Buried'
<1>1. ConfigIsTyped /\ TaskIsPlaced /\ EditsAreKept /\ Buried /\ TokensAgree /\ FileTells
    /\ client \in ClientTypes /\ plan \in PlanTypes
  BY DEF ConfigInv, ConfigIsTyped
<1>2. CASE Config!Previews("apply")
  BY <1>2, <1>1, ConfigFacts, NoConfigTask, Previewed DEF Buried, TaskIsPlaced, Writing
<1>3. CASE Config!Previews("remove")
  BY <1>3, <1>1, ConfigFacts, NoConfigTask, Previewed DEF Buried, TaskIsPlaced, Writing
<1>4. CASE Config!Confirms BY <1>4, <1>1, ConfigFacts, NoConfigTask, Confirmed DEF Buried, TaskIsPlaced, Writing
<1>5. CASE Config!Cancels
  BY <1>5, <1>1, ConfigFacts, NoConfigTask
  DEF Config!Cancels, Config!Places, ClientTypes, Buried, TaskIsPlaced, Writing
<1>6. CASE Config!Toggles
  BY <1>6, <1>1, ConfigFacts, NoConfigTask
  DEF Config!Toggles, Config!Places, ClientTypes, Buried, TaskIsPlaced, Writing
<1>7. CASE Config!RevokesAtOnce
  BY <1>7, <1>1, ConfigFacts, NoConfigTask
  DEF Config!RevokesAtOnce, Config!Places, ClientTypes, Buried, TaskIsPlaced, Writing
<1>8. CASE Config!RestoreStarts
  BY <1>8, <1>1, ConfigFacts, NoConfigTask
  DEF Config!RestoreStarts, Config!Places, ClientTypes, Buried, TaskIsPlaced, Writing
<1>9. CASE Config!RotateStarts
  <2>1. tasks + 2 # 0 BY <1>1 DEF ConfigIsTyped
  <2>2. UNCHANGED <<cred, client, plan>> /\ cred = client.hash BY <1>9 DEF Config!RotateStarts, Config!TokenIsReadable
  <2>3. task'.op = "rotate" /\ task'.old = cred /\ task'.plan.planned.ours = tasks + 2 BY <1>9, RotationPlanned
  <2> QED BY <2>1, <2>2, <2>3, <1>1 DEF Buried
<1>10. CASE Config!Checks
  BY <1>10, <1>1, ConfigFacts, NoConfigTask
  DEF Config!Checks, Config!Places, ClientTypes, Buried, TaskIsPlaced, Writing, Config!UnchangedSince
<1>11. CASE Config!BacksUp
  BY <1>11, <1>1, ConfigFacts, NoConfigTask, BackupMade
  DEF Config!BacksUp, Config!Places, ClientTypes, Buried, TaskIsPlaced, Writing
<1>12. CASE Config!BackupFails
  BY <1>12, <1>1, ConfigFacts, NoConfigTask
  DEF Config!BackupFails, Config!Places, ClientTypes, Buried, TaskIsPlaced, Writing
<1>13. CASE Config!Replaces
  BY <1>13, <1>1, ConfigFacts, NoConfigTask
  DEF Config!Replaces, Config!Places, ClientTypes, Buried, TaskIsPlaced, Writing
<1>14. CASE Config!ReplaceFails
  BY <1>14, <1>1, ConfigFacts, NoConfigTask
  DEF Config!ReplaceFails, Config!Places, ClientTypes, Buried, TaskIsPlaced, Writing
<1>15. CASE Config!Verifies
  BY <1>15, <1>1, ConfigFacts, NoConfigTask
  DEF Config!Verifies, Config!Places, ClientTypes, Buried, TaskIsPlaced, Writing
<1>16. CASE Config!InsertsRow
  BY <1>16, <1>1, ConfigFacts, NoConfigTask
  DEF Config!InsertsRow, Config!Places, ClientTypes, Buried, TaskIsPlaced, Writing
<1>17. CASE Config!UpdatesClient
  BY <1>17, <1>1, ConfigFacts, NoConfigTask
  DEF Config!UpdatesClient, Config!Places, ClientTypes, Buried, TaskIsPlaced, Writing
<1>18. CASE Config!StatementFails
  BY <1>18, <1>1, ConfigFacts, NoConfigTask
  DEF Config!StatementFails, Config!Places, ClientTypes, Buried, TaskIsPlaced, Writing
<1>19. CASE Config!Prunes
  BY <1>19, <1>1, ConfigFacts, NoConfigTask, BackupsPruned
  DEF Config!Prunes, Config!Places, ClientTypes, Buried, TaskIsPlaced, Writing
<1>20. CASE Config!SetsCredential
  BY <1>20, <1>1, ConfigFacts, NoConfigTask
  DEF Config!SetsCredential, Config!Places, ClientTypes, Buried, TaskIsPlaced, Writing
<1>21. CASE Config!SetsHash
  BY <1>21, <1>1, ConfigFacts, NoConfigTask
  DEF Config!SetsHash, Config!Places, ClientTypes, Buried, TaskIsPlaced, Writing
<1>22. CASE Config!HashFails
  BY <1>22, <1>1, ConfigFacts, NoConfigTask
  DEF Config!HashFails, Config!Places, ClientTypes, Buried, TaskIsPlaced, Writing
<1>23. CASE Config!RollsBack
  BY <1>23, <1>1, ConfigFacts, NoConfigTask
  DEF Config!RollsBack, Config!Places, ClientTypes, Buried, TaskIsPlaced, Writing, Config!TokenIsReadable
<1>24. CASE Config!RollbackFails
  BY <1>24, <1>1, ConfigFacts, NoConfigTask
  DEF Config!RollbackFails, Config!Places, ClientTypes, Buried, TaskIsPlaced, Writing
<1>25. CASE Config!Revokes
  BY <1>25, <1>1, ConfigFacts, NoConfigTask
  DEF Config!Revokes, Config!Places, ClientTypes, Buried, TaskIsPlaced, Writing
<1>26. CASE Config!Compares
  BY <1>26, <1>1, ConfigFacts, NoConfigTask
  DEF Config!Compares, Config!Places, ClientTypes, Buried, TaskIsPlaced, Writing, Config!Restorable
<1>27. CASE Config!WritesBack
  BY <1>27, <1>1, ConfigFacts, NoConfigTask
  DEF Config!WritesBack, Config!Places, ClientTypes, Buried, TaskIsPlaced, Writing
<1>28. CASE Config!Marks
  BY <1>28, <1>1, ConfigFacts, NoConfigTask
  DEF Config!Marks, Config!Places, ClientTypes, Buried, TaskIsPlaced, Writing
<1>29. CASE Config!RestoreFails
  BY <1>29, <1>1, ConfigFacts, NoConfigTask
  DEF Config!RestoreFails, Config!Places, ClientTypes, Buried, TaskIsPlaced, Writing
<1>30. CASE Config!Edits
  BY <1>30, <1>1, ConfigFacts, NoConfigTask
  DEF Config!Edits, Config!Places, ClientTypes, Buried, TaskIsPlaced, Writing, Config!Content
<1>31. CASE Config!BackupVanishes
  BY <1>31, <1>1, ConfigFacts, NoConfigTask
  DEF Config!BackupVanishes, Config!Places, ClientTypes, Buried, TaskIsPlaced, Writing
<1>32. CASE Config!Crashes
  BY <1>32, <1>1, ConfigFacts, NoConfigTask
  DEF Config!Crashes, Config!Places, ClientTypes, Buried, TaskIsPlaced, Writing
<1> QED
  BY <1>2, <1>3, <1>4, <1>5, <1>6, <1>7, <1>8, <1>9, <1>10, <1>11, <1>12, <1>13, <1>14, <1>15, <1>16, <1>17, <1>18,
     <1>19, <1>20, <1>21, <1>22, <1>23, <1>24, <1>25, <1>26, <1>27, <1>28, <1>29, <1>30, <1>31, <1>32
  DEF Config!Next


\* The tokens go together.
LEMMA ConfigTokensStep ==
  ASSUME Config!Bounded, ConfigInv, ConfigIsTyped', Config!Next
  PROVE  TokensAgree'
<1>1. ConfigIsTyped /\ TaskIsPlaced /\ EditsAreKept /\ Buried /\ TokensAgree /\ FileTells
    /\ client \in ClientTypes /\ plan \in PlanTypes
  BY DEF ConfigInv, ConfigIsTyped
<1>2. CASE Config!Previews("apply")
  BY <1>2, <1>1, ConfigFacts, NoConfigTask, Previewed
  DEF TokensAgree, TaskIsPlaced, Buried, Alive, Writing, Config!Applied
<1>3. CASE Config!Previews("remove")
  BY <1>3, <1>1, ConfigFacts, NoConfigTask, Previewed
  DEF TokensAgree, TaskIsPlaced, Buried, Alive, Writing, Config!Applied
<1>4. CASE Config!Confirms
  BY <1>4, <1>1, ConfigFacts, NoConfigTask, Confirmed
  DEF TokensAgree, TaskIsPlaced, Buried, Alive, Writing, Config!Applied
<1>5. CASE Config!Cancels
  BY <1>5, <1>1, ConfigFacts, NoConfigTask
  DEF Config!Cancels, Config!Places, ClientTypes, TokensAgree, TaskIsPlaced, Buried, Alive, Writing, Config!Applied
<1>6. CASE Config!Toggles
  BY <1>6, <1>1, ConfigFacts, NoConfigTask
  DEF Config!Toggles, Config!Places, ClientTypes, TokensAgree, TaskIsPlaced, Buried, Alive, Writing, Config!Applied
<1>7. CASE Config!RevokesAtOnce
  BY <1>7, <1>1, ConfigFacts, NoConfigTask
  DEF Config!RevokesAtOnce, Config!Places, ClientTypes, TokensAgree, TaskIsPlaced, Buried, Alive, Writing,
    Config!Applied
<1>8. CASE Config!RestoreStarts
  BY <1>8, <1>1, ConfigFacts, NoConfigTask
  DEF Config!RestoreStarts, Config!Places, ClientTypes, TokensAgree, TaskIsPlaced, Buried, Alive, Writing,
    Config!Applied
<1>9. CASE Config!RotateStarts
  BY <1>9, <1>1, ConfigFacts, NoConfigTask, RotationPlanned
  DEF Config!RotateStarts, Config!Places, ClientTypes, TokensAgree, TaskIsPlaced, Buried, Alive, Writing,
    Config!Applied, Config!TokenIsReadable
<1>10. CASE Config!Checks
  BY <1>10, <1>1, ConfigFacts, NoConfigTask
  DEF Config!Checks, Config!Places, ClientTypes, TokensAgree, TaskIsPlaced, Buried, Alive, Writing, Config!Applied,
    Config!UnchangedSince
<1>11. CASE Config!BacksUp
  BY <1>11, <1>1, ConfigFacts, NoConfigTask, BackupMade
  DEF Config!BacksUp, Config!Places, ClientTypes, TokensAgree, TaskIsPlaced, Buried, Alive, Writing, Config!Applied
<1>12. CASE Config!BackupFails
  BY <1>12, <1>1, ConfigFacts, NoConfigTask
  DEF Config!BackupFails, Config!Places, ClientTypes, TokensAgree, TaskIsPlaced, Buried, Alive, Writing,
    Config!Applied
<1>13. CASE Config!Replaces
  BY <1>13, <1>1, ConfigFacts, NoConfigTask
  DEF Config!Replaces, Config!Places, ClientTypes, TokensAgree, TaskIsPlaced, Buried, Alive, Writing, Config!Applied
<1>14. CASE Config!ReplaceFails
  BY <1>14, <1>1, ConfigFacts, NoConfigTask
  DEF Config!ReplaceFails, Config!Places, ClientTypes, TokensAgree, TaskIsPlaced, Buried, Alive, Writing,
    Config!Applied
<1>15. CASE Config!Verifies
  BY <1>15, <1>1, ConfigFacts, NoConfigTask
  DEF Config!Verifies, Config!Places, ClientTypes, TokensAgree, TaskIsPlaced, Buried, Alive, Writing, Config!Applied
<1>16. CASE Config!InsertsRow
  BY <1>16, <1>1, ConfigFacts, NoConfigTask
  DEF Config!InsertsRow, Config!Places, ClientTypes, TokensAgree, TaskIsPlaced, Buried, Alive, Writing, Config!Applied
<1>17. CASE Config!UpdatesClient
  BY <1>17, <1>1, ConfigFacts, NoConfigTask
  DEF Config!UpdatesClient, Config!Places, ClientTypes, TokensAgree, TaskIsPlaced, Buried, Alive, Writing,
    Config!Applied
<1>18. CASE Config!StatementFails
  BY <1>18, <1>1, ConfigFacts, NoConfigTask
  DEF Config!StatementFails, Config!Places, ClientTypes, TokensAgree, TaskIsPlaced, Buried, Alive, Writing,
    Config!Applied
<1>19. CASE Config!Prunes
  BY <1>19, <1>1, ConfigFacts, NoConfigTask, BackupsPruned
  DEF Config!Prunes, Config!Places, ClientTypes, TokensAgree, TaskIsPlaced, Buried, Alive, Writing, Config!Applied
<1>20. CASE Config!SetsCredential
  BY <1>20, <1>1, ConfigFacts, NoConfigTask
  DEF Config!SetsCredential, Config!Places, ClientTypes, TokensAgree, TaskIsPlaced, Buried, Alive, Writing,
    Config!Applied
<1>21. CASE Config!SetsHash
  BY <1>21, <1>1, ConfigFacts, NoConfigTask
  DEF Config!SetsHash, Config!Places, ClientTypes, TokensAgree, TaskIsPlaced, Buried, Alive, Writing, Config!Applied
<1>22. CASE Config!HashFails
  BY <1>22, <1>1, ConfigFacts, NoConfigTask
  DEF Config!HashFails, Config!Places, ClientTypes, TokensAgree, TaskIsPlaced, Buried, Alive, Writing, Config!Applied
<1>23. CASE Config!RollsBack
  BY <1>23, <1>1, ConfigFacts, NoConfigTask
  DEF Config!RollsBack, Config!Places, ClientTypes, TokensAgree, TaskIsPlaced, Buried, Alive, Writing,
    Config!Applied, Config!TokenIsReadable
<1>24. CASE Config!RollbackFails
  BY <1>24, <1>1, ConfigFacts, NoConfigTask
  DEF Config!RollbackFails, Config!Places, ClientTypes, TokensAgree, TaskIsPlaced, Buried, Alive, Writing,
    Config!Applied
<1>25. CASE Config!Revokes
  BY <1>25, <1>1, ConfigFacts, NoConfigTask
  DEF Config!Revokes, Config!Places, ClientTypes, TokensAgree, TaskIsPlaced, Buried, Alive, Writing, Config!Applied
<1>26. CASE Config!Compares
  BY <1>26, <1>1, ConfigFacts, NoConfigTask
  DEF Config!Compares, Config!Places, ClientTypes, TokensAgree, TaskIsPlaced, Buried, Alive, Writing,
    Config!Applied, Config!Restorable
<1>27. CASE Config!WritesBack
  BY <1>27, <1>1, ConfigFacts, NoConfigTask
  DEF Config!WritesBack, Config!Places, ClientTypes, TokensAgree, TaskIsPlaced, Buried, Alive, Writing, Config!Applied
<1>28. CASE Config!Marks
  BY <1>28, <1>1, ConfigFacts, NoConfigTask
  DEF Config!Marks, Config!Places, ClientTypes, TokensAgree, TaskIsPlaced, Buried, Alive, Writing, Config!Applied
<1>29. CASE Config!RestoreFails
  BY <1>29, <1>1, ConfigFacts, NoConfigTask
  DEF Config!RestoreFails, Config!Places, ClientTypes, TokensAgree, TaskIsPlaced, Buried, Alive, Writing,
    Config!Applied
<1>30. CASE Config!Edits
  BY <1>30, <1>1, ConfigFacts, NoConfigTask
  DEF Config!Edits, Config!Places, ClientTypes, TokensAgree, TaskIsPlaced, Buried, Alive, Writing, Config!Applied,
    Config!Content
<1>31. CASE Config!BackupVanishes
  BY <1>31, <1>1, ConfigFacts, NoConfigTask
  DEF Config!BackupVanishes, Config!Places, ClientTypes, TokensAgree, TaskIsPlaced, Buried, Alive, Writing,
    Config!Applied
<1>32. CASE Config!Crashes
  BY <1>32, <1>1, ConfigFacts, NoConfigTask
  DEF Config!Crashes, Config!Places, ClientTypes, TokensAgree, TaskIsPlaced, Buried, Alive, Writing, Config!Applied
<1> QED
  BY <1>2, <1>3, <1>4, <1>5, <1>6, <1>7, <1>8, <1>9, <1>10, <1>11, <1>12, <1>13, <1>14, <1>15, <1>16, <1>17, <1>18,
     <1>19, <1>20, <1>21, <1>22, <1>23, <1>24, <1>25, <1>26, <1>27, <1>28, <1>29, <1>30, <1>31, <1>32
  DEF Config!Next


\* The file goes with them.
LEMMA ConfigFileStep ==
  ASSUME Config!Bounded, ConfigInv, ConfigIsTyped', Config!Next
  PROVE  FileTells'
<1>1. ConfigIsTyped /\ TaskIsPlaced /\ EditsAreKept /\ Buried /\ TokensAgree /\ FileTells
    /\ client \in ClientTypes /\ plan \in PlanTypes
  BY DEF ConfigInv, ConfigIsTyped
<1>2. CASE Config!Previews("apply")
  BY <1>2, <1>1, ConfigFacts, NoConfigTask, Previewed
  DEF FileTells, TaskIsPlaced, Buried, TokensAgree, Alive, Configured, Back, Held, Writing
<1>3. CASE Config!Previews("remove")
  BY <1>3, <1>1, ConfigFacts, NoConfigTask, Previewed
  DEF FileTells, TaskIsPlaced, Buried, TokensAgree, Alive, Configured, Back, Held, Writing
<1>4. CASE Config!Confirms
  BY <1>4, <1>1, ConfigFacts, NoConfigTask, Confirmed
  DEF FileTells, TaskIsPlaced, Buried, TokensAgree, Alive, Configured, Back, Held, Writing
<1>5. CASE Config!Cancels
  BY <1>5, <1>1, ConfigFacts, NoConfigTask
  DEF Config!Cancels, Config!Places, ClientTypes, FileTells, TaskIsPlaced, Buried, TokensAgree, Alive, Configured,
    Back, Held, Writing
<1>6. CASE Config!Toggles
  BY <1>6, <1>1, ConfigFacts, NoConfigTask
  DEF Config!Toggles, Config!Places, ClientTypes, FileTells, TaskIsPlaced, Buried, TokensAgree, Alive, Configured,
    Back, Held, Writing
<1>7. CASE Config!RevokesAtOnce
  BY <1>7, <1>1, ConfigFacts, NoConfigTask
  DEF Config!RevokesAtOnce, Config!Places, ClientTypes, FileTells, TaskIsPlaced, Buried, TokensAgree, Alive,
    Configured, Back, Held, Writing
<1>8. CASE Config!RestoreStarts
  BY <1>8, <1>1, ConfigFacts, NoConfigTask
  DEF Config!RestoreStarts, Config!Places, ClientTypes, FileTells, TaskIsPlaced, Buried, TokensAgree, Alive,
    Configured, Back, Held, Writing
<1>9. CASE Config!RotateStarts
  BY <1>9, <1>1, ConfigFacts, NoConfigTask, RotationPlanned
  DEF Config!RotateStarts, Config!Places, ClientTypes, FileTells, TaskIsPlaced, Buried, TokensAgree, Alive,
    Configured, Back, Held, Writing, Config!TokenIsReadable
<1>10. CASE Config!Checks
  BY <1>10, <1>1, ConfigFacts, NoConfigTask
  DEF Config!Checks, Config!Places, ClientTypes, FileTells, TaskIsPlaced, Buried, TokensAgree, Alive, Configured,
    Back, Held, Writing, Config!UnchangedSince
<1>11. CASE Config!BacksUp
  BY <1>11, <1>1, ConfigFacts, NoConfigTask, BackupMade
  DEF Config!BacksUp, Config!Places, ClientTypes, FileTells, TaskIsPlaced, Buried, TokensAgree, Alive, Configured,
    Back, Held, Writing
<1>12. CASE Config!BackupFails
  BY <1>12, <1>1, ConfigFacts, NoConfigTask
  DEF Config!BackupFails, Config!Places, ClientTypes, FileTells, TaskIsPlaced, Buried, TokensAgree, Alive,
    Configured, Back, Held, Writing
<1>13. CASE Config!Replaces
  BY <1>13, <1>1, ConfigFacts, NoConfigTask
  DEF Config!Replaces, Config!Places, ClientTypes, FileTells, TaskIsPlaced, Buried, TokensAgree, Alive, Configured,
    Back, Held, Writing
<1>14. CASE Config!ReplaceFails
  BY <1>14, <1>1, ConfigFacts, NoConfigTask
  DEF Config!ReplaceFails, Config!Places, ClientTypes, FileTells, TaskIsPlaced, Buried, TokensAgree, Alive,
    Configured, Back, Held, Writing
<1>15. CASE Config!Verifies
  BY <1>15, <1>1, ConfigFacts, NoConfigTask
  DEF Config!Verifies, Config!Places, ClientTypes, FileTells, TaskIsPlaced, Buried, TokensAgree, Alive, Configured,
    Back, Held, Writing
<1>16. CASE Config!InsertsRow
  BY <1>16, <1>1, ConfigFacts, NoConfigTask
  DEF Config!InsertsRow, Config!Places, ClientTypes, FileTells, TaskIsPlaced, Buried, TokensAgree, Alive,
    Configured, Back, Held, Writing
<1>17. CASE Config!UpdatesClient
  BY <1>17, <1>1, ConfigFacts, NoConfigTask
  DEF Config!UpdatesClient, Config!Places, ClientTypes, FileTells, TaskIsPlaced, Buried, TokensAgree, Alive,
    Configured, Back, Held, Writing
<1>18. CASE Config!StatementFails
  BY <1>18, <1>1, ConfigFacts, NoConfigTask
  DEF Config!StatementFails, Config!Places, ClientTypes, FileTells, TaskIsPlaced, Buried, TokensAgree, Alive,
    Configured, Back, Held, Writing
<1>19. CASE Config!Prunes
  BY <1>19, <1>1, ConfigFacts, NoConfigTask, BackupsPruned
  DEF Config!Prunes, Config!Places, ClientTypes, FileTells, TaskIsPlaced, Buried, TokensAgree, Alive, Configured,
    Back, Held, Writing
<1>20. CASE Config!SetsCredential
  BY <1>20, <1>1, ConfigFacts, NoConfigTask
  DEF Config!SetsCredential, Config!Places, ClientTypes, FileTells, TaskIsPlaced, Buried, TokensAgree, Alive,
    Configured, Back, Held, Writing
<1>21. CASE Config!SetsHash
  BY <1>21, <1>1, ConfigFacts, NoConfigTask
  DEF Config!SetsHash, Config!Places, ClientTypes, FileTells, TaskIsPlaced, Buried, TokensAgree, Alive, Configured,
    Back, Held, Writing
<1>22. CASE Config!HashFails
  BY <1>22, <1>1, ConfigFacts, NoConfigTask
  DEF Config!HashFails, Config!Places, ClientTypes, FileTells, TaskIsPlaced, Buried, TokensAgree, Alive, Configured,
    Back, Held, Writing
<1>23. CASE Config!RollsBack
  BY <1>23, <1>1, ConfigFacts, NoConfigTask
  DEF Config!RollsBack, Config!Places, ClientTypes, FileTells, TaskIsPlaced, Buried, TokensAgree, Alive, Configured,
    Back, Held, Writing, Config!TokenIsReadable
<1>24. CASE Config!RollbackFails
  BY <1>24, <1>1, ConfigFacts, NoConfigTask
  DEF Config!RollbackFails, Config!Places, ClientTypes, FileTells, TaskIsPlaced, Buried, TokensAgree, Alive,
    Configured, Back, Held, Writing
<1>25. CASE Config!Revokes
  BY <1>25, <1>1, ConfigFacts, NoConfigTask
  DEF Config!Revokes, Config!Places, ClientTypes, FileTells, TaskIsPlaced, Buried, TokensAgree, Alive, Configured,
    Back, Held, Writing
<1>26. CASE Config!Compares
  BY <1>26, <1>1, ConfigFacts, NoConfigTask
  DEF Config!Compares, Config!Places, ClientTypes, FileTells, TaskIsPlaced, Buried, TokensAgree, Alive, Configured,
    Back, Held, Writing, Config!Restorable
<1>27. CASE Config!WritesBack
  BY <1>27, <1>1, ConfigFacts, NoConfigTask
  DEF Config!WritesBack, Config!Places, ClientTypes, FileTells, TaskIsPlaced, Buried, TokensAgree, Alive,
    Configured, Back, Held, Writing
<1>28. CASE Config!Marks
  BY <1>28, <1>1, ConfigFacts, NoConfigTask
  DEF Config!Marks, Config!Places, ClientTypes, FileTells, TaskIsPlaced, Buried, TokensAgree, Alive, Configured,
    Back, Held, Writing
<1>29. CASE Config!RestoreFails
  BY <1>29, <1>1, ConfigFacts, NoConfigTask
  DEF Config!RestoreFails, Config!Places, ClientTypes, FileTells, TaskIsPlaced, Buried, TokensAgree, Alive,
    Configured, Back, Held, Writing
<1>30. CASE Config!Edits
  <2>1. file'.ours = file.ours /\ UNCHANGED <<cred, client, plan, task, crashed>>
    BY <1>30, <1>1 DEF Config!Edits, ConfigIsTyped, Config!Content
  <2>2. exposed' = exposed \cup {w \in {"write", "row"} :
       task.at \in IF w = "write" THEN {"backup", "replace", "verify", "write"} ELSE {"row", "client"}}
    BY <1>30 DEF Config!Edits
  <2>3. exposed' = {} => exposed = {} /\ task.at \notin {"backup", "replace", "verify", "row", "client"}
    <3>1. task.at \in {"backup", "replace", "verify"} => "write" \in exposed' BY <2>2
    <3>2. task.at \in {"row", "client"} => "row" \in exposed' BY <2>2
    <3> QED BY <2>2, <3>1, <3>2
  <2> QED BY <2>1, <2>3, <1>1 DEF FileTells, Configured, Alive, Back, Held
<1>31. CASE Config!BackupVanishes
  BY <1>31, <1>1, ConfigFacts, NoConfigTask
  DEF Config!BackupVanishes, Config!Places, ClientTypes, FileTells, TaskIsPlaced, Buried, TokensAgree, Alive,
    Configured, Back, Held, Writing
<1>32. CASE Config!Crashes
  BY <1>32, <1>1, ConfigFacts, NoConfigTask
  DEF Config!Crashes, Config!Places, ClientTypes, FileTells, TaskIsPlaced, Buried, TokensAgree, Alive, Configured,
    Back, Held, Writing
<1> QED
  BY <1>2, <1>3, <1>4, <1>5, <1>6, <1>7, <1>8, <1>9, <1>10, <1>11, <1>12, <1>13, <1>14, <1>15, <1>16, <1>17, <1>18,
     <1>19, <1>20, <1>21, <1>22, <1>23, <1>24, <1>25, <1>26, <1>27, <1>28, <1>29, <1>30, <1>31, <1>32
  DEF Config!Next

\* Every step keeps the invariant.
LEMMA ConfigStep ==
  ASSUME Config!Bounded, ConfigInv, [Config!Next]_(Config!vars)
  PROVE  ConfigInv'
<1>1. CASE Config!Next
  BY <1>1, ConfigTypeStep, ConfigPlacedStep, ConfigEditsStep, ConfigBuriedStep, ConfigTokensStep, ConfigFileStep
  DEF ConfigInv
<1>2. CASE UNCHANGED Config!vars
  BY <1>2
  DEF Config!vars, ConfigInv, ConfigIsTyped, TaskIsPlaced, EditsAreKept, Buried, TokensAgree, FileTells, Configured,
    Alive,
     Back, Held
<1> QED BY <1>1, <1>2

\* A bounded set of numbers has a greatest.
LEMMA Greatest ==
  ASSUME NEW n \in Nat, NEW S \in SUBSET (1..n), S # {}
  PROVE  \E i \in S : \A j \in S : j <= i
<1> DEFINE T == {n - i : i \in S}
           R == {ss \in Nat \X Nat : ss[1] < ss[2]}
<1>1. T \subseteq Nat /\ T # {}
  <2>1. ASSUME NEW i \in S PROVE n - i \in Nat
    <3>1. i \in 1..n OBVIOUS
    <3> QED BY <3>1
  <2>2. PICK i \in S : TRUE OBVIOUS
  <2>3. n - i \in T BY <2>2
  <2> QED BY <2>1, <2>3
<1>2. IsWellFoundedOn(R, Nat) BY NatLessThanWellFounded DEF OpToRel
<1>3. PICK t \in T : \A k \in T : ~ (<<k, t>> \in R) BY <1>1, <1>2, WFMin, Zenon
<1>4. PICK i \in S : t = n - i OBVIOUS
<1>5. ASSUME NEW j \in S PROVE j <= i
  <2>1. n - j \in T /\ n - j \in Nat /\ t \in Nat BY <1>1
  <2>2. ~ (n - j < t) BY <1>3, <2>1
  <2> QED BY <1>4, <2>1, <2>2
<1> QED BY <1>5

\* Pruning leaves a backup to go back to.
LEMMA ConfigActs ==
  ASSUME Config!Bounded, ConfigInv, Config!Prunes, \E i \in Config!Rows : backups[i].there
  PROVE  \E i \in Config!Rows' : backups'[i].there
<1> DEFINE V == {i \in Config!Rows : backups[i].there}
<1>1. Len(backups) \in Nat /\ DOMAIN backups = 1..Len(backups) BY ConfigFacts
<1>2. V \in SUBSET (1..Len(backups)) /\ V # {} BY <1>1 DEF Config!Rows
<1>3. PICK k \in V : \A j \in V : j <= k BY <1>1, <1>2, Greatest
<1>4. k \in Config!Preserved BY <1>3 DEF Config!Preserved, Config!Newest
<1>5. backups'[k] = backups[k] /\ k \in DOMAIN backups'
  <2>3. PICK expired \in 0..Len(backups) : \E kept \in SUBSET Config!Doomed(expired) :
          backups' = [i \in DOMAIN backups |->
            IF i \in Config!Doomed(expired) THEN [backups[i] EXCEPT !.there = FALSE, !.row = i \in kept]
                ELSE backups[i]]
    BY DEF Config!Prunes
  <2>1. PICK kept \in SUBSET Config!Doomed(expired) :
          backups' = [i \in DOMAIN backups |->
            IF i \in Config!Doomed(expired) THEN [backups[i] EXCEPT !.there = FALSE, !.row = i \in kept]
                ELSE backups[i]]
    BY <2>3
  <2>2. k \notin Config!Doomed(expired) BY <1>4 DEF Config!Doomed
  <2>4. k \in DOMAIN backups BY <1>1, <1>2
  <2>5. backups'[k] = IF k \in Config!Doomed(expired) THEN [backups[k] EXCEPT !.there = FALSE,
      !.row = k \in kept] ELSE backups[k]
    BY <2>1, <2>4
  <2>6. DOMAIN backups' = DOMAIN backups BY <2>1
  <2> QED BY <2>2, <2>4, <2>5, <2>6
<1>6. Config!Rows' = {i \in DOMAIN backups' : backups'[i].row} BY DEF Config!Rows
<1>7. backups[k].there /\ backups[k].row BY <1>3 DEF Config!Rows
<1> QED BY <1>5, <1>6, <1>7

\* The invariant gives the type invariant and the safety properties of ClientConfig.
LEMMA ConfigSafe ==
  ASSUME Config!Bounded, ConfigInv
  PROVE  Config!TypeOK /\ Config!NoEditIsLost /\ Config!RotationIsAtomic
<1>1. ConfigIsTyped BY DEF ConfigInv
<1>2. Config!TypeOK BY <1>1, ConfigFacts DEF Config!TypeOK, ConfigIsTyped, PlanTypes, BackupTypes, ClientTypes
<1>3. Config!NoEditIsLost BY DEF ConfigInv, EditsAreKept, Config!NoEditIsLost
<1>4. Config!RotationIsAtomic
  BY ConfigFacts
  DEF ConfigInv, TaskIsPlaced, TokensAgree, FileTells, Alive, Configured, Back, Held, Config!RotationIsAtomic
<1> QED BY <1>2, <1>3, <1>4

-----------------------------------------------------------------------------
(* OAuthSession: whoever works on the token file holds its lock.            *)

Working ==
  {"VALIDATING_CREDENTIALS", "PREPARING_CALLBACK", "CALLBACK_READY", "WAITING_FOR_USER", "CALLBACK_RECEIVED",
   "EXCHANGING_TOKEN", "VERIFYING_GMAIL"}
Verified == {"AUTHORIZED", "AUTHORIZED_UNVERIFIED"}
SessionTypes ==
  [state : OAuth!States, at : {"run", "claim", "lock", "work", "leave", "done"},
   cancel : BOOLEAN, port : BOOLEAN, client : 0..MaxImports, saved : 0..MaxTokens,
   answer : {"none", "code", "denied", "foreign"},
   profile : {"unknown", "right", "other", "unavailable", "refused"}]
ReaderTypes ==
  [at : {"idle", "validated", "load", "save", "clear"}, client : 0..MaxImports, seen : OAuth!Tokens]

\* Each state of the table where a session may be in it.
SessionIsPlaced(x) ==
  /\ x.at = "run" => x.state = "IDLE"
  /\ x.at \in {"claim", "lock"} => x.state = "VALIDATING_CREDENTIALS"
  /\ x.at = "work" => x.state \in Working
  /\ x.at \in {"leave", "done"} => x.state \in OAuth!Ends

IsVerified(x) == x.state = "AUTHORIZED" \/ (x.state = "VERIFYING_GMAIL" /\ x.profile = "right")

\* A session that has saved its token is about to succeed or has.
SavedIsRight(x) ==
  /\ x.saved <= written
  /\ x.saved # 0 =>
       x.state \in Verified \/ (x.state = "VERIFYING_GMAIL" /\ x.profile \in {"right", "unavailable"})
  /\ x.state = "AUTHORIZED" => x.saved # 0
  /\ x.saved # 0 /\ x.saved = token.number /\ IsVerified(x) => token.right

SessionsAreRight == \A s \in Sessions : SessionIsPlaced(session[s]) /\ SavedIsRight(session[s])

\* The lock beside the token file: one session or one reader is at work behind it.
LockIsHeld ==
  /\ \A s \in Sessions : session[s].at = "work" => tokenLock = s
  /\ \A r \in Readers : /\ reader[r].at \in {"load", "save", "clear"} => tokenLock = r
                        /\ reader[r].at = "save" => token = reader[r].seen

OAuthInv == OAuth!TypeOK /\ SessionsAreRight /\ LockIsHeld /\ token.number <= written

\* The moves of a session are in the table.
LEMMA Moves ==
  /\ OAuth!Move("IDLE", "VALIDATING_CREDENTIALS") = "VALIDATING_CREDENTIALS"
  /\ OAuth!Move("VALIDATING_CREDENTIALS", "PREPARING_CALLBACK") = "PREPARING_CALLBACK"
  /\ OAuth!Move("PREPARING_CALLBACK", "CALLBACK_READY") = "CALLBACK_READY"
  /\ OAuth!Move("CALLBACK_READY", "OPENING_BROWSER") = "OPENING_BROWSER"
  /\ OAuth!Move("OPENING_BROWSER", "WAITING_FOR_USER") = "WAITING_FOR_USER"
  /\ OAuth!Move("WAITING_FOR_USER", "CALLBACK_RECEIVED") = "CALLBACK_RECEIVED"
  /\ OAuth!Move("WAITING_FOR_USER", "TIMED_OUT") = "TIMED_OUT"
  /\ OAuth!Move("CALLBACK_RECEIVED", "EXCHANGING_TOKEN") = "EXCHANGING_TOKEN"
  /\ OAuth!Move("EXCHANGING_TOKEN", "VERIFYING_GMAIL") = "VERIFYING_GMAIL"
  /\ OAuth!Move("VERIFYING_GMAIL", "AUTHORIZED") = "AUTHORIZED"
  /\ OAuth!Move("VERIFYING_GMAIL", "AUTHORIZED_UNVERIFIED") = "AUTHORIZED_UNVERIFIED"
<1> USE DEF OAuth!Move, OAuth!Allowed
<1>1. OAuth!Move("IDLE", "VALIDATING_CREDENTIALS") = "VALIDATING_CREDENTIALS" OBVIOUS
<1>2. OAuth!Move("VALIDATING_CREDENTIALS", "PREPARING_CALLBACK") = "PREPARING_CALLBACK" OBVIOUS
<1>3. OAuth!Move("PREPARING_CALLBACK", "CALLBACK_READY") = "CALLBACK_READY" OBVIOUS
<1>4. OAuth!Move("CALLBACK_READY", "OPENING_BROWSER") = "OPENING_BROWSER" OBVIOUS
<1>5. OAuth!Move("OPENING_BROWSER", "WAITING_FOR_USER") = "WAITING_FOR_USER" OBVIOUS
<1>6. OAuth!Move("WAITING_FOR_USER", "CALLBACK_RECEIVED") = "CALLBACK_RECEIVED" OBVIOUS
<1>7. OAuth!Move("WAITING_FOR_USER", "TIMED_OUT") = "TIMED_OUT" OBVIOUS
<1>8. OAuth!Move("CALLBACK_RECEIVED", "EXCHANGING_TOKEN") = "EXCHANGING_TOKEN" OBVIOUS
<1>9. OAuth!Move("EXCHANGING_TOKEN", "VERIFYING_GMAIL") = "VERIFYING_GMAIL" OBVIOUS
<1>10. OAuth!Move("VERIFYING_GMAIL", "AUTHORIZED") = "AUTHORIZED" OBVIOUS
<1>11. OAuth!Move("VERIFYING_GMAIL", "AUTHORIZED_UNVERIFIED") = "AUTHORIZED_UNVERIFIED" OBVIOUS
<1> QED BY <1>1, <1>2, <1>3, <1>4, <1>5, <1>6, <1>7, <1>8, <1>9, <1>10, <1>11

\* So are its failures and its cancellation.
LEMMA MovesOut ==
  ASSUME NEW state \in Working
  PROVE  OAuth!AfterFailure(state) = "FAILED" /\ OAuth!AfterCancel(state) = "CANCELLED"
<1>1. "FAILED" \in OAuth!Allowed(state) /\ "CANCELLING" \in OAuth!Allowed(state) BY DEF Working, OAuth!Allowed
<1>2. "CANCELLED" \in OAuth!Allowed("CANCELLING") BY DEF OAuth!Allowed
<1> QED BY <1>1, <1>2 DEF OAuth!AfterFailure, OAuth!AfterCancel, OAuth!Move

\* The invariant holds at the start.
LEMMA OAuthInit == ASSUME OAuth!Apart, OAuth!Init PROVE OAuthInv
<1> USE DEF OAuth!Init, OAuth!Apart
<1>1. OAuth!NoToken \in OAuth!Tokens BY DEF OAuth!NoToken, OAuth!Tokens
<1>2. OAuth!NoReader \in ReaderTypes BY <1>1 DEF OAuth!NoReader, ReaderTypes
<1>3. OAuth!TypeOK BY <1>1, <1>2 DEF OAuth!TypeOK, ReaderTypes, OAuth!States, OAuth!Ends
<1>4. SessionsAreRight /\ token.number <= written
  BY DEF SessionsAreRight, SessionIsPlaced, SavedIsRight, IsVerified, OAuth!NoToken
<1>5. LockIsHeld BY DEF LockIsHeld, OAuth!NoReader
<1> QED BY <1>3, <1>4, <1>5 DEF OAuthInv

\* The parts of a session.
LEMMA SessionTyped ==
  ASSUME OAuth!TypeOK, NEW s \in Sessions
  PROVE  /\ session[s] \in SessionTypes
         /\ session[s].state \in OAuth!States /\ session[s].at \in {"run", "claim", "lock", "work", "leave", "done"}
         /\ session[s].cancel \in BOOLEAN /\ session[s].port \in BOOLEAN /\ session[s].client \in 0..MaxImports
         /\ session[s].saved \in 0..MaxTokens /\ session[s].answer \in {"none", "code", "denied", "foreign"}
         /\ session[s].profile \in {"unknown", "right", "other", "unavailable", "refused"}
<1>1. session[s] \in SessionTypes BY DEF OAuth!TypeOK, SessionTypes
<1> QED BY <1>1 DEF SessionTypes

\* A step of one session that takes the lock, keeps it or gives it back, and leaves the file alone.
LEMMA SessionSteps ==
  ASSUME OAuth!Apart, OAuthInv, NEW s \in Sessions, NEW r \in SessionTypes,
         session' = [session EXCEPT ![s] = r], UNCHANGED <<reader, token, written, oauthClient>>,
         claimed' \in Sessions \cup {OAuth!Nobody}, tokenLock' \in Sessions \cup Readers \cup {OAuth!Nobody},
         tokenLock' = tokenLock \/ tokenLock = OAuth!Nobody \/ tokenLock = s,
         r.at = "work" => tokenLock' = s,
         SessionIsPlaced(r), SavedIsRight(r)
  PROVE  OAuthInv'
<1>1. OAuth!TypeOK BY DEF OAuthInv
<1>2. session' \in [Sessions -> SessionTypes] BY <1>1 DEF OAuth!TypeOK, SessionTypes
<1>3. OAuth!TypeOK'
  <2>1. /\ reader' \in [Readers -> [at : {"idle", "validated", "load", "save", "clear"},
                   client : 0..MaxImports, seen : OAuth!Tokens]]
        /\ token' \in OAuth!Tokens /\ written' \in 0..MaxTokens /\ oauthClient' \in 0..MaxImports
    BY <1>1 DEF OAuth!TypeOK
  <2> QED BY <1>2, <2>1 DEF OAuth!TypeOK, SessionTypes
<1>4. session'[s] = r /\ \A t \in Sessions \ {s} : session'[t] = session[t] BY <1>1 DEF OAuth!TypeOK
<1>5. SessionsAreRight' BY <1>4 DEF OAuthInv, SessionsAreRight, SavedIsRight, IsVerified, SessionIsPlaced
<1>6. LockIsHeld'
  <2>1. \A t \in Sessions : session'[t].at = "work" => tokenLock' = t BY <1>4 DEF OAuthInv, LockIsHeld, OAuth!Apart
  <2>2. ASSUME NEW t \in Readers, reader'[t].at \in {"load", "save", "clear"} PROVE tokenLock' = t
    <3>1. reader[t].at \in {"load", "save", "clear"} BY <2>2
    <3>2. tokenLock = t BY <3>1 DEF OAuthInv, LockIsHeld
    <3> QED BY <3>2 DEF OAuth!Apart
  <2>3. \A t \in Readers : reader'[t].at = "save" => token' = reader'[t].seen BY DEF OAuthInv, LockIsHeld
  <2> QED BY <2>1, <2>2, <2>3 DEF LockIsHeld
<1> QED BY <1>3, <1>5, <1>6 DEF OAuthInv

\* One of a reader that leaves the file alone.
LEMMA ReaderSteps ==
  ASSUME OAuth!Apart, OAuthInv, NEW c \in Readers, NEW r \in ReaderTypes,
         reader' = [reader EXCEPT ![c] = r], UNCHANGED <<session, claimed, token, written, oauthClient>>,
         tokenLock' \in Sessions \cup Readers \cup {OAuth!Nobody},
         tokenLock' = tokenLock \/ tokenLock = OAuth!Nobody \/ tokenLock = c,
         r.at \in {"load", "save", "clear"} => tokenLock' = c,
         r.at = "save" => token = r.seen
  PROVE  OAuthInv'
<1>1. OAuth!TypeOK BY DEF OAuthInv
<1>2. reader' \in [Readers -> ReaderTypes] BY <1>1 DEF OAuth!TypeOK, ReaderTypes
<1>3. OAuth!TypeOK'
  <2>1. /\ session' \in [Sessions -> SessionTypes] /\ claimed' \in Sessions \cup {OAuth!Nobody}
        /\ token' \in OAuth!Tokens /\ written' \in 0..MaxTokens /\ oauthClient' \in 0..MaxImports
    BY <1>1 DEF OAuth!TypeOK, SessionTypes
  <2> QED BY <1>2, <2>1 DEF OAuth!TypeOK, SessionTypes, ReaderTypes
<1>4. reader'[c] = r /\ \A t \in Readers \ {c} : reader'[t] = reader[t] BY <1>1 DEF OAuth!TypeOK
<1>5. SessionsAreRight' BY DEF OAuthInv, SessionsAreRight, SavedIsRight, IsVerified, SessionIsPlaced
<1>6. LockIsHeld'
  <2>1. ASSUME NEW t \in Sessions, session'[t].at = "work" PROVE tokenLock' = t
    <3>1. tokenLock = t BY <2>1 DEF OAuthInv, LockIsHeld
    <3> QED BY <3>1 DEF OAuth!Apart
  <2>2. \A t \in Readers : reader'[t].at \in {"load", "save", "clear"} => tokenLock' = t
    BY <1>4 DEF OAuthInv, LockIsHeld, OAuth!Apart
  <2>3. \A t \in Readers : reader'[t].at = "save" => token' = reader'[t].seen BY <1>4 DEF OAuthInv, LockIsHeld
  <2> QED BY <2>1, <2>2, <2>3 DEF LockIsHeld
<1> QED BY <1>3, <1>5, <1>6 DEF OAuthInv

\* Each action keeps the invariant.
LEMMA RunsStep ==
  ASSUME OAuth!Apart, OAuthInv, NEW s \in Sessions, OAuth!Runs(s)
  PROVE  OAuthInv'
<1> DEFINE r == [session[s] EXCEPT !.at = "claim", !.state = "VALIDATING_CREDENTIALS"]
<1>1. OAuth!TypeOK /\ SessionIsPlaced(session[s]) /\ SavedIsRight(session[s]) BY DEF OAuthInv, SessionsAreRight
<1>2. session' = [session EXCEPT ![s] = r] /\ UNCHANGED <<reader, token, written, oauthClient>>
  BY <1>1, SessionTyped, Moves, MovesOut DEF OAuth!Runs, SessionIsPlaced
<1>3. r \in SessionTypes /\ SessionIsPlaced(r) /\ SavedIsRight(r)
  BY <1>1, SessionTyped, Moves, MovesOut
  DEF OAuth!Runs, SessionIsPlaced, SavedIsRight, IsVerified, Working, Verified, OAuth!Ends, OAuth!States,
    SessionTypes, OAuth!TypeOK
<1>4. /\ claimed' \in Sessions \cup {OAuth!Nobody} /\ tokenLock' \in Sessions \cup Readers \cup {OAuth!Nobody}
      /\ tokenLock' = tokenLock \/ tokenLock = OAuth!Nobody \/ tokenLock = s
      /\ r.at = "work" => tokenLock' = s
  BY <1>1, SessionTyped DEF OAuth!Runs, OAuthInv, LockIsHeld, OAuth!TypeOK
<1> HIDE DEF r
<1> QED BY <1>2, <1>3, <1>4, SessionSteps

LEMMA TakesLockStep ==
  ASSUME OAuth!Apart, OAuthInv, NEW s \in Sessions, OAuth!TakesLock(s)
  PROVE  OAuthInv'
<1> DEFINE r == [session[s] EXCEPT !.at = "work"]
<1>1. OAuth!TypeOK /\ SessionIsPlaced(session[s]) /\ SavedIsRight(session[s]) BY DEF OAuthInv, SessionsAreRight
<1>2. session' = [session EXCEPT ![s] = r] /\ UNCHANGED <<reader, token, written, oauthClient>>
  BY <1>1, SessionTyped, Moves, MovesOut DEF OAuth!TakesLock, SessionIsPlaced
<1>3. r \in SessionTypes /\ SessionIsPlaced(r) /\ SavedIsRight(r)
  BY <1>1, SessionTyped, Moves, MovesOut
  DEF OAuth!TakesLock, SessionIsPlaced, SavedIsRight, IsVerified, Working, Verified, OAuth!Ends, OAuth!States,
    SessionTypes, OAuth!TypeOK
<1>4. /\ claimed' \in Sessions \cup {OAuth!Nobody} /\ tokenLock' \in Sessions \cup Readers \cup {OAuth!Nobody}
      /\ tokenLock' = tokenLock \/ tokenLock = OAuth!Nobody \/ tokenLock = s
      /\ r.at = "work" => tokenLock' = s
  BY <1>1, SessionTyped DEF OAuth!TakesLock, OAuthInv, LockIsHeld, OAuth!TypeOK
<1> HIDE DEF r
<1> QED BY <1>2, <1>3, <1>4, SessionSteps

LEMMA LockIsBusyStep ==
  ASSUME OAuth!Apart, OAuthInv, NEW s \in Sessions, OAuth!LockIsBusy(s)
  PROVE  OAuthInv'
<1> DEFINE r == [session[s] EXCEPT !.state = "FAILED", !.at = "leave"]
<1>1. OAuth!TypeOK /\ SessionIsPlaced(session[s]) /\ SavedIsRight(session[s]) BY DEF OAuthInv, SessionsAreRight
<1>0. OAuth!AfterFailure(session[s].state) = "FAILED"
  <2>1. session[s].state \in Working BY <1>1 DEF OAuth!LockIsBusy, SessionIsPlaced, Working
  <2> QED BY <2>1, MovesOut
<1>2. session' = [session EXCEPT ![s] = r] /\ UNCHANGED <<reader, token, written, oauthClient>>
  BY <1>0, <1>1, SessionTyped DEF OAuth!LockIsBusy, OAuth!Leaving, OAuth!TypeOK
<1>3. r \in SessionTypes /\ SessionIsPlaced(r) /\ SavedIsRight(r)
  BY <1>1, SessionTyped, Moves, MovesOut
  DEF OAuth!LockIsBusy, OAuth!Leaving, SessionIsPlaced, SavedIsRight, IsVerified, Working, Verified, OAuth!Ends,
    OAuth!States, SessionTypes, OAuth!TypeOK
<1>4. /\ claimed' \in Sessions \cup {OAuth!Nobody} /\ tokenLock' \in Sessions \cup Readers \cup {OAuth!Nobody}
      /\ tokenLock' = tokenLock \/ tokenLock = OAuth!Nobody \/ tokenLock = s
      /\ r.at = "work" => tokenLock' = s
  BY <1>1, SessionTyped DEF OAuth!LockIsBusy, OAuth!Leaving, OAuthInv, LockIsHeld, OAuth!TypeOK
<1> HIDE DEF r
<1> QED BY <1>2, <1>3, <1>4, SessionSteps

LEMMA ValidatesStep ==
  ASSUME OAuth!Apart, OAuthInv, NEW s \in Sessions, OAuth!Validates(s)
  PROVE  OAuthInv'
<1> DEFINE r == [session[s] EXCEPT !.client = oauthClient, !.state = "PREPARING_CALLBACK"]
<1>1. OAuth!TypeOK /\ SessionIsPlaced(session[s]) /\ SavedIsRight(session[s]) BY DEF OAuthInv, SessionsAreRight
<1>2. session' = [session EXCEPT ![s] = r] /\ UNCHANGED <<reader, token, written, oauthClient>>
  BY <1>1, SessionTyped, Moves, MovesOut DEF OAuth!Validates, OAuth!At, OAuth!Unstopped, OAuth!Stops, SessionIsPlaced
<1>3. r \in SessionTypes /\ SessionIsPlaced(r) /\ SavedIsRight(r)
  BY <1>1, SessionTyped, Moves, MovesOut
  DEF OAuth!Validates, OAuth!At, OAuth!Unstopped, OAuth!Stops, SessionIsPlaced, SavedIsRight, IsVerified, Working,
    Verified, OAuth!Ends, OAuth!States, SessionTypes, OAuth!TypeOK
<1>4. /\ claimed' \in Sessions \cup {OAuth!Nobody} /\ tokenLock' \in Sessions \cup Readers \cup {OAuth!Nobody}
      /\ tokenLock' = tokenLock \/ tokenLock = OAuth!Nobody \/ tokenLock = s
      /\ r.at = "work" => tokenLock' = s
  BY <1>1, SessionTyped
  DEF OAuth!Validates, OAuth!At, OAuth!Unstopped, OAuth!Stops, OAuthInv, LockIsHeld, OAuth!TypeOK
<1> HIDE DEF r
<1> QED BY <1>2, <1>3, <1>4, SessionSteps

LEMMA BindsPortStep ==
  ASSUME OAuth!Apart, OAuthInv, NEW s \in Sessions, OAuth!BindsPort(s)
  PROVE  OAuthInv'
<1> DEFINE r == [session[s] EXCEPT !.port = TRUE, !.state = "CALLBACK_READY"]
<1>1. OAuth!TypeOK /\ SessionIsPlaced(session[s]) /\ SavedIsRight(session[s]) BY DEF OAuthInv, SessionsAreRight
<1>2. session' = [session EXCEPT ![s] = r] /\ UNCHANGED <<reader, token, written, oauthClient>>
  BY <1>1, SessionTyped, Moves, MovesOut DEF OAuth!BindsPort, OAuth!At, SessionIsPlaced
<1>3. r \in SessionTypes /\ SessionIsPlaced(r) /\ SavedIsRight(r)
  BY <1>1, SessionTyped, Moves, MovesOut
  DEF OAuth!BindsPort, OAuth!At, SessionIsPlaced, SavedIsRight, IsVerified, Working, Verified, OAuth!Ends,
    OAuth!States, SessionTypes, OAuth!TypeOK
<1>4. /\ claimed' \in Sessions \cup {OAuth!Nobody} /\ tokenLock' \in Sessions \cup Readers \cup {OAuth!Nobody}
      /\ tokenLock' = tokenLock \/ tokenLock = OAuth!Nobody \/ tokenLock = s
      /\ r.at = "work" => tokenLock' = s
  BY <1>1, SessionTyped DEF OAuth!BindsPort, OAuth!At, OAuthInv, LockIsHeld, OAuth!TypeOK
<1> HIDE DEF r
<1> QED BY <1>2, <1>3, <1>4, SessionSteps

LEMMA OpensBrowserStep ==
  ASSUME OAuth!Apart, OAuthInv, NEW s \in Sessions, OAuth!OpensBrowser(s)
  PROVE  OAuthInv'
<1> DEFINE r == [session[s] EXCEPT !.state = "WAITING_FOR_USER"]
<1>1. OAuth!TypeOK /\ SessionIsPlaced(session[s]) /\ SavedIsRight(session[s]) BY DEF OAuthInv, SessionsAreRight
<1>2. session' = [session EXCEPT ![s] = r] /\ UNCHANGED <<reader, token, written, oauthClient>>
  <2>1. OAuth!Move(OAuth!Move(session[s].state, "OPENING_BROWSER"), "WAITING_FOR_USER") = "WAITING_FOR_USER"
    BY Moves DEF OAuth!OpensBrowser, OAuth!At, OAuth!Unstopped
  <2> QED BY <2>1 DEF OAuth!OpensBrowser
<1>3. r \in SessionTypes /\ SessionIsPlaced(r) /\ SavedIsRight(r)
  BY <1>1, SessionTyped, Moves, MovesOut
  DEF OAuth!OpensBrowser, OAuth!At, OAuth!Unstopped, OAuth!Stops, SessionIsPlaced, SavedIsRight, IsVerified,
    Working, Verified, OAuth!Ends, OAuth!States, SessionTypes, OAuth!TypeOK
<1>4. /\ claimed' \in Sessions \cup {OAuth!Nobody} /\ tokenLock' \in Sessions \cup Readers \cup {OAuth!Nobody}
      /\ tokenLock' = tokenLock \/ tokenLock = OAuth!Nobody \/ tokenLock = s
      /\ r.at = "work" => tokenLock' = s
  BY <1>1, SessionTyped
  DEF OAuth!OpensBrowser, OAuth!At, OAuth!Unstopped, OAuth!Stops, OAuthInv, LockIsHeld, OAuth!TypeOK
<1> HIDE DEF r
<1> QED BY <1>2, <1>3, <1>4, SessionSteps

LEMMA HearsStep ==
  ASSUME OAuth!Apart, OAuthInv, NEW s \in Sessions, OAuth!Hears(s)
  PROVE  OAuthInv'
<1> DEFINE r == [session[s] EXCEPT !.state = "CALLBACK_RECEIVED"]
<1>1. OAuth!TypeOK /\ SessionIsPlaced(session[s]) /\ SavedIsRight(session[s]) BY DEF OAuthInv, SessionsAreRight
<1>2. session' = [session EXCEPT ![s] = r] /\ UNCHANGED <<reader, token, written, oauthClient>>
  BY <1>1, SessionTyped, Moves, MovesOut DEF OAuth!Hears, OAuth!At, OAuth!Moves, SessionIsPlaced
<1>3. r \in SessionTypes /\ SessionIsPlaced(r) /\ SavedIsRight(r)
  BY <1>1, SessionTyped, Moves, MovesOut
  DEF OAuth!Hears, OAuth!At, OAuth!Moves, SessionIsPlaced, SavedIsRight, IsVerified, Working, Verified, OAuth!Ends,
    OAuth!States, SessionTypes, OAuth!TypeOK
<1>4. /\ claimed' \in Sessions \cup {OAuth!Nobody} /\ tokenLock' \in Sessions \cup Readers \cup {OAuth!Nobody}
      /\ tokenLock' = tokenLock \/ tokenLock = OAuth!Nobody \/ tokenLock = s
      /\ r.at = "work" => tokenLock' = s
  BY <1>1, SessionTyped DEF OAuth!Hears, OAuth!At, OAuth!Moves, OAuthInv, LockIsHeld, OAuth!TypeOK
<1> HIDE DEF r
<1> QED BY <1>2, <1>3, <1>4, SessionSteps

LEMMA TimesOutStep ==
  ASSUME OAuth!Apart, OAuthInv, NEW s \in Sessions, OAuth!TimesOut(s)
  PROVE  OAuthInv'
<1> DEFINE r == [session[s] EXCEPT !.state = "TIMED_OUT", !.at = "leave"]
<1>1. OAuth!TypeOK /\ SessionIsPlaced(session[s]) /\ SavedIsRight(session[s]) BY DEF OAuthInv, SessionsAreRight
<1>2. session' = [session EXCEPT ![s] = r] /\ UNCHANGED <<reader, token, written, oauthClient>>
  BY <1>1, SessionTyped, Moves, MovesOut
  DEF OAuth!TimesOut, OAuth!At, OAuth!Unstopped, OAuth!Stops, OAuth!Leaving, SessionIsPlaced
<1>3. r \in SessionTypes /\ SessionIsPlaced(r) /\ SavedIsRight(r)
  BY <1>1, SessionTyped, Moves, MovesOut
  DEF OAuth!TimesOut, OAuth!At, OAuth!Unstopped, OAuth!Stops, OAuth!Leaving, SessionIsPlaced, SavedIsRight,
    IsVerified, Working, Verified, OAuth!Ends, OAuth!States, SessionTypes, OAuth!TypeOK
<1>4. /\ claimed' \in Sessions \cup {OAuth!Nobody} /\ tokenLock' \in Sessions \cup Readers \cup {OAuth!Nobody}
      /\ tokenLock' = tokenLock \/ tokenLock = OAuth!Nobody \/ tokenLock = s
      /\ r.at = "work" => tokenLock' = s
  BY <1>1, SessionTyped
  DEF OAuth!TimesOut, OAuth!At, OAuth!Unstopped, OAuth!Stops, OAuth!Leaving, OAuthInv, LockIsHeld, OAuth!TypeOK
<1> HIDE DEF r
<1> QED BY <1>2, <1>3, <1>4, SessionSteps

LEMMA ExchangesStep ==
  ASSUME OAuth!Apart, OAuthInv, NEW s \in Sessions, OAuth!Exchanges(s)
  PROVE  OAuthInv'
<1> DEFINE r == [session[s] EXCEPT !.state = "VERIFYING_GMAIL"]
<1>1. OAuth!TypeOK /\ SessionIsPlaced(session[s]) /\ SavedIsRight(session[s]) BY DEF OAuthInv, SessionsAreRight
<1>2. session' = [session EXCEPT ![s] = r] /\ UNCHANGED <<reader, token, written, oauthClient>>
  BY <1>1, SessionTyped, Moves, MovesOut
  DEF OAuth!Exchanges, OAuth!At, OAuth!Unstopped, OAuth!Stops, OAuth!Moves, SessionIsPlaced
<1>3. r \in SessionTypes /\ SessionIsPlaced(r) /\ SavedIsRight(r)
  BY <1>1, SessionTyped, Moves, MovesOut
  DEF OAuth!Exchanges, OAuth!At, OAuth!Unstopped, OAuth!Stops, OAuth!Moves, SessionIsPlaced, SavedIsRight,
    IsVerified, Working, Verified, OAuth!Ends, OAuth!States, SessionTypes, OAuth!TypeOK
<1>4. /\ claimed' \in Sessions \cup {OAuth!Nobody} /\ tokenLock' \in Sessions \cup Readers \cup {OAuth!Nobody}
      /\ tokenLock' = tokenLock \/ tokenLock = OAuth!Nobody \/ tokenLock = s
      /\ r.at = "work" => tokenLock' = s
  BY <1>1, SessionTyped
  DEF OAuth!Exchanges, OAuth!At, OAuth!Unstopped, OAuth!Stops, OAuth!Moves, OAuthInv, LockIsHeld, OAuth!TypeOK
<1> HIDE DEF r
<1> QED BY <1>2, <1>3, <1>4, SessionSteps

LEMMA FailsStep ==
  ASSUME OAuth!Apart, OAuthInv, NEW s \in Sessions, OAuth!Fails(s)
  PROVE  OAuthInv'
<1> DEFINE r == [session[s] EXCEPT !.state = "FAILED", !.at = "leave"]
<1>1. OAuth!TypeOK /\ SessionIsPlaced(session[s]) /\ SavedIsRight(session[s]) BY DEF OAuthInv, SessionsAreRight
<1>2. session' = [session EXCEPT ![s] = r] /\ UNCHANGED <<reader, token, written, oauthClient>>
  BY <1>1, SessionTyped, Moves, MovesOut
  DEF OAuth!Fails, OAuth!At, OAuth!Unstopped, OAuth!Stops, OAuth!Leaving, SessionIsPlaced
<1>3. r \in SessionTypes /\ SessionIsPlaced(r) /\ SavedIsRight(r)
  BY <1>1, SessionTyped, Moves, MovesOut
  DEF OAuth!Fails, OAuth!At, OAuth!Unstopped, OAuth!Stops, OAuth!Leaving, SessionIsPlaced, SavedIsRight, IsVerified,
    Working, Verified, OAuth!Ends, OAuth!States, SessionTypes, OAuth!TypeOK
<1>4. /\ claimed' \in Sessions \cup {OAuth!Nobody} /\ tokenLock' \in Sessions \cup Readers \cup {OAuth!Nobody}
      /\ tokenLock' = tokenLock \/ tokenLock = OAuth!Nobody \/ tokenLock = s
      /\ r.at = "work" => tokenLock' = s
  BY <1>1, SessionTyped
  DEF OAuth!Fails, OAuth!At, OAuth!Unstopped, OAuth!Stops, OAuth!Leaving, OAuthInv, LockIsHeld, OAuth!TypeOK
<1> HIDE DEF r
<1> QED BY <1>2, <1>3, <1>4, SessionSteps

LEMMA NoticesCancelStep ==
  ASSUME OAuth!Apart, OAuthInv, NEW s \in Sessions, OAuth!NoticesCancel(s)
  PROVE  OAuthInv'
<1> DEFINE r == [session[s] EXCEPT !.state = "CANCELLED", !.at = "leave"]
<1>1. OAuth!TypeOK /\ SessionIsPlaced(session[s]) /\ SavedIsRight(session[s]) BY DEF OAuthInv, SessionsAreRight
<1>2. session' = [session EXCEPT ![s] = r] /\ UNCHANGED <<reader, token, written, oauthClient>>
  BY <1>1, SessionTyped, Moves, MovesOut
  DEF OAuth!NoticesCancel, OAuth!Stops, OAuth!Stoppable, OAuth!Leaving, SessionIsPlaced
<1>3. r \in SessionTypes /\ SessionIsPlaced(r) /\ SavedIsRight(r)
  BY <1>1, SessionTyped, Moves, MovesOut
  DEF OAuth!NoticesCancel, OAuth!Stops, OAuth!Stoppable, OAuth!Leaving, SessionIsPlaced, SavedIsRight, IsVerified,
    Working, Verified, OAuth!Ends, OAuth!States, SessionTypes, OAuth!TypeOK
<1>4. /\ claimed' \in Sessions \cup {OAuth!Nobody} /\ tokenLock' \in Sessions \cup Readers \cup {OAuth!Nobody}
      /\ tokenLock' = tokenLock \/ tokenLock = OAuth!Nobody \/ tokenLock = s
      /\ r.at = "work" => tokenLock' = s
  BY <1>1, SessionTyped
  DEF OAuth!NoticesCancel, OAuth!Stops, OAuth!Stoppable, OAuth!Leaving, OAuthInv, LockIsHeld, OAuth!TypeOK
<1> HIDE DEF r
<1> QED BY <1>2, <1>3, <1>4, SessionSteps

LEMMA LeavesStep ==
  ASSUME OAuth!Apart, OAuthInv, NEW s \in Sessions, OAuth!Leaves(s)
  PROVE  OAuthInv'
<1> DEFINE r == [session[s] EXCEPT !.at = "done", !.port = FALSE, !.answer = "none", !.profile = "unknown",
    !.client = 0, !.cancel = FALSE]
<1>1. OAuth!TypeOK /\ SessionIsPlaced(session[s]) /\ SavedIsRight(session[s]) BY DEF OAuthInv, SessionsAreRight
<1>2. session' = [session EXCEPT ![s] = r] /\ UNCHANGED <<reader, token, written, oauthClient>>
  BY <1>1, SessionTyped, Moves, MovesOut DEF OAuth!Leaves, SessionIsPlaced
<1>3. r \in SessionTypes /\ SessionIsPlaced(r) /\ SavedIsRight(r)
  <2>0. /\ session[s].state \in OAuth!States /\ session[s].saved \in 0..MaxTokens
        /\ 0 \in 0..MaxImports /\ session[s] \in SessionTypes
    BY <1>1, SessionTyped DEF OAuth!Apart
  <2>1. r \in SessionTypes BY <2>0 DEF SessionTypes
  <2>2. SessionIsPlaced(r) BY <1>1, SessionTyped DEF OAuth!Leaves, SessionIsPlaced, OAuth!Ends
  <2>3. SavedIsRight(r)
    BY <1>1, SessionTyped DEF OAuth!Leaves, SessionIsPlaced, SavedIsRight, IsVerified, Verified, OAuth!Ends
  <2> QED BY <2>1, <2>2, <2>3
<1>4. /\ claimed' \in Sessions \cup {OAuth!Nobody} /\ tokenLock' \in Sessions \cup Readers \cup {OAuth!Nobody}
      /\ tokenLock' = tokenLock \/ tokenLock = OAuth!Nobody \/ tokenLock = s
      /\ r.at = "work" => tokenLock' = s
  BY <1>1, SessionTyped DEF OAuth!Leaves, OAuthInv, LockIsHeld, OAuth!TypeOK
<1> HIDE DEF r
<1> QED BY <1>2, <1>3, <1>4, SessionSteps

LEMMA CancelsStep ==
  ASSUME OAuth!Apart, OAuthInv, NEW s \in Sessions, OAuth!Cancels(s)
  PROVE  OAuthInv'
<1> DEFINE r == [session[s] EXCEPT !.cancel = TRUE]
<1>1. OAuth!TypeOK /\ SessionIsPlaced(session[s]) /\ SavedIsRight(session[s]) BY DEF OAuthInv, SessionsAreRight
<1>2. session' = [session EXCEPT ![s] = r] /\ UNCHANGED <<reader, token, written, oauthClient>>
  BY <1>1, SessionTyped, Moves, MovesOut DEF OAuth!Cancels, SessionIsPlaced
<1>3. r \in SessionTypes /\ SessionIsPlaced(r) /\ SavedIsRight(r)
  <2>1. r \in SessionTypes BY <1>1, SessionTyped DEF SessionTypes
  <2>2. SessionIsPlaced(r) BY <1>1, SessionTyped DEF OAuth!Cancels, SessionIsPlaced, OAuth!Ends
  <2>3. SavedIsRight(r)
    BY <1>1, SessionTyped DEF OAuth!Cancels, SessionIsPlaced, SavedIsRight, IsVerified, Verified, OAuth!Ends
  <2> QED BY <2>1, <2>2, <2>3
<1>4. /\ claimed' \in Sessions \cup {OAuth!Nobody} /\ tokenLock' \in Sessions \cup Readers \cup {OAuth!Nobody}
      /\ tokenLock' = tokenLock \/ tokenLock = OAuth!Nobody \/ tokenLock = s
      /\ r.at = "work" => tokenLock' = s
  BY <1>1, SessionTyped DEF OAuth!Cancels, OAuthInv, LockIsHeld, OAuth!TypeOK
<1> HIDE DEF r
<1> QED BY <1>2, <1>3, <1>4, SessionSteps

LEMMA ClaimGrantedStep ==
  ASSUME OAuth!Apart, OAuthInv, NEW s \in Sessions, OAuth!Claims(s), claimed = OAuth!Nobody
  PROVE  OAuthInv'
<1> DEFINE r == [session[s] EXCEPT !.at = "lock"]
<1>1. OAuth!TypeOK /\ SessionIsPlaced(session[s]) /\ SavedIsRight(session[s]) BY DEF OAuthInv, SessionsAreRight
<1>2. session' = [session EXCEPT ![s] = r] /\ UNCHANGED <<reader, token, written, oauthClient>>
  BY <1>1, SessionTyped, Moves, MovesOut DEF OAuth!Claims, SessionIsPlaced, Working
<1>3. r \in SessionTypes /\ SessionIsPlaced(r) /\ SavedIsRight(r)
  BY <1>1, SessionTyped, Moves, MovesOut
  DEF OAuth!Claims, SessionIsPlaced, SavedIsRight, IsVerified, Working, Verified, OAuth!Ends, OAuth!States,
    SessionTypes, OAuth!TypeOK
<1>4. /\ claimed' \in Sessions \cup {OAuth!Nobody} /\ tokenLock' \in Sessions \cup Readers \cup {OAuth!Nobody}
      /\ tokenLock' = tokenLock \/ tokenLock = OAuth!Nobody \/ tokenLock = s
      /\ r.at = "work" => tokenLock' = s
  BY <1>1, SessionTyped DEF OAuth!Claims, OAuthInv, LockIsHeld, OAuth!TypeOK
<1> HIDE DEF r
<1> QED BY <1>2, <1>3, <1>4, SessionSteps

LEMMA ClaimRefusedStep ==
  ASSUME OAuth!Apart, OAuthInv, NEW s \in Sessions, OAuth!Claims(s), claimed # OAuth!Nobody
  PROVE  OAuthInv'
<1> DEFINE r == [session[s] EXCEPT !.state = "FAILED", !.at = "leave"]
<1>1. OAuth!TypeOK /\ SessionIsPlaced(session[s]) /\ SavedIsRight(session[s]) BY DEF OAuthInv, SessionsAreRight
<1>0. OAuth!AfterFailure(session[s].state) = "FAILED"
  <2>1. session[s].state \in Working BY <1>1 DEF OAuth!Claims, SessionIsPlaced, Working
  <2> QED BY <2>1, MovesOut
<1>2. session' = [session EXCEPT ![s] = r] /\ UNCHANGED <<reader, token, written, oauthClient>>
  BY <1>0, <1>1, SessionTyped DEF OAuth!Claims, OAuth!Leaving, OAuth!TypeOK
<1>3. r \in SessionTypes /\ SessionIsPlaced(r) /\ SavedIsRight(r)
  BY <1>1, SessionTyped, Moves, MovesOut
  DEF OAuth!Claims, OAuth!Leaving, SessionIsPlaced, SavedIsRight, IsVerified, Working, Verified, OAuth!Ends,
    OAuth!States, SessionTypes, OAuth!TypeOK
<1>4. /\ claimed' \in Sessions \cup {OAuth!Nobody} /\ tokenLock' \in Sessions \cup Readers \cup {OAuth!Nobody}
      /\ tokenLock' = tokenLock \/ tokenLock = OAuth!Nobody \/ tokenLock = s
      /\ r.at = "work" => tokenLock' = s
  BY <1>1, SessionTyped DEF OAuth!Claims, OAuth!Leaving, OAuthInv, LockIsHeld, OAuth!TypeOK
<1> HIDE DEF r
<1> QED BY <1>2, <1>3, <1>4, SessionSteps

LEMMA CodeHeardStep ==
  ASSUME OAuth!Apart, OAuthInv, NEW s \in Sessions, OAuth!ChecksAnswer(s), session[s].answer = "code"
  PROVE  OAuthInv'
<1> DEFINE r == [session[s] EXCEPT !.state = "EXCHANGING_TOKEN"]
<1>1. OAuth!TypeOK /\ SessionIsPlaced(session[s]) /\ SavedIsRight(session[s]) BY DEF OAuthInv, SessionsAreRight
<1>2. session' = [session EXCEPT ![s] = r] /\ UNCHANGED <<reader, token, written, oauthClient>>
  BY <1>1, SessionTyped, Moves, MovesOut
  DEF OAuth!ChecksAnswer, OAuth!At, OAuth!Stops, OAuth!Moves, SessionIsPlaced, Working
<1>3. r \in SessionTypes /\ SessionIsPlaced(r) /\ SavedIsRight(r)
  BY <1>1, SessionTyped, Moves, MovesOut
  DEF OAuth!ChecksAnswer, OAuth!At, OAuth!Stops, OAuth!Moves, SessionIsPlaced, SavedIsRight, IsVerified, Working,
    Verified, OAuth!Ends, OAuth!States, SessionTypes, OAuth!TypeOK
<1>4. /\ claimed' \in Sessions \cup {OAuth!Nobody} /\ tokenLock' \in Sessions \cup Readers \cup {OAuth!Nobody}
      /\ tokenLock' = tokenLock \/ tokenLock = OAuth!Nobody \/ tokenLock = s
      /\ r.at = "work" => tokenLock' = s
  BY <1>1, SessionTyped DEF OAuth!ChecksAnswer, OAuth!At, OAuth!Stops, OAuth!Moves, OAuthInv, LockIsHeld, OAuth!TypeOK
<1> HIDE DEF r
<1> QED BY <1>2, <1>3, <1>4, SessionSteps

LEMMA AnswerRefusedStep ==
  ASSUME OAuth!Apart, OAuthInv, NEW s \in Sessions, OAuth!ChecksAnswer(s), session[s].answer # "code"
  PROVE  OAuthInv'
<1> DEFINE r == [session[s] EXCEPT !.state = "FAILED", !.at = "leave"]
<1>1. OAuth!TypeOK /\ SessionIsPlaced(session[s]) /\ SavedIsRight(session[s]) BY DEF OAuthInv, SessionsAreRight
<1>0. OAuth!AfterFailure(session[s].state) = "FAILED"
  <2>1. session[s].state \in Working BY <1>1 DEF OAuth!ChecksAnswer, OAuth!At, SessionIsPlaced, Working
  <2> QED BY <2>1, MovesOut
<1>2. session' = [session EXCEPT ![s] = r] /\ UNCHANGED <<reader, token, written, oauthClient>>
  BY <1>0, <1>1, SessionTyped DEF OAuth!ChecksAnswer, OAuth!Leaving, OAuth!TypeOK
<1>3. r \in SessionTypes /\ SessionIsPlaced(r) /\ SavedIsRight(r)
  BY <1>1, SessionTyped, Moves, MovesOut
  DEF OAuth!ChecksAnswer, OAuth!At, OAuth!Stops, OAuth!Leaving, SessionIsPlaced, SavedIsRight, IsVerified, Working,
    Verified, OAuth!Ends, OAuth!States, SessionTypes, OAuth!TypeOK
<1>4. /\ claimed' \in Sessions \cup {OAuth!Nobody} /\ tokenLock' \in Sessions \cup Readers \cup {OAuth!Nobody}
      /\ tokenLock' = tokenLock \/ tokenLock = OAuth!Nobody \/ tokenLock = s
      /\ r.at = "work" => tokenLock' = s
  BY <1>1, SessionTyped
  DEF OAuth!ChecksAnswer, OAuth!At, OAuth!Stops, OAuth!Leaving, OAuthInv, LockIsHeld, OAuth!TypeOK
<1> HIDE DEF r
<1> QED BY <1>2, <1>3, <1>4, SessionSteps

LEMMA SuccessUnverifiedStep ==
  ASSUME OAuth!Apart, OAuthInv, NEW s \in Sessions, OAuth!Succeeds(s), session[s].profile = "unavailable"
  PROVE  OAuthInv'
<1> DEFINE r == [session[s] EXCEPT !.state = "AUTHORIZED_UNVERIFIED", !.at = "leave"]
<1>1. OAuth!TypeOK /\ SessionIsPlaced(session[s]) /\ SavedIsRight(session[s]) BY DEF OAuthInv, SessionsAreRight
<1>2. session' = [session EXCEPT ![s] = r] /\ UNCHANGED <<reader, token, written, oauthClient>>
  <2>1. OAuth!Move(session[s].state, "AUTHORIZED_UNVERIFIED") = "AUTHORIZED_UNVERIFIED"
    BY Moves DEF OAuth!Succeeds, OAuth!At
  <2> QED BY <2>1 DEF OAuth!Succeeds, OAuth!Leaving
<1>3. r \in SessionTypes /\ SessionIsPlaced(r) /\ SavedIsRight(r)
  BY <1>1, SessionTyped, Moves, MovesOut
  DEF OAuth!Succeeds, OAuth!At, OAuth!Leaving, SessionIsPlaced, SavedIsRight, IsVerified, Working, Verified,
    OAuth!Ends, OAuth!States, SessionTypes, OAuth!TypeOK
<1>4. /\ claimed' \in Sessions \cup {OAuth!Nobody} /\ tokenLock' \in Sessions \cup Readers \cup {OAuth!Nobody}
      /\ tokenLock' = tokenLock \/ tokenLock = OAuth!Nobody \/ tokenLock = s
      /\ r.at = "work" => tokenLock' = s
  BY <1>1, SessionTyped DEF OAuth!Succeeds, OAuth!At, OAuth!Leaving, OAuthInv, LockIsHeld, OAuth!TypeOK
<1> HIDE DEF r
<1> QED BY <1>2, <1>3, <1>4, SessionSteps

LEMMA SuccessVerifiedStep ==
  ASSUME OAuth!Apart, OAuthInv, NEW s \in Sessions, OAuth!Succeeds(s), session[s].profile # "unavailable"
  PROVE  OAuthInv'
<1> DEFINE r == [session[s] EXCEPT !.state = "AUTHORIZED", !.at = "leave"]
<1>1. OAuth!TypeOK /\ SessionIsPlaced(session[s]) /\ SavedIsRight(session[s]) BY DEF OAuthInv, SessionsAreRight
<1>2. session' = [session EXCEPT ![s] = r] /\ UNCHANGED <<reader, token, written, oauthClient>>
  <2>1. OAuth!Move(session[s].state, "AUTHORIZED") = "AUTHORIZED" BY Moves DEF OAuth!Succeeds, OAuth!At
  <2> QED BY <2>1 DEF OAuth!Succeeds, OAuth!Leaving
<1>3. r \in SessionTypes /\ SessionIsPlaced(r) /\ SavedIsRight(r)
  BY <1>1, SessionTyped, Moves, MovesOut
  DEF OAuth!Succeeds, OAuth!At, OAuth!Leaving, SessionIsPlaced, SavedIsRight, IsVerified, Working, Verified,
    OAuth!Ends, OAuth!States, SessionTypes, OAuth!TypeOK
<1>4. /\ claimed' \in Sessions \cup {OAuth!Nobody} /\ tokenLock' \in Sessions \cup Readers \cup {OAuth!Nobody}
      /\ tokenLock' = tokenLock \/ tokenLock = OAuth!Nobody \/ tokenLock = s
      /\ r.at = "work" => tokenLock' = s
  BY <1>1, SessionTyped DEF OAuth!Succeeds, OAuth!At, OAuth!Leaving, OAuthInv, LockIsHeld, OAuth!TypeOK
<1> HIDE DEF r
<1> QED BY <1>2, <1>3, <1>4, SessionSteps

LEMMA LearnsProfileStep ==
  ASSUME OAuth!Apart, OAuthInv, NEW s \in Sessions, OAuth!LearnsProfile(s)
  PROVE  OAuthInv'
<1>0. PICK profile \in {"right", "other", "unavailable",
    "refused"} : session' = [session EXCEPT ![s].profile = profile]
  BY DEF OAuth!LearnsProfile
<1> DEFINE r == [session[s] EXCEPT !.profile = profile]
<1>1. OAuth!TypeOK /\ SessionIsPlaced(session[s]) /\ SavedIsRight(session[s]) BY DEF OAuthInv, SessionsAreRight
<1>2. session' = [session EXCEPT ![s] = r] /\ UNCHANGED <<reader, token, written, oauthClient>>
  BY <1>0, <1>1, SessionTyped DEF OAuth!LearnsProfile
<1>3. r \in SessionTypes /\ SessionIsPlaced(r) /\ SavedIsRight(r)
  <2>1. r \in SessionTypes BY <1>0, <1>1, SessionTyped DEF SessionTypes
  <2>2. SessionIsPlaced(r) BY <1>1, SessionTyped DEF SessionIsPlaced
  <2>3. SavedIsRight(r)
    BY <1>0, <1>1, SessionTyped
    DEF OAuth!LearnsProfile, OAuth!At, OAuth!Unstopped, OAuth!Stops, SavedIsRight, IsVerified, Verified
  <2> QED BY <2>1, <2>2, <2>3
<1>4. /\ claimed' \in Sessions \cup {OAuth!Nobody} /\ tokenLock' \in Sessions \cup Readers \cup {OAuth!Nobody}
      /\ tokenLock' = tokenLock \/ tokenLock = OAuth!Nobody \/ tokenLock = s
      /\ r.at = "work" => tokenLock' = s
  BY <1>1, SessionTyped
  DEF OAuth!LearnsProfile, OAuth!At, OAuth!Unstopped, OAuth!Stops, OAuthInv, LockIsHeld, OAuth!TypeOK
<1> HIDE DEF r
<1> QED BY <1>2, <1>3, <1>4, SessionSteps

LEMMA AnswersStep ==
  ASSUME OAuth!Apart, OAuthInv, NEW s \in Sessions, OAuth!Answers(s)
  PROVE  OAuthInv'
<1>0. PICK answer \in {"code", "denied", "foreign"} : session' = [session EXCEPT ![s].answer = answer]
  BY DEF OAuth!Answers
<1> DEFINE r == [session[s] EXCEPT !.answer = answer]
<1>1. OAuth!TypeOK /\ SessionIsPlaced(session[s]) /\ SavedIsRight(session[s]) BY DEF OAuthInv, SessionsAreRight
<1>2. session' = [session EXCEPT ![s] = r] /\ UNCHANGED <<reader, token, written, oauthClient>>
  BY <1>0, <1>1, SessionTyped DEF OAuth!Answers
<1>3. r \in SessionTypes /\ SessionIsPlaced(r) /\ SavedIsRight(r)
  <2>1. r \in SessionTypes BY <1>0, <1>1, SessionTyped DEF SessionTypes
  <2>2. SessionIsPlaced(r) BY <1>1, SessionTyped DEF SessionIsPlaced
  <2>3. SavedIsRight(r)
    BY <1>0, <1>1, SessionTyped DEF OAuth!Answers, OAuth!At, SavedIsRight, IsVerified, Verified
  <2> QED BY <2>1, <2>2, <2>3
<1>4. /\ claimed' \in Sessions \cup {OAuth!Nobody} /\ tokenLock' \in Sessions \cup Readers \cup {OAuth!Nobody}
      /\ tokenLock' = tokenLock \/ tokenLock = OAuth!Nobody \/ tokenLock = s
      /\ r.at = "work" => tokenLock' = s
  BY <1>1, SessionTyped DEF OAuth!Answers, OAuth!At, OAuthInv, LockIsHeld, OAuth!TypeOK
<1> HIDE DEF r
<1> QED BY <1>2, <1>3, <1>4, SessionSteps

\* A new token has a number of its own: no session has saved it but this one.
LEMMA SavesStep ==
  ASSUME OAuth!Apart, OAuthInv, NEW s \in Sessions, OAuth!Saves(s)
  PROVE  OAuthInv'
<1> DEFINE r == [session[s] EXCEPT !.saved = written + 1]
<1>1. /\ OAuth!TypeOK /\ SessionIsPlaced(session[s]) /\ token.number <= written
      /\ written \in 0..MaxTokens /\ MaxTokens \in Nat
  BY DEF OAuthInv, SessionsAreRight, OAuth!TypeOK, OAuth!Apart
<1>2. session' = [session EXCEPT ![s] = r] /\ UNCHANGED <<claimed, tokenLock, reader, oauthClient>>
    /\ written' = written + 1
  BY <1>1, SessionTyped DEF OAuth!Saves
<1>3. written + 1 \in 0..MaxTokens BY <1>1 DEF OAuth!Saves
<1>4. PICK right \in BOOLEAN : /\ session[s].profile = "right" => right
                               /\ token' = [number |-> written + 1, client |-> session[s].client, right |-> right]
  BY DEF OAuth!Saves
<1>5. r \in SessionTypes /\ r.saved = written + 1 /\ r.at = session[s].at /\ r.state = session[s].state
    /\ r.profile = session[s].profile
  BY <1>1, <1>3, SessionTyped DEF SessionTypes
<1>6. session[s].at = "work" /\ session[s].state = "VERIFYING_GMAIL"
    /\ session[s].profile \in {"right", "unavailable"}
  BY DEF OAuth!Saves, OAuth!Unstopped, OAuth!At, OAuth!ToSave
<1>7. token' \in OAuth!Tokens
  <2>1. session[s].client \in 0..MaxImports BY <1>1, SessionTyped
  <2> QED BY <1>3, <1>4, <2>1 DEF OAuth!Tokens
<1> HIDE DEF r
<1>8. session' \in [Sessions -> SessionTypes] /\ session'[s] = r /\ \A t \in Sessions \ {s} : session'[t] = session[t]
  BY <1>1, <1>2, <1>5 DEF OAuth!TypeOK, SessionTypes
<1>9. OAuth!TypeOK'
  <2>1. /\ reader' \in [Readers -> [at : {"idle", "validated", "load", "save", "clear"},
                   client : 0..MaxImports, seen : OAuth!Tokens]]
        /\ claimed' \in Sessions \cup {OAuth!Nobody} /\ tokenLock' \in Sessions \cup Readers \cup {OAuth!Nobody}
        /\ oauthClient' \in 0..MaxImports
    BY <1>1, <1>2 DEF OAuth!TypeOK
  <2> QED BY <1>8, <2>1, <1>2, <1>3, <1>7 DEF OAuth!TypeOK, SessionTypes
<1>10. LockIsHeld'
  <2>1. tokenLock = s BY <1>6 DEF OAuthInv, LockIsHeld
  <2>2. \A t \in Readers : reader[t].at \notin {"load", "save", "clear"} BY <2>1 DEF OAuthInv, LockIsHeld, OAuth!Apart
  <2> QED BY <1>2, <1>5, <1>6, <1>8, <2>1, <2>2 DEF OAuthInv, LockIsHeld
<1>11. SessionsAreRight'
  <2>1. ASSUME NEW t \in Sessions \ {s} PROVE (SessionIsPlaced(session[t]) /\ SavedIsRight(session[t]))'
    <3>1. SessionIsPlaced(session[t]) /\ SavedIsRight(session[t]) /\ session[t].saved \in Nat
      BY <1>1, SessionTyped DEF OAuthInv, SessionsAreRight
    <3>2. token'.number = written + 1 BY <1>4
    <3>3. session[t].saved # written + 1 /\ session[t].saved <= written + 1 BY <3>1, <1>1 DEF SavedIsRight
    <3> QED BY <3>1, <3>2, <3>3, <1>8, <1>2 DEF SessionIsPlaced, SavedIsRight, IsVerified
  <2>2. SessionIsPlaced(r) BY <1>1, <1>5, <1>6 DEF SessionIsPlaced
  <2>3. (SessionIsPlaced(session[s]))' BY <2>2, <1>8 DEF SessionIsPlaced
  <2>4. (SavedIsRight(session[s]))'
    <3>1. token'.number = written + 1 /\ token'.right = right BY <1>4
    <3>2. /\ session'[s].saved = written + 1 /\ session'[s].state = "VERIFYING_GMAIL"
          /\ session'[s].profile = session[s].profile
      BY <1>5, <1>6, <1>8
    <3> QED BY <3>1, <3>2, <1>1, <1>2, <1>4, <1>6 DEF SavedIsRight, IsVerified
  <2> QED BY <2>1, <2>3, <2>4 DEF SessionsAreRight
<1>12. (token.number <= written)' BY <1>1, <1>2, <1>4
<1> QED BY <1>9, <1>10, <1>11, <1>12 DEF OAuthInv

\* The parts of a reader.
LEMMA ReaderTyped ==
  ASSUME OAuth!Apart, OAuth!TypeOK
  PROVE  /\ OAuth!NoReader \in ReaderTypes /\ OAuth!NoReader.at = "idle"
         /\ \A c \in Readers : /\ reader[c] \in ReaderTypes /\ reader[c].seen \in OAuth!Tokens
                               /\ reader[c].at \in {"idle", "validated", "load", "save", "clear"}
                               /\ reader[c].client \in 0..MaxImports
<1>1. \A c \in Readers : reader[c] \in ReaderTypes BY DEF OAuth!TypeOK, ReaderTypes
<1>2. 0 \in 0..MaxTokens /\ 0 \in 0..MaxImports BY DEF OAuth!Apart
<1>3. OAuth!NoToken \in OAuth!Tokens BY <1>2 DEF OAuth!NoToken, OAuth!Tokens
<1>4. OAuth!NoReader \in ReaderTypes BY <1>2, <1>3 DEF OAuth!NoReader, ReaderTypes
<1> QED BY <1>1, <1>4 DEF ReaderTypes, OAuth!NoReader

LEMMA ReadsClientStep ==
  ASSUME OAuth!Apart, OAuthInv, NEW c \in Readers, OAuth!ReadsClient(c)
  PROVE  OAuthInv'
<1> DEFINE r == [reader[c] EXCEPT !.at = "validated", !.client = oauthClient]
<1>1. OAuth!TypeOK BY DEF OAuthInv
<1>2. reader' = [reader EXCEPT ![c] = r] /\ UNCHANGED <<session, claimed, token, written, oauthClient>>
  BY <1>1, ReaderTyped DEF OAuth!ReadsClient, OAuth!Releases, OAuth!TypeOK
<1>3. r \in ReaderTypes
  <2>1. reader[c] \in ReaderTypes /\ oauthClient \in 0..MaxImports /\ token \in OAuth!Tokens
    BY <1>1, ReaderTyped DEF OAuth!TypeOK
  <2> QED BY ONLY <2>1 DEF ReaderTypes
<1>4. /\ tokenLock' \in Sessions \cup Readers \cup {OAuth!Nobody}
      /\ tokenLock' = tokenLock \/ tokenLock = OAuth!Nobody \/ tokenLock = c
      /\ r.at \in {"load", "save", "clear"} => tokenLock' = c
  BY <1>1, ReaderTyped DEF OAuth!ReadsClient, OAuth!Releases, OAuth!TypeOK, OAuthInv, LockIsHeld
<1>5. r.at = "save" => token = r.seen BY <1>1, ReaderTyped DEF OAuth!ReadsClient
<1> HIDE DEF r
<1> QED BY <1>2, <1>3, <1>4, <1>5, ReaderSteps

LEMMA EntersStep ==
  ASSUME OAuth!Apart, OAuthInv, NEW c \in Readers, OAuth!Enters(c)
  PROVE  OAuthInv'
<1> DEFINE r == [reader[c] EXCEPT !.at = "load"]
<1>1. OAuth!TypeOK BY DEF OAuthInv
<1>2. reader' = [reader EXCEPT ![c] = r] /\ UNCHANGED <<session, claimed, token, written, oauthClient>>
  BY <1>1, ReaderTyped DEF OAuth!Enters, OAuth!Releases, OAuth!TypeOK
<1>3. r \in ReaderTypes
  <2>1. reader[c] \in ReaderTypes /\ oauthClient \in 0..MaxImports /\ token \in OAuth!Tokens
    BY <1>1, ReaderTyped DEF OAuth!TypeOK
  <2> QED BY ONLY <2>1 DEF ReaderTypes
<1>4. /\ tokenLock' \in Sessions \cup Readers \cup {OAuth!Nobody}
      /\ tokenLock' = tokenLock \/ tokenLock = OAuth!Nobody \/ tokenLock = c
      /\ r.at \in {"load", "save", "clear"} => tokenLock' = c
  BY <1>1, ReaderTyped DEF OAuth!Enters, OAuth!Releases, OAuth!TypeOK, OAuthInv, LockIsHeld
<1>5. r.at = "save" => token = r.seen BY <1>1, ReaderTyped DEF OAuth!Enters
<1> HIDE DEF r
<1> QED BY <1>2, <1>3, <1>4, <1>5, ReaderSteps

LEMMA GivesUpStep ==
  ASSUME OAuth!Apart, OAuthInv, NEW c \in Readers, OAuth!GivesUp(c)
  PROVE  OAuthInv'
<1> DEFINE r == OAuth!NoReader
<1>1. OAuth!TypeOK BY DEF OAuthInv
<1>2. reader' = [reader EXCEPT ![c] = r] /\ UNCHANGED <<session, claimed, token, written, oauthClient>>
  BY <1>1, ReaderTyped DEF OAuth!GivesUp, OAuth!Releases, OAuth!TypeOK
<1>3. r \in ReaderTypes BY <1>1, ReaderTyped
<1>4. /\ tokenLock' \in Sessions \cup Readers \cup {OAuth!Nobody}
      /\ tokenLock' = tokenLock \/ tokenLock = OAuth!Nobody \/ tokenLock = c
      /\ r.at \in {"load", "save", "clear"} => tokenLock' = c
  BY <1>1, ReaderTyped DEF OAuth!GivesUp, OAuth!Releases, OAuth!TypeOK, OAuthInv, LockIsHeld
<1>5. r.at = "save" => token = r.seen BY <1>1, ReaderTyped DEF OAuth!GivesUp
<1> HIDE DEF r
<1> QED BY <1>2, <1>3, <1>4, <1>5, ReaderSteps

LEMMA StartsClearStep ==
  ASSUME OAuth!Apart, OAuthInv, NEW c \in Readers, OAuth!StartsClear(c)
  PROVE  OAuthInv'
<1> DEFINE r == [reader[c] EXCEPT !.at = "clear"]
<1>1. OAuth!TypeOK BY DEF OAuthInv
<1>2. reader' = [reader EXCEPT ![c] = r] /\ UNCHANGED <<session, claimed, token, written, oauthClient>>
  BY <1>1, ReaderTyped DEF OAuth!StartsClear, OAuth!Releases, OAuth!TypeOK
<1>3. r \in ReaderTypes
  <2>1. reader[c] \in ReaderTypes /\ oauthClient \in 0..MaxImports /\ token \in OAuth!Tokens
    BY <1>1, ReaderTyped DEF OAuth!TypeOK
  <2> QED BY ONLY <2>1 DEF ReaderTypes
<1>4. /\ tokenLock' \in Sessions \cup Readers \cup {OAuth!Nobody}
      /\ tokenLock' = tokenLock \/ tokenLock = OAuth!Nobody \/ tokenLock = c
      /\ r.at \in {"load", "save", "clear"} => tokenLock' = c
  BY <1>1, ReaderTyped DEF OAuth!StartsClear, OAuth!Releases, OAuth!TypeOK, OAuthInv, LockIsHeld
<1>5. r.at = "save" => token = r.seen BY <1>1, ReaderTyped DEF OAuth!StartsClear
<1> HIDE DEF r
<1> QED BY <1>2, <1>3, <1>4, <1>5, ReaderSteps

LEMMA NothingLoadedStep ==
  ASSUME OAuth!Apart, OAuthInv, NEW c \in Readers, OAuth!Loads(c), OAuth!Releases(c)
  PROVE  OAuthInv'
<1> DEFINE r == OAuth!NoReader
<1>1. OAuth!TypeOK BY DEF OAuthInv
<1>2. reader' = [reader EXCEPT ![c] = r] /\ UNCHANGED <<session, claimed, token, written, oauthClient>>
  BY <1>1, ReaderTyped DEF OAuth!Loads, OAuth!Releases, OAuth!TypeOK
<1>3. r \in ReaderTypes BY <1>1, ReaderTyped
<1>4. /\ tokenLock' \in Sessions \cup Readers \cup {OAuth!Nobody}
      /\ tokenLock' = tokenLock \/ tokenLock = OAuth!Nobody \/ tokenLock = c
      /\ r.at \in {"load", "save", "clear"} => tokenLock' = c
  BY <1>1, ReaderTyped DEF OAuth!Loads, OAuth!Releases, OAuth!TypeOK, OAuthInv, LockIsHeld
<1>5. r.at = "save" => token = r.seen BY <1>1, ReaderTyped DEF OAuth!Loads
<1> HIDE DEF r
<1> QED BY <1>2, <1>3, <1>4, <1>5, ReaderSteps

LEMMA TokenLoadedStep ==
  ASSUME OAuth!Apart, OAuthInv, NEW c \in Readers, OAuth!Loads(c), ~ OAuth!Releases(c)
  PROVE  OAuthInv'
<1> DEFINE r == [reader[c] EXCEPT !.at = "save", !.seen = token]
<1>1. OAuth!TypeOK BY DEF OAuthInv
<1>2. reader' = [reader EXCEPT ![c] = r] /\ UNCHANGED <<session, claimed, token, written, oauthClient>>
  BY <1>1, ReaderTyped DEF OAuth!Loads, OAuth!Releases, OAuth!TypeOK
<1>3. r \in ReaderTypes
  <2>1. reader[c] \in ReaderTypes /\ oauthClient \in 0..MaxImports /\ token \in OAuth!Tokens
    BY <1>1, ReaderTyped DEF OAuth!TypeOK
  <2> QED BY ONLY <2>1 DEF ReaderTypes
<1>4. /\ tokenLock' \in Sessions \cup Readers \cup {OAuth!Nobody}
      /\ tokenLock' = tokenLock \/ tokenLock = OAuth!Nobody \/ tokenLock = c
      /\ r.at \in {"load", "save", "clear"} => tokenLock' = c
  BY <1>1, ReaderTyped DEF OAuth!Loads, OAuth!Releases, OAuth!TypeOK, OAuthInv, LockIsHeld
<1>5. r.at = "save" => token = r.seen BY <1>1, ReaderTyped DEF OAuth!Loads
<1> HIDE DEF r
<1> QED BY <1>2, <1>3, <1>4, <1>5, ReaderSteps

\* A token is written or removed by the reader that holds the lock: no session has the number of a new one.
LEMMA TokenChanges ==
  ASSUME OAuth!Apart, OAuthInv, NEW c \in Readers, reader[c].at \in {"save", "clear"}, OAuth!Releases(c),
         token' = token \/ token' = OAuth!NoToken \/ token'.number = written',
         token' \in OAuth!Tokens, written' \in 0..MaxTokens, written <= written',
         token' # token /\ token' # OAuth!NoToken => written' = written + 1,
         UNCHANGED <<session, claimed, oauthClient>>
  PROVE  OAuthInv'
<1>1. OAuth!TypeOK /\ written \in Nat /\ token \in OAuth!Tokens /\ token.number <= written
  BY DEF OAuthInv, OAuth!TypeOK
<1>2. tokenLock = c /\ tokenLock' = OAuth!Nobody BY DEF OAuthInv, LockIsHeld, OAuth!Releases
<1>3. reader' = [reader EXCEPT ![c] = OAuth!NoReader] BY DEF OAuth!Releases
<1>4. reader' \in [Readers -> ReaderTypes] BY <1>1, <1>3, ReaderTyped DEF OAuth!TypeOK, ReaderTypes
<1>5. OAuth!TypeOK'
  <2>1. session' \in [Sessions -> SessionTypes] /\ claimed' \in Sessions \cup {OAuth!Nobody}
      /\ oauthClient' \in 0..MaxImports
    BY <1>1 DEF OAuth!TypeOK, SessionTypes
  <2> QED BY <1>2, <1>4, <2>1 DEF OAuth!TypeOK, SessionTypes, ReaderTypes
<1>6. \A t \in Readers : reader'[t].at \notin {"load", "save", "clear"}
  <2>1. ASSUME NEW t \in Readers \ {c} PROVE reader'[t].at \notin {"load", "save", "clear"}
    BY <1>1, <1>2, <1>3 DEF OAuthInv, LockIsHeld, OAuth!TypeOK
  <2>2. reader'[c] = OAuth!NoReader BY <1>1, <1>3 DEF OAuth!TypeOK
  <2> QED BY <2>1, <2>2, <1>1, ReaderTyped
<1>7. \A s \in Sessions : session'[s].at # "work"
  BY <1>2 DEF OAuthInv, LockIsHeld, OAuth!Apart
<1>8. LockIsHeld' BY <1>6, <1>7 DEF LockIsHeld
<1>9. (token.number <= written)' /\ token'.number \in Nat
  BY <1>1 DEF OAuth!NoToken, OAuth!Tokens, OAuth!Apart
<1>10. SessionsAreRight'
  <2>1. ASSUME NEW s \in Sessions PROVE (SessionIsPlaced(session[s]) /\ SavedIsRight(session[s]))'
    <3>1. SessionIsPlaced(session[s]) /\ SavedIsRight(session[s]) /\ session[s].saved \in Nat
      BY <1>1, SessionTyped DEF OAuthInv, SessionsAreRight
    <3>2. session[s].saved # 0 /\ session[s].saved = token'.number => token' = token
      <4>1. token' = OAuth!NoToken => token'.number = 0 BY DEF OAuth!NoToken
      <4> QED BY <4>1, <3>1, <1>1 DEF SavedIsRight
    <3>3. session[s].saved <= written' BY <3>1, <1>1 DEF SavedIsRight, OAuth!Apart
    <3> QED BY <3>1, <3>2, <3>3 DEF SessionIsPlaced, SavedIsRight, IsVerified
  <2> QED BY <2>1 DEF SessionsAreRight
<1> QED BY <1>5, <1>8, <1>9, <1>10 DEF OAuthInv

LEMMA RefreshesStep ==
  ASSUME OAuth!Apart, OAuthInv, NEW c \in Readers, OAuth!Refreshes(c)
  PROVE  OAuthInv'
<1>1. OAuth!TypeOK /\ written \in 0..MaxTokens /\ token \in OAuth!Tokens /\ MaxTokens \in Nat
  BY DEF OAuthInv, OAuth!TypeOK, OAuth!Apart
<1>2. reader[c].at = "save" /\ OAuth!Releases(c) /\ UNCHANGED <<session, claimed, oauthClient>> BY DEF OAuth!Refreshes
<1>3. reader[c].seen \in OAuth!Tokens BY <1>1, ReaderTyped
<1>4. CASE written < MaxTokens /\ token' = [reader[c].seen EXCEPT !.number = written + 1] /\ written' = written + 1
  <2>1. written + 1 \in 0..MaxTokens BY <1>1, <1>4
  <2>2. token' \in OAuth!Tokens /\ token'.number = written' BY <1>3, <1>4, <2>1 DEF OAuth!Tokens
  <2> QED BY <1>1, <1>2, <1>4, <2>1, <2>2, TokenChanges
<1>5. CASE UNCHANGED <<token, written>> BY <1>1, <1>2, <1>5, TokenChanges
<1> QED BY <1>4, <1>5 DEF OAuth!Refreshes

LEMMA ClearsStep ==
  ASSUME OAuth!Apart, OAuthInv, NEW c \in Readers, OAuth!Clears(c)
  PROVE  OAuthInv'
<1>1. OAuth!TypeOK /\ written \in 0..MaxTokens BY DEF OAuthInv, OAuth!TypeOK
<1>2. /\ reader[c].at = "clear" /\ OAuth!Releases(c) /\ token' = OAuth!NoToken
      /\ UNCHANGED <<session, claimed, written, oauthClient>>
  BY DEF OAuth!Clears
<1>3. OAuth!NoToken \in OAuth!Tokens BY DEF OAuth!NoToken, OAuth!Tokens, OAuth!Apart
<1> QED BY <1>1, <1>2, <1>3, TokenChanges

LEMMA ImportsStep == ASSUME OAuth!Apart, OAuthInv, OAuth!Imports PROVE OAuthInv'
<1>1. oauthClient' \in 0..MaxImports BY DEF OAuth!Imports, OAuthInv, OAuth!TypeOK, OAuth!Apart
<1>2. OAuth!TypeOK' BY <1>1 DEF OAuth!Imports, OAuthInv, OAuth!TypeOK
<1> QED BY <1>2 DEF OAuth!Imports, OAuthInv, SessionsAreRight, SessionIsPlaced, SavedIsRight, IsVerified, LockIsHeld

\* Every step keeps the invariant.
LEMMA OAuthStep == ASSUME OAuth!Apart, OAuthInv, [OAuth!Next]_(OAuth!vars) PROVE OAuthInv'
<1>1. CASE UNCHANGED OAuth!vars
  BY <1>1
  DEF OAuth!vars, OAuthInv, OAuth!TypeOK, SessionsAreRight, SessionIsPlaced, SavedIsRight, IsVerified, LockIsHeld
<1>2. ASSUME NEW s \in Sessions, OAuth!Step(s) \/ OAuth!Cancels(s) \/ OAuth!Answers(s) PROVE OAuthInv'
  <2>1. CASE OAuth!Claims(s) BY <2>1, ClaimGrantedStep, ClaimRefusedStep
  <2>2. CASE OAuth!ChecksAnswer(s) BY <2>2, CodeHeardStep, AnswerRefusedStep
  <2>3. CASE OAuth!Succeeds(s) BY <2>3, SuccessUnverifiedStep, SuccessVerifiedStep
  <2>4. CASE OAuth!Runs(s) \/ OAuth!TakesLock(s) \/ OAuth!LockIsBusy(s) \/ OAuth!Validates(s) \/ OAuth!BindsPort(s)
    BY <2>4, RunsStep, TakesLockStep, LockIsBusyStep, ValidatesStep, BindsPortStep
  <2>5. CASE OAuth!OpensBrowser(s) \/ OAuth!Hears(s) \/ OAuth!TimesOut(s) \/ OAuth!Exchanges(s)
      \/ OAuth!LearnsProfile(s)
    BY <2>5, OpensBrowserStep, HearsStep, TimesOutStep, ExchangesStep, LearnsProfileStep
  <2>6. CASE OAuth!Saves(s) \/ OAuth!Fails(s) \/ OAuth!NoticesCancel(s) \/ OAuth!Leaves(s)
    BY <2>6, SavesStep, FailsStep, NoticesCancelStep, LeavesStep
  <2>7. CASE OAuth!Cancels(s) \/ OAuth!Answers(s) BY <2>7, CancelsStep, AnswersStep
  <2> QED BY <1>2, <2>1, <2>2, <2>3, <2>4, <2>5, <2>6, <2>7 DEF OAuth!Step
<1>3. ASSUME NEW c \in Readers,
             \/ OAuth!ReadsClient(c) \/ OAuth!Enters(c) \/ OAuth!GivesUp(c) \/ OAuth!Loads(c) \/ OAuth!Refreshes(c)
             \/ OAuth!StartsClear(c) \/ OAuth!Clears(c)
      PROVE  OAuthInv'
  <2>1. CASE OAuth!Loads(c) BY <2>1, NothingLoadedStep, TokenLoadedStep
  <2> QED BY <1>3, <2>1, ReadsClientStep, EntersStep, GivesUpStep, RefreshesStep, StartsClearStep, ClearsStep
<1> QED BY <1>1, <1>2, <1>3, ImportsStep DEF OAuth!Next

\* The lock keeps the token that a refresh has read until it is saved.
LEMMA OAuthActs ==
  ASSUME OAuthInv, NEW c \in Readers, OAuth!Refreshes(c)
  PROVE  token = reader[c].seen
BY DEF OAuthInv, LockIsHeld, OAuth!Refreshes

\* What the invariant says of the properties.
LEMMA OAuthSafe ==
  ASSUME OAuthInv
  PROVE  OAuth!TypeOK /\ OAuth!NoTransitionIsRejected /\ OAuth!OnlySuccessSaves /\ OAuth!AuthorizedIsRight
<1>1. OAuth!TypeOK BY DEF OAuthInv
<1>2. ASSUME NEW s \in Sessions PROVE session[s].state # "RAISED"
  <2>1. session[s].at \in {"run", "claim", "lock", "work", "leave", "done"} BY <1>1, SessionTyped
  <2> QED BY <2>1 DEF OAuthInv, SessionsAreRight, SessionIsPlaced, Working, OAuth!Ends
<1>3. ASSUME NEW s \in Sessions, session[s].state \in OAuth!Ends \ {"AUTHORIZED", "AUTHORIZED_UNVERIFIED"}
      PROVE  session[s].saved = 0
  BY <1>3 DEF OAuthInv, SessionsAreRight, SavedIsRight, OAuth!Ends, Verified
<1>4. ASSUME NEW s \in Sessions, session[s].state = "AUTHORIZED", token # OAuth!NoToken,
    session[s].saved = token.number
      PROVE  token.right
  BY <1>4 DEF OAuthInv, SessionsAreRight, SavedIsRight, IsVerified
<1> QED BY <1>1, <1>2, <1>3, <1>4
  DEF OAuth!NoTransitionIsRejected, OAuth!OnlySuccessSaves, OAuth!AuthorizedIsRight

-----------------------------------------------------------------------------
(* Maintenance: one task at a time, so what it has read or begun is as it   *)
(* left it, but for the rows and troubles of others.                        *)

Scanning == {"files", "packages", "tables", "snapshots", "commit"}
\* Rows of the audit that name one of n backups, and a database with such rows.
AuditTypes(n) ==
  [issue : Issues, scan : 0..MaxJobs, copy : 0..n, did : BOOLEAN,
   status : {"awaiting_backup", "executing", "completed", "no_change", "failed"}]
DbTypes(n) ==
  [rows : SUBSET (1..MaxWrites), trouble : SUBSET Issues, health : [Issues -> {"none", "open", "resolved"}],
   newest : 0..MaxJobs, audit : Seq(AuditTypes(n))]
JobTypes ==
  [op : {"none", "scan", "repair", "backup", "restore"},
   at : Scanning \cup {"idle", "begin", "backup", "mark", "act", "finish", "safety", "copy", "check"},
   issue : Issues \cup {""}, scan : 0..MaxJobs, saw : SUBSET Issues, copy : Nat, row : Nat, done : BOOLEAN]
CareIsTyped ==
  /\ copies \in Seq(DbTypes(Len(copies))) /\ db \in DbTypes(Len(copies))
  /\ preview \in [scan : 0..MaxJobs, issues : SUBSET Issues] /\ job \in JobTypes
  /\ receiving \in BOOLEAN /\ rowsMade \in 0..MaxWrites /\ jobs \in 0..MaxJobs
  /\ gap \subseteq 1..MaxWrites /\ steady \in [there : SUBSET Issues, absent : SUBSET Issues]

\* The audit of the database and of whatever may be restored tells the truth.
Tells(d) ==
  \A i \in DOMAIN d.audit :
    /\ d.audit[i].status = "completed" => d.audit[i].did
    /\ d.audit[i].status = "no_change" => ~d.audit[i].did
AuditsTell == Tells(db) /\ \A n \in DOMAIN copies : Tells(copies[n])

\* The row of the repair under way is as the repair has left it, and so is the backup it took.
IsBackedUp(row, copy) ==
  /\ copy \in DOMAIN copies /\ row \in DOMAIN copies[copy].audit
  /\ copies[copy].audit[row].status = "awaiting_backup"
RepairOwnsRow ==
  /\ job.op = "repair" => job.issue \in Issues
  /\ job.at \in {"begin", "mark", "act", "finish"} => job.op = "repair"
  /\ job.at = "backup" => job.op \in {"repair", "backup"}
  /\ job.at \in {"begin", "backup", "mark", "act"} => ~job.done
  /\ job.op = "repair" /\ job.at \in {"backup", "mark", "act", "finish"} =>
       /\ job.row \in DOMAIN db.audit /\ db.audit[job.row].issue = job.issue
       /\ job.at \in {"backup", "mark"} => db.audit[job.row].status = "awaiting_backup" /\ ~db.audit[job.row].did
       /\ job.at = "mark" => IsBackedUp(job.row, job.copy)
       /\ job.at \in {"act", "finish"} => db.audit[job.row].status = "executing"
       /\ job.at = "act" =>
            ~db.audit[job.row].did /\ db.audit[job.row].copy = job.copy /\ IsBackedUp(job.row, job.copy)
       /\ job.at = "finish" => db.audit[job.row].did = job.done

\* A restore has its source and its safety backup, and what it may overwrite is in a backup.
Kept(w) == w \in gap \/ \E n \in DOMAIN copies : w \in copies[n].rows
RestoreKeeps ==
  /\ job.op = "restore" => job.copy \in DOMAIN copies
  /\ job.at \in {"safety", "copy", "check"} => job.op = "restore"
  /\ job.at \in {"copy", "check"} => job.row \in DOMAIN copies /\ \A w \in db.rows : Kept(w)
  /\ Care!NothingIsLost

\* A scan has seen what stood all along in the passes behind it, and nothing that was absent all along.
Ahead(at) ==
  CASE at = "files" -> {"files", "packages", "tables", "snapshots"}
    [] at = "packages" -> {"packages", "tables", "snapshots"}
    [] at = "tables" -> {"tables", "snapshots"}
    [] at = "snapshots" -> {"snapshots"}
    [] OTHER -> {}
ScanSees ==
  /\ steady.there \subseteq db.trouble /\ steady.absent \cap db.trouble = {}
  /\ job.at \in Scanning =>
       /\ \A i \in steady.there : PassOf[i] \in Ahead(job.at) \/ i \in job.saw
       /\ steady.absent \cap job.saw = {}

CareInv == CareIsTyped /\ AuditsTell /\ RepairOwnsRow /\ RestoreKeeps /\ ScanSees

\* A row of the audit may name more backups when there are more.
LEMMA TypesGrow == ASSUME NEW n \in Nat, NEW m \in Nat, n <= m PROVE DbTypes(n) \subseteq DbTypes(m)
<1>1. AuditTypes(n) \subseteq AuditTypes(m) BY DEF AuditTypes
<1>2. Seq(AuditTypes(n)) \subseteq Seq(AuditTypes(m)) BY <1>1
<1> QED BY <1>2 DEF DbTypes

\* What is in a database.
LEMMA OfDb ==
  ASSUME NEW n \in Nat, NEW d \in DbTypes(n)
  PROVE  /\ d.rows \subseteq 1..MaxWrites /\ d.trouble \subseteq Issues /\ d.newest \in 0..MaxJobs
         /\ d.health \in [Issues -> {"none", "open", "resolved"}]
         /\ d.audit \in Seq(AuditTypes(n)) /\ \A i \in DOMAIN d.audit : d.audit[i] \in AuditTypes(n)
BY DEF DbTypes

\* A database is made of its parts.
LEMMA OfParts ==
  ASSUME NEW n \in Nat, NEW rows \in SUBSET (1..MaxWrites), NEW wrong \in SUBSET Issues, NEW newest \in 0..MaxJobs,
         NEW health \in [Issues -> {"none", "open", "resolved"}], NEW audit \in Seq(AuditTypes(n))
  PROVE  [rows |-> rows, trouble |-> wrong, health |-> health, newest |-> newest, audit |-> audit] \in DbTypes(n)
BY DEF DbTypes

\* A change of one row of the audit.
LEMMA RowChanges ==
  ASSUME NEW n \in Nat, NEW s \in Seq(AuditTypes(n)), NEW i \in DOMAIN s, NEW r \in AuditTypes(n)
  PROVE  /\ [s EXCEPT ![i] = r] \in Seq(AuditTypes(n)) /\ DOMAIN [s EXCEPT ![i] = r] = DOMAIN s
         /\ [s EXCEPT ![i] = r][i] = r /\ \A j \in DOMAIN s \ {i} : [s EXCEPT ![i] = r][j] = s[j]
OBVIOUS

\* No task.
LEMMA NoCareJob ==
  ASSUME Care!Sorted
  PROVE  Care!NoJob \in JobTypes /\ Care!NoJob.at = "idle" /\ Care!NoJob.op = "none" /\ Care!NoJob.scan = 0
BY DEF Care!NoJob, JobTypes, Care!Sorted

\* The invariant holds at the start.
LEMMA CareInit == ASSUME Care!Sorted, Care!Init PROVE CareInv
<1> USE DEF Care!Sorted, Care!Init
<1>1. CareIsTyped
  <2>1. copies \in Seq(DbTypes(Len(copies))) /\ db.audit \in Seq(AuditTypes(0)) /\ Len(copies) = 0 OBVIOUS
  <2>2. db \in DbTypes(Len(copies)) BY <2>1 DEF DbTypes
  <2>3. preview \in [scan : 0..MaxJobs, issues : SUBSET Issues] BY DEF Care!NoPreview
  <2>4. steady \in [there : SUBSET Issues, absent : SUBSET Issues] OBVIOUS
  <2>5. job \in JobTypes BY NoCareJob
  <2>6. rowsMade \in 0..MaxWrites /\ jobs \in 0..MaxJobs OBVIOUS
  <2>7. receiving \in BOOLEAN /\ gap \subseteq 1..MaxWrites OBVIOUS
  <2> HIDE DEF Care!Init, Care!Sorted
  <2> QED BY <2>1, <2>2, <2>3, <2>4, <2>5, <2>6, <2>7 DEF CareIsTyped
<1>2. AuditsTell BY DEF AuditsTell, Tells
<1>3. RepairOwnsRow BY NoCareJob DEF RepairOwnsRow
<1>4. RestoreKeeps BY NoCareJob DEF RestoreKeeps, Care!NothingIsLost
<1>5. ScanSees BY NoCareJob DEF ScanSees, Scanning
<1> QED BY <1>1, <1>2, <1>3, <1>4, <1>5 DEF CareInv

\* A row of the audit is written: nothing else of the database changes.
LEMMA RowWritten ==
  ASSUME NEW n \in Nat, NEW d \in DbTypes(n), NEW i \in DOMAIN d.audit, NEW r \in AuditTypes(n),
         NEW e, e = [d EXCEPT !.audit[i] = r]
  PROVE  /\ e \in DbTypes(n) /\ e.rows = d.rows /\ e.trouble = d.trouble /\ e.health = d.health /\ e.newest = d.newest
         /\ DOMAIN e.audit = DOMAIN d.audit /\ e.audit[i] = r
             /\ \A j \in DOMAIN d.audit \ {i} : e.audit[j] = d.audit[j]
<1>1. e.audit = [d.audit EXCEPT ![i] = r] BY DEF DbTypes
<1>2. e.audit \in Seq(AuditTypes(n)) /\ DOMAIN e.audit = DOMAIN d.audit /\ e.audit[i] = r
      /\ \A j \in DOMAIN d.audit \ {i} : e.audit[j] = d.audit[j]
  BY <1>1, OfDb, RowChanges
<1>3. /\ e.rows = d.rows /\ e.trouble = d.trouble /\ e.health = d.health /\ e.newest = d.newest
      /\ e = [rows |-> d.rows, trouble |-> d.trouble, health |-> d.health, newest |-> d.newest, audit |-> e.audit]
  BY DEF DbTypes
<1>4. e \in DbTypes(n)
  <2> DEFINE audit == e.audit
  <2>1. audit \in Seq(AuditTypes(n)) BY <1>2
  <2>2. e = [rows |-> d.rows, trouble |-> d.trouble, health |-> d.health, newest |-> d.newest, audit |-> audit]
    BY <1>3
  <2> HIDE DEF audit
  <2>3. d.rows \in SUBSET (1..MaxWrites) /\ d.trouble \in SUBSET Issues BY OfDb
  <2>4. [rows |-> d.rows, trouble |-> d.trouble, health |-> d.health, newest |-> d.newest,
      audit |-> audit] \in DbTypes(n)
    BY <2>1, <2>3, OfDb, OfParts
  <2> QED BY <2>2, <2>4
<1> QED BY <1>2, <1>3, <1>4

\* _finish_consistency_repair writes a row that is still open.
LEMMA FinishWrites ==
  ASSUME NEW n \in Nat, NEW d \in DbTypes(n), NEW i \in DOMAIN d.audit,
         NEW status \in {"completed", "no_change", "failed"}, NEW e, e = Care!Finished(d, i, status)
  PROVE  /\ e \in DbTypes(n) /\ e.rows = d.rows /\ e.trouble = d.trouble /\ e.health = d.health /\ e.newest = d.newest
         /\ DOMAIN e.audit = DOMAIN d.audit /\ \A j \in DOMAIN d.audit \ {i} : e.audit[j] = d.audit[j]
         /\ e.audit[i].did = d.audit[i].did
         /\ e.audit[i].status \in {status, d.audit[i].status}
<1>1. CASE d.audit[i].status \in {"awaiting_backup", "executing"}
  <2> DEFINE r == [d.audit[i] EXCEPT !.status = status]
  <2>1. d.audit[i] \in AuditTypes(n) BY OfDb
  <2>2. r \in AuditTypes(n) /\ r.status = status /\ r.did = d.audit[i].did BY <2>1 DEF AuditTypes
  <2>3. e = [d EXCEPT !.audit[i] = r] BY <1>1 DEF Care!Finished
  <2> HIDE DEF r
  <2> QED BY <2>2, <2>3, RowWritten
<1>2. CASE d.audit[i].status \notin {"awaiting_backup", "executing"} BY <1>2 DEF Care!Finished
<1> QED BY <1>1, <1>2

\* What a repair's action writes when it changes something.
Acted(did) == [db EXCEPT !.trouble = @ \ {job.issue}, !.audit[job.row].did = did]

\* It is of that request and of that row of the audit alone.
LEMMA ActWrites ==
  ASSUME NEW n \in Nat, db \in DbTypes(n), job.row \in DOMAIN db.audit, NEW did \in BOOLEAN, NEW e, e = Acted(did)
  PROVE  /\ e \in DbTypes(n) /\ e.rows = db.rows /\ e.trouble = db.trouble \ {job.issue}
            /\ e.health = db.health /\ e.newest = db.newest
         /\ DOMAIN e.audit = DOMAIN db.audit /\ \A j \in DOMAIN db.audit \ {job.row} : e.audit[j] = db.audit[j]
         /\ e.audit[job.row] = [db.audit[job.row] EXCEPT !.did = did]
<1> DEFINE r == [db.audit[job.row] EXCEPT !.did = did]
           c == [db EXCEPT !.trouble = db.trouble \ {job.issue}]
<1>1. db.audit[job.row] \in AuditTypes(n) BY OfDb
<1>2. r \in AuditTypes(n) BY <1>1 DEF AuditTypes
<1>9. \A t : [db EXCEPT !.trouble = t] = [rows |-> db.rows, trouble |-> t, health |-> db.health,
    newest |-> db.newest, audit |-> db.audit]
  BY DEF DbTypes
<1>3. c = [rows |-> db.rows, trouble |-> db.trouble \ {job.issue}, health |-> db.health, newest |-> db.newest,
    audit |-> db.audit]
  BY <1>9
<1>7. db.rows \in SUBSET (1..MaxWrites) /\ db.trouble \ {job.issue} \in SUBSET Issues BY OfDb
<1>8. [rows |-> db.rows, trouble |-> db.trouble \ {job.issue}, health |-> db.health, newest |-> db.newest,
    audit |-> db.audit] \in DbTypes(n)
  BY <1>7, OfDb, OfParts
<1>4. c \in DbTypes(n) /\ c.audit = db.audit /\ c.rows = db.rows /\ c.trouble = db.trouble \ {job.issue}
    /\ c.health = db.health /\ c.newest = db.newest
  BY <1>3, <1>8
<1>5. e = [c EXCEPT !.audit[job.row] = r] BY DEF Acted, DbTypes
<1> HIDE DEF r, c
<1>6. /\ e \in DbTypes(n) /\ e.rows = c.rows /\ e.trouble = c.trouble /\ e.health = c.health /\ e.newest = c.newest
      /\ DOMAIN e.audit = DOMAIN c.audit /\ e.audit[job.row] = r
          /\ \A j \in DOMAIN c.audit \ {job.row} : e.audit[j] = c.audit[j]
  BY <1>2, <1>4, <1>5, RowWritten
<1> QED BY <1>4, <1>6 DEF r

\* The database or a backup gets into the backups.
LEMMA CopyAdded ==
  ASSUME CareIsTyped, copies' = Append(copies, db)
  PROVE  /\ copies' \in Seq(DbTypes(Len(copies'))) /\ db \in DbTypes(Len(copies')) /\ Len(copies') = Len(copies) + 1
         /\ \A n \in DOMAIN copies : n \in DOMAIN copies' /\ copies'[n] = copies[n]
         /\ Len(copies) + 1 \in DOMAIN copies' /\ copies'[Len(copies) + 1] = db
         /\ DOMAIN copies' = DOMAIN copies \cup {Len(copies) + 1}
<1> DEFINE n == Len(copies)
<1>1. copies \in Seq(DbTypes(n)) /\ db \in DbTypes(n) /\ n \in Nat BY DEF CareIsTyped
<1>2. DbTypes(n) \subseteq DbTypes(n + 1) BY <1>1, TypesGrow
<1> HIDE DEF n
<1>3. copies \in Seq(DbTypes(n + 1)) /\ db \in DbTypes(n + 1) BY <1>1, <1>2
<1>4. Len(copies') = n + 1 BY <1>3 DEF n
<1> QED BY <1>1, <1>3, <1>4 DEF n

\* What is in the backups.
LEMMA OfCopies ==
  ASSUME CareIsTyped
  PROVE  /\ \A n \in DOMAIN copies : copies[n] \in DbTypes(Len(copies))
         /\ DOMAIN copies = 1..Len(copies) /\ Len(copies) \in Nat
BY DEF CareIsTyped

\* A scan is begun.
LEMMA ScanJob ==
  ASSUME NEW base \in JobTypes, NEW scan \in 0..MaxJobs
  PROVE  [base EXCEPT !.at = "files", !.scan = scan, !.saw = {}] \in JobTypes
BY DEF JobTypes, Scanning

\* Everything keeps its type.
LEMMA CareTypeStep ==
  ASSUME Care!Sorted, CareInv, Care!Next
  PROVE  CareIsTyped'
<1> DEFINE n == Len(copies)
<1>1. /\ CareIsTyped /\ copies \in Seq(DbTypes(n)) /\ db \in DbTypes(n) /\ n \in Nat
      /\ preview \in [scan : 0..MaxJobs, issues : SUBSET Issues] /\ job \in JobTypes
      /\ receiving \in BOOLEAN /\ rowsMade \in 0..MaxWrites /\ jobs \in 0..MaxJobs
      /\ gap \subseteq 1..MaxWrites /\ steady \in [there : SUBSET Issues, absent : SUBSET Issues]
      /\ MaxWrites \in Nat /\ MaxJobs \in Nat
  BY DEF CareInv, CareIsTyped, Care!Sorted
<1> HIDE DEF n
<1>2. /\ db.rows \in SUBSET (1..MaxWrites) /\ db.trouble \in SUBSET Issues /\ db.newest \in 0..MaxJobs
      /\ db.health \in [Issues -> {"none", "open", "resolved"}] /\ db.audit \in Seq(AuditTypes(n))
      /\ db = [rows |-> db.rows, trouble |-> db.trouble, health |-> db.health, newest |-> db.newest,
          audit |-> db.audit]
  BY <1>1, OfDb DEF DbTypes
<1>3. ASSUME copies' = copies, db' \in DbTypes(n), preview' \in [scan : 0..MaxJobs, issues : SUBSET Issues],
             job' \in JobTypes, receiving' \in BOOLEAN, rowsMade' \in 0..MaxWrites, jobs' \in 0..MaxJobs,
             gap' \subseteq 1..MaxWrites, steady' \in [there : SUBSET Issues, absent : SUBSET Issues]
      PROVE  CareIsTyped'
  BY <1>1, <1>3 DEF CareIsTyped, n
<1>4. ASSUME copies' = Append(copies, db), UNCHANGED <<db, preview, receiving, rowsMade, jobs, gap, steady>>,
    job' \in JobTypes
      PROVE  CareIsTyped'
  BY <1>1, <1>4, CopyAdded DEF CareIsTyped
<1>5. CASE Care!ReceiveTurns BY <1>5, <1>1, <1>3 DEF Care!ReceiveTurns, Care!bounds
<1>6. CASE Care!OtherWrites
  <2>1. rowsMade + 1 \in 1..MaxWrites /\ db.rows \cup {rowsMade + 1} \in SUBSET (1..MaxWrites)
    BY <1>6, <1>1, <1>2 DEF Care!OtherWrites
  <2>2. db' = [rows |-> db.rows \cup {rowsMade + 1}, trouble |-> db.trouble, health |-> db.health,
      newest |-> db.newest, audit |-> db.audit]
    BY <1>6, <1>1 DEF Care!OtherWrites, DbTypes
  <2>3. db' \in DbTypes(n) BY <2>1, <2>2, <1>1, <1>2, OfParts
  <2> QED BY <2>1, <2>3, <1>6, <1>1, <1>3 DEF Care!OtherWrites
<1>7. ASSUME NEW i \in Issues, Care!TroubleTurns(i) PROVE CareIsTyped'
  <2> DEFINE now == IF i \in db.trouble THEN db.trouble \ {i} ELSE db.trouble \cup {i}
  <2>1. now \in SUBSET Issues BY <1>2
  <2>2. db' = [rows |-> db.rows, trouble |-> now, health |-> db.health, newest |-> db.newest, audit |-> db.audit]
    BY <1>7, <1>1 DEF Care!TroubleTurns, DbTypes
  <2>3. db' \in DbTypes(n) BY <2>1, <2>2, <1>1, <1>2, OfParts
  <2>4. steady' \in [there : SUBSET Issues, absent : SUBSET Issues] BY <1>7, <1>1 DEF Care!TroubleTurns, Care!Stays
  <2> QED BY <2>3, <2>4, <1>7, <1>1, <1>3 DEF Care!TroubleTurns
<1>8. CASE Care!ScanStarts
  <2>3. jobs + 1 \in 0..MaxJobs BY <1>8, <1>1 DEF Care!ScanStarts, Care!Starts
  <2>4. [Care!NoJob EXCEPT !.op = "scan"] \in JobTypes BY NoCareJob, <1>1 DEF JobTypes
  <2>1. job' \in JobTypes BY <2>3, <2>4, <1>8, ScanJob DEF Care!ScanStarts, Care!Starts, Care!Scans
  <2>2. steady' \in [there : SUBSET Issues, absent : SUBSET Issues] BY <1>8, <1>2 DEF Care!ScanStarts, Care!Scans
  <2> QED BY <2>1, <2>2, <1>8, <1>1, <1>3 DEF Care!ScanStarts, Care!Starts
<1>9. ASSUME NEW m \in 1..4, Care!Look(m) PROVE CareIsTyped'
  <2>1. Care!Seen(Care!Passes[m]) \in SUBSET Issues BY <1>2 DEF Care!Seen
  <2> DEFINE saw == job.saw \cup Care!Seen(Care!Passes[m])
             at == IF m = 4 THEN "commit" ELSE Care!Passes[m + 1]
  <2>2. saw \in SUBSET Issues BY <2>1, <1>1 DEF JobTypes
  <2>3. at \in Scanning BY DEF Care!Passes, Scanning
  <2>4. job' = [job EXCEPT !.saw = saw, !.at = at] BY <1>9 DEF Care!Look
  <2> HIDE DEF saw, at
  <2>5. job' \in JobTypes BY <2>2, <2>3, <2>4, <1>1 DEF JobTypes
  <2> QED BY <2>5, <1>9, <1>1, <1>3 DEF Care!Look, Care!bounds
<1>10. CASE Care!ScanCommits
  <2>1. /\ Care!Synced(db.health, job.saw) \in [Issues -> {"none", "open", "resolved"}]
        /\ job.scan \in 0..MaxJobs /\ job.saw \in SUBSET Issues
    BY <1>1, <1>2 DEF Care!Synced, JobTypes
  <2>2. db' = [rows |-> db.rows, trouble |-> db.trouble, health |-> Care!Synced(db.health, job.saw),
      newest |-> job.scan, audit |-> db.audit]
    BY <1>10, <1>1 DEF Care!ScanCommits, DbTypes
  <2>3. db' \in DbTypes(n) BY <2>1, <2>2, <1>1, <1>2, OfParts
  <2>4. preview' \in [scan : 0..MaxJobs, issues : SUBSET Issues] BY <2>1, <1>10 DEF Care!ScanCommits
  <2> QED BY <2>3, <2>4, <1>10, <1>1, <1>3, NoCareJob DEF Care!ScanCommits, Care!bounds
<1>11. CASE Care!ScanFails \/ Care!SafetyFails \/ Care!RestoreEnds \/ Care!Crash
  <2>1. preview' \in [scan : 0..MaxJobs, issues : SUBSET Issues]
    BY <1>11, <1>1 DEF Care!ScanFails, Care!SafetyFails, Care!RestoreEnds, Care!Crash, Care!NoPreview
  <2> QED
    BY <2>1, <1>11, <1>1, <1>3, NoCareJob
    DEF Care!ScanFails, Care!SafetyFails, Care!RestoreEnds, Care!Crash, Care!bounds
<1>12. ASSUME NEW i \in Issues, Care!RepairStarts(i) PROVE CareIsTyped'
  <2>1. job' \in JobTypes BY <1>12, <1>1, NoCareJob DEF Care!RepairStarts, JobTypes
  <2> QED BY <2>1, <1>12, <1>1, <1>3 DEF Care!RepairStarts, Care!Starts
<1>13. CASE Care!RepairBegins
  <2>1. CASE Care!MayBegin(db)
    <3> DEFINE r == [issue |-> job.issue, scan |-> job.scan, copy |-> 0, did |-> FALSE, status |-> "awaiting_backup"]
    <3>1. job.issue \in Issues /\ job.scan \in 0..MaxJobs
      BY <1>13, <1>1 DEF Care!RepairBegins, Care!At, CareInv, RepairOwnsRow, JobTypes
    <3>2. r \in AuditTypes(n) BY <3>1, <1>1 DEF AuditTypes
    <3>3. db' = [db EXCEPT !.audit = Append(@, r)] /\ job' = [job EXCEPT !.at = "backup", !.row = Len(db.audit) + 1]
      BY <1>13, <2>1 DEF Care!RepairBegins
    <3> HIDE DEF r
    <3>4. db' = [rows |-> db.rows, trouble |-> db.trouble, health |-> db.health, newest |-> db.newest,
        audit |-> Append(db.audit, r)]
      BY <3>3, <1>1 DEF DbTypes
    <3>5. Append(db.audit, r) \in Seq(AuditTypes(n)) BY <3>2, <1>2
    <3>6. db' \in DbTypes(n) BY <3>4, <3>5, <1>1, <1>2, OfParts
    <3>7. Len(db.audit) + 1 \in Nat BY <1>2
    <3>8. job' \in JobTypes BY <3>3, <3>7, <1>1 DEF JobTypes
    <3> QED BY <3>6, <3>8, <1>13, <1>1, <1>3 DEF Care!RepairBegins, Care!bounds
  <2>2. CASE ~Care!MayBegin(db) BY <2>2, <1>13, <1>1, <1>3, NoCareJob DEF Care!RepairBegins, Care!bounds
  <2> QED BY <2>1, <2>2
<1>14. CASE Care!BackupStarts
  <2>1. job' \in JobTypes BY <1>14, <1>1, NoCareJob DEF Care!BackupStarts, JobTypes
  <2> QED BY <2>1, <1>14, <1>1, <1>3 DEF Care!BackupStarts, Care!Starts
<1>15. CASE Care!BackupIsMade
  <2>1. Len(copies) + 1 \in Nat BY <1>1, OfCopies
  <2>2. job' \in JobTypes BY <2>1, <1>15, <1>1, NoCareJob DEF Care!BackupIsMade, JobTypes
  <2> QED BY <2>2, <1>15, <1>1, <1>4 DEF Care!BackupIsMade, Care!bounds
<1>16. ASSUME NEW i \in DOMAIN db.audit, NEW e \in DbTypes(n), NEW status \in {"completed", "no_change", "failed"},
              DOMAIN e.audit = DOMAIN db.audit
       PROVE  Care!Finished(e, i, status) \in DbTypes(n)
  BY <1>16, <1>1, FinishWrites
<1>17. CASE Care!BackupFails
  <2>1. db' \in DbTypes(n)
    <3>1. CASE job.op = "repair"
      <4>1. job.row \in DOMAIN db.audit BY <3>1, <1>17 DEF Care!BackupFails, Care!At, CareInv, RepairOwnsRow
      <4> QED BY <4>1, <3>1, <1>1, <1>16, <1>17 DEF Care!BackupFails
    <3>2. CASE job.op # "repair" BY <3>2, <1>1, <1>17 DEF Care!BackupFails
    <3> QED BY <3>1, <3>2
  <2> QED BY <2>1, <1>17, <1>1, <1>3, NoCareJob DEF Care!BackupFails
<1>18. CASE Care!RepairIsMarked
  <2>1. /\ job.row \in DOMAIN db.audit /\ job.copy \in DOMAIN copies
        /\ db' = Care!Marked(db) /\ job' = [job EXCEPT !.at = "act"]
    BY <1>18 DEF Care!RepairIsMarked, Care!At, Care!Goes, CareInv, RepairOwnsRow, IsBackedUp
  <2> DEFINE r == [db.audit[job.row] EXCEPT !.copy = job.copy, !.status = "executing"]
  <2>2. db.audit[job.row] \in AuditTypes(n) BY <2>1, <1>1, OfDb
  <2>3. job.copy \in 0..n BY <2>1, <1>1, OfCopies DEF n
  <2>4. r \in AuditTypes(n) BY <2>2, <2>3 DEF AuditTypes
  <2>5. db' = [db EXCEPT !.audit[job.row] = r] BY <2>1, <2>2, <1>1, <1>2 DEF Care!Marked, AuditTypes, DbTypes
  <2> HIDE DEF r
  <2>6. db' \in DbTypes(n) BY <2>1, <2>4, <2>5, <1>1, RowWritten
  <2>7. job' \in JobTypes BY <2>1, <1>1 DEF JobTypes
  <2> QED BY <2>6, <2>7, <1>18, <1>1, <1>3 DEF Care!RepairIsMarked, Care!bounds
<1>19. CASE Care!RepairActs
  <2>1. CASE db' = db /\ job' = [job EXCEPT !.at = "finish"] /\ steady' = steady
    <3>1. job' \in JobTypes BY <2>1, <1>1 DEF JobTypes
    <3> QED BY <3>1, <2>1, <1>19, <1>1, <1>3 DEF Care!RepairActs, Care!bounds
  <2>2. CASE /\ db' = [db EXCEPT !.trouble = @ \ {job.issue}, !.audit[job.row].did = TRUE]
             /\ job' = [job EXCEPT !.at = "finish", !.done = TRUE] /\ Care!Stays(db.trouble \ {job.issue})
    <3>1. job' \in JobTypes BY <2>2, <1>1 DEF JobTypes
    <3>2. job.row \in DOMAIN db.audit BY <1>19 DEF Care!RepairActs, Care!At, CareInv, RepairOwnsRow
    <3>3. db' = Acted(TRUE) BY <2>2, <1>1, <1>2, <3>2 DEF Acted
    <3>4. db' \in DbTypes(n) BY <3>2, <3>3, <1>1, ActWrites
    <3>5. steady' \in [there : SUBSET Issues, absent : SUBSET Issues] BY <2>2, <1>1 DEF Care!Stays
    <3> QED BY <3>1, <3>4, <3>5, <1>19, <1>1, <1>3 DEF Care!RepairActs, Care!bounds
  <2> QED BY <2>1, <2>2, <1>19 DEF Care!RepairActs, Care!Goes
<1>20. CASE Care!RepairActFails
  <2>1. job.row \in DOMAIN db.audit BY <1>20 DEF Care!RepairActFails, Care!At, CareInv, RepairOwnsRow
  <2>2. PICK first \in BOOLEAN : db' = Care!Finished([db EXCEPT !.audit[job.row].did = first], job.row, "failed")
    BY <1>20 DEF Care!RepairActFails
  <2> DEFINE e == [db EXCEPT !.audit[job.row].did = first]
             r == [db.audit[job.row] EXCEPT !.did = first]
  <2>3. db.audit[job.row] \in AuditTypes(n) BY <2>1, <1>1, OfDb
  <2>4. r \in AuditTypes(n) BY <2>3 DEF AuditTypes
  <2>5. e = [db EXCEPT !.audit[job.row] = r] OBVIOUS
  <2>6. db' = Care!Finished(e, job.row, "failed") BY <2>2
  <2> HIDE DEF e, r
  <2>7. e \in DbTypes(n) /\ DOMAIN e.audit = DOMAIN db.audit BY <2>1, <2>4, <2>5, <1>1, RowWritten
  <2>8. db' \in DbTypes(n) BY <2>1, <2>6, <2>7, <1>16
  <2> QED BY <2>8, <1>20, <1>1, <1>3, NoCareJob DEF Care!RepairActFails
<1>21. CASE Care!RepairFinishes
  <2>1. job.row \in DOMAIN db.audit BY <1>21 DEF Care!RepairFinishes, Care!At, CareInv, RepairOwnsRow
  <2>2. Care!Outcome(job.done) \in {"completed", "no_change", "failed"} BY DEF Care!Outcome
  <2>3. db' \in DbTypes(n) BY <2>1, <2>2, <1>1, <1>16, <1>21 DEF Care!RepairFinishes
  <2>6. jobs + 1 \in 0..MaxJobs BY <1>21, <1>1 DEF Care!RepairFinishes
  <2>4. job' \in JobTypes BY <2>6, <1>1, <1>21, ScanJob DEF Care!RepairFinishes, Care!Scans
  <2>5. steady' \in [there : SUBSET Issues, absent : SUBSET Issues] BY <1>21, <1>2 DEF Care!RepairFinishes, Care!Scans
  <2> QED BY <2>3, <2>4, <2>5, <1>21, <1>1, <1>3 DEF Care!RepairFinishes
<1>22. ASSUME NEW m \in DOMAIN copies, Care!RestoreStarts(m) PROVE CareIsTyped'
  <2>1. m \in Nat BY <1>1, OfCopies
  <2>2. job' \in JobTypes BY <2>1, <1>22, <1>1, NoCareJob DEF Care!RestoreStarts, JobTypes
  <2> QED BY <2>2, <1>22, <1>1, <1>3 DEF Care!RestoreStarts, Care!Starts
<1>23. CASE Care!SafetyIsMade
  <2>1. copies' = Append(copies, db) BY <1>23 DEF Care!SafetyIsMade, Care!Secured
  <2>2. Len(copies') \in Nat BY <2>1, <1>1, OfCopies, CopyAdded
  <2>3. job' \in JobTypes BY <2>2, <1>23, <1>1 DEF Care!SafetyIsMade, JobTypes
  <2> QED BY <2>1, <2>3, <1>23, <1>1, <1>4 DEF Care!SafetyIsMade, Care!bounds
<1>24. CASE Care!Copied
  <2>1. job.copy \in DOMAIN copies BY <1>24 DEF Care!Copied, Care!At, CareInv, RestoreKeeps
  <2>2. db' \in DbTypes(n) BY <2>1, <1>24, <1>1, OfCopies DEF Care!Copied, n
  <2>3. job' \in JobTypes BY <1>24, <1>1 DEF Care!Copied, Care!Goes, JobTypes
  <2>4. steady' \in [there : SUBSET Issues, absent : SUBSET Issues] BY <1>24, <1>1 DEF Care!Copied, Care!Stays
  <2> QED BY <2>2, <2>3, <2>4, <1>24, <1>1, <1>3 DEF Care!Copied, Care!bounds
<1>25. CASE Care!RollsBack
  <2>1. job.row \in DOMAIN copies BY <1>25 DEF Care!RollsBack, CareInv, RestoreKeeps
  <2>2. db' \in DbTypes(n) BY <2>1, <1>25, <1>1, OfCopies DEF Care!RollsBack, n
  <2>3. steady' \in [there : SUBSET Issues, absent : SUBSET Issues] BY <1>25, <1>1 DEF Care!RollsBack, Care!Stays
  <2> QED BY <2>2, <2>3, <1>25, <1>1, <1>3, NoCareJob DEF Care!RollsBack
<1> QED
  BY <1>5, <1>6, <1>7, <1>8, <1>9, <1>10, <1>11, <1>12, <1>13, <1>14, <1>15, <1>17, <1>18, <1>19, <1>20, <1>21,
     <1>22, <1>23, <1>24, <1>25
  DEF Care!Next, Care!LookAtFiles, Care!LookAtPackages, Care!LookAtTables, Care!LookAtSnapshots

\* What the steps of a repair make of the audit.
LEMMA RowsOfSteps ==
  ASSUME Care!Sorted, CareInv
  PROVE  /\ Care!RepairBegins /\ Care!MayBegin(db) =>
              /\ DOMAIN db'.audit = DOMAIN db.audit \cup {Len(db.audit) + 1} /\ db'.rows = db.rows
                  /\ db'.trouble = db.trouble
              /\ db'.newest = db.newest
              /\ \A i \in DOMAIN db.audit : db'.audit[i] = db.audit[i]
              /\ db'.audit[Len(db.audit) + 1] =
                   [issue |-> job.issue, scan |-> job.scan, copy |-> 0, did |-> FALSE, status |-> "awaiting_backup"]
         /\ Care!BackupFails /\ job.op = "repair" =>
              /\ DOMAIN db'.audit = DOMAIN db.audit /\ db'.rows = db.rows /\ db'.trouble = db.trouble
                  /\ db'.newest = db.newest
              /\ \A i \in DOMAIN db.audit \ {job.row} : db'.audit[i] = db.audit[i]
              /\ db'.audit[job.row].did = db.audit[job.row].did
              /\ db'.audit[job.row].status \in {"failed", db.audit[job.row].status}
         /\ Care!RepairIsMarked =>
              /\ DOMAIN db'.audit = DOMAIN db.audit /\ db'.rows = db.rows /\ db'.trouble = db.trouble
                  /\ db'.newest = db.newest
              /\ \A i \in DOMAIN db.audit \ {job.row} : db'.audit[i] = db.audit[i]
              /\ db'.audit[job.row] = [db.audit[job.row] EXCEPT !.copy = job.copy, !.status = "executing"]
         /\ Care!RepairActs =>
              \/ UNCHANGED <<db, steady>> /\ job' = [job EXCEPT !.at = "finish"]
              \/ /\ Care!StillThere(db) /\ job' = [job EXCEPT !.at = "finish", !.done = TRUE]
                 /\ Care!Stays(db.trouble \ {job.issue})
                 /\ DOMAIN db'.audit = DOMAIN db.audit /\ db'.rows = db.rows
                     /\ db'.trouble = db.trouble \ {job.issue} /\ db'.newest = db.newest
                 /\ \A i \in DOMAIN db.audit \ {job.row} : db'.audit[i] = db.audit[i]
                 /\ db'.audit[job.row] = [db.audit[job.row] EXCEPT !.did = TRUE]
         /\ Care!RepairActFails =>
              /\ DOMAIN db'.audit = DOMAIN db.audit /\ db'.rows = db.rows /\ db'.trouble = db.trouble
                  /\ db'.newest = db.newest
              /\ \A i \in DOMAIN db.audit \ {job.row} : db'.audit[i] = db.audit[i]
              /\ db'.audit[job.row].status = "failed"
              /\ db'.audit[job.row].did => Care!StillThere(db)
         /\ Care!RepairFinishes =>
              /\ DOMAIN db'.audit = DOMAIN db.audit /\ db'.rows = db.rows /\ db'.trouble = db.trouble
                  /\ db'.newest = db.newest
              /\ \A i \in DOMAIN db.audit \ {job.row} : db'.audit[i] = db.audit[i]
              /\ db'.audit[job.row].did = db.audit[job.row].did
              /\ db'.audit[job.row].status \in {Care!Outcome(job.done), db.audit[job.row].status}
<1> DEFINE n == Len(copies)
<1>1. CareIsTyped /\ n \in Nat /\ db \in DbTypes(n) /\ db.audit \in Seq(AuditTypes(n))
  BY OfCopies, OfDb DEF CareInv, CareIsTyped
<1> HIDE DEF n
<1>2. \A i \in DOMAIN db.audit : db.audit[i] \in AuditTypes(n) BY <1>1, OfDb
<1>3. ASSUME Care!RepairBegins, Care!MayBegin(db)
      PROVE  /\ DOMAIN db'.audit = DOMAIN db.audit \cup {Len(db.audit) + 1} /\ db'.rows = db.rows
                /\ db'.trouble = db.trouble
             /\ db'.newest = db.newest
             /\ \A i \in DOMAIN db.audit : db'.audit[i] = db.audit[i]
             /\ db'.audit[Len(db.audit) + 1] =
                  [issue |-> job.issue, scan |-> job.scan, copy |-> 0, did |-> FALSE, status |-> "awaiting_backup"]
  <2> DEFINE r == [issue |-> job.issue, scan |-> job.scan, copy |-> 0, did |-> FALSE, status |-> "awaiting_backup"]
  <2>1. db' = [db EXCEPT !.audit = Append(@, r)] BY <1>3 DEF Care!RepairBegins
  <2> HIDE DEF r
  <2>2. /\ db'.audit = Append(db.audit, r) /\ db'.rows = db.rows /\ db'.trouble = db.trouble /\ db'.newest = db.newest
    BY <2>1, <1>1 DEF DbTypes
  <2>3. /\ DOMAIN db'.audit = DOMAIN db.audit \cup {Len(db.audit) + 1} /\ db'.audit[Len(db.audit) + 1] = r
        /\ \A i \in DOMAIN db.audit : db'.audit[i] = db.audit[i]
    BY <2>2, <1>1
  <2> QED BY <2>2, <2>3 DEF r
<1>4. ASSUME Care!BackupFails, job.op = "repair"
      PROVE  /\ DOMAIN db'.audit = DOMAIN db.audit /\ db'.rows = db.rows /\ db'.trouble = db.trouble
                /\ db'.newest = db.newest
             /\ \A i \in DOMAIN db.audit \ {job.row} : db'.audit[i] = db.audit[i]
             /\ db'.audit[job.row].did = db.audit[job.row].did
             /\ db'.audit[job.row].status \in {"failed", db.audit[job.row].status}
  <2>1. job.row \in DOMAIN db.audit BY <1>4 DEF Care!BackupFails, Care!At, CareInv, RepairOwnsRow
  <2>2. db' = Care!Finished(db, job.row, "failed") BY <1>4 DEF Care!BackupFails
  <2> QED BY <2>1, <2>2, <1>1, FinishWrites
<1>5. ASSUME Care!RepairIsMarked
      PROVE  /\ DOMAIN db'.audit = DOMAIN db.audit /\ db'.rows = db.rows /\ db'.trouble = db.trouble
                /\ db'.newest = db.newest
             /\ \A i \in DOMAIN db.audit \ {job.row} : db'.audit[i] = db.audit[i]
             /\ db'.audit[job.row] = [db.audit[job.row] EXCEPT !.copy = job.copy, !.status = "executing"]
  <2>1. job.row \in DOMAIN db.audit /\ job.copy \in DOMAIN copies
    BY <1>5 DEF Care!RepairIsMarked, Care!At, CareInv, RepairOwnsRow, IsBackedUp
  <2> DEFINE r == [db.audit[job.row] EXCEPT !.copy = job.copy, !.status = "executing"]
  <2>2. job.copy \in 0..n BY <2>1, <1>1, OfCopies DEF n
  <2>3. r \in AuditTypes(n) BY <1>2, <2>1, <2>2 DEF AuditTypes
  <2>4. db' = [db EXCEPT !.audit[job.row] = r]
    BY <1>5, <1>1, <2>1 DEF Care!RepairIsMarked, Care!Marked, AuditTypes, DbTypes
  <2> HIDE DEF r
  <2>5. /\ DOMAIN db'.audit = DOMAIN db.audit /\ db'.rows = db.rows /\ db'.trouble = db.trouble
           /\ db'.newest = db.newest
        /\ \A i \in DOMAIN db.audit \ {job.row} : db'.audit[i] = db.audit[i] /\ db'.audit[job.row] = r
    BY <2>1, <2>3, <2>4, <1>1, RowWritten
  <2>6. db'.audit[job.row] = r BY <2>1, <2>3, <2>4, <1>1, RowWritten
  <2> QED BY <2>5, <2>6 DEF r
<1>6. ASSUME Care!RepairActs, ~(UNCHANGED <<db, steady>> /\ job' = [job EXCEPT !.at = "finish"])
      PROVE  /\ Care!StillThere(db) /\ job' = [job EXCEPT !.at = "finish", !.done = TRUE]
             /\ Care!Stays(db.trouble \ {job.issue})
             /\ DOMAIN db'.audit = DOMAIN db.audit /\ db'.rows = db.rows
                 /\ db'.trouble = db.trouble \ {job.issue} /\ db'.newest = db.newest
             /\ \A i \in DOMAIN db.audit \ {job.row} : db'.audit[i] = db.audit[i]
             /\ db'.audit[job.row] = [db.audit[job.row] EXCEPT !.did = TRUE]
  <2>1. job.row \in DOMAIN db.audit BY <1>6 DEF Care!RepairActs, Care!At, CareInv, RepairOwnsRow
  <2>5. /\ Care!StillThere(db) /\ job' = [job EXCEPT !.at = "finish", !.done = TRUE]
           /\ Care!Stays(db.trouble \ {job.issue})
        /\ db' = [db EXCEPT !.trouble = @ \ {job.issue}, !.audit[job.row].did = TRUE]
    BY <1>6 DEF Care!RepairActs, Care!Goes
  <2>2. db' = Acted(TRUE) BY <2>5, <1>1, <2>1 DEF Acted
  <2> DEFINE e == Acted(TRUE)
  <2>3. /\ e.rows = db.rows /\ e.trouble = db.trouble \ {job.issue} /\ e.newest = db.newest
        /\ DOMAIN e.audit = DOMAIN db.audit /\ \A j \in DOMAIN db.audit \ {job.row} : e.audit[j] = db.audit[j]
        /\ e.audit[job.row] = [db.audit[job.row] EXCEPT !.did = TRUE]
    BY <2>1, <1>1, ActWrites
  <2> HIDE DEF e
  <2>4. db' = e BY <2>2 DEF e
  <2> QED BY <2>3, <2>4, <2>5
<1>7. ASSUME Care!RepairActFails
      PROVE  /\ DOMAIN db'.audit = DOMAIN db.audit /\ db'.rows = db.rows /\ db'.trouble = db.trouble
                /\ db'.newest = db.newest
             /\ \A i \in DOMAIN db.audit \ {job.row} : db'.audit[i] = db.audit[i]
             /\ db'.audit[job.row].status = "failed"
             /\ db'.audit[job.row].did => Care!StillThere(db)
  <2>1. job.row \in DOMAIN db.audit /\ db.audit[job.row].status = "executing"
    BY <1>7 DEF Care!RepairActFails, Care!At, CareInv, RepairOwnsRow
  <2>2. PICK first \in BOOLEAN : /\ first => Care!StillThere(db)
                                 /\ db' = Care!Finished([db EXCEPT !.audit[job.row].did = first], job.row, "failed")
    BY <1>7 DEF Care!RepairActFails
  <2> DEFINE e == [db EXCEPT !.audit[job.row].did = first]
             r == [db.audit[job.row] EXCEPT !.did = first]
             f == [r EXCEPT !.status = "failed"]
  <2>3. db.audit[job.row] \in AuditTypes(n) BY <2>1, <1>2
  <2>4. r \in AuditTypes(n) /\ r.status = "executing" /\ r.did = first BY <2>3, <2>1 DEF AuditTypes
  <2>5. f \in AuditTypes(n) /\ f.status = "failed" /\ f.did = first BY <2>4 DEF AuditTypes
  <2>6. e = [db EXCEPT !.audit[job.row] = r] OBVIOUS
  <2>7. db' = Care!Finished(e, job.row, "failed") BY <2>2
  <2> HIDE DEF e, r
  <2>8. /\ e \in DbTypes(n) /\ e.rows = db.rows /\ e.trouble = db.trouble /\ e.health = db.health
           /\ e.newest = db.newest
        /\ DOMAIN e.audit = DOMAIN db.audit /\ e.audit[job.row] = r
            /\ \A j \in DOMAIN db.audit \ {job.row} : e.audit[j] = db.audit[j]
    BY <2>1, <2>4, <2>6, <1>1, RowWritten
  <2>9. db' = [e EXCEPT !.audit[job.row] = f] BY <2>7, <2>4, <2>8 DEF Care!Finished
  <2> HIDE DEF f
  <2>10. /\ db'.rows = e.rows /\ db'.trouble = e.trouble /\ db'.newest = e.newest
         /\ DOMAIN db'.audit = DOMAIN e.audit /\ db'.audit[job.row] = f
             /\ \A j \in DOMAIN e.audit \ {job.row} : db'.audit[j] = e.audit[j]
    BY <2>1, <2>5, <2>8, <2>9, <1>1, RowWritten
  <2> QED BY <2>2, <2>5, <2>8, <2>10
<1>8. ASSUME Care!RepairFinishes
      PROVE  /\ DOMAIN db'.audit = DOMAIN db.audit /\ db'.rows = db.rows /\ db'.trouble = db.trouble
                /\ db'.newest = db.newest
             /\ \A i \in DOMAIN db.audit \ {job.row} : db'.audit[i] = db.audit[i]
             /\ db'.audit[job.row].did = db.audit[job.row].did
             /\ db'.audit[job.row].status \in {Care!Outcome(job.done), db.audit[job.row].status}
  <2>1. job.row \in DOMAIN db.audit BY <1>8 DEF Care!RepairFinishes, Care!At, CareInv, RepairOwnsRow
  <2>2. Care!Outcome(job.done) \in {"completed", "no_change", "failed"} BY DEF Care!Outcome
  <2>3. db' = Care!Finished(db, job.row, Care!Outcome(job.done)) BY <1>8 DEF Care!RepairFinishes
  <2>4. PICK status : status = Care!Outcome(job.done) BY Zenon
  <2>5. PICK e : e = Care!Finished(db, job.row, status) BY Zenon
  <2>6. status \in {"completed", "no_change", "failed"} BY <2>2, <2>4
  <2>7. /\ e.rows = db.rows /\ e.trouble = db.trouble /\ e.health = db.health /\ e.newest = db.newest
        /\ DOMAIN e.audit = DOMAIN db.audit /\ \A j \in DOMAIN db.audit \ {job.row} : e.audit[j] = db.audit[j]
        /\ e.audit[job.row].did = db.audit[job.row].did
        /\ e.audit[job.row].status \in {status, db.audit[job.row].status}
    <3>1. n \in Nat /\ db \in DbTypes(n) BY <1>1
    <3> QED BY ONLY <2>1, <2>5, <2>6, <3>1, FinishWrites
  <2>8. db' = e BY <2>3, <2>4, <2>5
  <2> QED BY <2>4, <2>7, <2>8
<1> QED BY <1>3, <1>4, <1>5, <1>6, <1>7, <1>8

\* What the other steps leave alone.
LEMMA OtherSteps ==
  ASSUME Care!Sorted, CareInv
  PROVE  /\ Care!OtherWrites => /\ db'.audit = db.audit /\ db'.trouble = db.trouble /\ db'.newest = db.newest
                                /\ db'.rows = db.rows \cup {rowsMade'}
         /\ \A i \in Issues : Care!TroubleTurns(i) =>
             db'.audit = db.audit /\ db'.rows = db.rows /\ db'.newest = db.newest
         /\ Care!ScanCommits => db'.audit = db.audit /\ db'.rows = db.rows /\ db'.trouble = db.trouble
         /\ Care!BackupIsMade => copies' = Append(copies, db)
         /\ Care!SafetyIsMade => copies' = Append(copies, db)
BY DEF CareInv, CareIsTyped, DbTypes, Care!OtherWrites, Care!TroubleTurns, Care!ScanCommits, Care!BackupIsMade,
       Care!SafetyIsMade, Care!Secured

\* A pass of a scan and where it goes.
LEMMA LookGoesOn ==
  ASSUME job \in JobTypes, NEW n \in 1..4, Care!Look(n)
  PROVE  /\ job.at = Care!Passes[n] /\ job.at \in Scanning /\ job'.op = job.op /\ job'.issue = job.issue
            /\ job'.scan = job.scan
         /\ job'.saw = job.saw \cup Care!Seen(job.at) /\ job'.at \in Scanning
         /\ Ahead(job.at) = Ahead(job'.at) \cup {job.at}
         /\ job'.row = job.row /\ job'.copy = job.copy
<1> DEFINE saw == job.saw \cup Care!Seen(Care!Passes[n])
           at == IF n = 4 THEN "commit" ELSE Care!Passes[n + 1]
<1>1. /\ at \in Scanning /\ Care!Passes[n] \in Scanning /\ job.at = Care!Passes[n]
      /\ Ahead(Care!Passes[n]) = Ahead(at) \cup {Care!Passes[n]}
  <2>1. CASE n = 1 BY <2>1 DEF Care!Passes, Scanning, Ahead, Care!Look, Care!At
  <2>2. CASE n = 2 BY <2>2 DEF Care!Passes, Scanning, Ahead, Care!Look, Care!At
  <2>3. CASE n = 3 BY <2>3 DEF Care!Passes, Scanning, Ahead, Care!Look, Care!At
  <2>4. CASE n = 4 BY <2>4 DEF Care!Passes, Scanning, Ahead, Care!Look, Care!At
  <2> QED BY <2>1, <2>2, <2>3, <2>4
<1>2. job' = [job EXCEPT !.saw = saw, !.at = at] BY DEF Care!Look
<1>3. saw = job.saw \cup Care!Seen(job.at) BY <1>1
<1> HIDE DEF saw, at
<1> QED BY <1>1, <1>2, <1>3 DEF JobTypes

\* No audit lies.
LEMMA CareTellStep ==
  ASSUME Care!Sorted, CareInv, Care!Next
  PROVE  AuditsTell'
<1>1. CareIsTyped /\ Tells(db) /\ \A n \in DOMAIN copies : Tells(copies[n]) BY DEF CareInv, AuditsTell
<1>2. ASSUME UNCHANGED <<db, copies>> PROVE AuditsTell' BY <1>1, <1>2 DEF AuditsTell, Tells
<1>3. ASSUME UNCHANGED copies, db'.audit = db.audit PROVE AuditsTell' BY <1>1, <1>3 DEF AuditsTell, Tells
<1>4. ASSUME UNCHANGED db, copies' = Append(copies, db) PROVE AuditsTell'
  <2>1. \A n \in DOMAIN copies' : Tells(copies'[n]) BY <1>1, <1>4, CopyAdded
  <2> QED BY <1>1, <1>4, <2>1 DEF AuditsTell, Tells
<1>5. ASSUME UNCHANGED copies, NEW n \in DOMAIN copies, db' = copies[n] PROVE AuditsTell'
  BY <1>1, <1>5 DEF AuditsTell, Tells
<1>6. ASSUME UNCHANGED copies, job.row \in DOMAIN db.audit, DOMAIN db'.audit = DOMAIN db.audit,
             \A i \in DOMAIN db.audit \ {job.row} : db'.audit[i] = db.audit[i],
             db'.audit[job.row].status = "completed" => db'.audit[job.row].did,
             db'.audit[job.row].status = "no_change" => ~db'.audit[job.row].did
      PROVE  AuditsTell'
  BY <1>1, <1>6 DEF AuditsTell, Tells
<1>7. CASE \/ Care!ReceiveTurns \/ Care!ScanStarts \/ (\E n \in 1..4 : Care!Look(n)) \/ Care!ScanFails
           \/ (\E i \in Issues : Care!RepairStarts(i)) \/ Care!BackupStarts
               \/ (\E n \in DOMAIN copies : Care!RestoreStarts(n))
           \/ Care!SafetyFails \/ Care!RestoreEnds \/ Care!Crash
  BY <1>7, <1>2
  DEF Care!ReceiveTurns, Care!ScanStarts, Care!Look, Care!ScanFails, Care!RepairStarts, Care!BackupStarts,
     Care!RestoreStarts, Care!SafetyFails, Care!RestoreEnds, Care!Crash
<1>8. CASE Care!OtherWrites \/ (\E i \in Issues : Care!TroubleTurns(i)) \/ Care!ScanCommits
  <2>1. UNCHANGED copies BY <1>8 DEF Care!OtherWrites, Care!TroubleTurns, Care!ScanCommits
  <2> QED BY <2>1, <1>8, <1>3, OtherSteps
<1>9. CASE Care!BackupIsMade \/ Care!SafetyIsMade
  <2>1. UNCHANGED db BY <1>9 DEF Care!BackupIsMade, Care!SafetyIsMade
  <2> QED BY <2>1, <1>9, <1>4, OtherSteps
<1>10. CASE Care!RepairBegins
  <2>1. CASE ~Care!MayBegin(db) BY <2>1, <1>10, <1>2 DEF Care!RepairBegins
  <2>2. CASE Care!MayBegin(db)
    <3>1. UNCHANGED copies BY <1>10 DEF Care!RepairBegins
    <3>2. Tells(db') BY <2>2, <1>10, <1>1, RowsOfSteps DEF Tells
    <3> QED BY <3>1, <3>2, <1>1 DEF AuditsTell, Tells
  <2> QED BY <2>1, <2>2
<1>11. CASE Care!BackupFails
  <2>1. CASE job.op # "repair" BY <2>1, <1>11, <1>2 DEF Care!BackupFails
  <2>2. CASE job.op = "repair"
    <3>1. /\ UNCHANGED copies /\ job.row \in DOMAIN db.audit /\ db.audit[job.row].status = "awaiting_backup"
      BY <2>2, <1>11 DEF Care!BackupFails, Care!At, CareInv, RepairOwnsRow
    <3> QED BY <3>1, <2>2, <1>11, <1>6, RowsOfSteps
  <2> QED BY <2>1, <2>2
<1>12. CASE Care!RepairIsMarked \/ Care!RepairActs \/ Care!RepairActFails
  <2>1. /\ UNCHANGED copies /\ job.row \in DOMAIN db.audit
           /\ db.audit[job.row].status \in {"awaiting_backup", "executing"}
    BY <1>12 DEF Care!RepairIsMarked, Care!RepairActs, Care!RepairActFails, Care!At, CareInv, RepairOwnsRow
  <2>2. \E n \in Nat : db.audit[job.row] \in AuditTypes(n) BY <1>1, <2>1, OfDb, OfCopies DEF CareIsTyped
  <2>3. CASE Care!RepairIsMarked
    <3>1. db'.audit[job.row].status = "executing" BY <2>2, <2>3, RowsOfSteps DEF AuditTypes
    <3> QED BY <3>1, <2>1, <2>3, <1>6, RowsOfSteps
  <2>4. CASE Care!RepairActs
    <3>1. CASE UNCHANGED db BY <3>1, <2>1, <1>2
    <3>2. CASE ~UNCHANGED db
      <4>1. /\ DOMAIN db'.audit = DOMAIN db.audit /\ \A i \in DOMAIN db.audit \ {job.row} : db'.audit[i] = db.audit[i]
            /\ db'.audit[job.row] = [db.audit[job.row] EXCEPT !.did = TRUE]
        BY <2>4, <3>2, RowsOfSteps
      <4>2. db'.audit[job.row].status \in {"awaiting_backup", "executing"} BY <2>1, <2>2, <4>1 DEF AuditTypes
      <4> QED BY <4>1, <4>2, <2>1, <1>6
    <3> QED BY <3>1, <3>2
  <2>5. CASE Care!RepairActFails BY <2>5, <2>1, <1>6, RowsOfSteps
  <2> QED BY <1>12, <2>3, <2>4, <2>5
<1>13. CASE Care!RepairFinishes
  <2>1. /\ UNCHANGED copies /\ job.row \in DOMAIN db.audit /\ db.audit[job.row].status = "executing"
        /\ db.audit[job.row].did = job.done
    BY <1>13 DEF Care!RepairFinishes, Care!At, CareInv, RepairOwnsRow
  <2> QED BY <2>1, <1>13, <1>6, RowsOfSteps DEF Care!Outcome
<1>14. CASE Care!Copied
  <2>1. UNCHANGED copies /\ job.copy \in DOMAIN copies /\ db' = copies[job.copy]
    BY <1>14 DEF Care!Copied, Care!At, CareInv, RestoreKeeps
  <2> QED BY <2>1, <1>5
<1>15. CASE Care!RollsBack
  <2>1. UNCHANGED copies /\ job.row \in DOMAIN copies /\ db' = copies[job.row]
    BY <1>15 DEF Care!RollsBack, CareInv, RestoreKeeps
  <2> QED BY <2>1, <1>5
<1> QED
  BY <1>7, <1>8, <1>9, <1>10, <1>11, <1>12, <1>13, <1>14, <1>15
  DEF Care!Next, Care!LookAtFiles, Care!LookAtPackages, Care!LookAtTables, Care!LookAtSnapshots

\* The repair under way owns its row and its backup.
LEMMA CareOwnsStep ==
  ASSUME Care!Sorted, CareInv, CareIsTyped', Care!Next
  PROVE  RepairOwnsRow'
<1>1. /\ CareIsTyped /\ RepairOwnsRow /\ RestoreKeeps /\ job \in JobTypes /\ preview.issues \subseteq Issues
      /\ Care!NoJob.at = "idle" /\ Care!NoJob.op = "none"
  BY NoCareJob DEF CareInv, CareIsTyped
<1>2. ASSUME job' = Care!NoJob PROVE RepairOwnsRow' BY <1>1, <1>2 DEF RepairOwnsRow
<1>3. ASSUME job' = job, copies' = copies, db'.audit = db.audit PROVE RepairOwnsRow'
  BY <1>1, <1>3 DEF RepairOwnsRow, IsBackedUp
<1>4. CASE Care!ReceiveTurns BY <1>4, <1>3 DEF Care!ReceiveTurns
<1>5. CASE Care!OtherWrites \/ (\E i \in Issues : Care!TroubleTurns(i))
  <2>1. UNCHANGED <<job, copies>> BY <1>5 DEF Care!OtherWrites, Care!TroubleTurns
  <2> QED BY <2>1, <1>5, <1>3, OtherSteps
<1>6. CASE \/ Care!ScanCommits \/ Care!ScanFails \/ Care!BackupFails \/ Care!RepairActFails \/ Care!SafetyFails
           \/ Care!RestoreEnds \/ Care!RollsBack \/ Care!Crash
  BY <1>6, <1>2 DEF Care!ScanCommits, Care!ScanFails, Care!BackupFails, Care!RepairActFails, Care!SafetyFails,
     Care!RestoreEnds, Care!RollsBack, Care!Crash
<1>7. CASE Care!ScanStarts \/ Care!BackupStarts \/ (\E n \in DOMAIN copies : Care!RestoreStarts(n))
  <2>1. job'.op # "repair" /\ job'.at \notin {"begin", "mark", "act", "finish"} /\ (job'.at = "backup" =>
      job'.op = "backup" /\ ~job'.done)
    BY <1>7, <1>1 DEF Care!ScanStarts, Care!Scans, Care!BackupStarts, Care!RestoreStarts, Care!NoJob
  <2> QED BY <2>1 DEF RepairOwnsRow
<1>8. ASSUME NEW n \in 1..4, Care!Look(n) PROVE RepairOwnsRow'
  <2>1. /\ job'.op = job.op /\ job'.issue = job.issue /\ job'.at \in Scanning BY <1>8, <1>1, LookGoesOn
  <2> QED BY <2>1, <1>1 DEF RepairOwnsRow, Scanning
<1>9. ASSUME NEW i \in Issues, Care!RepairStarts(i) PROVE RepairOwnsRow'
  <2>1. job'.op = "repair" /\ job'.at = "begin" /\ job'.issue = i /\ ~job'.done
    BY <1>9 DEF Care!RepairStarts, Care!NoJob
  <2> QED BY <2>1 DEF RepairOwnsRow
<1>10. CASE Care!RepairBegins
  <2>1. CASE ~Care!MayBegin(db) BY <2>1, <1>10, <1>2 DEF Care!RepairBegins
  <2>2. CASE Care!MayBegin(db)
    <3>1. /\ job'.op = job.op /\ job'.issue = job.issue /\ job'.at = "backup" /\ job'.row = Len(db.audit) + 1
          /\ job.op = "repair" /\ job.issue \in Issues /\ ~job'.done
      BY <2>2, <1>10, <1>1 DEF Care!RepairBegins, Care!At, JobTypes, RepairOwnsRow
    <3>2. /\ Len(db.audit) + 1 \in DOMAIN db'.audit /\ db'.audit[Len(db.audit) + 1].issue = job.issue
          /\ db'.audit[Len(db.audit) + 1].status = "awaiting_backup" /\ ~db'.audit[Len(db.audit) + 1].did
      BY <2>2, <1>10, RowsOfSteps
    <3> QED BY <3>1, <3>2 DEF RepairOwnsRow
  <2> QED BY <2>1, <2>2
<1>11. CASE Care!BackupIsMade
  <2>1. CASE job.op = "backup" BY <2>1, <1>11, <1>2 DEF Care!BackupIsMade
  <2>2. CASE job.op # "backup"
    <3>1. /\ job'.op = job.op /\ job'.issue = job.issue /\ job'.at = "mark" /\ job'.row = job.row
             /\ job'.copy = Len(copies) + 1
          /\ UNCHANGED db /\ copies' = Append(copies, db) /\ job.at = "backup" /\ ~job'.done
      BY <2>2, <1>11, <1>1 DEF Care!BackupIsMade, Care!At, JobTypes, RepairOwnsRow
    <3>2. job.op = "repair" BY <3>1, <2>2, <1>1 DEF RepairOwnsRow
    <3>3. job.row \in DOMAIN db.audit /\ db.audit[job.row].status = "awaiting_backup"
      BY <3>1, <3>2, <1>1 DEF RepairOwnsRow
    <3>4. /\ Len(copies) + 1 \in DOMAIN copies' /\ copies'[Len(copies) + 1] = db BY <3>1, <1>1, CopyAdded
    <3> QED BY <3>1, <3>2, <3>3, <3>4, <1>1 DEF RepairOwnsRow, IsBackedUp
  <2> QED BY <2>1, <2>2
<1>12. CASE Care!RepairIsMarked
  <2>1. /\ UNCHANGED copies /\ job' = [job EXCEPT !.at = "act"] /\ job.op = "repair" /\ job.row \in DOMAIN db.audit
        /\ db.audit[job.row].issue = job.issue /\ ~db.audit[job.row].did /\ IsBackedUp(job.row, job.copy)
            /\ job.issue \in Issues
    BY <1>12, <1>1 DEF Care!RepairIsMarked, Care!At, Care!Goes, RepairOwnsRow
  <2>2. /\ job'.op = job.op /\ job'.issue = job.issue /\ job'.at = "act" /\ job'.row = job.row /\ job'.copy = job.copy
    BY <2>1, <1>1 DEF JobTypes
  <2>3. \E n \in Nat : db.audit[job.row] \in AuditTypes(n) BY <1>1, <2>1, OfDb, OfCopies DEF CareIsTyped
  <2>4. /\ DOMAIN db'.audit = DOMAIN db.audit
        /\ db'.audit[job.row] = [db.audit[job.row] EXCEPT !.copy = job.copy, !.status = "executing"]
    BY <1>12, RowsOfSteps
  <2>5. /\ db'.audit[job.row].copy = job.copy /\ db'.audit[job.row].status = "executing"
        /\ db'.audit[job.row].issue = job.issue /\ ~db'.audit[job.row].did
    BY <2>1, <2>3, <2>4 DEF AuditTypes
  <2>6. ~job'.done BY <2>1, <1>12, <1>1 DEF Care!RepairIsMarked, Care!At, RepairOwnsRow, JobTypes
  <2> QED BY <2>1, <2>2, <2>4, <2>5, <2>6 DEF RepairOwnsRow, IsBackedUp
<1>13. CASE Care!RepairActs
  <2>1. /\ job.op = "repair" /\ job.row \in DOMAIN db.audit /\ db.audit[job.row].issue = job.issue
        /\ db.audit[job.row].status = "executing" /\ ~db.audit[job.row].did /\ job.issue \in Issues
    BY <1>13, <1>1 DEF Care!RepairActs, Care!At, RepairOwnsRow
  <2>2. \E n \in Nat : db.audit[job.row] \in AuditTypes(n) BY <1>1, <2>1, OfDb, OfCopies DEF CareIsTyped
  <2>3. /\ job'.op = job.op /\ job'.issue = job.issue /\ job'.at = "finish" /\ job'.row = job.row
    BY <1>13, <1>1 DEF Care!RepairActs, Care!Goes, JobTypes
  <2>4. /\ DOMAIN db'.audit = DOMAIN db.audit /\ db'.audit[job.row].issue = job.issue
        /\ db'.audit[job.row].status = "executing" /\ db'.audit[job.row].did = job'.done
    <3>1. CASE UNCHANGED db /\ job' = [job EXCEPT !.at = "finish"]
      <4>1. job'.done = job.done BY <3>1, <1>1 DEF JobTypes
      <4>2. ~job.done /\ job.done \in BOOLEAN BY <1>13, <1>1 DEF RepairOwnsRow, Care!RepairActs, Care!At, JobTypes
      <4>3. db.audit[job.row].did \in BOOLEAN BY <2>2 DEF AuditTypes
      <4> QED BY <3>1, <4>1, <4>2, <4>3, <2>1
    <3>2. CASE /\ job' = [job EXCEPT !.at = "finish", !.done = TRUE]
               /\ DOMAIN db'.audit = DOMAIN db.audit /\ db'.audit[job.row] = [db.audit[job.row] EXCEPT !.did = TRUE]
      <4>1. job'.done = TRUE BY <3>2, <1>1 DEF JobTypes
      <4> QED BY <4>1, <3>2, <2>1, <2>2 DEF AuditTypes
    <3> QED BY <3>1, <3>2, <1>13, RowsOfSteps
  <2> QED BY <2>1, <2>3, <2>4 DEF RepairOwnsRow
<1>14. CASE Care!RepairFinishes
  <2>1. /\ job'.op = job.op /\ job'.issue = job.issue /\ job'.at = "files" /\ job.op = "repair"
           /\ job.issue \in Issues
    BY <1>14, <1>1 DEF Care!RepairFinishes, Care!Scans, Care!At, JobTypes, RepairOwnsRow
  <2> QED BY <2>1 DEF RepairOwnsRow
<1>15. CASE Care!SafetyIsMade \/ Care!Copied
  <2>1. job'.op = job.op /\ job'.at \in {"copy", "check"} /\ job.op = "restore"
    BY <1>15, <1>1 DEF Care!SafetyIsMade, Care!Copied, Care!Goes, Care!At, JobTypes, RestoreKeeps
  <2> QED BY <2>1 DEF RepairOwnsRow
<1> QED
  BY <1>4, <1>5, <1>6, <1>7, <1>8, <1>9, <1>10, <1>11, <1>12, <1>13, <1>14, <1>15
  DEF Care!Next, Care!LookAtFiles, Care!LookAtPackages, Care!LookAtTables, Care!LookAtSnapshots

\* A restore keeps every row.
LEMMA CareKeepsStep ==
  ASSUME Care!Sorted, CareInv, CareIsTyped', RepairOwnsRow', Care!Next
  PROVE  RestoreKeeps'
<1>1. /\ CareIsTyped /\ RepairOwnsRow /\ RestoreKeeps /\ Care!NothingIsLost /\ job \in JobTypes
      /\ Care!NoJob.at = "idle" /\ Care!NoJob.op = "none"
  BY NoCareJob DEF CareInv, CareIsTyped, RestoreKeeps
<1>2. ASSUME UNCHANGED <<copies, gap, rowsMade>>, db'.rows = db.rows PROVE Care!NothingIsLost'
  BY <1>1, <1>2 DEF Care!NothingIsLost
<1>3. ASSUME UNCHANGED <<copies, gap, rowsMade>>, db'.rows = db.rows, job'.op # "restore", job'.at \notin {"safety",
    "copy", "check"}
      PROVE  RestoreKeeps'
  BY <1>2, <1>3 DEF RestoreKeeps
<1>4. ASSUME UNCHANGED <<copies, gap, rowsMade, job>>, db'.rows = db.rows PROVE RestoreKeeps'
  BY <1>1, <1>2, <1>4 DEF RestoreKeeps, Kept
<1>5. CASE Care!ReceiveTurns BY <1>5, <1>4 DEF Care!ReceiveTurns, Care!bounds
<1>6. CASE Care!OtherWrites
  <2>1. /\ UNCHANGED <<copies, job>> /\ db'.rows = db.rows \cup {rowsMade'} /\ rowsMade' = rowsMade + 1
        /\ gap' = IF job.at \in {"copy", "check"} THEN gap \cup {rowsMade'} ELSE gap
    BY <1>6, OtherSteps DEF Care!OtherWrites
  <2>2. 1..rowsMade' = 1..rowsMade \cup {rowsMade'} BY <2>1, <1>1 DEF CareIsTyped
  <2>3. Care!NothingIsLost' BY <2>1, <2>2, <1>1 DEF Care!NothingIsLost
  <2> QED BY <2>1, <2>3, <1>1 DEF RestoreKeeps, Kept
<1>7. ASSUME NEW i \in Issues, Care!TroubleTurns(i) PROVE RestoreKeeps'
  BY <1>7, <1>4, OtherSteps DEF Care!TroubleTurns
<1>8. CASE Care!ScanStarts \/ Care!BackupStarts \/ (\E i \in Issues : Care!RepairStarts(i))
  <2>1. /\ UNCHANGED <<copies, gap, rowsMade, db>> /\ job'.op # "restore"
           /\ job'.at \notin {"safety", "copy", "check"}
    BY <1>8 DEF Care!ScanStarts, Care!Scans, Care!BackupStarts, Care!RepairStarts, Care!NoJob
  <2> QED BY <2>1, <1>3
<1>9. ASSUME NEW n \in 1..4, Care!Look(n) PROVE RestoreKeeps'
  <2>1. /\ job'.op = job.op /\ job'.copy = job.copy /\ job'.at \in Scanning BY <1>9, <1>1, LookGoesOn
  <2>2. UNCHANGED <<copies, gap, rowsMade, db>> BY <1>9 DEF Care!Look, Care!bounds
  <2> QED BY <2>1, <2>2, <1>1, <1>2 DEF RestoreKeeps, Scanning
<1>10. CASE \/ Care!ScanCommits \/ Care!ScanFails \/ Care!SafetyFails \/ Care!RestoreEnds \/ Care!Crash
  <2>1. UNCHANGED <<copies, gap, rowsMade>> /\ job' = Care!NoJob
    BY <1>10 DEF Care!ScanCommits, Care!ScanFails, Care!SafetyFails, Care!RestoreEnds, Care!Crash, Care!bounds
  <2>2. db'.rows = db.rows BY <1>10, OtherSteps DEF Care!ScanFails, Care!SafetyFails, Care!RestoreEnds, Care!Crash
  <2> QED BY <2>1, <2>2, <1>1, <1>3
<1>11. CASE Care!RepairBegins
  <2>1. UNCHANGED <<copies, gap, rowsMade>> BY <1>11 DEF Care!RepairBegins, Care!bounds
  <2>2. db'.rows = db.rows BY <1>11, RowsOfSteps DEF Care!RepairBegins
  <2>3. job' = Care!NoJob \/ (job'.op = "repair" /\ job'.at = "backup")
    BY <1>11, <1>1 DEF Care!RepairBegins, Care!At, RepairOwnsRow, JobTypes
  <2> QED BY <2>1, <2>2, <2>3, <1>1, <1>3
<1>12. CASE Care!BackupIsMade
  <2>1. UNCHANGED <<gap, rowsMade, db>> /\ copies' = Append(copies, db) /\ job.op \in {"repair", "backup"}
    BY <1>12, <1>1 DEF Care!BackupIsMade, Care!bounds, Care!At, RepairOwnsRow
  <2>2. job'.op # "restore" /\ job'.at \notin {"safety", "copy", "check"}
    BY <1>12, <2>1, <1>1 DEF Care!BackupIsMade, JobTypes
  <2>3. Care!NothingIsLost' BY <2>1, <1>1, CopyAdded DEF Care!NothingIsLost
  <2> QED BY <2>2, <2>3 DEF RestoreKeeps
<1>13. CASE Care!BackupFails \/ Care!RepairActFails
  <2>1. UNCHANGED <<copies, gap, rowsMade>> /\ job' = Care!NoJob
    BY <1>13 DEF Care!BackupFails, Care!RepairActFails
  <2>2. db'.rows = db.rows BY <1>13, RowsOfSteps DEF Care!BackupFails
  <2> QED BY <2>1, <2>2, <1>1, <1>3
<1>14. CASE Care!RepairIsMarked \/ Care!RepairActs \/ Care!RepairFinishes
  <2>1. UNCHANGED <<copies, gap, rowsMade>>
    BY <1>14 DEF Care!RepairIsMarked, Care!RepairActs, Care!RepairFinishes, Care!bounds
  <2>2. db'.rows = db.rows BY <1>14, RowsOfSteps
  <2>3. job'.op = job.op /\ job.op = "repair" /\ job'.at \in {"act", "finish", "files"}
    BY <1>14, <1>1
    DEF Care!RepairIsMarked, Care!RepairActs, Care!RepairFinishes, Care!Goes, Care!Scans, Care!At, JobTypes,
      RepairOwnsRow
  <2> QED BY <2>1, <2>2, <2>3, <1>3
<1>15. ASSUME NEW n \in DOMAIN copies, Care!RestoreStarts(n) PROVE RestoreKeeps'
  <2>1. /\ UNCHANGED <<copies, gap, rowsMade, db>> /\ job'.op = "restore" /\ job'.at = "safety" /\ job'.copy = n
    BY <1>15 DEF Care!RestoreStarts, Care!NoJob
  <2> QED BY <2>1, <1>2 DEF RestoreKeeps
<1>16. CASE Care!SafetyIsMade
  <2>1. UNCHANGED <<gap, rowsMade, db>> /\ copies' = Append(copies, db) /\ job.op = "restore"
      /\ job.copy \in DOMAIN copies
    BY <1>16, <1>1, OtherSteps DEF Care!SafetyIsMade, Care!bounds, Care!At, RestoreKeeps
  <2>2. job'.op = "restore" /\ job'.at = "copy" /\ job'.copy = job.copy /\ job'.row = Len(copies')
    BY <1>16, <2>1, <1>1 DEF Care!SafetyIsMade, JobTypes
  <2>3. /\ \A n \in DOMAIN copies : n \in DOMAIN copies' /\ copies'[n] = copies[n]
        /\ Len(copies') \in DOMAIN copies' /\ copies'[Len(copies')] = db
    BY <2>1, <1>1, CopyAdded
  <2>4. Care!NothingIsLost' BY <2>1, <2>3, <1>1 DEF Care!NothingIsLost
  <2>5. \A w \in db'.rows : Kept(w)' BY <2>1, <2>3 DEF Kept
  <2> QED BY <2>1, <2>2, <2>3, <2>4, <2>5 DEF RestoreKeeps
<1>17. CASE Care!Copied \/ Care!RollsBack
  <2>1. PICK n \in DOMAIN copies : db' = copies[n]
    BY <1>17, <1>1 DEF Care!Copied, Care!RollsBack, Care!At, RestoreKeeps
  <2>2. UNCHANGED <<gap, rowsMade, copies>> /\ \A w \in db.rows : Kept(w)
    BY <1>17, <1>1 DEF Care!Copied, Care!RollsBack, Care!bounds, Care!At, RestoreKeeps
  <2>3. Care!NothingIsLost' BY <2>2, <1>1 DEF Care!NothingIsLost, Kept
  <2>4. \A w \in db'.rows : Kept(w)' BY <2>1, <2>2 DEF Kept
  <2>5. job' = Care!NoJob \/ (job'.op = job.op /\ job'.at = "check" /\ job'.row = job.row /\ job'.copy = job.copy)
    BY <1>17, <1>1 DEF Care!Copied, Care!RollsBack, Care!Goes, JobTypes
  <2>6. job.op = "restore" /\ job.row \in DOMAIN copies /\ job.copy \in DOMAIN copies
    BY <1>17, <1>1 DEF Care!Copied, Care!RollsBack, Care!At, RestoreKeeps
  <2> QED BY <2>2, <2>3, <2>4, <2>5, <2>6, <1>1 DEF RestoreKeeps
<1> QED
  BY <1>5, <1>6, <1>7, <1>8, <1>9, <1>10, <1>11, <1>12, <1>13, <1>14, <1>15, <1>16, <1>17
  DEF Care!Next, Care!LookAtFiles, Care!LookAtPackages, Care!LookAtTables, Care!LookAtSnapshots

\* A scan sees what stood all along.
LEMMA CareSeesStep ==
  ASSUME Care!Sorted, CareInv, CareIsTyped', Care!Next
  PROVE  ScanSees'
<1>1. /\ CareIsTyped /\ RepairOwnsRow /\ RestoreKeeps /\ ScanSees /\ job \in JobTypes
      /\ Care!NoJob.at = "idle" /\ steady \in [there : SUBSET Issues, absent : SUBSET Issues]
      /\ db.trouble \subseteq Issues
  BY NoCareJob, OfDb, OfCopies DEF CareInv, CareIsTyped
<1>2. ASSUME UNCHANGED <<steady, job>>, db'.trouble = db.trouble PROVE ScanSees'
  BY <1>1, <1>2 DEF ScanSees, Ahead, Scanning
<1>3. ASSUME UNCHANGED steady, db'.trouble = db.trouble, job'.at \notin Scanning PROVE ScanSees'
  BY <1>1, <1>3 DEF ScanSees
<1>4. ASSUME Care!Stays(db'.trouble), job'.at \notin Scanning PROVE ScanSees'
  BY <1>1, <1>4 DEF ScanSees, Care!Stays
<1>5. ASSUME NEW base \in JobTypes, Care!Scans(base), db'.trouble = db.trouble PROVE ScanSees'
  <2>1. /\ job'.at = "files" /\ job'.saw = {} /\ steady'.there = db.trouble /\ steady'.absent = Issues \ db.trouble
    BY <1>5 DEF Care!Scans, JobTypes
  <2>2. \A i \in Issues : PassOf[i] \in Ahead("files") BY DEF Ahead, Care!Sorted
  <2> QED BY <2>1, <2>2, <1>1, <1>5 DEF ScanSees, Scanning
<1>6. CASE Care!ReceiveTurns \/ Care!OtherWrites
  BY <1>6, <1>2, OtherSteps DEF Care!ReceiveTurns, Care!OtherWrites
<1>7. ASSUME NEW i \in Issues, Care!TroubleTurns(i) PROVE ScanSees'
  <2> DEFINE now == IF i \in db.trouble THEN db.trouble \ {i} ELSE db.trouble \cup {i}
  <2>1. db'.trouble = now /\ UNCHANGED job
    BY <1>7, <1>1, OfDb DEF Care!TroubleTurns, CareIsTyped, DbTypes
  <2>2. steady'.there = steady.there \cap now /\ steady'.absent = steady.absent \ now
    BY <1>7 DEF Care!TroubleTurns, Care!Stays
  <2> HIDE DEF now
  <2>3. job.at \in Scanning => /\ \A j \in steady'.there : PassOf[j] \in Ahead(job.at) \/ j \in job.saw
                             /\ steady'.absent \cap job.saw = {}
    BY <2>2, <1>1 DEF ScanSees
  <2> QED BY <2>1, <2>2, <2>3 DEF ScanSees, Ahead, Scanning
<1>8. CASE Care!ScanStarts
  <2>1. [Care!NoJob EXCEPT !.op = "scan"] \in JobTypes BY NoCareJob DEF JobTypes
  <2> QED BY <2>1, <1>8, <1>5 DEF Care!ScanStarts
<1>9. ASSUME NEW n \in 1..4, Care!Look(n) PROVE ScanSees'
  <2>1. /\ job.at \in Scanning /\ job'.saw = job.saw \cup Care!Seen(job.at) /\ job'.at \in Scanning
        /\ Ahead(job.at) = Ahead(job'.at) \cup {job.at}
    BY <1>9, <1>1, LookGoesOn
  <2>2. UNCHANGED <<db, steady>> BY <1>9 DEF Care!Look
  <2>3. ASSUME NEW i \in steady.there PROVE PassOf[i] \in Ahead(job'.at) \/ i \in job'.saw
    BY <2>1, <2>3, <1>1 DEF ScanSees, Care!Seen
  <2>4. steady.absent \cap job'.saw = {} BY <2>1, <1>1 DEF ScanSees, Care!Seen
  <2> QED BY <2>2, <2>3, <2>4, <1>1 DEF ScanSees, Ahead, Scanning
<1>10. CASE \/ Care!ScanCommits \/ Care!ScanFails \/ Care!SafetyFails \/ Care!RestoreEnds \/ Care!Crash
  <2>1. UNCHANGED steady /\ job' = Care!NoJob
    BY <1>10 DEF Care!ScanCommits, Care!ScanFails, Care!SafetyFails, Care!RestoreEnds, Care!Crash
  <2>2. db'.trouble = db.trouble
    BY <1>10, OtherSteps DEF Care!ScanFails, Care!SafetyFails, Care!RestoreEnds, Care!Crash
  <2> QED BY <2>1, <2>2, <1>1, <1>3 DEF Scanning
<1>11. CASE Care!BackupStarts \/ (\E i \in Issues : Care!RepairStarts(i))
    \/ (\E n \in DOMAIN copies : Care!RestoreStarts(n))
  <2>1. UNCHANGED <<steady, db>> /\ job'.at \notin Scanning
    BY <1>11 DEF Care!BackupStarts, Care!RepairStarts, Care!RestoreStarts, Care!NoJob, Scanning
  <2> QED BY <2>1, <1>3
<1>12. CASE Care!RepairBegins
  <2>1. UNCHANGED steady BY <1>12 DEF Care!RepairBegins
  <2>2. db'.trouble = db.trouble BY <1>12, RowsOfSteps DEF Care!RepairBegins
  <2>3. job'.at \in {"idle", "backup"} BY <1>12, <1>1 DEF Care!RepairBegins, JobTypes
  <2> QED BY <2>1, <2>2, <2>3, <1>3 DEF Scanning
<1>13. CASE Care!BackupIsMade \/ Care!SafetyIsMade
  <2>1. UNCHANGED <<steady, db>> BY <1>13 DEF Care!BackupIsMade, Care!SafetyIsMade
  <2>2. job'.at \in {"idle", "mark", "copy"} BY <1>13, <1>1 DEF Care!BackupIsMade, Care!SafetyIsMade, JobTypes
  <2> QED BY <2>1, <2>2, <1>3 DEF Scanning
<1>14. CASE Care!BackupFails \/ Care!RepairActFails \/ Care!RepairIsMarked
  <2>1. UNCHANGED steady BY <1>14 DEF Care!BackupFails, Care!RepairActFails, Care!RepairIsMarked
  <2>2. db'.trouble = db.trouble BY <1>14, RowsOfSteps DEF Care!BackupFails
  <2>3. job'.at \in {"idle", "act"}
    BY <1>14, <1>1 DEF Care!BackupFails, Care!RepairActFails, Care!RepairIsMarked, Care!Goes, JobTypes
  <2> QED BY <2>1, <2>2, <2>3, <1>3 DEF Scanning
<1>15. CASE Care!RepairActs
  <2>1. job'.at = "finish" BY <1>15, <1>1 DEF Care!RepairActs, Care!Goes, JobTypes
  <2>2. CASE UNCHANGED <<db, steady>> BY <2>1, <2>2, <1>3 DEF Scanning
  <2>3. CASE Care!Stays(db.trouble \ {job.issue}) /\ db'.trouble = db.trouble \ {job.issue}
    <3>1. Care!Stays(db'.trouble) BY <2>3 DEF Care!Stays
    <3> QED BY <2>1, <3>1, <1>4 DEF Scanning
  <2> QED BY <2>2, <2>3, <1>15, RowsOfSteps
<1>16. CASE Care!RepairFinishes
  <2>1. db'.trouble = db.trouble /\ Care!Scans(job) BY <1>16, RowsOfSteps DEF Care!RepairFinishes
  <2> QED BY <2>1, <1>1, <1>5
<1>17. CASE Care!Copied \/ Care!RollsBack
  <2>1. Care!Stays(db'.trouble) BY <1>17 DEF Care!Copied, Care!RollsBack, Care!Stays
  <2>2. job'.at \in {"idle", "check"} BY <1>17, <1>1 DEF Care!Copied, Care!RollsBack, Care!Goes, JobTypes
  <2> QED BY <2>1, <2>2, <1>4 DEF Scanning
<1> QED
  BY <1>6, <1>7, <1>8, <1>9, <1>10, <1>11, <1>12, <1>13, <1>14, <1>15, <1>16, <1>17
  DEF Care!Next, Care!LookAtFiles, Care!LookAtPackages, Care!LookAtTables, Care!LookAtSnapshots

\* Every step keeps the invariant.
LEMMA CareStep ==
  ASSUME Care!Sorted, CareInv, [Care!Next]_(Care!vars)
  PROVE  CareInv'
<1>1. CASE Care!Next BY <1>1, CareTypeStep, CareTellStep, CareOwnsStep, CareKeepsStep, CareSeesStep DEF CareInv
<1>2. CASE UNCHANGED Care!vars
  <2> USE <1>2 DEF Care!vars, CareInv
  <2>1. CareIsTyped' BY DEF CareIsTyped
  <2>2. AuditsTell' BY DEF AuditsTell
  <2>3. RepairOwnsRow' BY DEF RepairOwnsRow, IsBackedUp
  <2>4. RestoreKeeps' BY DEF RestoreKeeps, Kept, Care!NothingIsLost
  <2>5. ScanSees' BY DEF ScanSees
  <2> QED BY <2>1, <2>2, <2>3, <2>4, <2>5
<1> QED BY <1>1, <1>2

\* Only the action of a repair says that something was done.
LEMMA RepairChanges ==
  ASSUME Care!Sorted, CareInv, [Care!Next]_(Care!vars), NEW i \in DOMAIN db.audit, Care!RepairsBy(i)
  PROVE  /\ i = job.row /\ job.at = "act" /\ job.op = "repair"
         /\ Care!StillThere(db) /\ db.audit[i].issue = job.issue
<1>1. /\ CareIsTyped /\ RepairOwnsRow /\ RestoreKeeps /\ job \in JobTypes /\ job.op = "repair"
      /\ ~db.audit[i].did /\ db'.audit[i].did
  BY DEF CareInv, CareIsTyped, Care!RepairsBy
<1>2. db' # db /\ db'.audit[i] # db.audit[i] BY <1>1
<1>3. \/ Care!RepairActs \/ Care!RepairActFails
  <2>1. ~UNCHANGED Care!vars BY <1>2 DEF Care!vars
  <2>2. ~Care!ReceiveTurns /\ ~Care!ScanStarts /\ ~(\E n \in 1..4 : Care!Look(n)) /\ ~Care!ScanFails
      /\ ~Care!BackupStarts
        /\ ~(\E m \in Issues : Care!RepairStarts(m)) /\ ~(\E n \in DOMAIN copies : Care!RestoreStarts(n))
        /\ ~Care!SafetyFails /\ ~Care!RestoreEnds /\ ~Care!Crash /\ ~Care!BackupIsMade /\ ~Care!SafetyIsMade
    BY <1>2 DEF Care!ReceiveTurns, Care!ScanStarts, Care!Look, Care!ScanFails, Care!RepairStarts, Care!BackupStarts,
       Care!RestoreStarts, Care!SafetyFails, Care!RestoreEnds, Care!Crash, Care!BackupIsMade, Care!SafetyIsMade
  <2>3. ~Care!OtherWrites /\ ~(\E m \in Issues : Care!TroubleTurns(m)) /\ ~Care!ScanCommits BY <1>2, OtherSteps
  <2>4. ~Care!Copied /\ ~Care!RollsBack BY <1>1 DEF Care!Copied, Care!RollsBack, Care!At, RestoreKeeps
  <2>5. ~Care!RepairBegins BY <1>2, RowsOfSteps DEF Care!RepairBegins
  <2>6. ~Care!BackupFails
    <3>1. Care!BackupFails => i = job.row /\ db'.audit[job.row].did = db.audit[job.row].did BY <1>1, <1>2, RowsOfSteps
    <3> QED BY <3>1, <1>1
  <2>7. ~Care!RepairFinishes
    <3>1. Care!RepairFinishes => i = job.row /\ db'.audit[job.row].did = db.audit[job.row].did BY <1>2, RowsOfSteps
    <3> QED BY <3>1, <1>1
  <2>8. ~Care!RepairIsMarked
    <3>1. SUFFICES ASSUME Care!RepairIsMarked PROVE FALSE OBVIOUS
    <3>2. i = job.row /\ db'.audit[i] = [db.audit[i] EXCEPT !.copy = job.copy, !.status = "executing"]
      BY <3>1, <1>2, RowsOfSteps
    <3>3. \E n \in Nat : db.audit[i] \in AuditTypes(n) BY <1>1, OfDb, OfCopies DEF CareIsTyped
    <3>4. db'.audit[i].did = db.audit[i].did BY <3>2, <3>3 DEF AuditTypes
    <3> QED BY <3>4, <1>1
  <2> QED
    BY <2>1, <2>2, <2>3, <2>4, <2>5, <2>6, <2>7, <2>8
    DEF Care!Next, Care!LookAtFiles, Care!LookAtPackages, Care!LookAtTables, Care!LookAtSnapshots
<1>4. job.at = "act" BY <1>3 DEF Care!RepairActs, Care!RepairActFails, Care!At
<1>5. i = job.row BY <1>2, <1>3, RowsOfSteps
<1>6. Care!StillThere(db) BY <1>1, <1>2, <1>3, <1>5, RowsOfSteps
<1> QED BY <1>1, <1>4, <1>5, <1>6 DEF RepairOwnsRow

\* What the invariant says of one step of Maintenance.
LEMMA CareActs ==
  ASSUME Care!Sorted, CareInv, [Care!Next]_(Care!vars)
  PROVE  /\ \A i \in DOMAIN db.audit : Care!RepairsBy(i) =>
              /\ db.audit[i].status = "executing"
              /\ db.audit[i].copy \in DOMAIN copies
              /\ i \in DOMAIN copies[db.audit[i].copy].audit
              /\ copies[db.audit[i].copy].audit[i].status = "awaiting_backup"
              /\ db.audit[i].issue \in db.trouble
         /\ db'.newest > db.newest /\ job' = Care!NoJob /\ job.at = "commit" =>
              \A i \in Issues : /\ i \in steady.there => db'.health[i] = "open"
                                /\ i \in steady.absent => db'.health[i] # "open"
<1>1. ASSUME NEW i \in DOMAIN db.audit, Care!RepairsBy(i)
      PROVE  /\ db.audit[i].status = "executing"
             /\ db.audit[i].copy \in DOMAIN copies
             /\ i \in DOMAIN copies[db.audit[i].copy].audit
             /\ copies[db.audit[i].copy].audit[i].status = "awaiting_backup"
             /\ db.audit[i].issue \in db.trouble
  <2>1. i = job.row /\ job.at = "act" /\ job.op = "repair" /\ Care!StillThere(db) /\ db.audit[i].issue = job.issue
    BY <1>1, RepairChanges
  <2> QED BY <2>1 DEF CareInv, RepairOwnsRow, IsBackedUp, Care!StillThere
<1>2. ASSUME db'.newest > db.newest, job' = Care!NoJob, job.at = "commit", NEW i \in Issues
      PROVE  /\ i \in steady.there => db'.health[i] = "open"
             /\ i \in steady.absent => db'.health[i] # "open"
  <2>1. CareIsTyped /\ db.newest \in Nat /\ job \in JobTypes /\ ScanSees /\ \E n \in Nat : db \in DbTypes(n)
    BY OfDb, OfCopies DEF CareInv, CareIsTyped, Care!Sorted
  <2>2. db' # db /\ job'.at = "idle" /\ db'.newest # db.newest BY <1>2, <2>1, NoCareJob
  <2>3. Care!ScanCommits
    <3>1. ~UNCHANGED Care!vars /\ ~Care!ScanFails /\ ~Care!Crash BY <2>2 DEF Care!vars, Care!ScanFails, Care!Crash
    <3>2. ~Care!OtherWrites /\ ~(\E m \in Issues : Care!TroubleTurns(m)) BY <2>2, OtherSteps
    <3>3. \A n \in 1..4 : ~Care!Look(n) BY <1>2, <2>1, <2>2, LookGoesOn DEF Scanning
    <3>4. job # Care!NoJob BY <1>2, NoCareJob
    <3>5. /\ ~Care!ReceiveTurns /\ ~Care!ScanStarts /\ ~Care!BackupStarts /\ \A m \in Issues : ~Care!RepairStarts(m)
          /\ \A n \in DOMAIN copies : ~Care!RestoreStarts(n)
      BY <2>2, <3>4
      DEF Care!ReceiveTurns, Care!ScanStarts, Care!BackupStarts, Care!RepairStarts, Care!RestoreStarts, Care!Starts
    <3>6. /\ ~Care!RepairBegins /\ ~Care!BackupIsMade /\ ~Care!BackupFails /\ ~Care!RepairIsMarked /\ ~Care!RepairActs
          /\ ~Care!RepairActFails /\ ~Care!RepairFinishes /\ ~Care!SafetyIsMade /\ ~Care!SafetyFails /\ ~Care!Copied
          /\ ~Care!RestoreEnds /\ ~Care!RollsBack
      BY <1>2
      DEF Care!At, Care!RepairBegins, Care!BackupIsMade, Care!BackupFails, Care!RepairIsMarked, Care!RepairActs,
         Care!RepairActFails, Care!RepairFinishes, Care!SafetyIsMade, Care!SafetyFails, Care!Copied,
             Care!RestoreEnds, Care!RollsBack
    <3>7. 1 \in 1..4 /\ 2 \in 1..4 /\ 3 \in 1..4 /\ 4 \in 1..4 OBVIOUS
    <3>8. ~Care!LookAtFiles /\ ~Care!LookAtPackages /\ ~Care!LookAtTables /\ ~Care!LookAtSnapshots
      BY <3>3, <3>7 DEF Care!LookAtFiles, Care!LookAtPackages, Care!LookAtTables, Care!LookAtSnapshots
    <3> QED BY <3>1, <3>2, <3>5, <3>6, <3>8 DEF Care!Next
  <2>4. db'.health = Care!Synced(db.health, job.saw) BY <2>1, <2>3 DEF Care!ScanCommits, DbTypes
  <2>5. (i \in steady.there => i \in job.saw) /\ (i \in steady.absent => i \notin job.saw)
    BY <1>2, <2>1 DEF ScanSees, Ahead, Scanning
  <2> QED BY <2>4, <2>5, <1>2 DEF Care!Synced
<1> QED BY <1>1, <1>2

\* The invariant gives the type invariant and the safety properties of Maintenance.
LEMMA CareSafe ==
  ASSUME Care!Sorted, CareInv
  PROVE  Care!TypeOK /\ Care!AuditIsTrue /\ Care!NothingIsLost
<1>1. CareIsTyped BY DEF CareInv
<1>2. db \in DbTypes(Len(copies)) /\ Len(copies) \in Nat BY <1>1, OfCopies DEF CareIsTyped
<1>3. \A i \in DOMAIN db.audit : db.audit[i] \in AuditTypes(Len(copies)) BY <1>2, OfDb
<1>4. AuditTypes(Len(copies)) = Care!AuditRow BY DEF AuditTypes, Care!AuditRow
<1>5. \A i \in DOMAIN db.audit : db.audit[i] \in Care!AuditRow BY <1>3, <1>4
<1>6. /\ db.rows \subseteq 1..MaxWrites /\ db.trouble \subseteq Issues
      /\ db.health \in [Issues -> {"none", "open", "resolved"}] /\ db.newest \in 0..MaxJobs
  BY <1>2, OfDb
<1>7. job.at \in {"idle", "begin", "backup", "mark", "act", "finish", "safety", "copy", "check", "commit"}
                 \cup {Care!Passes[n] : n \in 1..4}
  <2>1. job.at \in Scanning \cup {"idle", "begin", "backup", "mark", "act", "finish", "safety", "copy", "check"}
    BY <1>1 DEF CareIsTyped, JobTypes
  <2>2. /\ Care!Passes[1] = "files" /\ Care!Passes[2] = "packages" /\ Care!Passes[3] = "tables"
           /\ Care!Passes[4] = "snapshots"
        /\ 1 \in 1..4 /\ 2 \in 1..4 /\ 3 \in 1..4 /\ 4 \in 1..4
    BY DEF Care!Passes
  <2>3. {"files", "packages", "tables", "snapshots"} \subseteq {Care!Passes[n] : n \in 1..4} BY <2>2
  <2> QED BY <2>1, <2>3 DEF Scanning
<1>8. Care!TypeOK BY <1>1, <1>5, <1>6, <1>7 DEF Care!TypeOK, CareIsTyped
<1> QED BY <1>8 DEF CareInv, AuditsTell, Tells, Care!AuditIsTrue, RestoreKeeps

-----------------------------------------------------------------------------
(* Startup: who goes on past the flags has them of the database that is     *)
(* there, and who links a message has its package published.                *)

FlagNames == {"archive", "account", "agent", "outbound", "v17", "v171", "v13"}
StartTypes ==
  [at : {"off", "flags", "init", "seed", "seeds", "archive", "rows", "copies", "publish", "store", "ready"},
   read : 0..7, flags : SUBSET FlagNames, todo : SUBSET Messages, row : Messages \cup {"none"},
   left : SUBSET Files, inRoot : BOOLEAN]

StartIsTyped ==
  /\ version \in Start!Versions /\ receives \in BOOLEAN
  /\ owner \in {"none", "a", "b"} /\ config \in {"a", "b"} /\ scope \in {"nobody", "none", "own", "seeded"}
  /\ bare \subseteq linked /\ linked \subseteq Messages
  /\ staging \in [Messages -> SUBSET Start!Whole] /\ root \in [Messages -> SUBSET Start!Whole]
  /\ unread \in [Messages -> SUBSET Files]
  /\ saved \subseteq [version : Start!Versions, linked : SUBSET Messages]
  /\ original \in [version : Start!Versions, linked : SUBSET Messages]
  /\ chosen \in [receives : {"unasked", "on", "off"}, scope : {"unasked", "nobody", "none", "own"}]
  /\ overtaken \in BOOLEAN

\* A start that does not run has nothing, and one past init_db finds the current version.
StartIsPlaced(x) ==
  /\ x.at \in {"off", "ready"} => x.flags = {} /\ x.todo = {} /\ x.read = 0
  /\ x.at \notin {"off", "flags", "init"} => version = 7
  /\ x.at = "seeds" => "v17" \in x.flags
  /\ x.todo # {} => "archive" \in x.flags
  /\ x.at \in {"copies", "publish", "store"} => x.row \in Messages /\ "archive" \in x.flags

\* As long as the database is the one that was found, a start has the flags it asks for and its backup.
HasBackup(x) ==
  Start!Image = original /\ original.version > 0 =>
    /\ x.at = "flags" => \A i \in 1..x.read : Start!Needed(Start!Flags[i]) => Start!Flags[i] \in x.flags
    /\ x.at \notin {"off", "flags", "ready"} /\ x.flags # {} => original \in saved
    /\ x.at = "init" /\ version <= 6 => x.flags # {}

\* A start that seeds has read its flags before the owner chose.
SeedsFirst(x) == "v17" \in x.flags /\ chosen.scope # "unasked" => overtaken

\* What is copied is in the staging directory until one of the starts has moved it.
HasFiles(x) ==
  /\ x.at = "copies" =>
       root[x.row] # {} \/ (~x.inRoot /\ (Files \ x.left) \ unread[x.row] \subseteq staging[x.row])
  /\ x.at = "publish" => root[x.row] # {} \/ Start!Whole \ unread[x.row] \subseteq staging[x.row]
  /\ x.at = "store" => root[x.row] # {}

StartIsRight(x) == StartIsPlaced(x) /\ HasBackup(x) /\ SeedsFirst(x) /\ HasFiles(x)

DatabaseGrows == original.version <= version /\ original.linked \subseteq linked

ChoicesAreLate ==
  /\ chosen.receives # "unasked" => version >= 5
  /\ chosen.scope # "unasked" => version >= 6

RootsAreWhole ==
  /\ \A m \in Messages : root[m] # {} => Start!Whole \ unread[m] \subseteq root[m]
  /\ \A m \in linked : root[m] # {}

FoundIsKept ==
  StartIsTyped /\ DatabaseGrows /\ ChoicesAreLate /\ RootsAreWhole /\ Start!BackedUpFirst /\ Start!ChoicesSurvive

StartInv == FoundIsKept /\ proc \in [Procs -> StartTypes] /\ \A p \in Procs : StartIsRight(proc[p])

\* There are seven flags; the accounts come before the workflow.
LEMMA FlagsAre ==
  /\ Len(Start!Flags) = 7 /\ \A i \in 1..7 : Start!Flags[i] \in FlagNames
  /\ Start!Flags[2] = "account" /\ Start!Flags[6] = "v171"
BY DEF Start!Flags, FlagNames

\* A process that is off, or that has nothing to do, has nothing to be right about.
LEMMA OffIsRight ==
  /\ Start!Off \in StartTypes /\ StartIsRight(Start!Off)
  /\ [Start!Off EXCEPT !.at = "ready"] \in StartTypes /\ [Start!Off EXCEPT !.at = "ready"].at = "ready"
  /\ [Start!Off EXCEPT !.at = "ready"].flags = {} /\ [Start!Off EXCEPT !.at = "ready"].todo = {}
  /\ [Start!Off EXCEPT !.at = "ready"].read = 0
<1>1. Start!Off \in StartTypes BY DEF Start!Off, StartTypes
<1>2. StartIsRight(Start!Off)
  BY <1>1 DEF Start!Off, StartIsRight, StartIsPlaced, HasBackup, SeedsFirst, HasFiles
<1> QED BY <1>1, <1>2 DEF Start!Off, StartTypes

\* The invariant holds at the start.
LEMMA StartInit == ASSUME Start!Known, Start!Init PROVE StartInv
<1> USE DEF Start!Init, Start!Known
<1>1. StartIsTyped
  <2>1. /\ version \in Start!Versions /\ receives \in BOOLEAN
        /\ owner \in {"none", "a", "b"} /\ config \in {"a", "b"} /\ scope \in {"nobody", "none", "own", "seeded"}
        /\ bare \subseteq linked /\ linked \subseteq Messages /\ overtaken \in BOOLEAN
    OBVIOUS
  <2>2. staging \in [Messages -> SUBSET Start!Whole] /\ root \in [Messages -> SUBSET Start!Whole]
        /\ unread \in [Messages -> SUBSET Files]
    OBVIOUS
  <2>3. original \in [version : Start!Versions, linked : SUBSET Messages] BY <2>1 DEF Start!Image
  <2>4. chosen \in [receives : {"unasked", "on", "off"}, scope : {"unasked", "nobody", "none", "own"}]
    BY DEF Start!Said
  <2> QED BY <2>1, <2>2, <2>3, <2>4 DEF StartIsTyped
<1>2. DatabaseGrows /\ Start!BackedUpFirst
  <2>1. original.version = version /\ original.linked = linked BY DEF Start!Image
  <2>2. version \in 0..7 BY DEF Start!Versions
  <2> QED BY <2>1, <2>2 DEF DatabaseGrows, Start!BackedUpFirst
<1>3. ChoicesAreLate /\ Start!ChoicesSurvive
  <2>1. version \in 0..7 BY DEF Start!Versions
  <2> QED BY <2>1 DEF ChoicesAreLate, Start!ChoicesSurvive, Start!Said
<1>4. RootsAreWhole BY DEF RootsAreWhole, Start!Whole
<1> QED BY <1>1, <1>2, <1>3, <1>4, OffIsRight DEF StartInv, FoundIsKept

\* One start moves on; what it writes leaves the others right.
LEMMA StartsOn ==
  ASSUME StartInv, NEW p \in Procs, NEW r \in StartTypes, proc' = [proc EXCEPT ![p] = r],
         FoundIsKept', StartIsRight(r)', \A x \in StartTypes : StartIsRight(x) => StartIsRight(x)'
  PROVE  StartInv'
<1>1. proc' \in [Procs -> StartTypes] BY DEF StartInv
<1>2. ASSUME NEW q \in Procs PROVE StartIsRight(proc[q])'
  <2>1. CASE q = p
    <3>1. proc'[q] = r BY <2>1 DEF StartInv
    <3> QED BY <3>1 DEF StartIsRight, StartIsPlaced, HasBackup, SeedsFirst, HasFiles
  <2>2. CASE q # p
    <3>1. proc'[q] = proc[q] /\ proc[q] \in StartTypes /\ StartIsRight(proc[q]) BY <2>2 DEF StartInv
    <3>2. PICK x \in StartTypes : x = proc[q] BY <3>1
    <3>3. StartIsRight(x)' BY <3>1, <3>2
    <3>4. proc'[q] = x BY <3>1, <3>2
    <3> QED BY <3>3, <3>4 DEF StartIsRight, StartIsPlaced, HasBackup, SeedsFirst, HasFiles
  <2> QED BY <2>1, <2>2
<1> QED BY <1>1, <1>2 DEF StartInv

world == <<version, receives, owner, config, scope, linked, bare, staging, root, unread, saved, original, chosen,
    overtaken>>

\* A step that writes nothing outside of the process.
LEMMA NothingWritten ==
  ASSUME StartInv, UNCHANGED world
  PROVE  FoundIsKept' /\ \A x \in StartTypes : StartIsRight(x) <=> StartIsRight(x)'
<1> USE DEF world
<1>1. FoundIsKept'
  BY DEF StartInv, FoundIsKept, StartIsTyped, DatabaseGrows, ChoicesAreLate, RootsAreWhole, Start!BackedUpFirst,
    Start!ChoicesSurvive, Start!Image
<1>2. ASSUME NEW x \in StartTypes PROVE StartIsRight(x) <=> StartIsRight(x)'
  <2>1. \A flag : Start!Needed(flag) <=> Start!Needed(flag)'
    BY DEF Start!Needed, Start!NeedsArchive, Start!NeedsAccounts, Start!NeedsAgent, Start!NeedsOutbound,
      Start!NeedsV17, Start!NeedsV171, Start!NeedsV13
  <2>2. HasBackup(x) <=> HasBackup(x)' BY <2>1 DEF HasBackup, Start!Image
  <2> QED BY <2>2 DEF StartIsRight, StartIsPlaced, SeedsFirst, HasFiles
<1> QED BY <1>1, <1>2

\* A process walks on, and writes nothing.
LEMMA Walks ==
  ASSUME StartInv, NEW p \in Procs, NEW r \in StartTypes, proc' = [proc EXCEPT ![p] = r], UNCHANGED world,
      StartIsRight(r)
  PROVE  StartInv'
BY NothingWritten, StartsOn

\* The parts of a process that starts.
LEMMA StartTyped ==
  ASSUME StartInv, NEW p \in Procs
  PROVE  /\ proc[p] \in StartTypes /\ StartIsRight(proc[p])
         /\ proc[p].at \in {"off", "flags", "init", "seed", "seeds", "archive", "rows", "copies", "publish",
             "store", "ready"}
         /\ proc[p].read \in 0..7 /\ proc[p].flags \in SUBSET FlagNames /\ proc[p].todo \in SUBSET Messages
         /\ proc[p].row \in Messages \cup {"none"} /\ proc[p].left \in SUBSET Files /\ proc[p].inRoot \in BOOLEAN
<1>1. proc[p] \in StartTypes /\ StartIsRight(proc[p]) BY DEF StartInv
<1> QED BY <1>1 DEF StartTypes

\* Each action keeps the invariant.
LEMMA StartsStep ==
  ASSUME StartInv, NEW p \in Procs, Start!Starts(p)
  PROVE  StartInv'
<1>1. PICK r : r = [proc[p] EXCEPT !.at = "flags"] OBVIOUS
<1>2. r \in StartTypes BY <1>1, StartTyped DEF StartTypes, Start!Starts
<1>3. proc' = [proc EXCEPT ![p] = r] /\ UNCHANGED world
  BY <1>1 DEF Start!Starts, Start!Goes, Start!NextRow, Start!database, Start!packages, Start!ghosts, world, StartInv
<1>4. StartIsRight(r)
  BY <1>1, <1>2, StartTyped
  DEF Start!Starts, StartIsRight, StartIsPlaced, HasBackup, SeedsFirst, HasFiles, StartInv, FoundIsKept
<1> QED BY <1>2, <1>3, <1>4, Walks

LEMMA ReadsScopeStep ==
  ASSUME StartInv, NEW p \in Procs, Start!ReadsScope(p)
  PROVE  StartInv'
<1>1. PICK r : r = [proc[p] EXCEPT !.at = IF Start!SeedsAtAll(p) /\ scope = "none" THEN "seeds"
    ELSE "archive"] OBVIOUS
<1>2. r \in StartTypes BY <1>1, StartTyped DEF StartTypes, Start!ReadsScope
<1>3. proc' = [proc EXCEPT ![p] = r] /\ UNCHANGED world
  BY <1>1
  DEF Start!ReadsScope, Start!Goes, Start!NextRow, Start!database, Start!packages, Start!ghosts, world, StartInv
<1>4. StartIsRight(r)
  BY <1>1, <1>2, StartTyped
  DEF Start!ReadsScope, Start!SeedsAtAll, StartIsRight, StartIsPlaced, HasBackup, SeedsFirst, HasFiles, StartInv,
    FoundIsKept
<1> QED BY <1>2, <1>3, <1>4, Walks

LEMMA ListsStep ==
  ASSUME StartInv, NEW p \in Procs, Start!Lists(p)
  PROVE  StartInv'
<1>1. PICK r : r = [proc[p] EXCEPT !.todo = IF "archive" \in proc[p].flags THEN Messages \ linked
    ELSE {}, !.at = "rows"] OBVIOUS
<1>2. r \in StartTypes BY <1>1, StartTyped DEF StartTypes, Start!Lists
<1>3. proc' = [proc EXCEPT ![p] = r] /\ UNCHANGED world
  BY <1>1 DEF Start!Lists, Start!Goes, Start!NextRow, Start!database, Start!packages, Start!ghosts, world, StartInv
<1>4. StartIsRight(r)
  BY <1>1, <1>2, StartTyped
  DEF Start!Lists, StartIsRight, StartIsPlaced, HasBackup, SeedsFirst, HasFiles, StartInv, FoundIsKept
<1> QED BY <1>2, <1>3, <1>4, Walks

LEMMA RowFailsStep ==
  ASSUME StartInv, NEW p \in Procs, Start!RowFails(p)
  PROVE  StartInv'
<1>1. PICK r : r = [proc[p] EXCEPT !.at = "rows", !.row = "none", !.left = {}, !.inRoot = FALSE] OBVIOUS
<1>2. r \in StartTypes BY <1>1, StartTyped DEF StartTypes, Start!RowFails
<1>3. proc' = [proc EXCEPT ![p] = r] /\ UNCHANGED world
  BY <1>1 DEF Start!RowFails, Start!Goes, Start!NextRow, Start!database, Start!packages, Start!ghosts, world, StartInv
<1>4. StartIsRight(r)
  BY <1>1, <1>2, StartTyped
  DEF Start!RowFails, StartIsRight, StartIsPlaced, HasBackup, SeedsFirst, HasFiles, StartInv, FoundIsKept
<1> QED BY <1>2, <1>3, <1>4, Walks

LEMMA StopsStep ==
  ASSUME StartInv, NEW p \in Procs, Start!Stops(p)
  PROVE  StartInv'
<1>1. proc' = [proc EXCEPT ![p] = Start!Off] /\ UNCHANGED world
  BY DEF Start!Stops, Start!database, Start!packages, Start!ghosts, world, StartInv
<1>2. PICK r : r = Start!Off OBVIOUS
<1> QED BY <1>1, <1>2, OffIsRight, Walks

LEMMA ReadsFlagStep ==
  ASSUME StartInv, NEW p \in Procs, Start!ReadsFlag(p)
  PROVE  StartInv'
<1> DEFINE flag == Start!Flags[proc[p].read + 1]
           flags == IF Start!Needed(flag) THEN proc[p].flags \cup {flag} ELSE proc[p].flags
<1>1. PICK r : r = [proc[p] EXCEPT !.read = proc[p].read + 1, !.flags = flags] OBVIOUS
<1>2. proc[p].at = "flags" /\ proc[p].read + 1 \in 1..7 /\ proc[p].read \in 0..7
  BY StartTyped, FlagsAre DEF Start!ReadsFlag
<1>3. flag \in FlagNames BY <1>2, FlagsAre
<1>4. flags \in SUBSET FlagNames /\ proc[p].flags \subseteq flags /\ (Start!Needed(flag) => flag \in flags)
      /\ ("v17" \in flags => "v17" \in proc[p].flags \/ Start!Needed("v17"))
  BY <1>3, StartTyped
<1>5. proc' = [proc EXCEPT ![p] = [proc[p] EXCEPT !.read = proc[p].read + 1, !.flags = flags]] /\ UNCHANGED world
  BY DEF Start!ReadsFlag, Start!Goes, Start!database, Start!packages, Start!ghosts, world, StartInv
<1> HIDE DEF flag
<1> HIDE DEF flags
<1>6. r \in StartTypes
  <2>1. proc[p].read + 1 \in 0..7 BY <1>2
  <2> QED BY <2>1, <1>1, <1>4, StartTyped DEF StartTypes
<1>7. /\ r.at = "flags" /\ r.flags = flags /\ r.read = proc[p].read + 1 /\ r.todo = proc[p].todo
  BY <1>1, <1>2, StartTyped DEF StartTypes
<1>8. StartIsPlaced(r) BY <1>4, <1>7, StartTyped DEF StartIsRight, StartIsPlaced
<1>9. HasBackup(r)
  <2>1. ASSUME Start!Image = original, original.version > 0, NEW i \in 1..r.read, Start!Needed(Start!Flags[i])
        PROVE  Start!Flags[i] \in flags
    <3>1. CASE i = proc[p].read + 1 BY <3>1, <2>1, <1>4 DEF flag
    <3>2. CASE i # proc[p].read + 1
      <4>1. i \in 1..proc[p].read BY <3>2, <1>2, <1>7
      <4> QED BY <4>1, <2>1, <1>2, <1>4, StartTyped DEF StartIsRight, HasBackup
    <3> QED BY <3>1, <3>2
  <2> QED BY <2>1, <1>7 DEF HasBackup
<1>10. SeedsFirst(r)
  <2>1. Start!Needed("v17") => chosen.scope = "unasked"
    <3>1. Start!Needed("v17") => Start!NeedsV17 BY DEF Start!Needed
    <3> QED BY <3>1 DEF Start!NeedsV17, StartInv, FoundIsKept, ChoicesAreLate
  <2> QED BY <2>1, <1>4, <1>7, StartTyped DEF StartIsRight, SeedsFirst
<1>11. HasFiles(r) BY <1>7 DEF HasFiles
<1>12. proc' = [proc EXCEPT ![p] = r] BY <1>1, <1>5
<1> QED BY <1>5, <1>6, <1>8, <1>9, <1>10, <1>11, <1>12, Walks DEF StartIsRight

\* What the start has not to copy has been published: the directory of the message is there.
LEMMA TakesStep ==
  ASSUME StartInv, NEW p \in Procs, Start!Takes(p)
  PROVE  StartInv'
<1>1. PICK m \in proc[p].todo :
        proc' = [proc EXCEPT ![p].at = "copies", ![p].row = m, ![p].todo = @ \ {m}, ![p].left = Start!FilesToCopy(m),
                             ![p].inRoot = root[m] # {}]
  BY DEF Start!Takes
<1>2. PICK r : r = [proc[p] EXCEPT !.at = "copies", !.row = m, !.todo = proc[p].todo \ {m}, !.left = Files,
    !.inRoot = root[m] # {}]
  OBVIOUS
<1>3. m \in Messages /\ proc[p].at = "rows" BY StartTyped DEF Start!Takes
<1>4. proc' = [proc EXCEPT ![p] = r] /\ UNCHANGED world
  <2>1. UNCHANGED world BY DEF Start!Takes, Start!database, Start!packages, Start!ghosts, world
  <2>2. proc' = [proc EXCEPT ![p] = r] BY <1>1, <1>2 DEF Start!FilesToCopy
  <2> QED BY <2>1, <2>2
<1>5. r \in StartTypes BY <1>2, <1>3, StartTyped DEF StartTypes
<1>6. /\ r.at = "copies" /\ r.row = m /\ r.left = Files /\ r.flags = proc[p].flags /\ r.todo \subseteq proc[p].todo
      /\ r.inRoot = (root[m] # {})
  BY <1>2, StartTyped DEF StartTypes
<1>7. StartIsRight(r)
  BY <1>3, <1>6, StartTyped DEF StartIsRight, StartIsPlaced, HasBackup, SeedsFirst, HasFiles
<1> QED BY <1>4, <1>5, <1>7, Walks

\* What a backup takes.
LEMMA ImageTyped ==
  ASSUME StartInv
  PROVE  /\ Start!Image \in [version : Start!Versions, linked : SUBSET Messages]
         /\ version \in 0..7 /\ linked \in SUBSET Messages /\ original.version \in 0..7
         /\ original = [version |-> original.version, linked |-> original.linked]
         /\ Start!Image.version = version /\ Start!Image.linked = linked
         /\ original.version <= version /\ original.linked \subseteq linked
<1>1. StartIsTyped /\ DatabaseGrows BY DEF StartInv, FoundIsKept
<1> QED BY <1>1 DEF StartIsTyped, DatabaseGrows, Start!Image, Start!Versions

\* An older version has a flag of its own.
LEMMA BacksUpStep ==
  ASSUME StartInv, NEW p \in Procs, Start!BacksUp(p)
  PROVE  StartInv'
<1>1. PICK r : r = [proc[p] EXCEPT !.at = "init"] OBVIOUS
<1>2. r \in StartTypes BY <1>1, StartTyped DEF StartTypes
<1>3. /\ proc' = [proc EXCEPT ![p] = r]
      /\ UNCHANGED <<version, receives, owner, config, scope, linked, bare, staging, root, unread, original, chosen,
          overtaken>>
  BY <1>1 DEF Start!BacksUp, Start!Goes, Start!database, Start!packages, Start!ghosts, StartInv
<1>4. saved \subseteq saved' /\ saved' \subseteq saved \cup {Start!Image} /\ (proc[p].flags # {} =>
    Start!Image \in saved')
  BY DEF Start!BacksUp
<1>5. r.at = "init" /\ r.flags = proc[p].flags /\ r.todo = proc[p].todo BY <1>1, StartTyped DEF StartTypes
<1>6. FoundIsKept'
  <2>1. StartIsTyped /\ DatabaseGrows /\ ChoicesAreLate /\ RootsAreWhole /\ Start!BackedUpFirst
      /\ Start!ChoicesSurvive
    BY DEF StartInv, FoundIsKept
  <2>2. saved' \subseteq [version : Start!Versions, linked : SUBSET Messages]
    BY <2>1, <1>4, ImageTyped DEF StartIsTyped
  <2>3. StartIsTyped' BY <2>1, <2>2, <1>3 DEF StartIsTyped
  <2>4. (Start!BackedUpFirst)' BY <2>1, <1>3, <1>4 DEF Start!BackedUpFirst, Start!Image
  <2> QED
    BY <2>1, <2>3, <2>4, <1>3 DEF FoundIsKept, DatabaseGrows, ChoicesAreLate, RootsAreWhole, Start!ChoicesSurvive
<1>7. \A x \in StartTypes : StartIsRight(x) => StartIsRight(x)'
  <2>1. \A flag : Start!Needed(flag) <=> Start!Needed(flag)'
    BY <1>3 DEF Start!Needed, Start!NeedsArchive, Start!NeedsAccounts, Start!NeedsAgent, Start!NeedsOutbound,
      Start!NeedsV17, Start!NeedsV171, Start!NeedsV13
  <2>2. \A x \in StartTypes : HasBackup(x) => HasBackup(x)' BY <2>1, <1>3, <1>4 DEF HasBackup, Start!Image
  <2> QED BY <2>2, <1>3 DEF StartIsRight, StartIsPlaced, SeedsFirst, HasFiles
<1>8. StartIsRight(r)'
  <2>1. StartIsRight(proc[p]) /\ proc[p].at = "flags" /\ proc[p].read = 7 BY StartTyped, FlagsAre DEF Start!BacksUp
  <2>2. Start!Image = original /\ original.version > 0 /\ version <= 6 => proc[p].flags # {}
    <3>1. SUFFICES ASSUME Start!Image = original, original.version > 0, version <= 6 PROVE proc[p].flags # {}
      OBVIOUS
    <3>2. version \in 1..6 BY <3>1, ImageTyped
    <3>3. Start!Needed("account") \/ Start!Needed("v171")
      BY <3>2 DEF Start!Needed, Start!NeedsAccounts, Start!NeedsV171
    <3>4. \A i \in 1..7 : Start!Needed(Start!Flags[i]) => Start!Flags[i] \in proc[p].flags
      BY <2>1, <3>1 DEF StartIsRight, HasBackup
    <3> QED BY <3>3, <3>4, FlagsAre
  <2>3. HasBackup(r)' BY <2>2, <1>3, <1>4, <1>5 DEF HasBackup, Start!Image
  <2> QED BY <2>1, <2>3, <1>3, <1>5 DEF StartIsRight, StartIsPlaced, SeedsFirst, HasFiles
<1> QED BY <1>2, <1>3, <1>6, <1>7, <1>8, StartsOn

\* The database grows: what was found does not come back.
LEMMA InitsDbStep ==
  ASSUME StartInv, NEW p \in Procs, Start!InitsDb(p)
  PROVE  StartInv'
<1>1. PICK r : r = [proc[p] EXCEPT !.at = "seed"] OBVIOUS
<1>2. r \in StartTypes BY <1>1, StartTyped DEF StartTypes
<1>3. /\ proc' = [proc EXCEPT ![p] = r] /\ proc[p].at = "init" /\ version' = 7
      /\ UNCHANGED <<config, scope, linked, bare, staging, root, unread, saved, original, chosen, overtaken>>
  BY <1>1 DEF Start!InitsDb, Start!Goes, Start!packages, Start!ghosts, Start!Current, StartInv
<1>4. receives' \in BOOLEAN /\ owner' \in {"none", "a", "b"} /\ (version >= 5 => receives' = receives)
  BY DEF Start!InitsDb, Start!OpensReceiving, Start!Owned, StartInv, FoundIsKept, StartIsTyped, Start!Versions
<1>5. r.at = "seed" /\ r.flags = proc[p].flags /\ r.todo = proc[p].todo BY <1>1, StartTyped DEF StartTypes
<1>6. StartIsTyped /\ DatabaseGrows /\ ChoicesAreLate /\ RootsAreWhole /\ Start!BackedUpFirst /\ Start!ChoicesSurvive
  BY DEF StartInv, FoundIsKept
<1>7. (Start!Image)' = original => Start!Image = original /\ version = 7
  <2>1. SUFFICES ASSUME (Start!Image)' = original PROVE Start!Image = original /\ version = 7
    OBVIOUS
  <2>2. original.version = 7 BY <2>1, <1>3 DEF Start!Image
  <2>3. version = 7 BY <2>2, ImageTyped
  <2> QED BY <2>1, <2>3, <1>3 DEF Start!Image
<1>8. FoundIsKept'
  <2>1. StartIsTyped' BY <1>3, <1>4, <1>6 DEF StartIsTyped, Start!Versions
  <2>2. (Start!BackedUpFirst)'
    <3>1. SUFFICES ASSUME (Start!Image)' # original, original.version > 0 PROVE original \in saved
      BY <1>3 DEF Start!BackedUpFirst
    <3>2. CASE Start!Image # original BY <3>1, <3>2, <1>6 DEF Start!BackedUpFirst
    <3>3. CASE Start!Image = original
      <4>1. version # 7 BY <3>1, <3>3, <1>3 DEF Start!Image
      <4>2. version <= 6 BY <4>1, ImageTyped
      <4>3. proc[p].flags # {} /\ original \in saved BY <4>2, <3>1, <3>3, <1>3, StartTyped DEF StartIsRight, HasBackup
      <4> QED BY <4>3
    <3> QED BY <3>2, <3>3
  <2>3. DatabaseGrows' /\ ChoicesAreLate' BY <1>3, <1>6, ImageTyped DEF DatabaseGrows, ChoicesAreLate
  <2>4. RootsAreWhole' BY <1>3, <1>6 DEF RootsAreWhole
  <2>5. (Start!ChoicesSurvive)'
    <3>1. chosen.receives # "unasked" => receives' = receives BY <1>4, <1>6 DEF ChoicesAreLate
    <3> QED BY <3>1, <1>3, <1>6 DEF Start!ChoicesSurvive, Start!Said
  <2> QED BY <2>1, <2>2, <2>3, <2>4, <2>5 DEF FoundIsKept
<1>9. ASSUME NEW x \in StartTypes, StartIsRight(x) PROVE StartIsPlaced(x)' /\ HasBackup(x)' /\ SeedsFirst(x)'
    /\ HasFiles(x)'
  <2>1. HasBackup(x)'
    <3>1. SUFFICES ASSUME (Start!Image)' = original PROVE HasBackup(x)' BY <1>3 DEF HasBackup
    <3>2. version' = version /\ Start!Image = original /\ (Start!Image)' = Start!Image BY <1>3, <1>7, <3>1
    <3>3. \A flag : Start!Needed(flag) <=> Start!Needed(flag)'
      BY <1>3, <3>2 DEF Start!Needed, Start!NeedsArchive, Start!NeedsAccounts, Start!NeedsAgent, Start!NeedsOutbound,
        Start!NeedsV17, Start!NeedsV171, Start!NeedsV13
    <3> QED BY <3>2, <3>3, <1>3, <1>9 DEF StartIsRight, HasBackup
  <2> QED BY <2>1, <1>3, <1>9 DEF StartIsRight, StartIsPlaced, SeedsFirst, HasFiles
<1>10. StartIsRight(r)'
  <2>1. HasBackup(proc[p]) /\ SeedsFirst(proc[p]) /\ StartIsPlaced(proc[p])
    BY StartTyped DEF StartIsRight
  <2>2. HasBackup(r)' BY <1>3, <1>5, <1>7, <2>1 DEF HasBackup
  <2> QED BY <2>1, <2>2, <1>3, <1>5 DEF StartIsRight, StartIsPlaced, SeedsFirst, HasFiles
<1> QED BY <1>2, <1>3, <1>8, <1>9, <1>10, StartsOn DEF StartIsRight

Needs == <<version, linked, bare>>

\* What a flag needs is read from the database alone.
LEMMA NeedsKept == ASSUME UNCHANGED Needs PROVE \A flag : Start!Needed(flag) <=> Start!Needed(flag)'
BY DEF Needs, Start!Needed, Start!NeedsArchive, Start!NeedsAccounts, Start!NeedsAgent, Start!NeedsOutbound,
  Start!NeedsV17, Start!NeedsV171, Start!NeedsV13

\* Where the database and its backups stay as they are, so does what a start has of them.
LEMMA BackupKept ==
  ASSUME UNCHANGED <<Needs, saved, original>>
  PROVE  \A x \in StartTypes : HasBackup(x) <=> HasBackup(x)'
BY NeedsKept DEF Needs, HasBackup, Start!Image

LEMMA SeedsStep ==
  ASSUME StartInv, NEW p \in Procs, Start!Seeds(p)
  PROVE  StartInv'
<1>1. PICK r : r = [proc[p] EXCEPT !.at = "archive"] OBVIOUS
<1>2. r \in StartTypes BY <1>1, StartTyped DEF StartTypes
<1>3. /\ proc' = [proc EXCEPT ![p] = r] /\ proc[p].at = "seeds" /\ scope' = "seeded"
      /\ UNCHANGED <<version, receives, owner, config, linked, bare, staging, root, unread, saved, original, chosen,
          overtaken>>
  BY <1>1 DEF Start!Seeds, Start!Goes, Start!packages, Start!ghosts, StartInv
<1>4. r.at = "archive" /\ r.flags = proc[p].flags /\ r.todo = proc[p].todo BY <1>1, StartTyped DEF StartTypes
<1>5. StartIsTyped /\ DatabaseGrows /\ ChoicesAreLate /\ RootsAreWhole /\ Start!BackedUpFirst /\ Start!ChoicesSurvive
  BY DEF StartInv, FoundIsKept
<1>6. chosen.scope # "unasked" => overtaken BY <1>3, StartTyped DEF StartIsRight, StartIsPlaced, SeedsFirst
<1>7. FoundIsKept'
  <2>1. StartIsTyped' BY <1>3, <1>5 DEF StartIsTyped
  <2>2. (Start!ChoicesSurvive)' BY <1>3, <1>5, <1>6 DEF Start!ChoicesSurvive, Start!Said
  <2> QED
    BY <2>1, <2>2, <1>3, <1>5
    DEF FoundIsKept, DatabaseGrows, ChoicesAreLate, RootsAreWhole, Start!BackedUpFirst, Start!Image
<1>8. \A x \in StartTypes : StartIsRight(x) => StartIsRight(x)'
  BY <1>3, BackupKept DEF Needs, StartIsRight, StartIsPlaced, SeedsFirst, HasFiles
<1>9. StartIsRight(r)
  BY <1>3, <1>4, StartTyped DEF StartIsRight, StartIsPlaced, HasBackup, SeedsFirst, HasFiles
<1>10. StartIsRight(r)' BY <1>2, <1>8, <1>9
<1> QED BY <1>2, <1>3, <1>7, <1>8, <1>10, StartsOn

\* A file more in one of the two directories, or one more that cannot be read.
LEMMA FilesGrow ==
  ASSUME Start!Known, StartInv, NEW p \in Procs, NEW r \in StartTypes, proc' = [proc EXCEPT ![p] = r],
         UNCHANGED <<version, receives, owner, config, scope, linked, bare, saved, original, chosen, overtaken>>,
         staging' \in [Messages -> SUBSET Start!Whole], root' \in [Messages -> SUBSET Start!Whole],
         unread' \in [Messages -> SUBSET Files],
         \A m \in Messages : /\ staging[m] \subseteq staging'[m] /\ root[m] \subseteq root'[m]
                             /\ unread[m] \subseteq unread'[m] /\ (root'[m] # {} => root[m] # {}),
         StartIsRight(r)'
  PROVE  StartInv'
<1>1. StartIsTyped /\ DatabaseGrows /\ ChoicesAreLate /\ RootsAreWhole /\ Start!BackedUpFirst /\ Start!ChoicesSurvive
  BY DEF StartInv, FoundIsKept
<1>2. FoundIsKept'
  <2>1. StartIsTyped' BY <1>1 DEF StartIsTyped
  <2>2. RootsAreWhole'
    <3>1. ASSUME NEW m \in Messages, root'[m] # {} PROVE Start!Whole \ unread'[m] \subseteq root'[m]
      BY <3>1, <1>1 DEF RootsAreWhole
    <3>2. ASSUME NEW m \in linked PROVE root'[m] # {} BY <1>1 DEF RootsAreWhole, StartIsTyped
    <3> QED BY <3>1, <3>2 DEF RootsAreWhole
  <2> QED
    BY <2>1, <2>2, <1>1
    DEF FoundIsKept, DatabaseGrows, ChoicesAreLate, Start!BackedUpFirst, Start!ChoicesSurvive, Start!Image, Start!Said
<1>3. ASSUME NEW x \in StartTypes, StartIsRight(x) PROVE StartIsRight(x)'
  <2>1. HasBackup(x)' BY <1>3, BackupKept DEF Needs, StartIsRight
  <2>2. HasFiles(x)'
    <3>1. CASE x.row \in Messages BY <3>1, <1>3 DEF StartIsRight, HasFiles
    <3>2. CASE x.row \notin Messages BY <3>2, <1>3 DEF StartIsRight, StartIsPlaced, HasFiles
    <3> QED BY <3>1, <3>2
  <2> QED BY <2>1, <2>2, <1>3 DEF StartIsRight, StartIsPlaced, SeedsFirst
<1> QED BY <1>2, <1>3, StartsOn

\* What one start copies is there, or cannot be read.
LEMMA CopiesStep ==
  ASSUME Start!Known, StartInv, NEW p \in Procs, Start!Copies(p)
  PROVE  StartInv'
<1>1. PICK f \in proc[p].left :
        /\ \/ Start!Writes(p, f) /\ UNCHANGED unread
           \/ unread' = [unread EXCEPT ![proc[p].row] = @ \cup {f}] /\ UNCHANGED <<staging, root>>
        /\ proc' = [proc EXCEPT ![p].left = @ \ {f}]
  BY DEF Start!Copies
<1>2. PICK m : m = proc[p].row OBVIOUS
<1>3. PICK r : r = [proc[p] EXCEPT !.left = proc[p].left \ {f}] OBVIOUS
<1>4. r \in StartTypes BY <1>3, StartTyped DEF StartTypes
<1>5. proc' = [proc EXCEPT ![p] = r] BY <1>1, <1>3 DEF StartInv
<1>6. proc[p].at = "copies" /\ m \in Messages /\ f \in Files
  BY <1>2, StartTyped DEF Start!Copies, StartIsRight, StartIsPlaced
<1>7. /\ r.at = "copies" /\ r.row = m /\ r.left = proc[p].left \ {f} /\ r.flags = proc[p].flags
         /\ r.todo = proc[p].todo
      /\ r.inRoot = proc[p].inRoot
  BY <1>2, <1>3, <1>6, StartTyped DEF StartTypes
<1>8. StartIsTyped /\ RootsAreWhole BY DEF StartInv, FoundIsKept
<1>9. /\ staging' \in [Messages -> SUBSET Start!Whole] /\ root' \in [Messages -> SUBSET Start!Whole]
      /\ unread' \in [Messages -> SUBSET Files]
  BY <1>1, <1>2, <1>6, <1>8 DEF StartIsTyped, Start!Writes, Start!Whole
<1>10. HasFiles(proc[p]) /\ StartIsPlaced(proc[p]) /\ HasBackup(proc[p]) /\ SeedsFirst(proc[p])
  BY StartTyped DEF StartIsRight
<1>11. proc[p].inRoot => root[m] # {} BY <1>2, <1>6, <1>10 DEF HasFiles
<1>12. \A n \in Messages : /\ staging[n] \subseteq staging'[n] /\ root[n] \subseteq root'[n]
                           /\ unread[n] \subseteq unread'[n] /\ (root'[n] # {} => root[n] # {})
  BY <1>1, <1>2, <1>6, <1>8, <1>11 DEF StartIsTyped, Start!Writes
<1>13. UNCHANGED <<version, receives, owner, config, scope, linked, bare, saved, original, chosen, overtaken>>
  BY DEF Start!Copies, Start!database
<1>14. root'[m] # {} \/ (~proc[p].inRoot /\ (Files \ r.left) \ unread'[m] \subseteq staging'[m])
  <2>1. SUFFICES ASSUME root[m] = {} PROVE ~proc[p].inRoot /\ (Files \ r.left) \ unread'[m] \subseteq staging'[m]
    BY <1>6, <1>12
  <2>2. ~proc[p].inRoot /\ (Files \ proc[p].left) \ unread[m] \subseteq staging[m]
    BY <2>1, <1>2, <1>6, <1>10 DEF HasFiles
  <2>3. f \in staging'[m] \/ f \in unread'[m]
    BY <2>2, <1>1, <1>2, <1>6, <1>8 DEF Start!Writes, StartIsTyped
  <2> QED BY <2>2, <2>3, <1>6, <1>7, <1>12
<1>15. StartIsRight(r)'
  <2>1. HasFiles(r)' BY <1>7, <1>14 DEF HasFiles
  <2>2. HasBackup(r) BY <1>6, <1>7, <1>10 DEF HasBackup
  <2>3. HasBackup(r)' BY <2>2, <1>4, <1>13, BackupKept DEF Needs
  <2> QED BY <2>1, <2>3, <1>6, <1>7, <1>10, <1>13 DEF StartIsRight, StartIsPlaced, SeedsFirst
<1> QED BY <1>4, <1>5, <1>9, <1>12, <1>13, <1>15, FilesGrow

LEMMA WritesManifestStep ==
  ASSUME Start!Known, StartInv, NEW p \in Procs, Start!WritesManifest(p)
  PROVE  StartInv'
<1>2. PICK m : m = proc[p].row OBVIOUS
<1>3. PICK r : r = [proc[p] EXCEPT !.at = IF proc[p].inRoot THEN "store" ELSE "publish"] OBVIOUS
<1>4. r \in StartTypes BY <1>3, StartTyped DEF StartTypes
<1>5. proc' = [proc EXCEPT ![p] = r] BY <1>3 DEF Start!WritesManifest, Start!Goes, StartInv
<1>6. proc[p].at = "copies" /\ m \in Messages /\ proc[p].left = {}
  BY <1>2, StartTyped DEF Start!WritesManifest, StartIsRight, StartIsPlaced
<1>7. /\ r.at = (IF proc[p].inRoot THEN "store" ELSE "publish") /\ r.row = m
      /\ r.flags = proc[p].flags /\ r.todo = proc[p].todo
  BY <1>2, <1>3, <1>6, StartTyped DEF StartTypes
<1>8. StartIsTyped /\ RootsAreWhole BY DEF StartInv, FoundIsKept
<1>9. /\ staging' \in [Messages -> SUBSET Start!Whole] /\ root' \in [Messages -> SUBSET Start!Whole]
      /\ unread' \in [Messages -> SUBSET Files]
  BY <1>2, <1>6, <1>8 DEF StartIsTyped, Start!WritesManifest, Start!Writes, Start!Whole
<1>10. HasFiles(proc[p]) /\ StartIsPlaced(proc[p]) /\ HasBackup(proc[p]) /\ SeedsFirst(proc[p])
  BY StartTyped DEF StartIsRight
<1>11. proc[p].inRoot => root[m] # {} BY <1>2, <1>6, <1>10 DEF HasFiles
<1>12. \A n \in Messages : /\ staging[n] \subseteq staging'[n] /\ root[n] \subseteq root'[n]
                           /\ unread[n] \subseteq unread'[n] /\ (root'[n] # {} => root[n] # {})
  BY <1>2, <1>6, <1>8, <1>11 DEF StartIsTyped, Start!WritesManifest, Start!Writes
<1>13. UNCHANGED <<version, receives, owner, config, scope, linked, bare, saved, original, chosen, overtaken>>
  BY DEF Start!WritesManifest, Start!database, Start!ghosts
<1>14. root'[m] # {} \/ (~proc[p].inRoot /\ Start!Whole \ unread'[m] \subseteq staging'[m])
  <2>1. SUFFICES ASSUME root[m] = {} PROVE ~proc[p].inRoot /\ Start!Whole \ unread'[m] \subseteq staging'[m]
    BY <1>6, <1>12
  <2>2. ~proc[p].inRoot /\ Files \ unread[m] \subseteq staging[m]
    BY <2>1, <1>2, <1>6, <1>10 DEF HasFiles
  <2>3. "manifest" \in staging'[m]
    BY <2>2, <1>2, <1>6, <1>8 DEF Start!WritesManifest, Start!Writes, StartIsTyped
  <2> QED BY <2>2, <2>3, <1>6, <1>12 DEF Start!Whole
<1>15. StartIsRight(r)'
  <2>1. HasFiles(r)' BY <1>6, <1>7, <1>11, <1>12, <1>14 DEF HasFiles
  <2>2. HasBackup(r) BY <1>6, <1>7, <1>10 DEF HasBackup
  <2>3. HasBackup(r)' BY <2>2, <1>4, <1>13, BackupKept DEF Needs
  <2> QED BY <2>1, <2>3, <1>2, <1>6, <1>7, <1>10, <1>13 DEF StartIsRight, StartIsPlaced, SeedsFirst
<1> QED BY <1>4, <1>5, <1>9, <1>12, <1>13, <1>15, FilesGrow

\* Of two starts that publish a message one moves the directory; the other finds it moved.
LEMMA PublishesStep ==
  ASSUME Start!Known, StartInv, NEW p \in Procs, Start!Publishes(p)
  PROVE  StartInv'
<1>1. PICK m : m = proc[p].row OBVIOUS
<1>2. PICK r : r = [proc[p] EXCEPT !.at = "store"] OBVIOUS
<1>3. r \in StartTypes BY <1>2, StartTyped DEF StartTypes
<1>4. proc' = [proc EXCEPT ![p] = r] BY <1>2 DEF Start!Publishes, Start!Goes, StartInv
<1>5. proc[p].at = "publish" /\ m \in Messages BY <1>1, StartTyped DEF Start!Publishes, StartIsRight, StartIsPlaced
<1>6. r.at = "store" /\ r.row = m /\ r.flags = proc[p].flags /\ r.todo = proc[p].todo
  BY <1>1, <1>2, <1>5, StartTyped DEF StartTypes
<1>7. StartIsTyped /\ RootsAreWhole /\ HasFiles(proc[p]) /\ StartIsRight(proc[p])
  BY StartTyped DEF StartInv, FoundIsKept, StartIsRight
<1>8. UNCHANGED <<version, receives, owner, config, scope, linked, bare, unread, saved, original, chosen, overtaken>>
  BY DEF Start!Publishes, Start!database, Start!packages, Start!ghosts
<1>9. CASE root[m] # {}
  <2>1. UNCHANGED world BY <1>1, <1>8, <1>9 DEF Start!Publishes, Start!packages, world
  <2>2. StartIsRight(r) BY <1>5, <1>6, <1>7, <1>9 DEF StartIsRight, StartIsPlaced, HasBackup, SeedsFirst, HasFiles
  <2> QED BY <1>3, <1>4, <2>1, <2>2, Walks
<1>10. CASE root[m] = {}
  <2>1. root' = [root EXCEPT ![m] = staging[m]] /\ staging' = [staging EXCEPT ![m] = {}]
    BY <1>1, <1>10 DEF Start!Publishes
  <2>2. /\ root' \in [Messages -> SUBSET Start!Whole] /\ staging' \in [Messages -> SUBSET Start!Whole]
        /\ root'[m] = staging[m]
        /\ \A n \in Messages \ {m} : root'[n] = root[n] /\ staging'[n] = staging[n]
    BY <2>1, <1>5, <1>7 DEF StartIsTyped
  <2>3. Start!Whole \ unread[m] \subseteq root'[m] /\ root'[m] # {}
    <3>1. Start!Whole \ unread[m] \subseteq staging[m] BY <1>1, <1>5, <1>7, <1>10 DEF HasFiles
    <3>2. "manifest" \in Start!Whole \ unread[m] BY <1>5, <1>7 DEF Start!Whole, Start!Known, StartIsTyped
    <3> QED BY <2>2, <3>1, <3>2
  <2>4. FoundIsKept'
    <3>1. StartIsTyped' BY <2>2, <1>7, <1>8 DEF StartIsTyped
    <3>2. RootsAreWhole'
      <4>1. ASSUME NEW n \in Messages, root'[n] # {} PROVE Start!Whole \ unread[n] \subseteq root'[n]
        <5>1. CASE n = m BY <5>1, <2>3
        <5>2. CASE n # m BY <5>2, <4>1, <2>2, <1>7 DEF RootsAreWhole
        <5> QED BY <5>1, <5>2
      <4>2. ASSUME NEW n \in linked PROVE root'[n] # {}
        <5>1. n \in Messages /\ root[n] # {} BY <1>7 DEF RootsAreWhole, StartIsTyped
        <5> QED BY <5>1, <2>2, <1>10
      <4> QED BY <4>1, <4>2, <1>8 DEF RootsAreWhole, Start!Whole
    <3> QED
      BY <3>1, <3>2, <1>8
      DEF StartInv, FoundIsKept, DatabaseGrows, ChoicesAreLate, Start!BackedUpFirst, Start!ChoicesSurvive,
        Start!Image, Start!Said
  <2>5. ASSUME NEW x \in StartTypes, StartIsRight(x) PROVE StartIsRight(x)'
    <3>1. HasBackup(x)' BY <2>5, <1>8, BackupKept DEF Needs, StartIsRight
    <3>2. HasFiles(x)'
      <4>1. CASE x.row = m BY <4>1, <2>3 DEF HasFiles
      <4>2. CASE x.row \in Messages \ {m} BY <4>2, <2>2, <2>5, <1>8 DEF StartIsRight, HasFiles
      <4>3. CASE x.row \notin Messages BY <4>3, <2>5 DEF StartIsRight, StartIsPlaced, HasFiles
      <4> QED BY <4>1, <4>2, <4>3
    <3> QED BY <3>1, <3>2, <2>5, <1>8 DEF StartIsRight, StartIsPlaced, SeedsFirst
  <2>6. StartIsRight(r)'
    <3>1. HasBackup(r) BY <1>5, <1>6, <1>7 DEF StartIsRight, HasBackup
    <3>2. HasBackup(r)' BY <3>1, <1>3, <1>8, BackupKept DEF Needs
    <3> QED BY <3>2, <2>3, <1>5, <1>6, <1>7, <1>8 DEF StartIsRight, StartIsPlaced, SeedsFirst, HasFiles
  <2> QED BY <1>3, <1>4, <2>4, <2>5, <2>6, StartsOn
<1> QED BY <1>9, <1>10

\* Who links a message had the flag for it, and the backup.
LEMMA StoresStep ==
  ASSUME StartInv, NEW p \in Procs, Start!Stores(p)
  PROVE  StartInv'
<1>1. PICK m : m = proc[p].row OBVIOUS
<1>2. PICK r : r = [proc[p] EXCEPT !.at = "rows", !.row = "none", !.left = {}, !.inRoot = FALSE] OBVIOUS
<1>3. r \in StartTypes BY <1>2, StartTyped DEF StartTypes
<1>4. /\ proc' = [proc EXCEPT ![p] = r] /\ proc[p].at = "store" /\ linked' = linked \cup {m}
      /\ UNCHANGED <<version, receives, owner, config, scope, bare, staging, root, unread, saved, original, chosen,
          overtaken>>
  BY <1>1, <1>2 DEF Start!Stores, Start!NextRow, Start!packages, Start!ghosts, StartInv
<1>5. r.at = "rows" /\ r.flags = proc[p].flags /\ r.todo = proc[p].todo BY <1>2, StartTyped DEF StartTypes
<1>6. StartIsTyped /\ DatabaseGrows /\ ChoicesAreLate /\ RootsAreWhole /\ Start!BackedUpFirst /\ Start!ChoicesSurvive
  BY DEF StartInv, FoundIsKept
<1>7. StartIsRight(proc[p]) /\ m \in Messages /\ "archive" \in proc[p].flags /\ root[m] # {}
  BY <1>1, <1>4, StartTyped DEF StartIsRight, StartIsPlaced, HasFiles
<1>8. (Start!Image)' = original => Start!Image = original /\ linked' = linked
  <2>1. SUFFICES ASSUME (Start!Image)' = original PROVE Start!Image = original /\ linked' = linked
    OBVIOUS
  <2>2. original.linked = linked' /\ linked \subseteq linked' BY <2>1, <1>4 DEF Start!Image
  <2>3. linked' = linked BY <2>2, ImageTyped
  <2> QED BY <2>1, <2>3, <1>4 DEF Start!Image
<1>9. FoundIsKept'
  <2>1. StartIsTyped' BY <1>4, <1>6, <1>7 DEF StartIsTyped
  <2>2. (Start!BackedUpFirst)'
    <3>1. SUFFICES ASSUME (Start!Image)' # original, original.version > 0 PROVE original \in saved
      BY <1>4 DEF Start!BackedUpFirst
    <3>2. CASE Start!Image # original BY <3>1, <3>2, <1>6 DEF Start!BackedUpFirst
    <3>3. CASE Start!Image = original BY <3>1, <3>3, <1>4, <1>7 DEF StartIsRight, HasBackup
    <3> QED BY <3>2, <3>3
  <2>3. DatabaseGrows' /\ ChoicesAreLate' BY <1>4, <1>6 DEF DatabaseGrows, ChoicesAreLate
  <2>4. RootsAreWhole' BY <1>4, <1>6, <1>7 DEF RootsAreWhole
  <2>5. (Start!ChoicesSurvive)' BY <1>4, <1>6 DEF Start!ChoicesSurvive, Start!Said
  <2> QED BY <2>1, <2>2, <2>3, <2>4, <2>5 DEF FoundIsKept
<1>10. ASSUME NEW x \in StartTypes, StartIsRight(x) PROVE StartIsRight(x)'
  <2>1. HasBackup(x)'
    <3>1. SUFFICES ASSUME (Start!Image)' = original PROVE HasBackup(x)' BY <1>4 DEF HasBackup
    <3>2. linked' = linked /\ Start!Image = original BY <1>8, <3>1
    <3>3. UNCHANGED <<Needs, saved, original>> BY <1>4, <3>2 DEF Needs
    <3> QED BY <3>3, <1>10, BackupKept DEF StartIsRight
  <2> QED BY <2>1, <1>4, <1>10 DEF StartIsRight, StartIsPlaced, SeedsFirst, HasFiles
<1>11. StartIsRight(r)
  BY <1>4, <1>5, <1>7 DEF StartIsRight, StartIsPlaced, HasBackup, SeedsFirst, HasFiles
<1>12. StartIsRight(r)' BY <1>3, <1>10, <1>11
<1> QED BY <1>3, <1>4, <1>9, <1>10, <1>12, StartsOn

LEMMA FillsContactsStep ==
  ASSUME StartInv, NEW p \in Procs, Start!FillsContacts(p)
  PROVE  StartInv'
<1>2. PICK r : r = [Start!Off EXCEPT !.at = "ready"] OBVIOUS
<1>3. r \in StartTypes /\ r.at = "ready" /\ r.flags = {} /\ r.todo = {} /\ r.read = 0 BY <1>2, OffIsRight
<1>4. /\ proc' = [proc EXCEPT ![p] = r] /\ proc[p].at = "rows" /\ bare' \subseteq bare
      /\ UNCHANGED <<version, receives, owner, config, scope, linked, staging, root, unread, saved, original,
          chosen, overtaken>>
  BY <1>2 DEF Start!FillsContacts, Start!packages, Start!ghosts
<1>5. StartIsTyped /\ StartIsPlaced(proc[p]) BY StartTyped DEF StartInv, FoundIsKept, StartIsRight
<1>6. StartIsTyped' BY <1>4, <1>5 DEF StartIsTyped
<1>7. FoundIsKept'
  BY <1>4, <1>6
  DEF StartInv, FoundIsKept, DatabaseGrows, ChoicesAreLate, RootsAreWhole, Start!BackedUpFirst,
    Start!ChoicesSurvive, Start!Image, Start!Said
<1>8. ASSUME NEW x \in StartTypes, StartIsRight(x) PROVE StartIsRight(x)'
  <2>1. \A flag : Start!Needed(flag)' => Start!Needed(flag)
    BY <1>4 DEF Start!Needed, Start!NeedsArchive, Start!NeedsAccounts, Start!NeedsAgent, Start!NeedsOutbound,
      Start!NeedsV17, Start!NeedsV171, Start!NeedsV13
  <2>2. HasBackup(x)' BY <2>1, <1>4, <1>8 DEF StartIsRight, HasBackup, Start!Image
  <2> QED BY <2>2, <1>4, <1>8 DEF StartIsRight, StartIsPlaced, SeedsFirst, HasFiles
<1>9. StartIsRight(r) BY <1>3, <1>4, <1>5 DEF StartIsRight, StartIsPlaced, HasBackup, SeedsFirst, HasFiles
<1>10. StartIsRight(r)' BY <1>3, <1>8, <1>9
<1> QED BY <1>3, <1>4, <1>7, <1>8, <1>10, StartsOn

\* The owner chooses in a version that asks: only a start that read its flags before may seed after it.
LEMMA OwnerChoosesStep ==
  ASSUME StartInv, NEW p \in Procs, Start!OwnerChooses(p)
  PROVE  StartInv'
<1>1. /\ proc[p].at = "ready"
      /\ UNCHANGED <<version, owner, linked, bare, staging, root, unread, saved, proc, original>>
  BY DEF Start!OwnerChooses, Start!packages
<1>2. StartIsTyped /\ DatabaseGrows /\ ChoicesAreLate /\ RootsAreWhole /\ Start!BackedUpFirst /\ Start!ChoicesSurvive
  BY DEF StartInv, FoundIsKept
<1>3. version = 7 BY <1>1, StartTyped DEF StartIsRight, StartIsPlaced
<1>4. \A x \in StartTypes : HasBackup(x) => HasBackup(x)' BY <1>1, BackupKept DEF Needs
<1>5. SUFFICES /\ StartIsTyped' /\ (Start!ChoicesSurvive)'
               /\ \A q \in Procs : SeedsFirst(proc[q])'
  <2>1. DatabaseGrows' /\ ChoicesAreLate' /\ RootsAreWhole' /\ (Start!BackedUpFirst)'
    BY <1>1, <1>2, <1>3 DEF DatabaseGrows, ChoicesAreLate, RootsAreWhole, Start!BackedUpFirst, Start!Image
  <2>2. ASSUME NEW q \in Procs PROVE StartIsPlaced(proc[q])' /\ HasBackup(proc[q])' /\ HasFiles(proc[q])'
    <3>1. proc[q] \in StartTypes /\ StartIsRight(proc[q]) BY StartTyped
    <3>2. PICK x \in StartTypes : x = proc[q] BY <3>1
    <3>3. HasBackup(x)' BY <3>1, <3>2, <1>4 DEF StartIsRight
    <3>4. HasBackup(proc[q])' BY <3>2, <3>3, <1>1 DEF HasBackup
    <3> QED BY <3>1, <3>4, <1>1 DEF StartIsRight, StartIsPlaced, HasFiles
  <2> QED BY <2>1, <2>2, <1>1, <1>2 DEF StartInv, FoundIsKept, StartIsRight
<1>6. \A q \in Procs : SeedsFirst(proc[q]) BY StartTyped DEF StartIsRight
<1>7. ASSUME NEW on \in BOOLEAN, receives' = on, chosen' = [chosen EXCEPT !.receives = Start!Said(on)],
             UNCHANGED <<config, scope, overtaken>>
      PROVE  StartIsTyped' /\ (Start!ChoicesSurvive)' /\ \A q \in Procs : SeedsFirst(proc[q])'
  <2>1. /\ chosen' \in [receives : {"unasked", "on", "off"}, scope : {"unasked", "nobody", "none", "own"}]
        /\ chosen'.scope = chosen.scope /\ chosen'.receives = Start!Said(on)
    BY <1>2, <1>7 DEF StartIsTyped, Start!Said
  <2>2. StartIsTyped' BY <2>1, <1>1, <1>2, <1>7 DEF StartIsTyped
  <2>3. (Start!ChoicesSurvive)' BY <2>1, <1>2, <1>7 DEF Start!ChoicesSurvive, Start!Said
  <2>4. \A q \in Procs : SeedsFirst(proc[q])' BY <2>1, <1>1, <1>6, <1>7 DEF SeedsFirst
  <2> QED BY <2>2, <2>3, <2>4
<1>8. ASSUME config' = "b", UNCHANGED <<receives, scope, chosen, overtaken>>
      PROVE  StartIsTyped' /\ (Start!ChoicesSurvive)' /\ \A q \in Procs : SeedsFirst(proc[q])'
  <2>1. StartIsTyped' BY <1>1, <1>2, <1>8 DEF StartIsTyped
  <2> QED BY <2>1, <1>1, <1>2, <1>6, <1>8 DEF Start!ChoicesSurvive, Start!Said, SeedsFirst
<1>9. ASSUME NEW may \in {"none", "own"}, scope' = may, chosen' = [chosen EXCEPT !.scope = may],
             overtaken' = \E q \in Procs : proc[q].at \notin {"off", "ready"} /\ Start!SeedsAtAll(q),
             UNCHANGED <<config, receives>>
      PROVE  StartIsTyped' /\ (Start!ChoicesSurvive)' /\ \A q \in Procs : SeedsFirst(proc[q])'
  <2>1. /\ chosen' \in [receives : {"unasked", "on", "off"}, scope : {"unasked", "nobody", "none", "own"}]
        /\ chosen'.scope = may /\ chosen'.receives = chosen.receives
    BY <1>2, <1>9 DEF StartIsTyped
  <2>0. overtaken' \in BOOLEAN BY <1>9
  <2>2. StartIsTyped' BY <2>0, <2>1, <1>1, <1>2, <1>9 DEF StartIsTyped
  <2>3. (Start!ChoicesSurvive)' BY <2>1, <1>2, <1>9 DEF Start!ChoicesSurvive, Start!Said
  <2>4. ASSUME NEW q \in Procs PROVE SeedsFirst(proc[q])'
    <3>1. "v17" \in proc[q].flags => proc[q].at \notin {"off", "ready"} BY StartTyped DEF StartIsRight, StartIsPlaced
    <3>2. "v17" \in proc[q].flags => overtaken' BY <3>1, <1>9 DEF Start!SeedsAtAll
    <3> QED BY <3>2, <1>1 DEF SeedsFirst
  <2> QED BY <2>2, <2>3, <2>4
<1> QED BY <1>5, <1>7, <1>8, <1>9 DEF Start!OwnerChooses

\* Every step keeps the invariant.
LEMMA StartStep == ASSUME Start!Known, StartInv, [Start!Next]_(Start!vars) PROVE StartInv'
<1>1. CASE UNCHANGED Start!vars
  <2>1. UNCHANGED world /\ UNCHANGED proc
    BY <1>1 DEF Start!vars, Start!database, Start!packages, Start!ghosts, world
  <2>2. FoundIsKept' BY <2>1, NothingWritten
  <2>3. ASSUME NEW q \in Procs PROVE StartIsRight(proc[q])'
    <3>1. PICK x \in StartTypes : x = proc[q] /\ StartIsRight(x) BY StartTyped
    <3>2. StartIsRight(x)' BY <3>1, <2>1, NothingWritten
    <3> QED BY <3>1, <3>2, <2>1 DEF StartIsRight, StartIsPlaced, HasBackup, SeedsFirst, HasFiles
  <2> QED BY <2>1, <2>2, <2>3 DEF StartInv
<1>2. ASSUME NEW p \in Procs,
             \/ Start!Starts(p) \/ Start!ReadsFlag(p) \/ Start!BacksUp(p) \/ Start!InitsDb(p)
             \/ Start!ReadsScope(p) \/ Start!Seeds(p)
             \/ Start!Lists(p) \/ Start!Takes(p) \/ Start!Copies(p) \/ Start!WritesManifest(p) \/ Start!Publishes(p)
             \/ Start!Stores(p) \/ Start!RowFails(p)
             \/ Start!FillsContacts(p) \/ Start!Stops(p) \/ Start!OwnerChooses(p)
      PROVE  StartInv'
  BY <1>2, StartsStep, ReadsFlagStep, BacksUpStep, InitsDbStep, ReadsScopeStep, SeedsStep, ListsStep, TakesStep,
     CopiesStep,
    WritesManifestStep, PublishesStep, StoresStep, RowFailsStep, FillsContactsStep, StopsStep, OwnerChoosesStep
<1> QED BY <1>1, <1>2 DEF Start!Next

\* A start gives an account to mail that has none.
LEMMA StartActs ==
  ASSUME [Start!Next]_(Start!vars), owner # "none"
  PROVE  owner' = owner
<1> USE DEF Start!database
<1>1. CASE UNCHANGED Start!vars BY <1>1 DEF Start!vars
<1>2. CASE Start!Next
  <2>1. PICK p \in Procs :
          \/ Start!Starts(p) \/ Start!ReadsFlag(p) \/ Start!BacksUp(p) \/ Start!InitsDb(p) \/ Start!ReadsScope(p)
          \/ Start!Seeds(p) \/ Start!Lists(p) \/ Start!Takes(p) \/ Start!Copies(p) \/ Start!WritesManifest(p)
          \/ Start!Publishes(p) \/ Start!Stores(p) \/ Start!RowFails(p) \/ Start!FillsContacts(p) \/ Start!Stops(p)
          \/ Start!OwnerChooses(p)
    BY <1>2 DEF Start!Next
  <2>2. Start!InitsDb(p) => owner' = owner BY DEF Start!InitsDb, Start!Owned
  <2>3. Start!Starts(p) \/ Start!ReadsFlag(p) \/ Start!BacksUp(p) => owner' = owner
    BY DEF Start!Starts, Start!ReadsFlag, Start!BacksUp
  <2>4. Start!ReadsScope(p) \/ Start!Seeds(p) \/ Start!Lists(p) \/ Start!Takes(p) => owner' = owner
    BY DEF Start!ReadsScope, Start!Seeds, Start!Lists, Start!Takes
  <2>5. Start!Copies(p) \/ Start!WritesManifest(p) \/ Start!Publishes(p) => owner' = owner
    BY DEF Start!Copies, Start!WritesManifest, Start!Publishes
  <2>6. Start!Stores(p) \/ Start!RowFails(p) \/ Start!FillsContacts(p) => owner' = owner
    BY DEF Start!Stores, Start!RowFails, Start!FillsContacts
  <2>7. Start!Stops(p) \/ Start!OwnerChooses(p) => owner' = owner BY DEF Start!Stops, Start!OwnerChooses
  <2> QED BY <2>1, <2>2, <2>3, <2>4, <2>5, <2>6, <2>7
<1> QED BY <1>1, <1>2

\* What the invariant says of the properties.
LEMMA StartSafe ==
  ASSUME StartInv
  PROVE  Start!TypeOK /\ Start!BackedUpFirst /\ Start!ChoicesSurvive /\ Start!LinkedIsWhole
<1>1. StartIsTyped /\ RootsAreWhole /\ Start!BackedUpFirst /\ Start!ChoicesSurvive BY DEF StartInv, FoundIsKept
<1>2. Start!TypeOK
  <2>1. \A m \in Messages : staging[m] \subseteq Start!Whole /\ root[m] \subseteq Start!Whole BY <1>1 DEF StartIsTyped
  <2>2. \A p \in Procs : proc[p].todo \subseteq Messages /\ proc[p].left \subseteq Files BY StartTyped
  <2> QED BY <2>1, <2>2, <1>1 DEF StartIsTyped, Start!TypeOK
<1>3. Start!LinkedIsWhole BY <1>1 DEF RootsAreWhole, StartIsTyped, Start!LinkedIsWhole
<1> QED BY <1>1, <1>2, <1>3

-----------------------------------------------------------------------------
(* AccountDialogs: a dialog that was asked to close waits for what it       *)
(* started.                                                                 *)

\* A test that a dialog of the older kind waits for is the only work it has left.
ClosesLast == kind = "gmail" /\ closeAfterTest => ~Dialog!Active
DialogInv ==
  /\ Dialog!TypeOK /\ kind \in {"gmail", "qq", "runtime"} /\ closeAfterTest \in BOOLEAN /\ settings \in Nat
  /\ ClosesLast /\ Dialog!DialogOutlivesItsWork /\ Dialog!SessionKeepsItsSettings

\* The invariant holds at the start.
LEMMA DialogInit == ASSUME Dialog!Init PROVE DialogInv
BY DEF Dialog!Init, DialogInv, Dialog!TypeOK, ClosesLast, Dialog!DialogOutlivesItsWork,
  Dialog!SessionKeepsItsSettings,
       Dialog!Active, Dialog!Testing

\* Every step keeps the invariant.
LEMMA DialogStep ==
  ASSUME DialogInv, [Dialog!Next]_(Dialog!vars)
  PROVE  DialogInv'
<1> USE DEF DialogInv, Dialog!TypeOK, ClosesLast, Dialog!DialogOutlivesItsWork, Dialog!SessionKeepsItsSettings,
            Dialog!Active, Dialog!Testing
<1>1. CASE Dialog!Authorizes BY <1>1 DEF Dialog!Authorizes, Dialog!MayAuthorize
<1>2. CASE Dialog!Tests BY <1>2 DEF Dialog!Tests, Dialog!MayTest
<1>3. CASE Dialog!Looks BY <1>3 DEF Dialog!Looks
<1>4. CASE Dialog!Cancels BY <1>4 DEF Dialog!Cancels
<1>5. CASE Dialog!Saves BY <1>5 DEF Dialog!Saves, Dialog!MaySave
<1>6. CASE Dialog!ClosesAfterOAuth BY <1>6 DEF Dialog!ClosesAfterOAuth
<1>7. CASE Dialog!ClosesAfterTest BY <1>7 DEF Dialog!ClosesAfterTest
<1>8. CASE Dialog!Closes BY <1>8 DEF Dialog!Closes
<1>9. CASE Dialog!OAuthAnswers BY <1>9 DEF Dialog!OAuthAnswers
<1>10. CASE Dialog!TestAnswers BY <1>10 DEF Dialog!TestAnswers
<1>11. CASE Dialog!ThreadEnds BY <1>11 DEF Dialog!ThreadEnds
<1>12. CASE Dialog!ShowsAnswer BY <1>12 DEF Dialog!ShowsAnswer
<1>13. CASE Dialog!OAuthEnds BY <1>13 DEF Dialog!OAuthEnds, Dialog!WaitsForTest, Dialog!Leaves
<1>14. CASE Dialog!TestEnds BY <1>14 DEF Dialog!TestEnds, Dialog!ClosesNow, Dialog!Leaves
<1>15. CASE Dialog!Exits BY <1>15 DEF Dialog!Exits
<1>16. CASE Dialog!Gone BY <1>16 DEF Dialog!Gone
<1>17. CASE UNCHANGED Dialog!vars BY <1>17 DEF Dialog!vars
<1> QED
  BY <1>1, <1>2, <1>3, <1>4, <1>5, <1>6, <1>7, <1>8, <1>9, <1>10, <1>11, <1>12, <1>13, <1>14, <1>15, <1>16, <1>17
  DEF Dialog!Next, Dialog!User, Dialog!Workers, Dialog!Events

-----------------------------------------------------------------------------
(* The parts together.                                                      *)

\* What every part keeps, whichever one a behaviour is about.
PartsInv == /\ turn \in {"config", "oauth", "care", "start", "dialog"}
            /\ ConfigInv /\ OAuthInv /\ CareInv /\ StartInv /\ DialogInv

\* A step of one part is a step of it, and leaves the variables of the others alone.
LEMMA StepsOfParts ==
  ASSUME [Next]_vars
  PROVE  /\ UNCHANGED turn
         /\ [Config!Next]_(Config!vars)
         /\ [OAuth!Next]_(OAuth!vars)
         /\ [Care!Next]_(Care!vars)
         /\ [Start!Next]_(Start!vars)
         /\ [Dialog!Next]_(Dialog!vars)
<1>1. CASE UNCHANGED vars
  <2>1. [Config!Next]_(Config!vars) BY <1>1 DEF vars, configVars, Config!vars
  <2>2. [OAuth!Next]_(OAuth!vars) BY <1>1 DEF vars, oauthVars, OAuth!vars
  <2>3. [Care!Next]_(Care!vars) BY <1>1 DEF vars, careVars, Care!vars
  <2>4. [Start!Next]_(Start!vars)
    BY <1>1 DEF vars, startVars, Start!vars, Start!database, Start!packages, Start!ghosts
  <2>5. [Dialog!Next]_(Dialog!vars) BY <1>1 DEF vars, dialogVars, Dialog!vars
  <2> QED BY <1>1, <2>1, <2>2, <2>3, <2>4, <2>5 DEF vars
<1>2. CASE Next
  <2>1. UNCHANGED configVars <=> UNCHANGED Config!vars BY DEF configVars, Config!vars
  <2>2. UNCHANGED oauthVars <=> UNCHANGED OAuth!vars BY DEF oauthVars, OAuth!vars
  <2>3. UNCHANGED careVars <=> UNCHANGED Care!vars BY DEF careVars, Care!vars
  <2>4. UNCHANGED startVars <=> UNCHANGED Start!vars
    BY DEF startVars, Start!vars, Start!database, Start!packages, Start!ghosts
  <2>5. UNCHANGED dialogVars <=> UNCHANGED Dialog!vars BY DEF dialogVars, Dialog!vars
  <2>6. CASE turn = "config" /\ Config!Next /\ UNCHANGED <<turn, oauthVars, careVars, startVars, dialogVars>>
    BY <2>2, <2>3, <2>4, <2>5, <2>6
  <2>7. CASE turn = "oauth" /\ OAuth!Next /\ UNCHANGED <<turn, configVars, careVars, startVars, dialogVars>>
    BY <2>1, <2>3, <2>4, <2>5, <2>7
  <2>8. CASE turn = "care" /\ Care!Next /\ UNCHANGED <<turn, configVars, oauthVars, startVars, dialogVars>>
    BY <2>1, <2>2, <2>4, <2>5, <2>8
  <2>9. CASE turn = "start" /\ Start!Next /\ UNCHANGED <<turn, configVars, oauthVars, careVars, dialogVars>>
    BY <2>1, <2>2, <2>3, <2>5, <2>9
  <2>10. CASE turn = "dialog" /\ Dialog!Next /\ UNCHANGED <<turn, configVars, oauthVars, careVars, startVars>>
    BY <2>1, <2>2, <2>3, <2>4, <2>10
  <2> QED BY <1>2, <2>6, <2>7, <2>8, <2>9, <2>10 DEF Next
<1> QED BY <1>1, <1>2

\* The invariant of every behaviour.
THEOREM Invariance == Spec => []PartsInv
<1>1. Init => PartsInv
  BY ConfigInit, OAuthInit, CareInit, StartInit, DialogInit, ConfigIsBounded, CallersAreApart, TroublesAreSorted,
     VersionsAreKnown DEF Init, PartsInv
<1>2. PartsInv /\ [Next]_vars => PartsInv'
  <2> SUFFICES ASSUME PartsInv, [Next]_vars PROVE PartsInv' OBVIOUS
  <2>1. ConfigInv' BY StepsOfParts, ConfigStep, ConfigIsBounded DEF PartsInv
  <2>2. OAuthInv' BY StepsOfParts, OAuthStep, CallersAreApart DEF PartsInv
  <2>3. CareInv' BY StepsOfParts, CareStep, TroublesAreSorted DEF PartsInv
  <2>4. StartInv' BY StepsOfParts, StartStep, VersionsAreKnown DEF PartsInv
  <2>5. DialogInv' BY StepsOfParts, DialogStep DEF PartsInv
  <2>6. turn' = turn BY StepsOfParts
  <2> QED BY <2>1, <2>2, <2>3, <2>4, <2>5, <2>6 DEF PartsInv
<1>3. QED BY <1>1, <1>2, PTL DEF Spec

\* Every variable of every part has its type.
THEOREM EverythingIsTyped == Spec => []TypesOK
<1>1. PartsInv => TypesOK
  <2> SUFFICES ASSUME PartsInv PROVE TypesOK OBVIOUS
  <2>1. Config!TypeOK /\ OAuth!TypeOK /\ Care!TypeOK /\ Start!TypeOK /\ Dialog!TypeOK
    BY ConfigSafe, OAuthSafe, CareSafe, StartSafe, ConfigIsBounded, TroublesAreSorted DEF PartsInv, DialogInv
  <2> QED BY <2>1 DEF PartsInv, TypesOK
<1>2. QED BY <1>1, Invariance, PTL

\* apply_client_config, restore_client_config, rotate_client_token and _prune_agent_config_backups: the
\* latest edit of the other program stays in the file, unless it fell between a check and its write;
\* keyring, row and file have the same token whenever no task is under way, unless a death, a revocation
\* or a failed rollback is known; pruning leaves a backup when there was one.
THEOREM ConfigIsAlwaysKept == Spec => ConfigIsKept
<1>1. PartsInv => (turn = "config" => Config!NoEditIsLost /\ Config!RotationIsAtomic)
  BY ConfigSafe, ConfigIsBounded DEF PartsInv
<1>2. PartsInv /\ [Next]_vars =>
        [Config!Prunes /\ (\E i \in Config!Rows : backups[i].there)
           => \E i \in Config!Rows' : backups'[i].there]_(Config!vars)
  BY ConfigActs, ConfigIsBounded DEF PartsInv
<1>3. QED BY <1>1, <1>2, Invariance, PTL DEF Spec, ConfigIsKept, Config!LastBackupSurvives

\* GmailOAuthSession, get_gmail_api_service and the account dialogs: no step of a session is one its own
\* table refuses, only a success saves a token, a verified session leaves a token of its own account, and
\* a refresh replaces the very token it read; a dialog of the older kinds stays open for the session and
\* the test it began.
THEOREM SessionIsAlwaysRight == Spec => SessionIsRight
<1>1. PartsInv => (turn = "oauth" =>
    OAuth!NoTransitionIsRejected /\ OAuth!OnlySuccessSaves /\ OAuth!AuthorizedIsRight)
  BY OAuthSafe DEF PartsInv
<1>2. PartsInv => (turn = "dialog" => Dialog!DialogOutlivesItsWork /\ Dialog!SessionKeepsItsSettings)
  BY DEF PartsInv, DialogInv
<1>3. PartsInv /\ [Next]_vars =>
        [\A r \in Readers : OAuth!Refreshes(r) /\ token' # token => token = reader[r].seen]_(OAuth!vars)
  BY OAuthActs DEF PartsInv
<1>4. QED BY <1>1, <1>2, <1>3, Invariance, PTL DEF Spec, SessionIsRight, OAuth!RefreshReplacesItsToken

\* apply_consistency_repair, scan_consistency and restore_backup: a repair was backed up before it changed
\* anything, and changes a trouble that is there; a scan says of a trouble that was there all along, or
\* not at all, what is so; the audit is true across every restore, and no row is lost but those written
\* while one runs.
THEOREM RepairIsAlwaysCareful == Spec => RepairIsCareful
<1>1. PartsInv => (turn = "care" => Care!AuditIsTrue /\ Care!NothingIsLost)
  BY CareSafe, TroublesAreSorted DEF PartsInv
<1>2. PartsInv /\ [Next]_vars =>
        /\ [\A i \in DOMAIN db.audit :
              Care!RepairsBy(i) =>
                /\ db.audit[i].status = "executing"
                /\ db.audit[i].copy \in DOMAIN copies
                /\ i \in DOMAIN copies[db.audit[i].copy].audit
                /\ copies[db.audit[i].copy].audit[i].status = "awaiting_backup"]_(Care!vars)
        /\ [\A i \in DOMAIN db.audit : Care!RepairsBy(i) => db.audit[i].issue \in db.trouble]_(Care!vars)
        /\ [db'.newest > db.newest /\ job' = Care!NoJob /\ job.at = "commit" =>
              \A i \in Issues : /\ i \in steady.there => db'.health[i] = "open"
                                /\ i \in steady.absent => db'.health[i] # "open"]_(Care!vars)
  BY StepsOfParts, CareActs, TroublesAreSorted DEF PartsInv
<1>3. QED BY <1>1, <1>2, Invariance, PTL
  DEF Spec, RepairIsCareful, Care!RepairIsBackedUp, Care!PassedTroubleIsLeft, Care!ScanIsCurrent

\* initialize and backfill_legacy_mail_packages: nothing is migrated before it was backed up, what the
\* owner chose and the accounts of older mail stay, but for a start that read its flags before he chose,
\* and a linked message has its package whole, with any number of starts at once and broken off anywhere.
THEOREM StartIsAlwaysSafe == Spec => StartIsSafe
<1>1. PartsInv => (turn = "start" => Start!BackedUpFirst /\ Start!ChoicesSurvive /\ Start!LinkedIsWhole)
  BY StartSafe DEF PartsInv
<1>2. PartsInv /\ [Next]_vars => [owner # "none" => owner' = owner]_owner
  BY StepsOfParts, StartActs DEF PartsInv
<1>3. QED BY <1>1, <1>2, Invariance, PTL DEF Spec, StartIsSafe, Start!OwnershipStays
=============================================================================
