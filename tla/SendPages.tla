------------------------------ MODULE SendPages ----------------------------
(* The pages of the requests that wait for their owner: the list of pending *)
(* ones with the page of one of them, and the selector of those whose end   *)
(* is in doubt.  Both show what was read some time ago; the agents, time    *)
(* and the evidence of received mail go on, also under an open question.    *)
EXTENDS Naturals, Sequences, FiniteSetsExt

CONSTANTS Requests, MaxAsks   \* bounds: ids, in the order of their creation; answers of the owner

Known == Requests \subseteq Nat \ {0} /\ IsFiniteSet(Requests)   \* 0 stands for no request

Statuses == {"none", "pending", "sending", "sent", "reconciled", "archive_failed", "unknown", "failed",
             "cancelled", "expired", "not_sent"}

VARIABLES
  store,     \* status of the request with this id
  due,       \* those whose expires_at has passed
  mails,     \* how often the SMTP server was given it
  rows,      \* pending_send_rows
  current,   \* current_pending_send_request, 0 when there is none
  page,      \* "list" or "detail"
  kept,      \* recovery_request_rows: the status each had when it was listed
  picked,    \* the one the selector stands on, 0 when it is empty
  armed,     \* the recovery buttons that are enabled
  question,  \* the open question and the request it was asked for
  task,      \* the task of the pool
  asked,     \* the owner's answers a task was begun for, in order
  told       \* what those tasks asked of the service, in order

storeVars == <<store, due, mails>>
pendingVars == <<rows, current, page>>
recoveryVars == <<kept, picked, armed>>
ghosts == <<asked, told>>
vars == <<storeVars, pendingVars, recoveryVars, question, task, ghosts>>

NoTask == [kind |-> "none", what |-> 0, at |-> "idle", snap |-> {}, result |-> "none"]
TaskOf(kind, r) == [kind |-> kind, what |-> r, at |-> "runs", snap |-> {}, result |-> "none"]

Init ==
  /\ store = [r \in Requests |-> "none"] /\ due = {} /\ mails = [r \in Requests |-> 0]
  /\ rows = {} /\ current = 0 /\ page = "list"
  /\ kept = <<>> /\ picked = 0 /\ armed = {}
  /\ question = <<>> /\ task = NoTask /\ asked = <<>> /\ told = <<>>

With(status) == {r \in Requests : store[r] = status}
\* expire_due_send_requests, before the pending ones are listed and before one is cancelled
Expired == [r \in Requests |-> IF store[r] = "pending" /\ r \in due THEN "expired" ELSE store[r]]
Listed == With("pending") \ due
InDoubt == With("unknown") \cup With("archive_failed")

-----------------------------------------------------------------------------
\* Agents in confirm mode ask for mails, time runs out, a received copy shows that a mail was sent.
Submits ==
  /\ With("none") # {}
  /\ store' = [store EXCEPT ![Min(With("none"))] = "pending"]
  /\ UNCHANGED <<due, mails, pendingVars, recoveryVars, question, task, ghosts>>

TimePasses ==
  /\ \E r \in With("pending") \ due : due' = due \cup {r}
  /\ UNCHANGED <<store, mails, pendingVars, recoveryVars, question, task, ghosts>>

ObservesCopy ==
  /\ \E r \in Requests :
       /\ store[r] \in {"sent", "archive_failed", "unknown"} /\ mails[r] > 0
       /\ store' = [store EXCEPT ![r] = "reconciled"]
  /\ UNCHANGED <<due, mails, pendingVars, recoveryVars, question, task, ghosts>>

-----------------------------------------------------------------------------
\* The owner in front of the window; an open question takes every click.
Free == question = <<>>
Busy == task # NoTask

\* A list is asked for by its button, refused while a task runs.
Refreshes ==
  /\ Free /\ ~Busy
  /\ \E kind \in {"list", "recovery"} : task' = TaskOf(kind, 0)
  /\ UNCHANGED <<storeVars, pendingVars, recoveryVars, question, ghosts>>

OpensRow ==
  /\ Free /\ page = "list"
  /\ \E r \in rows : current' = r
  /\ page' = "detail"
  /\ UNCHANGED <<storeVars, rows, recoveryVars, question, task, ghosts>>

Armed(listed, r) == IF r # 0 /\ listed[r] = "unknown" THEN {"sent", "not_sent", "clone"} ELSE {}
Picks ==
  /\ Free /\ \E r \in DOMAIN kept \ {picked} : picked' = r
  /\ armed' = Armed(kept, picked')
  /\ UNCHANGED <<storeVars, pendingVars, kept, question, task, ghosts>>

AsksToConfirm ==
  /\ Free /\ page = "detail" /\ current # 0 /\ Len(asked) < MaxAsks
  /\ question' = <<[kind |-> "confirm", what |-> current]>>
  /\ UNCHANGED <<storeVars, pendingVars, recoveryVars, task, ghosts>>

AsksRecovery ==
  /\ Free /\ picked # 0 /\ Len(asked) < MaxAsks
  /\ \E kind \in armed : question' = <<[kind |-> kind, what |-> picked]>>
  /\ UNCHANGED <<storeVars, pendingVars, recoveryVars, task, ghosts>>

SaysNo ==
  /\ ~Free /\ question' = <<>>
  /\ UNCHANGED <<storeVars, pendingVars, recoveryVars, task, ghosts>>

\* _run_task takes the button away while its task runs; it refuses the task when another came under the question.
SaysYes ==
  /\ ~Free /\ question' = <<>>
  /\ IF Busy
     THEN UNCHANGED <<task, asked, armed>>
     ELSE /\ task' = TaskOf(question[1].kind, question[1].what)
          /\ asked' = Append(asked, question[1])
          /\ armed' = armed \ {question[1].kind}
  /\ UNCHANGED <<storeVars, pendingVars, kept, picked, told>>

StaysThere == current' = 0 /\ UNCHANGED page
\* _finish_pending_send_action of an action that went well
LeavesDetail == current' = 0 /\ page' = "list"

\* _cancel_pending_send, also to have the agent make it anew: in the GUI thread, whatever the pool is doing
CancellableSoon == {"pending", "sending", "cancelled"}
Cancellable == {"pending", "cancelled"}
Cancels ==
  /\ Free /\ page = "detail" /\ current # 0
  /\ IF Expired[current] \in Cancellable
     THEN /\ store' = [Expired EXCEPT ![current] = "cancelled"]
          /\ LeavesDetail
          /\ task' = IF Busy THEN task ELSE TaskOf("list", 0)
     ELSE store' = Expired /\ UNCHANGED <<task, current, page>>
  /\ UNCHANGED <<due, mails, rows, recoveryVars, question, ghosts>>

-----------------------------------------------------------------------------
\* In the pool thread.  What a task works on was captured when its button was pressed.
TargetNow(t) == IF t.kind = "confirm" /\ current # 0 THEN current ELSE t.what
Target(t) == t.what

Runs(kinds) == task.at = "runs" /\ task.kind \in kinds
Goes(at) == task' = [task EXCEPT !.at = at]
Ends(result) == task' = [task EXCEPT !.at = "done", !.result = result]
Tells == told' = Append(told, [kind |-> task.kind, what |-> Target(task)])
Shown == UNCHANGED <<pendingVars, recoveryVars, question, asked>>

\* list_pending_send_requests and list_send_recovery_requests
Lists ==
  /\ Runs({"list", "recovery"})
  /\ IF task.kind = "list"
     THEN store' = Expired /\ task' = [task EXCEPT !.at = "done", !.result = "ok", !.snap = Listed]
     ELSE UNCHANGED store /\ task' = [task EXCEPT !.at = "done", !.result = "ok",
                                        !.snap = {<<r, store[r]>> : r \in InDoubt}]
  /\ UNCHANGED <<due, mails, told>> /\ Shown

Fine == {"sent", "unknown", "archive_failed"}
ClaimableAgain(r) == store[r] \in {"pending", "failed", "unknown"}
Claimable(r) == store[r] = "pending"

\* confirm_agent_send_request: the authorisation is that of now, the claim takes a pending request that is not due
Confirms ==
  /\ Runs({"confirm"}) /\ Tells
  /\ LET r == Target(task) IN
     \/ Ends("failed") /\ UNCHANGED store
     \/ Claimable(r) /\ r \notin due /\ store' = [store EXCEPT ![r] = "sending"] /\ Goes("sends")
     \/ Claimable(r) /\ r \in due /\ store' = [store EXCEPT ![r] = "expired"] /\ Ends("failed")
     \/ ~Claimable(r) /\ Ends(IF store[r] \in Fine THEN "ok" ELSE "failed") /\ UNCHANGED store
  /\ UNCHANGED <<due, mails>> /\ Shown

Sends ==
  /\ task.at = "sends"
  /\ LET r == Target(task) IN
     \E outcome \in {"failed", "sent", "archive_failed", "unknown"} : \E given \in {0, 1} :
       /\ outcome = "failed" => given = 0
       /\ outcome \in {"sent", "archive_failed"} => given = 1
       /\ store' = [store EXCEPT ![r] = outcome]
       /\ mails' = [mails EXCEPT ![r] = @ + given]
       /\ Ends(IF outcome \in Fine THEN "ok" ELSE "failed")
  /\ UNCHANGED <<due, told>> /\ Shown

\* mark_agent_send_resolution: the row is read, then written; one that was sent is archived after that
MarkReads ==
  /\ Runs({"sent", "not_sent"}) /\ Tells
  /\ LET s == store[Target(task)] IN
     IF s = "unknown" \/ (s = "archive_failed" /\ task.kind = "sent") THEN Goes("marks") ELSE Ends("failed")
  /\ UNCHANGED storeVars /\ Shown

MarkWrites ==
  /\ task.at = "marks"
  /\ LET r == Target(task) IN
     \/ task.kind = "sent" /\ store' = [store EXCEPT ![r] = "archive_failed"] /\ Goes("archives")
     \/ task.kind = "sent" /\ store' = [store EXCEPT ![r] = "reconciled"] /\ Ends("ok")
     \/ task.kind = "not_sent" /\ store' = [store EXCEPT ![r] = "not_sent"] /\ Ends("ok")
  /\ UNCHANGED <<due, mails, told>> /\ Shown

MarkArchives ==
  /\ task.at = "archives" /\ Ends("ok")
  /\ \/ UNCHANGED store
     \/ store[Target(task)] = "archive_failed" /\ store' = [store EXCEPT ![Target(task)] = "sent"]
  /\ UNCHANGED <<due, mails, told>> /\ Shown

\* clone_agent_send_request: the original is read and authorised, the new request waits for its own confirmation
CloneReads ==
  /\ Runs({"clone"}) /\ Tells
  /\ \/ store[Target(task)] \in {"not_sent", "failed", "unknown"} /\ Goes("clones")
     \/ Ends("failed")
  /\ UNCHANGED storeVars /\ Shown

CloneReady == "sending"
CloneStatus == "pending"
CloneCreates ==
  /\ task.at = "clones"
  /\ IF With("none") = {}
     THEN Ends("failed") /\ UNCHANGED store
     ELSE Ends("ok") /\ store' = [store EXCEPT ![Min(With("none"))] = CloneStatus]
  /\ UNCHANGED <<due, mails, told>> /\ Shown

-----------------------------------------------------------------------------
\* refresh: the pending list among everything the window shows, read in the GUI thread
RefreshesWindow == store' = Expired /\ rows' = Listed
\* _finish_task in the GUI thread.  Tasks of the recovery page refresh the whole window first.
FinishesList ==
  /\ task.at = "done" /\ task.kind = "list"
  /\ rows' = task.snap /\ task' = NoTask
  /\ UNCHANGED <<storeVars, current, page, recoveryVars, question, ghosts>>

\* an action that went well is followed by the list read anew
FinishesConfirm ==
  /\ task.at = "done" /\ task.kind = "confirm"
  /\ IF task.result = "ok"
     THEN LeavesDetail /\ task' = TaskOf("list", 0)
     ELSE task' = NoTask /\ UNCHANGED <<current, page>>
  /\ UNCHANGED <<storeVars, rows, recoveryVars, question, ghosts>>

\* _populate_recovery_request_selector: the selector keeps its place, or stands on the newest
FinishesRecovery ==
  /\ task.at = "done" /\ task.kind = "recovery"
  /\ RefreshesWindow
  /\ kept' = [r \in {row[1] : row \in task.snap} |-> (CHOOSE row \in task.snap : row[1] = r)[2]]
  /\ picked' = IF picked \in DOMAIN kept' THEN picked ELSE IF DOMAIN kept' = {} THEN 0 ELSE Max(DOMAIN kept')
  /\ armed' = Armed(kept', picked')
  /\ task' = NoTask
  /\ UNCHANGED <<due, mails, current, page, question, ghosts>>

\* the button of the task is enabled again, whatever the selector now stands on, until the new listing comes
FinishesAction ==
  /\ task.at = "done" /\ task.kind \in {"sent", "not_sent", "clone"}
  /\ RefreshesWindow
  /\ armed' = armed \cup {task.kind}
  /\ task' = TaskOf("recovery", 0)
  /\ UNCHANGED <<due, mails, current, page, kept, picked, question, ghosts>>

Others == Submits \/ TimePasses \/ ObservesCopy
Owner ==
  \/ Refreshes \/ OpensRow \/ Picks \/ AsksToConfirm \/ AsksRecovery \/ SaysNo \/ SaysYes \/ Cancels
Pool == Lists \/ Confirms \/ Sends \/ MarkReads \/ MarkWrites \/ MarkArchives \/ CloneReads \/ CloneCreates
Finishes == FinishesList \/ FinishesConfirm \/ FinishesRecovery \/ FinishesAction
Next == Others \/ Owner \/ Pool \/ Finishes

Spec == Init /\ [][Next]_vars

TypeOK ==
  /\ store \in [Requests -> Statuses] /\ due \subseteq Requests /\ mails \in [Requests -> Nat]
  /\ rows \subseteq Requests /\ current \in Requests \cup {0} /\ page \in {"list", "detail"}
  /\ DOMAIN kept \subseteq Requests /\ picked \in Requests \cup {0} /\ Len(question) <= 1

\* What the service is asked to do is, one by one, what the owner said yes to, for the request that was on the page
\* when the button was pressed: neither a request opened since nor one that a new listing put in its place.
OnlyAskedIsDone ==
  /\ Len(told) <= Len(asked)
  /\ \A k \in DOMAIN told : told[k] = asked[k]
\* A request, a copy of another among them, is given to the server once at most and only after its own yes; one that
\* was cancelled never is, even while its confirmation was on its way.
OnlyConfirmedIsSent ==
  \A r \in Requests :
    /\ mails[r] <= 1
    /\ store[r] \in {"sending", "sent", "archive_failed", "unknown"} \/ mails[r] > 0
         => \E k \in DOMAIN asked : asked[k] = [kind |-> "confirm", what |-> r]
    /\ store[r] = "cancelled" => mails[r] = 0
CancelledStays == [][\A r \in Requests : store[r] = "cancelled" => store'[r] = "cancelled"]_store
\* The page of a request is left when that request has been dealt with: it never shows one that its buttons no longer
\* know.
DetailIsKnown == page = "detail" => current # 0
=============================================================================
