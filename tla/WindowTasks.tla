----------------------------- MODULE WindowTasks ---------------------------
(* The main window: one slot for the task in the thread pool, the timer and *)
(* the watchdog of automatic receiving, the confirmation of a composed mail *)
(* in a dialog whose own event loop lets all of them go on, and leaving the *)
(* program from the tray.  Each action is one event of the GUI thread, or a *)
(* step of the task in its pool thread.                                     *)
EXTENDS Naturals, Sequences

CONSTANTS MaxClicks, MaxTyping, MaxEdits   \* bounds: buttons pressed, typing in the draft, edits of the file

VARIABLES
  task,       \* the task of the pool: its kind, what it works on and how far it is
  active,     \* task_active
  switch,     \* automatic receiving is on
  timer,      \* auto_timer will fire
  nextCheck,  \* next_check_at: "none", "ahead" or "passed"
  draft,      \* the text of the send page, 0 when it is empty
  file,       \* the content of the attached file
  picked,     \* SendFileSelection: its content when it was chosen, 0 when none is
  dialog,     \* the question for confirmation: what it shows, <<>> when there is none
  confirmed,  \* what the user said yes to, in this order
  mails,      \* what was handed to the service to send, and what became of it
  accepting, pendingQuit, quitting, gone,
  clicks, typing

sendVars == <<draft, picked, dialog, confirmed>>
quitVars == <<accepting, pendingQuit, quitting, gone>>
autoVars == <<switch, timer, nextCheck>>
vars == <<task, active, autoVars, file, sendVars, mails, quitVars, clicks, typing>>

NoTask == [kind |-> "none", at |-> "idle", what |-> <<>>, result |-> "none"]
TaskOf(kind, what) == [kind |-> kind, at |-> "runs", what |-> what, result |-> "none"]

Init ==
  /\ task = NoTask /\ active = FALSE
  /\ switch \in BOOLEAN /\ timer = switch /\ nextCheck = IF switch THEN "ahead" ELSE "none"
  /\ draft = 1 /\ file = 1 /\ picked \in {0, 1} /\ dialog = <<>> /\ confirmed = <<>> /\ mails = <<>>
  /\ accepting = TRUE /\ pendingQuit = FALSE /\ quitting = FALSE /\ gone = FALSE
  /\ clicks = 0 /\ typing = 0

Click == ~gone /\ clicks < MaxClicks /\ clicks' = clicks + 1
StaysActiveHistory(kind) == kind = "history"
StaysActive(kind) == FALSE
AcceptsLeaving == ~active
AcceptsBusy == accepting

\* _run_task and _start_history_rescan: refused while the program is leaving or a task is under way
Accepts == accepting /\ ~active
RunsTask(kind, what) ==
  IF Accepts
  THEN task' = TaskOf(kind, what) /\ active' = TRUE
  ELSE UNCHANGED <<task, active>>

\* The window behind the modal question takes no click.
PressesReceive ==
  /\ dialog = <<>> /\ Click
  /\ \E kind \in {"receive", "history"} : RunsTask(kind, <<>>)
  /\ UNCHANGED <<autoVars, file, sendVars, mails, quitVars, typing>>

Types ==
  /\ dialog = <<>> /\ ~gone /\ typing < MaxTyping
  /\ draft' = draft + 1 /\ typing' = typing + 1
  /\ UNCHANGED <<task, active, autoVars, file, picked, dialog, confirmed, mails, quitVars, clicks>>

EditsFile ==
  /\ file < MaxEdits + 1
  /\ file' = file + 1
  /\ UNCHANGED <<task, active, autoVars, sendVars, mails, quitVars, clicks, typing>>

Attaches ==
  /\ dialog = <<>> /\ picked # file /\ Click
  /\ picked' = file
  /\ UNCHANGED <<task, active, autoVars, file, draft, dialog, confirmed, mails, quitVars, typing>>

Unchanged(p) == p = 0 \/ p = file

\* send_composed_mail up to the question
PressesSend ==
  /\ dialog = <<>> /\ Click
  /\ ~active /\ (draft # 0 \/ picked # 0) /\ Unchanged(picked)
  /\ dialog' = <<[text |-> draft, file |-> picked]>>
  /\ UNCHANGED <<task, active, autoVars, file, draft, picked, confirmed, mails, quitVars, typing>>

\* A task may have begun while the question was open; then _run_task refuses.
SaysYes ==
  /\ dialog # <<>> /\ ~gone
  /\ dialog' = <<>>
  /\ RunsTask("send", dialog)
  /\ confirmed' = IF Accepts THEN Append(confirmed, dialog[1]) ELSE confirmed
  /\ UNCHANGED <<autoVars, file, draft, picked, mails, quitVars, clicks, typing>>

SaysNo ==
  /\ dialog # <<>>
  /\ dialog' = <<>>
  /\ UNCHANGED <<task, active, autoVars, file, draft, picked, confirmed, mails, quitVars, clicks, typing>>

-----------------------------------------------------------------------------
\* In the pool thread: a composed mail is compared with its files once more, then handed to the service.
Ends(result) == task' = [task EXCEPT !.at = "done", !.result = result]

ChecksSelection ==
  /\ task.at = "runs" /\ task.kind = "send"
  /\ IF Unchanged(task.what[1].file) THEN task' = [task EXCEPT !.at = "sends"] ELSE Ends("failed")
  /\ UNCHANGED <<active, autoVars, file, sendVars, mails, quitVars, clicks, typing>>

SendsComposition ==
  /\ task.at = "sends"
  /\ \E result \in {"sent", "sent_archive_failed", "failed"} :
       Ends(result) /\ mails' = Append(mails, [text |-> task.what[1].text, result |-> result])
  /\ UNCHANGED <<active, autoVars, file, sendVars, quitVars, clicks, typing>>

Receives ==
  /\ task.at = "runs" /\ task.kind # "send"
  /\ \E result \in {"done", "failed"} : Ends(result)
  /\ UNCHANGED <<active, autoVars, file, sendVars, mails, quitVars, clicks, typing>>

-----------------------------------------------------------------------------
\* _schedule_auto_receive
Schedules == IF switch THEN timer' = TRUE /\ nextCheck' = "ahead" ELSE UNCHANGED <<timer, nextCheck>>

\* _finish_auto_receive: the round of the accounts only sets the timer, a failed one is also written down
AfterAuto ==
  /\ UNCHANGED switch
  /\ IF switch /\ task.result = "done" THEN timer' = TRUE /\ UNCHANGED nextCheck ELSE Schedules

AfterSendAlways == draft' = 0 /\ picked' = 0
\* _show_send_result clears the page of a mail that is on its way, typed in again or not
AfterSend ==
  IF task.result \in {"sent", "sent_archive_failed"}
  THEN draft' = 0 /\ picked' = 0
  ELSE UNCHANGED <<draft, picked>>

\* _finish_task, queued to the GUI thread; a quit that waited for it follows
FinishesTask ==
  /\ task.at = "done" /\ ~gone
  /\ task' = NoTask /\ active' = StaysActive(task.kind)
  /\ IF task.kind = "auto" THEN AfterAuto ELSE UNCHANGED autoVars
  /\ IF task.kind = "send" THEN AfterSend ELSE UNCHANGED <<draft, picked>>
  /\ pendingQuit' = FALSE
  /\ quitting' = (quitting \/ pendingQuit)
  /\ UNCHANGED <<file, dialog, confirmed, mails, accepting, gone, clicks, typing>>

-----------------------------------------------------------------------------
\* _automatic_receive
TimerFires ==
  /\ timer /\ ~gone
  /\ \/ ~switch /\ timer' = FALSE /\ UNCHANGED <<switch, nextCheck, task, active>>
     \/ switch /\ active /\ Schedules /\ UNCHANGED <<switch, task, active>>
     \/ switch /\ ~active /\ timer' = FALSE /\ RunsTask("auto", <<>>) /\ UNCHANGED <<switch, nextCheck>>
  /\ UNCHANGED <<file, sendVars, mails, quitVars, clicks, typing>>

TimePasses ==
  /\ nextCheck = "ahead" /\ nextCheck' = "passed"
  /\ UNCHANGED <<task, active, switch, timer, file, sendVars, mails, quitVars, clicks, typing>>

\* every 15 seconds until the program is asked to leave
WatchdogLooks ==
  /\ accepting /\ ~gone /\ switch /\ ~active
  /\ \/ nextCheck = "none" /\ Schedules
     \/ nextCheck = "passed" /\ timer' = TRUE /\ UNCHANGED nextCheck
  /\ UNCHANGED <<task, active, switch, file, sendVars, mails, quitVars, clicks, typing>>

TogglesAuto ==
  /\ dialog = <<>> /\ Click
  /\ switch' = ~switch
  /\ IF switch' THEN timer' = TRUE /\ nextCheck' = "ahead" ELSE timer' = FALSE /\ nextCheck' = "none"
  /\ UNCHANGED <<task, active, file, sendVars, mails, quitVars, typing>>

-----------------------------------------------------------------------------
WaitsForSends == active /\ task.kind = "send"
WaitsFor == active
\* request_quit, from the tray
AsksToQuit ==
  /\ ~gone /\ accepting
  /\ accepting' = FALSE /\ timer' = FALSE
  /\ pendingQuit' = WaitsFor /\ quitting' = ~WaitsFor
  /\ UNCHANGED <<task, active, switch, nextCheck, file, sendVars, mails, gone, clicks, typing>>

\* _finalize_quit, from the event loop
Quits ==
  /\ quitting /\ ~gone
  /\ gone' = TRUE
  /\ UNCHANGED <<task, active, autoVars, file, sendVars, mails, accepting, pendingQuit, quitting, clicks, typing>>

InThePool == ChecksSelection \/ SendsComposition \/ Receives
OfTheUser == PressesReceive \/ Types \/ EditsFile \/ Attaches \/ PressesSend \/ TogglesAuto \/ AsksToQuit
Next ==
  \/ OfTheUser \/ SaysYes \/ SaysNo \/ InThePool \/ FinishesTask
  \/ TimerFires \/ TimePasses \/ WatchdogLooks \/ Quits

Spec == Init /\ [][Next]_vars

\* The pool runs what it was given and the event loop serves its events; the user answers nothing.
Fairness ==
  /\ WF_vars(InThePool) /\ WF_vars(FinishesTask) /\ WF_vars(TimerFires)
  /\ WF_vars(TimePasses) /\ WF_vars(WatchdogLooks) /\ WF_vars(Quits)
LiveSpec == Spec /\ Fairness

TypeOK ==
  /\ task.kind \in {"none", "receive", "history", "auto", "send"} /\ task.at \in {"idle", "runs", "sends", "done"}
  /\ nextCheck \in {"none", "ahead", "passed"} /\ Len(dialog) <= 1
  /\ active \in BOOLEAN /\ switch \in BOOLEAN /\ timer \in BOOLEAN

\* One task at a time, each with its flag; what goes out is, mail by mail, what the user said yes to, never twice.
OnlyConfirmedGoesOut ==
  /\ (task # NoTask) => active
  /\ Len(mails) <= Len(confirmed)
  /\ task.kind = "send" => task.what[1] = confirmed[Len(confirmed)]
  /\ \A k \in DOMAIN mails : \E j \in k..Len(confirmed) : mails[k].text = confirmed[j].text

\* A task that has begun is not displaced by another, whose callback would then take its result.
NoneIsDisplaced == [][task.at # "idle" => task'.kind \in {task.kind, "none"}]_task

\* Who asked to leave sees no new task begin; and the program leaves only when the last has been finished and shown.
LeavesInOrder ==
  /\ [][~accepting /\ task' # NoTask => task'.kind = task.kind]_task
  /\ [](gone => task = NoTask)

\* The draft is cleared by its own success alone: the page of a mail that was refused, or refused by a busy window, stays.
DraftIsKept == [][draft' = 0 /\ draft # 0 => mails # <<>> /\ mails[Len(mails)].result # "failed" /\ task.kind = "send"]_draft

\* Once asked, the program leaves; while automatic receiving is on, it comes round.
QuitEnds == ~accepting ~> gone
AutoComesRound == switch ~> (task.kind = "auto" \/ ~switch \/ ~accepting)
=============================================================================
