---------------------------- MODULE AutoReceive -----------------------------
(***************************************************************************)
(* Automatic receiving: the switch and the timer of the GUI, the round of  *)
(* sync_due_mail_accounts over the accounts that are due, the rows of      *)
(* account_sync_states that keep switch and back-off across restarts, and  *)
(* the MCP searches that refresh an account and write the same rows.       *)
(*                                                                         *)
(* Times are ticks that remain, of thirty seconds each; 0 is due.  A round *)
(* writes back the columns it read before the receive, and the GUI and the *)
(* tools write the rows meanwhile.                                         *)
(***************************************************************************)
EXTENDS Naturals, Sequences

CONSTANTS
  Order,       \* the accounts in the order of query_mail_accounts
  Tools,       \* search calls with ensure_fresh, in other processes
  Interval,    \* interval_seconds, in ticks
  Backoff,     \* the back-off table, in ticks
  MaxStarts,   \* bound on the starts of the GUI
  MaxUpsets    \* bound on the changes of the interval and the rounds that raise

Accounts == {Order[i] : i \in 1..Len(Order)}

\* An account has one row, and the last back-off of the table is the longest.
Tabled ==
  /\ Order \in Seq(Accounts) /\ Order # <<>>
  /\ \A i, j \in 1..Len(Order) : Order[i] = Order[j] => i = j
  /\ Backoff \in Seq(Nat) /\ Backoff # <<>>
  /\ \A i \in 1..Len(Backoff) : Backoff[i] <= Backoff[Len(Backoff)]
  /\ Interval \in Nat /\ MaxStarts \in Nat /\ MaxUpsets \in Nat

VARIABLES
  auto,       \* account_sync_states
  persisted,  \* auto_receive_state
  gui,        \* the GUI: up, the switch, the timer, the running task, auto_failures
  round,      \* the round of sync_due_mail_accounts under way
  tool,       \* the search calls
  starts, upsets,
  wish,       \* what the user last chose
  owed,       \* ticks left of the back-off of the last failed receive
  raced       \* a tool has written an older switch or back-off over a newer one

vars == <<auto, persisted, gui, round, tool, starts, upsets, wish, owed, raced>>

Longest == IF Interval > Backoff[Len(Backoff)] THEN Interval ELSE Backoff[Len(Backoff)]
Failures == 0..Len(Backoff)
Row == [enabled : BOOLEAN, failures : Failures, next : 0..Longest]
Down == [up |-> FALSE, switch |-> FALSE, armed |-> FALSE, task |-> "none", failures |-> 0]
NoRound == [i |-> 0, at |-> "none", age |-> 0, global |-> FALSE, row |-> [enabled |-> FALSE, failures |-> 0, next |-> 0]]
NoCall(a) == [at |-> "idle", a |-> a, before |-> 0, ok |-> TRUE, row |-> NoRound.row]

TypeOK ==
  /\ auto \in [Accounts -> Row]
  /\ persisted \in [enabled : BOOLEAN, failures : Failures]
  /\ gui \in [up : BOOLEAN, switch : BOOLEAN, armed : BOOLEAN,
              task : {"none", "round", "other"}, failures : Failures]
  /\ round \in [i : 0..Len(Order) + 1, at : {"none", "next", "receive"}, age : 0..Longest, global : BOOLEAN, row : Row]
  /\ tool \in [Tools -> [at : {"idle", "receive", "write"}, a : Accounts,
                         before : Failures, ok : BOOLEAN, row : Row]]
  /\ starts \in 0..MaxStarts /\ upsets \in 0..MaxUpsets
  /\ wish \in BOOLEAN
  /\ owed \in [Accounts -> 0..Longest]
  /\ raced \in BOOLEAN

Init ==
  /\ wish \in BOOLEAN
  /\ auto = [a \in Accounts |-> [enabled |-> wish, failures |-> 0, next |-> 0]]
  /\ persisted = [enabled |-> wish, failures |-> 0]
  /\ gui = Down
  /\ round = NoRound
  /\ tool = [t \in Tools |-> NoCall(Order[1])]
  /\ starts = 0 /\ upsets = 0
  /\ owed = [a \in Accounts |-> 0]
  /\ raced = FALSE

Capped(n) == IF n > Len(Backoff) THEN Len(Backoff) ELSE n

-----------------------------------------------------------------------------
(* save_auto_receive_state.                                                 *)

\* Without an account: the global row and, in the same transaction, every account.
\* The delays of three and five seconds are less than a tick.
BroadcastAll(enabled, failures, next) ==
  /\ persisted' = [enabled |-> enabled, failures |-> failures]
  /\ auto' = [a \in Accounts |-> [enabled |-> enabled, failures |-> failures, next |-> next]]
  /\ owed' = [a \in Accounts |-> 0]

\* _schedule_auto_receive: the failure counts stay.
BroadcastNext(next) ==
  /\ persisted' = [persisted EXCEPT !.enabled = TRUE]
  /\ auto' = [a \in Accounts |-> [auto[a] EXCEPT !.enabled = TRUE, !.next = next]]
  /\ owed' = [a \in Accounts |-> 0]

-----------------------------------------------------------------------------
(* The GUI thread.                                                          *)

\* _load_auto_receive_preferences: the switch is what the global row says.
Starts ==
  /\ ~gui.up
  /\ starts < MaxStarts
  /\ starts' = starts + 1
  /\ gui' = [up |-> TRUE, switch |-> persisted.enabled, armed |-> persisted.enabled,
             task |-> "none", failures |-> persisted.failures]
  /\ IF persisted.enabled THEN BroadcastNext(0)
     ELSE /\ auto' = [a \in Accounts |-> [auto[a] EXCEPT !.enabled = FALSE]]
          /\ UNCHANGED <<persisted, owed>>
  /\ UNCHANGED <<round, tool, upsets, wish, raced>>

\* _toggle_auto_receive: next_check_at is set to NULL, then to three seconds.
Toggles ==
  LET on == ~gui.switch
      failures == IF on THEN 0 ELSE gui.failures IN
  /\ gui.up
  /\ gui' = [gui EXCEPT !.switch = on, !.armed = on, !.failures = failures]
  /\ wish' = on
  /\ BroadcastAll(on, failures, 0)
  /\ UNCHANGED <<round, tool, starts, upsets, raced>>

\* _automatic_receive, then the head of sync_due_mail_accounts.
TimerRuns ==
  /\ gui.up /\ gui.switch /\ gui.armed /\ gui.task = "none"
  /\ gui' = [gui EXCEPT !.armed = FALSE, !.task = "round"]
  /\ round' = [NoRound EXCEPT !.i = 1, !.at = "next", !.global = persisted.enabled]
  /\ UNCHANGED <<auto, persisted, tool, starts, upsets, wish, owed, raced>>

\* A task is running: again in five seconds, which every account is told.
TimerWaits ==
  /\ gui.up /\ gui.switch /\ gui.armed /\ gui.task # "none"
  /\ BroadcastNext(0)
  /\ UNCHANGED <<gui, round, tool, starts, upsets, wish, raced>>

\* _run_task for anything else the user asks for.
OtherTaskBegins ==
  /\ gui.up /\ gui.task = "none"
  /\ gui' = [gui EXCEPT !.task = "other"]
  /\ UNCHANGED <<auto, persisted, round, tool, starts, upsets, wish, owed, raced>>

OtherTaskEnds ==
  /\ gui.up /\ gui.task = "other"
  /\ gui' = [gui EXCEPT !.task = "none"]
  /\ UNCHANGED <<auto, persisted, round, tool, starts, upsets, wish, owed, raced>>

\* The interval is changed: every account is due after the new one.
Reschedules ==
  /\ gui.up /\ gui.switch
  /\ upsets < MaxUpsets
  /\ upsets' = upsets + 1
  /\ gui' = [gui EXCEPT !.armed = TRUE]
  /\ BroadcastNext(Interval)
  /\ UNCHANGED <<round, tool, starts, wish, raced>>

\* The GUI quits or dies, in the middle of a round perhaps.
Dies ==
  /\ gui.up
  /\ starts < MaxStarts
  /\ gui' = Down
  /\ round' = NoRound
  /\ UNCHANGED <<auto, persisted, tool, starts, upsets, wish, owed, raced>>

-----------------------------------------------------------------------------
(* sync_due_mail_accounts.                                                  *)

Current == Order[round.i]
NextAccount == [round EXCEPT !.i = @ + 1, !.at = "next"]

\* Variant with a bug: the back-off of the account is not looked at.
IsDueAlways(row) == row.enabled

\* Variant with a bug: the accounts were chosen when the round began.
IsDueOfPlan(row) == row.next = 0

IsDue(row) == row.enabled /\ row.next = 0

\* The state is read when the turn of the account comes.
TakesAccount ==
  /\ round.at = "next"
  /\ round.i <= Len(Order)
  /\ round' = IF IsDue(auto[Current]) THEN [round EXCEPT !.at = "receive", !.row = auto[Current]]
              ELSE NextAccount
  /\ UNCHANGED <<auto, persisted, gui, tool, starts, upsets, wish, owed, raced>>

\* Delays count from the beginning of the round, however long the receive took.
Left(delay) == IF delay > round.age THEN delay - round.age ELSE 0

\* Enabled, next_check_at and the failure count of the row as it was read.
Saves(failures, delay) ==
  auto' = [auto EXCEPT ![Current] = [enabled |-> round.row.enabled, failures |-> failures, next |-> Left(delay)]]

\* SUCCESS, NO_CHANGES or PARTIAL.
ReceiveSucceeds ==
  /\ round.at = "receive"
  /\ Saves(0, Interval)
  /\ owed' = [owed EXCEPT ![Current] = 0]
  /\ round' = NextAccount
  /\ UNCHANGED <<persisted, gui, tool, starts, upsets, wish, raced>>

\* CANCELLED: somebody else holds the lock of the account.
ReceiveIsBusy ==
  /\ round.at = "receive"
  /\ Saves(round.row.failures, Interval)
  /\ round' = NextAccount
  /\ UNCHANGED <<persisted, gui, tool, starts, upsets, wish, owed, raced>>

\* Variant with a bug: a failing account ends the round.
AfterFailureEnds == [round EXCEPT !.i = Len(Order) + 1, !.at = "next"]

AfterFailure == NextAccount

\* FAILED, AUTH_REQUIRED or an exception: back-off for this account alone.
ReceiveFails ==
  LET failures == Capped(round.row.failures + 1) IN
  /\ round.at = "receive"
  /\ Saves(failures, Backoff[failures])
  /\ owed' = [owed EXCEPT ![Current] = Left(Backoff[failures])]
  /\ round' = AfterFailure
  /\ UNCHANGED <<persisted, gui, tool, starts, upsets, wish, raced>>

\* The global row is saved as it was read when the round began; the GUI thread
\* starts the timer again, unless the switch is off.
RoundEnds ==
  /\ round.at = "next"
  /\ round.i > Len(Order)
  /\ persisted' = [enabled |-> round.global, failures |-> 0]
  /\ gui' = [gui EXCEPT !.task = "none", !.armed = @ \/ gui.switch,
                        !.failures = IF gui.switch THEN 0 ELSE @]
  /\ round' = NoRound
  /\ UNCHANGED <<auto, tool, starts, upsets, wish, owed, raced>>

\* The round itself raises: the failure is told to every account and delays it.
RoundRaises ==
  LET failures == Capped(gui.failures + 1) IN
  /\ round.at = "next"
  /\ upsets < MaxUpsets
  /\ upsets' = upsets + 1
  /\ round' = NoRound
  /\ IF gui.switch
       THEN /\ gui' = [gui EXCEPT !.task = "none", !.armed = TRUE, !.failures = failures]
            /\ BroadcastAll(TRUE, failures, Backoff[failures])
       ELSE gui' = [gui EXCEPT !.task = "none"] /\ UNCHANGED <<auto, persisted, owed>>
  /\ UNCHANGED <<tool, starts, wish, raced>>

RoundStep ==
  TakesAccount \/ ReceiveSucceeds \/ ReceiveIsBusy \/ ReceiveFails \/ RoundEnds \/ RoundRaises

-----------------------------------------------------------------------------
(* search_mails with ensure_fresh.                                          *)

ToolStarts(t) ==
  /\ tool[t].at = "idle"
  /\ \E a \in Accounts :
       tool' = [tool EXCEPT ![t] = [NoCall(a) EXCEPT !.at = "receive", !.before = auto[a].failures]]
  /\ UNCHANGED <<auto, persisted, gui, round, starts, upsets, wish, owed, raced>>

\* A busy account ends the call; otherwise save_auto_receive_state reads the row.
ToolReads(t) ==
  /\ tool[t].at = "receive"
  /\ \/ tool' = [tool EXCEPT ![t] = NoCall(Order[1])]
     \/ \E ok \in BOOLEAN :
          tool' = [tool EXCEPT ![t] = [@ EXCEPT !.at = "write", !.ok = ok, !.row = auto[tool[t].a]]]
  /\ UNCHANGED <<auto, persisted, gui, round, starts, upsets, wish, owed, raced>>

\* ... and then writes every column of it.
ToolWrites(t) ==
  LET a == tool[t].a
      row == tool[t].row IN
  /\ tool[t].at = "write"
  /\ auto' = [auto EXCEPT ![a] = [row EXCEPT !.failures = IF tool[t].ok THEN 0 ELSE Capped(tool[t].before + 1)]]
  /\ raced' = (raced \/ row.enabled # auto[a].enabled \/ row.next < auto[a].next)
  /\ tool' = [tool EXCEPT ![t] = NoCall(Order[1])]
  /\ UNCHANGED <<persisted, gui, round, starts, upsets, wish, owed>>

\* Half a minute passes.
Tick ==
  LET Older(n) == IF n > 0 THEN n - 1 ELSE 0 IN
  /\ (\E a \in Accounts : auto[a].next > 0) \/ (round.at # "none" /\ round.age < Longest)
  /\ auto' = [a \in Accounts |-> [auto[a] EXCEPT !.next = Older(@)]]
  /\ owed' = [a \in Accounts |-> Older(owed[a])]
  /\ round' = IF round.at # "none" /\ round.age < Longest THEN [round EXCEPT !.age = @ + 1] ELSE round
  /\ UNCHANGED <<persisted, gui, tool, starts, upsets, wish, raced>>

Next ==
  \/ Starts \/ Toggles \/ TimerRuns \/ TimerWaits \/ OtherTaskBegins \/ OtherTaskEnds \/ Reschedules \/ Dies
  \/ RoundStep
  \/ \E t \in Tools : ToolStarts(t) \/ ToolReads(t) \/ ToolWrites(t)
  \/ Tick

-----------------------------------------------------------------------------
(* Properties.                                                              *)

Receives(a) == round.at = "next" /\ round'.at = "receive" /\ Current = a

\* README.md, every account backs off on its own: a receive that failed is not
\* repeated before its delay, unless the GUI has told every account a new time, or
\* a tool call has put an older row back.
BackoffIsHonoured ==
  [][\A a \in Accounts : Receives(a) => owed[a] = 0 \/ raced]_vars

\* A pause stops the round under way: after it, the round begins no receive of the
\* accounts that are left, though it goes on and writes what it has read.
PauseStopsTheRound ==
  [][\A a \in Accounts : Receives(a) => gui.switch \/ raced]_vars

\* README.md, one account that fails does not block the others: while the switch
\* stays on every account is received again and again, whatever fails.
EveryAccountIsServed ==
  <>[](gui.up /\ gui.switch /\ ~raced) =>
    \A a \in Accounts : []<>(round.at = "receive" /\ Current = a)

(* What the documents say and the code does not keep.                       *)

\* The manual of the GUI, the state of automatic receiving is restored from SQLite
\* after a restart: the switch is where the user left it.
SwitchIsRestored == gui.up => gui.switch = wish
=============================================================================
