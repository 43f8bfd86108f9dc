----------------------------- MODULE Receiving ------------------------------
(* The parts of receiving that do not share state, in one model: turn says  *)
(* which one a behaviour is about.                                          *)
EXTENDS Naturals, Sequences

CONSTANTS
  Calls, Probes, ProcOf, AccountOf, Default, Free,          \* ReceiveLocks
  Order, Tools, Interval, Backoff, MaxStarts, MaxUpsets,    \* AutoReceive
  Segments, MaxRuns,                                        \* HistoryImport
  Providers, Tasks, MaxOps, MaxFaults                       \* Accounts

VARIABLES
  turn,
  threadLock, legacyLock, accountLock, at, raised, died,
  auto, persisted, gui, round, tool, starts, upsets, wish, owed, raced,
  job, scan, cancel, calls, clean, first,
  provider, configured, account, switch, allOn, secrets, legacySecret, remembered, token, marker, owner, tasks,
  chosen, told, cleaned, before, overtaken, ops, faults

Locks == INSTANCE ReceiveLocks
Rounds == INSTANCE AutoReceive
History == INSTANCE HistoryImport
Account == INSTANCE Accounts

ASSUME LocksAreDistinct == Locks!Distinct
ASSUME RoundsAreTabled == Rounds!Tabled
ASSUME ImportsAreBounded == History!Bounds
ASSUME AccountsAreKnown == Account!Known

locksVars == <<threadLock, legacyLock, accountLock, at, raised, died>>
autoVars == <<auto, persisted, gui, round, tool, starts, upsets, wish, owed, raced>>
historyVars == <<job, scan, cancel, calls, clean, first>>
accountVars == <<provider, configured, account, switch, allOn, secrets, legacySecret, remembered, token, marker, owner, tasks, chosen, told, cleaned, before, overtaken, ops, faults>>
vars == <<turn, locksVars, autoVars, historyVars, accountVars>>

Init ==
  /\ turn \in {"locks", "auto", "history", "account"}
  /\ Locks!Init /\ Rounds!Init /\ History!Init
  /\ Account!Init /\ (turn # "account" => provider = "other" /\ allOn)

Next ==
  \/ turn = "locks" /\ Locks!Next /\ UNCHANGED <<turn, autoVars, historyVars, accountVars>>
  \/ turn = "auto" /\ Rounds!Next /\ UNCHANGED <<turn, locksVars, historyVars, accountVars>>
  \/ turn = "history" /\ History!Next /\ UNCHANGED <<turn, locksVars, autoVars, accountVars>>
  \/ turn = "account" /\ Account!Next /\ UNCHANGED <<turn, locksVars, autoVars, historyVars>>

Spec == Init /\ [][Next]_vars

TypesOK ==
  CASE turn = "locks" -> Locks!TypeOK
    [] turn = "auto" -> Rounds!TypeOK
    [] turn = "history" -> History!TypeOK
    [] turn = "account" -> Account!TypeOK

\* The locks of application_service.receive_mails: two calls never receive for one account at once, and a
\* call that has returned, however it ended, holds none of them.
LocksExclude == turn = "locks" => Locks!OneReceivePerAccount /\ Locks!ReturnedHoldsNothing
\* The import of older mail: no segment is passed over, and a job is completed when every segment is.
HistoryIsWhole == turn = "history" => History!NoSegmentIsPassedOver /\ History!CompletedIsTrue
\* Automatic synchronisation honours what was decided while a round runs: the delay after a failure, and
\* the pause of the user.
RoundHonours == Rounds!BackoffIsHonoured /\ Rounds!PauseStopsTheRound
\* An account: it stays as its owner left it, what he was told is deleted or saved is so, and it is
\* synchronised only while he wants it.
AccountIsKept ==
  turn = "account" =>
    Account!RowIsAsChosen /\ Account!CleanedIsClean /\ Account!ToldIsTrue /\ Account!SwitchFollows
\* What the code does not keep: a job that counts a failed segment as done, and a switch put back over a change.
CompletedIsWhole == History!CompletedIsWhole
SwitchIsRestored == Rounds!SwitchIsRestored
=============================================================================
