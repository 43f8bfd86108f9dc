------------------------------- MODULE MCLive -------------------------------
(* The liveness of the parts: turn says which one a behaviour is about.     *)
EXTENDS Naturals, Sequences

VARIABLES
  turn,
  threadLock, legacyLock, accountLock, at, raised, died,
  auto, persisted, gui, round, tool, starts, upsets, wish, owed, raced,
  session, claimed, tokenLock, reader, token, written, oauthClient,
  validity, uid, uidnext, cp, rows, due, verdict, member, cut, s, faults,
  task, active, switch, timer, nextCheck, draft, file, picked, dialog, confirmed, mails, accepting, pendingQuit,
  quitting, gone, clicks, typing,
  kind, shown, oauth, cancelled, asSaved, testing, closeAfterOAuth, closeAfterTest, settings, sessions, tests

Locks == INSTANCE ReceiveLocks WITH
  Calls <- {"gui", "mcp", "search"}, Probes <- {"status"},
  ProcOf <- [x \in {"gui", "mcp", "search", "status"} |-> IF x = "gui" THEN "window" ELSE "server"],
  AccountOf <- [x \in {"gui", "mcp", "search", "status"} |-> "a"],
  Default <- {"mcp", "status"}, Free <- "free"

Auto == INSTANCE AutoReceive WITH
  Order <- <<"a", "b">>, Tools <- {}, Interval <- 1, Backoff <- <<2>>,
  MaxStarts <- 2, MaxUpsets <- 1

OAuth == INSTANCE OAuthSession WITH
  Sessions <- {"first", "second"}, Readers <- {"mcp"}, MaxTokens <- 1, MaxImports <- 0

Sync == INSTANCE MailboxSync WITH
  Msgs <- {"m"}, NoMsg <- "none", Cap <- 1, Overlap <- 1, MaxAttempts <- 2,
  Rescanning <- TRUE, MaxValidity <- 2, MaxFaults <- 2

Window == INSTANCE WindowTasks WITH MaxClicks <- 2, MaxTyping <- 0, MaxEdits <- 0
Dialog == INSTANCE AccountDialogs WITH MaxSessions <- 2, MaxTasks <- 3, MaxSaves <- 4

oauthVars == <<session, claimed, tokenLock, reader, token, written, oauthClient>>
locksVars == <<threadLock, legacyLock, accountLock, at, raised, died>>
autoVars == <<auto, persisted, gui, round, tool, starts, upsets, wish, owed, raced>>
syncVars == <<validity, uid, uidnext, cp, rows, due, verdict, member, cut, s, faults>>
windowVars == <<task, active, switch, timer, nextCheck, draft, file, picked, dialog, confirmed, mails, accepting,
                pendingQuit, quitting, gone, clicks, typing>>
dialogVars == <<kind, shown, oauth, cancelled, asSaved, testing, closeAfterOAuth, closeAfterTest, settings, sessions, tests>>
vars == <<turn, locksVars, autoVars, oauthVars, syncVars, windowVars, dialogVars>>

Init ==
  /\ turn \in {"locks", "auto", "oauth", "sync", "window", "dialog"}
  /\ Locks!Init /\ Auto!Init /\ OAuth!Init /\ Sync!Init
  /\ turn # "auto" => wish
  /\ Window!Init /\ (turn # "window" => switch /\ picked = 0)
  /\ Dialog!Init /\ (turn # "dialog" => kind = "qq")

Next ==
  \/ turn = "locks" /\ Locks!Next /\ UNCHANGED <<turn, autoVars, oauthVars, syncVars, windowVars, dialogVars>>
  \/ turn = "auto" /\ Auto!Next /\ UNCHANGED <<turn, locksVars, oauthVars, syncVars, windowVars, dialogVars>>
  \/ turn = "oauth" /\ OAuth!Next /\ UNCHANGED <<turn, locksVars, autoVars, syncVars, windowVars, dialogVars>>
  \/ turn = "sync" /\ Sync!Next /\ UNCHANGED <<turn, locksVars, autoVars, oauthVars, windowVars, dialogVars>>
  \/ turn = "window" /\ Window!Next /\ UNCHANGED <<turn, locksVars, autoVars, oauthVars, syncVars, dialogVars>>
  \/ turn = "dialog" /\ Dialog!Next /\ UNCHANGED <<turn, locksVars, autoVars, oauthVars, syncVars, windowVars>>

\* Fairness of the part at its turn: a call and a browser session go on; a round, a task and the clock go
\* on, the GUI is started again, and the timer does not find a task whenever it fires; the scheduler tries the
\* mailbox again and again (Fairness of MailboxSync); the window and the dialog as Fairness of WindowTasks
\* and of AccountDialogs say.
Spec ==
  /\ Init /\ [][Next]_vars
  /\ \A c \in {"gui", "mcp", "search"} : WF_vars(turn = "locks" /\ Locks!Step(c) /\ UNCHANGED <<turn, autoVars, oauthVars, syncVars, windowVars, dialogVars>>)
  /\ WF_vars(turn = "auto" /\ Auto!Starts /\ UNCHANGED <<turn, locksVars, oauthVars, syncVars, windowVars, dialogVars>>)
  /\ WF_vars(turn = "auto" /\ Auto!RoundStep /\ UNCHANGED <<turn, locksVars, oauthVars, syncVars, windowVars, dialogVars>>)
  /\ WF_vars(turn = "auto" /\ Auto!Tick /\ UNCHANGED <<turn, locksVars, oauthVars, syncVars, windowVars, dialogVars>>)
  /\ WF_vars(turn = "auto" /\ Auto!OtherTaskEnds /\ UNCHANGED <<turn, locksVars, oauthVars, syncVars, windowVars, dialogVars>>)
  /\ SF_vars(turn = "auto" /\ Auto!TimerRuns /\ UNCHANGED <<turn, locksVars, oauthVars, syncVars, windowVars, dialogVars>>)
  /\ \A o \in {"first", "second"} : WF_vars(turn = "oauth" /\ OAuth!Step(o) /\ UNCHANGED <<turn, locksVars, autoVars, syncVars, windowVars, dialogVars>>)
  /\ SF_vars(turn = "sync" /\ Sync!Selects /\ UNCHANGED <<turn, locksVars, autoVars, oauthVars, windowVars, dialogVars>>)
  /\ WF_vars(turn = "sync" /\ Sync!SessionStep /\ UNCHANGED <<turn, locksVars, autoVars, oauthVars, windowVars, dialogVars>>)
  /\ \A k \in Sync!Keys : SF_vars(turn = "sync" /\ Sync!BecomesDue(k) /\ UNCHANGED <<turn, locksVars, autoVars, oauthVars, windowVars, dialogVars>>)
  /\ WF_vars(turn = "window" /\ Window!InThePool /\ UNCHANGED <<turn, locksVars, autoVars, oauthVars, syncVars, dialogVars>>)
  /\ WF_vars(turn = "window" /\ Window!FinishesTask /\ UNCHANGED <<turn, locksVars, autoVars, oauthVars, syncVars, dialogVars>>)
  /\ WF_vars(turn = "window" /\ Window!TimerFires /\ UNCHANGED <<turn, locksVars, autoVars, oauthVars, syncVars, dialogVars>>)
  /\ WF_vars(turn = "window" /\ Window!TimePasses /\ UNCHANGED <<turn, locksVars, autoVars, oauthVars, syncVars, dialogVars>>)
  /\ WF_vars(turn = "window" /\ Window!WatchdogLooks /\ UNCHANGED <<turn, locksVars, autoVars, oauthVars, syncVars, dialogVars>>)
  /\ WF_vars(turn = "window" /\ Window!Quits /\ UNCHANGED <<turn, locksVars, autoVars, oauthVars, syncVars, dialogVars>>)
  /\ WF_vars(turn = "dialog" /\ Dialog!OAuthAnswers /\ UNCHANGED <<turn, locksVars, autoVars, oauthVars, syncVars, windowVars>>)
  /\ WF_vars(turn = "dialog" /\ Dialog!TestAnswers /\ UNCHANGED <<turn, locksVars, autoVars, oauthVars, syncVars, windowVars>>)
  /\ WF_vars(turn = "dialog" /\ Dialog!ThreadEnds /\ UNCHANGED <<turn, locksVars, autoVars, oauthVars, syncVars, windowVars>>)
  /\ WF_vars(turn = "dialog" /\ Dialog!ShowsAnswer /\ UNCHANGED <<turn, locksVars, autoVars, oauthVars, syncVars, windowVars>>)
  /\ WF_vars(turn = "dialog" /\ Dialog!OAuthEnds /\ UNCHANGED <<turn, locksVars, autoVars, oauthVars, syncVars, windowVars>>)
  /\ WF_vars(turn = "dialog" /\ Dialog!TestEnds /\ UNCHANGED <<turn, locksVars, autoVars, oauthVars, syncVars, windowVars>>)
  /\ WF_vars(turn = "dialog" /\ Dialog!Gone /\ UNCHANGED <<turn, locksVars, autoVars, oauthVars, syncVars, windowVars>>)

\* Every receive gives up its locks and every authorisation session leaves the browser, whoever dies or waits;
\* a window that was asked to leave does, and its timer comes round; a dialog that was asked to close does.
CallsReturn ==
  Locks!CallsReturn /\ OAuth!SessionsEnd /\ (turn = "window" => Window!QuitEnds /\ Window!AutoComesRound)
  /\ (turn = "dialog" => Dialog!CloseHappens)
\* An account that is due is synchronised again and again, whichever other account fails.
EveryAccountIsServed == turn = "auto" => Auto!EveryAccountIsServed
\* When failures end, a message is archived, refused or given up, and a reconciliation ends unless a message
\* was given up.
EveryMailSettles == Sync!EveryMailSettles /\ Sync!ReconciliationEnds
=============================================================================
