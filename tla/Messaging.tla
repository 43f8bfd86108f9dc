----------------------------- MODULE Messaging ------------------------------
(* The parts that take messages in and send them out, which meet in no      *)
(* state of their own: turn says which one a behaviour is about.            *)
EXTENDS Naturals, Sequences, FiniteSets

CONSTANTS
  Calls, Ways, MaxVersion, MaxStarts, MaxFaults,                           \* FileSend
  Files, MaxMails, MaxTrouble,                                             \* ComposedMail
  MaxClicks, MaxTyping, MaxEdits,                                          \* WindowTasks
  Messages, Cap, LabelSets, MaxAttempts, MaxMoves, MaxRounds, MaxSlips,    \* GmailReceive
  Requests, MaxAsks                                                        \* SendPages

VARIABLES
  turn,
  way, source, fileConfirmed, staged, row, outbound, resource, call, inbox, fileAnswered, lost, starts, fileFaults,
  file, n, at, i, sha, copy, message, out, res, sentRows, taken, answered, told, trouble,
  task, active, switch, timer, nextCheck, draft, shown, picked, dialog, confirmed, mails, accepting, pendingQuit,
  quitting, gone, clicks, typing,
  backend, labels, deleted, arrived, recent, mailboxes, verdict, member, rows, due, scan, seen, torn, moves,
  rounds, faults,
  store, isDue, given, pending, current, page, kept, chosen, armed, question, pageTask, asked, requested

File == INSTANCE FileSend WITH confirmed <- fileConfirmed, answered <- fileAnswered, faults <- fileFaults
Mail == INSTANCE ComposedMail WITH MaxFaults <- MaxTrouble
Window == INSTANCE WindowTasks WITH file <- shown
Gmail == INSTANCE GmailReceive WITH gone <- deleted, MaxFaults <- MaxSlips
Pages == INSTANCE SendPages WITH
  due <- isDue, mails <- given, rows <- pending, picked <- chosen, task <- pageTask, told <- requested

ASSUME EntriesAreKnown == File!Known
ASSUME MailsAreBounded == Mail!Bounded
ASSUME RequestsAreKnown == Pages!Known
ASSUME LabelsAreKnown == Gmail!Known

fileVars == <<way, source, fileConfirmed, staged, row, outbound, resource, call, inbox, fileAnswered, lost, starts, fileFaults>>
mailVars == <<file, n, at, i, sha, copy, message, out, res, sentRows, taken, answered, told, trouble>>
windowVars == <<task, active, switch, timer, nextCheck, draft, shown, picked, dialog, confirmed, mails, accepting,
                pendingQuit, quitting, gone, clicks, typing>>
gmailVars == <<backend, labels, deleted, arrived, recent, mailboxes, verdict, member, rows, due, scan, seen, torn,
               moves, rounds, faults>>
pageVars == <<store, isDue, given, pending, current, page, kept, chosen, armed, question, pageTask, asked, requested>>
vars == <<turn, fileVars, mailVars, windowVars, gmailVars, pageVars>>

Init ==
  /\ turn \in {"file", "mail", "window", "gmail", "pages"}
  /\ File!Init /\ (turn # "file" => way = "cli")
  /\ Mail!Init
  /\ Window!Init /\ (turn # "window" => switch /\ picked = 0)
  /\ Gmail!Init /\ (turn # "gmail" => backend = "imap")
  /\ Pages!Init

Next ==
  \/ turn = "file" /\ File!Next /\ UNCHANGED <<turn, mailVars, windowVars, gmailVars, pageVars>>
  \/ turn = "mail" /\ Mail!Next /\ UNCHANGED <<turn, fileVars, windowVars, gmailVars, pageVars>>
  \/ turn = "window" /\ Window!Next /\ UNCHANGED <<turn, fileVars, mailVars, gmailVars, pageVars>>
  \/ turn = "gmail" /\ Gmail!Next /\ UNCHANGED <<turn, fileVars, mailVars, windowVars, pageVars>>
  \/ turn = "pages" /\ Pages!Next /\ UNCHANGED <<turn, fileVars, mailVars, windowVars, gmailVars>>

Spec == Init /\ [][Next]_vars

TypesOK ==
  CASE turn = "file" -> File!TypeOK
    [] turn = "mail" -> Mail!TypeOK
    [] turn = "window" -> Window!TypeOK
    [] turn = "gmail" -> Gmail!TypeOK
    [] turn = "pages" -> Pages!TypeOK
\* What is sent: one mail for a request whose answer was not lost, with the content that was hashed, recorded
\* as it was taken; a composed mail's end and its rows say what became of each attachment; the window sends
\* what was confirmed, keeps its task, its draft and its leaving in order; what the pages of waiting requests ask of
\* the service is what the owner said yes to, and a request is sent after that alone, once, unless it was cancelled.
SendsAreTrue ==
  /\ File!SentOnce /\ [](turn = "file" => File!SentAsHashed /\ File!RowIsTrue)
  /\ [](turn = "mail" => Mail!FinalStateIsTrue /\ Mail!RowsFollowTheMail)
  /\ [](turn = "window" => Window!OnlyConfirmedGoesOut) /\ Window!NoneIsDisplaced /\ Window!LeavesInOrder /\ Window!DraftIsKept
  /\ [](turn = "pages" => Pages!OnlyAskedIsDone /\ Pages!OnlyConfirmedIsSent /\ Pages!DetailIsKnown) /\ Pages!CancelledStays
\* What a round over a Gmail account takes in: each message it listed is settled or waits, a package has the
\* labels last seen, and what is archived stays so.
MailIsTakenIn == [](turn = "gmail" => Gmail!RoundIsWhole /\ Gmail!LabelsAreTrue) /\ Gmail!ArchivedStays
=============================================================================
