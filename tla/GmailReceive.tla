---------------------------- MODULE GmailReceive ---------------------------
(* The two receivers of a Gmail account that keep no checkpoint: the API    *)
(* (label by label, page by page, with the labels of each message) and the  *)
(* older IMAP one (the newest of the INBOX).  A usual round looks back over *)
(* a window, cuts the list at a cap and adds the failed messages whose time *)
(* has come; a rescan of a range takes each page as it comes.  Labels move, *)
(* messages go, calls of the server and of the database fail, the user      *)
(* cancels and the process dies, at any moment.                             *)
EXTENDS Naturals, Sequences, FiniteSets, SequencesExt

CONSTANTS
  Messages,           \* how many messages, numbered in the order they came
  Cap,                \* receive_scan_cap, and the cap of a rescan
  LabelSets,          \* the sets of labels that a message may have
  MaxAttempts,        \* RECEIVE_RETRY_TERMINAL_COUNT
  MaxMoves, MaxRounds, MaxFaults   \* bounds: changes at the server, rounds, failures

\* what the proofs ask of the bounds: a row can be written at all
Known ==
  LabelSets \subseteq SUBSET {"INBOX", "SENT", "work"} /\ Messages \in Nat /\ Cap \in Nat /\ MaxAttempts \in Nat \ {0}

VARIABLES
  backend,   \* "gmail_api" or "imap"
  labels,    \* the labels of each message at the server
  gone,      \* the messages deleted there
  arrived,   \* messages so far
  recent,    \* those that the look-back window reaches
  mailboxes, \* the labels that mailboxes has rows for
  verdict,   \* of each message: "none", "refused", "partial" or "ready"
  member,    \* where each message is, by mail_package_mailboxes
  rows, due, \* receive_retries, and those whose time has come
  scan,      \* the round under way
  seen,      \* the labels that the last complete look at each message found
  torn,      \* messages whose processing a death cut off, until they are next processed
  moves, rounds, faults

Msgs == 1..Messages
INBOX == "INBOX"
SENT == "SENT"
Labels == {INBOX, SENT, "work"}
Synced == {INBOX, SENT}     \* sync_enabled of a new label row

server == <<labels, gone, arrived, recent>>
facts == <<verdict, member>>
retries == <<rows, due>>
ghosts == <<seen, torn>>
vars == <<backend, server, mailboxes, facts, retries, scan, ghosts, moves, rounds, faults>>

\* at: where the round is; left: the labels still to list; last: the page token; n: how many of this label
NoScan == [at |-> "idle", rescan |-> FALSE, left |-> <<>>, last |-> 0, n |-> 0, todo |-> <<>>,
           m |-> 0, got |-> {}, partial |-> FALSE, told |-> "", must |-> {}, handled |-> {}]

Init ==
  /\ backend \in {"gmail_api", "imap"}
  /\ labels = [m \in Msgs |-> {}] /\ gone = {} /\ arrived = 0 /\ recent = {}
  /\ mailboxes = {} /\ verdict = [m \in Msgs |-> "none"] /\ member = [m \in Msgs |-> {}]
  /\ rows = [m \in Msgs |-> 0] /\ due = {}
  /\ scan = NoScan /\ seen = [m \in Msgs |-> {}] /\ torn = {}
  /\ moves = 0 /\ rounds = 0 /\ faults = 0

Api == backend = "gmail_api"
Fault == faults < MaxFaults /\ faults' = faults + 1
Goes(s) == scan' = s
At(where) == [scan EXCEPT !.at = where]

-----------------------------------------------------------------------------
Arrives ==
  /\ arrived < Messages
  /\ arrived' = arrived + 1 /\ recent' = recent \cup {arrived + 1}
  /\ \E L \in LabelSets : labels' = [labels EXCEPT ![arrived + 1] = L]
  /\ UNCHANGED <<backend, gone, mailboxes, facts, retries, scan, ghosts, moves, rounds, faults>>

\* The owner moves a message, or deletes it; a scan that runs meanwhile need not find it.
Moves(m) ==
  /\ m \in 1..arrived \ gone /\ moves < MaxMoves
  /\ moves' = moves + 1
  /\ \/ \E L \in LabelSets \ {labels[m]} : labels' = [labels EXCEPT ![m] = L] /\ UNCHANGED gone
     \/ gone' = gone \cup {m} /\ labels' = [labels EXCEPT ![m] = {}]
  /\ scan' = [scan EXCEPT !.must = @ \ {m}]
  /\ UNCHANGED <<backend, arrived, recent, mailboxes, facts, retries, ghosts, rounds, faults>>

\* the oldest first
LeavesWindow(m) ==
  /\ m \in recent /\ scan.at = "idle" /\ \A k \in recent : m <= k
  /\ recent' = recent \ {m}
  /\ UNCHANGED <<backend, labels, gone, arrived, mailboxes, facts, retries, scan, ghosts, moves, rounds, faults>>

BecomesDue(m) ==
  /\ rows[m] \in 1..(MaxAttempts - 1) /\ m \notin due /\ scan.at \in {"idle", "each"}
  /\ due' = due \cup {m}
  /\ UNCHANGED <<backend, server, mailboxes, facts, rows, scan, ghosts, moves, rounds, faults>>

-----------------------------------------------------------------------------
Begin(rescan) ==
  /\ scan.at = "idle" /\ rounds < MaxRounds
  /\ rounds' = rounds + 1
  /\ Goes([NoScan EXCEPT !.at = "discover", !.rescan = rescan])
  /\ UNCHANGED <<backend, server, mailboxes, facts, retries, ghosts, moves, faults>>

\* receive_mails and historical_rescan_mails, each for the backend in force
BeginsRound == Begin(FALSE)
BeginsRescan == Begin(TRUE)

\* No authorisation or no list of labels or of messages: nothing is done.  A page of a rescan is PageFails.
Unreachable ==
  /\ Api /\ scan.at \in {"discover", "list"} /\ (scan.at = "list" => ~scan.rescan) /\ Fault
  /\ Goes([NoScan EXCEPT !.told = "failed"])
  /\ UNCHANGED <<backend, server, mailboxes, facts, retries, ghosts, moves, rounds>>

\* ... no connection, no login, a search refused
ConnectFails ==
  /\ ~Api /\ (scan.at = "discover" \/ (scan.at = "list" /\ scan.left # <<>>)) /\ Fault
  /\ Goes([NoScan EXCEPT !.told = "failed"])
  /\ UNCHANGED <<backend, server, mailboxes, facts, retries, ghosts, moves, rounds>>

Exist == Synced \cup UNION {labels[m] : m \in Msgs}
\* discover_gmail_mailboxes and selected_sync_mailboxes
Discovers ==
  /\ Api /\ scan.at = "discover"
  /\ mailboxes' = mailboxes \cup Exist
  /\ Goes([At("list") EXCEPT !.left = <<INBOX, SENT>>, !.told = "clean"])
  /\ UNCHANGED <<backend, server, facts, retries, ghosts, moves, rounds, faults>>

\* _connect_imap and the INBOX selected
Connects ==
  /\ ~Api /\ scan.at = "discover"
  /\ Goes([At("list") EXCEPT !.left = <<INBOX>>, !.told = "clean"])
  /\ UNCHANGED <<backend, server, mailboxes, facts, retries, ghosts, moves, rounds, faults>>

\* what a search for the label finds, beyond the page token
Found(l) == {m \in Msgs : l \in labels[m] /\ (scan.rescan \/ m \in recent)}
Page(l) == {m \in Found(l) : scan.last = 0 \/ m < scan.last}
Newest(S) == CHOOSE m \in S : \A k \in S : k <= m

NextLabelKeepsPage(s) == [s EXCEPT !.left = Tail(@), !.n = 0]
NextLabel(s) == [s EXCEPT !.left = Tail(@), !.last = 0, !.n = 0]

\* Everything that the search finds as it begins is to be handled, up to the cap.
Must(l) == scan.must \cup (IF scan.n = 0 THEN Found(l) ELSE {})

Cut(told) == IF told = "clean" THEN "truncated" ELSE told

\* A page of one message.  A usual round collects them first, a rescan works on each at once; it says that it
\* was cut short when there is a page beyond the cap.
Lists ==
  /\ scan.at = "list" /\ scan.left # <<>> /\ Api
  /\ LET l == Head(scan.left) IN
     IF Page(l) = {}
     THEN Goes([NextLabel(scan) EXCEPT !.must = Must(l)])
     ELSE IF scan.n = Cap
     THEN Goes([NextLabel(scan) EXCEPT !.told = IF scan.rescan THEN Cut(@) ELSE @])
     ELSE LET m == Newest(Page(l))
              s == [scan EXCEPT !.last = m, !.n = @ + 1, !.must = Must(l)]
          IN IF scan.rescan
             THEN Goes([s EXCEPT !.at = "get", !.m = m])
             ELSE Goes([s EXCEPT !.todo = IF m \in ToSet(@) THEN @ ELSE Append(@, m)])
  /\ UNCHANGED <<backend, server, mailboxes, facts, retries, ghosts, moves, rounds, faults>>

\* each of them once, in the order they came
Ascending(S) == CHOOSE s \in SetToSeqs(S) : \A j, k \in 1..Len(s) : j < k => s[j] < s[k]
\* The IMAP search gives all of them at once, and the newest are taken, in the order they came.
NewestOf(found) == {m \in found : Cardinality({k \in found : k > m}) < Cap}
Taken == [scan EXCEPT !.left = <<>>, !.todo = Ascending(NewestOf(Found(INBOX))), !.must = Found(INBOX)]
Searches ==
  /\ ~Api /\ ~scan.rescan /\ scan.at = "list" /\ scan.left # <<>>
  /\ Goes(Taken)
  /\ UNCHANGED <<backend, server, mailboxes, facts, retries, ghosts, moves, rounds, faults>>

\* ... and a rescan says when there were more
SearchesRange ==
  /\ ~Api /\ scan.rescan /\ scan.at = "list" /\ scan.left # <<>>
  /\ Goes([Taken EXCEPT !.at = "each", !.told = IF NewestOf(Found(INBOX)) # Found(INBOX) THEN Cut(@) ELSE @])
  /\ UNCHANGED <<backend, server, mailboxes, facts, retries, ghosts, moves, rounds, faults>>

\* A page of a rescan that fails ends the label and counts as a failure.
PageFails ==
  /\ scan.at = "list" /\ scan.left # <<>> /\ scan.rescan /\ Api /\ Fault
  /\ Goes([NextLabel(scan) EXCEPT !.told = "partial"])
  /\ UNCHANGED <<backend, server, mailboxes, facts, retries, ghosts, moves, rounds>>

\* The user's wish is looked at before each page and before each message.
Cancels ==
  /\ Api /\ scan.rescan /\ scan.at = "list" /\ scan.left # <<>>
  /\ Goes([NoScan EXCEPT !.told = "cancelled"])
  /\ UNCHANGED <<backend, server, mailboxes, facts, retries, ghosts, moves, rounds, faults>>

CancelsRange ==
  /\ ~Api /\ scan.rescan /\ scan.at = "each" /\ scan.todo # <<>>
  /\ Goes([NoScan EXCEPT !.told = "cancelled"])
  /\ UNCHANGED <<backend, server, mailboxes, facts, retries, ghosts, moves, rounds, faults>>

\* Of the rows that are due as many are asked for as a list may have; those listed anyway are not taken again.
Late == {S \in SUBSET due : Cardinality(S) = IF Cardinality(due) < Cap THEN Cardinality(due) ELSE Cap}
Retried(listed) == UNION {SetToSeqs(S \ ToSet(listed)) : S \in Late}

\* messages[:scan_cap], and the retries
Compiles ==
  /\ scan.at = "list" /\ scan.left = <<>> /\ ~scan.rescan
  /\ LET listed == SubSeq(scan.todo, 1, IF Len(scan.todo) < Cap THEN Len(scan.todo) ELSE Cap) IN
     \E retried \in Retried(listed) :
       Goes([At("each") EXCEPT !.todo = listed \o retried, !.must = ToSet(listed) \cup ToSet(retried)])
  /\ UNCHANGED <<backend, server, mailboxes, facts, retries, ghosts, moves, rounds, faults>>

-----------------------------------------------------------------------------
Waits(m) == ~scan.rescan /\ rows[m] > 0 /\ m \notin due

\* A row that waits or has been given up is passed over by a usual round.
Takes ==
  /\ ~scan.rescan /\ scan.at = "each" /\ scan.todo # <<>>
  /\ LET m == Head(scan.todo) IN
     IF Waits(m)
     THEN Goes([scan EXCEPT !.todo = Tail(@), !.handled = @ \cup {m}])
     ELSE Goes([scan EXCEPT !.at = "get", !.m = m, !.todo = Tail(@)])
  /\ UNCHANGED <<backend, server, mailboxes, facts, retries, ghosts, moves, rounds, faults>>

\* a rescan by IMAP goes through its list whatever waits
TakesUid ==
  /\ scan.rescan /\ scan.at = "each" /\ scan.todo # <<>>
  /\ Goes([scan EXCEPT !.at = "get", !.m = Head(scan.todo), !.todo = Tail(@)])
  /\ UNCHANGED <<backend, server, mailboxes, facts, retries, ghosts, moves, rounds, faults>>

Done(s) == [s EXCEPT !.at = IF s.rescan /\ Api THEN "list" ELSE "each", !.m = 0, !.got = {}, !.partial = FALSE,
                     !.handled = @ \cup {s.m}]

EnsuredDiscovered(got) == mailboxes
\* ensure_gmail_message_mailboxes
Ensured(got) == mailboxes \cup got

\* messages.get with its labels; those that are new get a row.  What has gone is a failure.
Gets ==
  /\ Api /\ scan.at = "get"
  /\ IF scan.m \in gone
     THEN Goes(At("fail")) /\ UNCHANGED <<mailboxes, ghosts>>
     ELSE /\ mailboxes' = Ensured(labels[scan.m])
          /\ Goes([At("process") EXCEPT !.got = labels[scan.m] \cap mailboxes'])
          /\ seen' = [seen EXCEPT ![scan.m] = labels[scan.m]]
          /\ torn' = torn \cup {scan.m}
  /\ UNCHANGED <<backend, server, facts, retries, moves, rounds, faults>>

\* FETCH by UID in the INBOX: a message that was moved away has no UID there.
Fetches ==
  /\ ~Api /\ scan.at = "get"
  /\ IF INBOX \notin labels[scan.m]
     THEN Goes(At("fail")) /\ UNCHANGED ghosts
     ELSE /\ Goes([At("process") EXCEPT !.got = {INBOX}])
          /\ seen' = [seen EXCEPT ![scan.m] = {INBOX}]
          /\ torn' = torn \cup {scan.m}
  /\ UNCHANGED <<backend, server, mailboxes, facts, retries, moves, rounds, faults>>

GetFails ==
  /\ scan.at \in {"get", "process", "labels"} /\ Fault
  /\ Goes(At("fail"))
  /\ UNCHANGED <<backend, server, mailboxes, facts, retries, ghosts, moves, rounds>>

\* the label whose direction counts: the sent one comes first
Primary(got) == IF SENT \in got THEN SENT ELSE IF INBOX \in got \/ got = {} THEN INBOX ELSE "work"

AfterArchiveAlways(partial) == "clear"
\* a partial archive is a failure of the message
AfterArchive(partial) == IF partial THEN "fail" ELSE "clear"
\* the API has the labels to settle first
Archived(partial) == [At(IF Api THEN "labels" ELSE AfterArchive(partial)) EXCEPT !.partial = partial]

\* process_normalized_mail: a complete package first, then the rule, then the archive and its first mapping
Processes ==
  /\ scan.at = "process"
  /\ LET m == scan.m
         maps == /\ member' = [member EXCEPT ![m] = @ \cup {Primary(scan.got)}]
                 /\ mailboxes' = mailboxes \cup {Primary(scan.got)}
     IN \/ verdict[m] = "ready" /\ maps /\ Goes(Archived(FALSE)) /\ UNCHANGED <<verdict, faults>>
        \/ /\ verdict[m] # "ready"
           /\ verdict' = [verdict EXCEPT ![m] = "refused"]
           /\ Goes(At("clear"))
           /\ UNCHANGED <<member, mailboxes, faults>>
        \/ verdict[m] # "ready" /\ maps /\ verdict' = [verdict EXCEPT ![m] = "ready"]
           /\ Goes(Archived(FALSE)) /\ UNCHANGED faults
        \/ verdict[m] # "ready" /\ maps /\ verdict' = [verdict EXCEPT ![m] = "partial"]
           /\ Goes(Archived(TRUE)) /\ Fault
  /\ UNCHANGED <<backend, server, retries, ghosts, moves, rounds>>

\* reconcile_package_memberships with the complete snapshot of the labels
ReconciledAddsOnly(old, got) == old \cup got
Reconciled(old, got) == got
Reconciles ==
  /\ scan.at = "labels"
  /\ member' = [member EXCEPT ![scan.m] = Reconciled(@, scan.got)]
  /\ Goes(At(AfterArchive(scan.partial)))
  /\ UNCHANGED <<backend, server, mailboxes, verdict, retries, ghosts, moves, rounds, faults>>

Clears ==
  /\ scan.at = "clear"
  /\ rows' = [rows EXCEPT ![scan.m] = 0] /\ due' = due \ {scan.m}
  /\ torn' = torn \ {scan.m}
  /\ Goes(Done(scan))
  /\ UNCHANGED <<backend, server, mailboxes, facts, seen, moves, rounds, faults>>

\* record_receive_failure; beyond the last attempt the row is left to its owner
Counted(n) == IF n < MaxAttempts THEN n + 1 ELSE n
Fails ==
  /\ scan.at = "fail"
  /\ rows' = [rows EXCEPT ![scan.m] = Counted(@)] /\ due' = due \ {scan.m}
  /\ torn' = torn \ {scan.m}
  /\ Goes([Done(scan) EXCEPT !.told = "partial"])
  /\ UNCHANGED <<backend, server, mailboxes, facts, seen, moves, rounds, faults>>

\* the result
Over == [NoScan EXCEPT !.rescan = scan.rescan, !.told = scan.told, !.must = scan.must, !.handled = scan.handled]
Ends ==
  /\ scan.at = "each" /\ scan.todo = <<>>
  /\ Goes(Over)
  /\ UNCHANGED <<backend, server, mailboxes, facts, retries, ghosts, moves, rounds, faults>>

EndsRescan ==
  /\ Api /\ scan.at = "list" /\ scan.left = <<>> /\ scan.rescan
  /\ Goes(Over)
  /\ UNCHANGED <<backend, server, mailboxes, facts, retries, ghosts, moves, rounds, faults>>

Dies ==
  /\ scan.at # "idle"
  /\ Goes(NoScan)
  /\ UNCHANGED <<backend, server, mailboxes, facts, retries, ghosts, moves, rounds, faults>>

Next ==
  \/ Arrives \/ \E m \in Msgs : Moves(m) \/ LeavesWindow(m) \/ BecomesDue(m)
  \/ BeginsRound \/ BeginsRescan
  \/ Unreachable \/ Discovers \/ Lists \/ PageFails \/ Cancels \/ Compiles \/ Takes \/ Gets \/ EndsRescan
  \/ ConnectFails \/ Connects \/ Searches \/ SearchesRange \/ CancelsRange \/ TakesUid \/ Fetches
  \/ GetFails \/ Processes \/ Reconciles \/ Clears \/ Fails \/ Ends \/ Dies

Spec == Init /\ [][Next]_vars

TypeOK ==
  /\ \A m \in Msgs : labels[m] \subseteq Labels /\ member[m] \subseteq Labels /\ rows[m] \in 0..MaxAttempts
  /\ due \subseteq Msgs /\ recent \subseteq Msgs /\ mailboxes \subseteq Labels
  /\ \A m \in Msgs : verdict[m] \in {"none", "refused", "partial", "ready"}
  /\ scan.told \in {"", "clean", "truncated", "partial", "cancelled", "failed"}

Settled(m) == verdict[m] \in {"ready", "refused"}

\* A round that ended has settled each message it listed, or left it in receive_retries; a rescan that says it is
\* complete has handled everything its searches found.
RoundIsWhole ==
  scan.at = "idle" /\ scan.told \in {"clean", "truncated", "partial"} =>
    /\ \A m \in scan.handled : Settled(m) \/ rows[m] > 0
    /\ scan.told = "clean" => scan.must \subseteq scan.handled
    /\ ~scan.rescan => scan.must \subseteq scan.handled

\* A message that has been dealt with to the end is in the mailboxes of the labels it was last seen with, and in
\* no other, whichever label or round brought it; one that is waiting may lag behind.
LabelsAreTrue ==
  \A m \in Msgs : Api /\ verdict[m] = "ready" /\ rows[m] = 0 /\ m \notin torn /\ scan.m # m => member[m] = seen[m]

\* What was archived stays archived.
ArchivedStays == [][\A m \in Msgs : verdict[m] = "ready" => verdict'[m] = "ready"]_verdict
=============================================================================
