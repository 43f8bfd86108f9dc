---------------------------- MODULE MailboxSync ----------------------------
(***************************************************************************)
(* The synchronisation of one IMAP mailbox (imap_sync.py), its checkpoint  *)
(* (mailbox_checkpoint.py), the retry rows of messages that failed         *)
(* (database.py, receive_retries) and the membership of archived messages  *)
(* (mail_fact_membership.py).                                              *)
(*                                                                         *)
(* The locks of the account admit one session at a time, a synchronisation *)
(* or a historical rescan.  The server changes under it: messages arrive   *)
(* and are expunged, and the mailbox may be numbered anew (UIDVALIDITY).   *)
(* Every statement is an autocommit or a transaction of its own, so a      *)
(* session that dies leaves whatever it has committed.                     *)
(*                                                                         *)
(* A message arrives once and is stored by its content, so packages are    *)
(* keyed by message.  Left out: rows of versions that knew no UIDVALIDITY, *)
(* servers that send none, other mailboxes, the summary of the checkpoint  *)
(* in account_sync_states, which is read only when this one is missing.    *)
(***************************************************************************)
EXTENDS Naturals, FiniteSets

CONSTANTS
  Msgs,          \* messages
  NoMsg,
  Cap,           \* receive_scan_cap, or the limit of a manual receive
  Overlap,       \* uid_overlap
  MaxAttempts,   \* RECEIVE_RETRY_TERMINAL_COUNT
  Rescanning,    \* the user imports history
  MaxValidity,   \* bound on UIDVALIDITY
  MaxFaults      \* bound on the failures of a behaviour

ASSUME SyncAssumption ==
  /\ IsFiniteSet(Msgs) /\ NoMsg \notin Msgs
  /\ Cap \in Nat \ {0} /\ Overlap \in Nat /\ MaxAttempts \in Nat \ {0}
  /\ Rescanning \in BOOLEAN
  /\ MaxValidity \in Nat \ {0} /\ MaxFaults \in Nat

VARIABLES
  validity,  \* UIDVALIDITY of the mailbox on the server
  uid,       \* the UID of each message on the server, 0 when it is not there
  uidnext,   \* the UID the next message will get
  cp,        \* mailbox_sync_states: the checkpoint of the last success
  rows,      \* receive_retries: retry_count of a UID of a generation, 0 without row
  due,       \* rows whose next_retry_at has passed
  verdict,   \* ready: its package is complete; refused: the receive rule skipped it
  member,    \* mail_package_mailboxes
  cut,       \* history: messages without membership whose rescan ended before it gave them one
  s,         \* the session under way
  faults

server == <<validity, uid, uidnext>>
facts  == <<verdict, member, cut>>
retries == <<rows, due>>
vars == <<server, cp, retries, facts, s, faults>>

-----------------------------------------------------------------------------

Uids == 1..Cardinality(Msgs)
Keys == (1..MaxValidity) \X Uids

Present == {m \in Msgs : uid[m] # 0}
ServerUids == {uid[m] : m \in Present}

Pcs == {"idle", "retire", "search", "fetch", "each", "map", "mappart", "clear", "fail", "finish"}

\* v, last: what the session works with; found: the UIDs of a full snapshot; new:
\* those above last; todo: candidates; got: messages fetched; top: new_last_uid;
\* u, m: the one at hand.
Idle == [pc |-> "idle", rescan |-> FALSE, v |-> 0, last |-> 0, full |-> FALSE,
         found |-> {}, new |-> {}, todo |-> {}, got |-> {}, top |-> 0,
         failed |-> FALSE, u |-> 0, m |-> NoMsg]

Session == [pc : Pcs, rescan : BOOLEAN, v : 0..MaxValidity, last : {0} \cup Uids,
            full : BOOLEAN, found : SUBSET Uids, new : SUBSET Uids,
            todo : SUBSET Uids, got : SUBSET (Uids \X Msgs), top : {0} \cup Uids,
            failed : BOOLEAN, u : {0} \cup Uids, m : Msgs \cup {NoMsg}]

\* Checkpoint, rows, packages and session stay inside their alphabets, and a UID
\* is never one the server has not given out.
TypeOK ==
  /\ validity \in 1..MaxValidity
  /\ uidnext \in 1..(Cardinality(Msgs) + 1)
  /\ uid \in [Msgs -> 0..(uidnext - 1)]
  /\ cp \in [validity : 0..MaxValidity, last : {0} \cup Uids, pending : BOOLEAN]
  /\ rows \in [Keys -> 0..MaxAttempts]
  /\ due \subseteq {k \in Keys : rows[k] \in 1..(MaxAttempts - 1)}
  /\ verdict \in [Msgs -> {"none", "refused", "ready"}]
  /\ member \in [Msgs -> [validity : 0..MaxValidity, uid : {0} \cup Uids, present : BOOLEAN]]
  /\ cut \subseteq Msgs
  /\ s \in Session
  /\ faults \in 0..MaxFaults

Init ==
  /\ validity = 1
  /\ uid = [m \in Msgs |-> 0]
  /\ uidnext = 1
  /\ cp = [validity |-> 0, last |-> 0, pending |-> FALSE]
  /\ rows = [k \in Keys |-> 0]
  /\ due = {}
  /\ verdict = [m \in Msgs |-> "none"]
  /\ member = [m \in Msgs |-> [validity |-> 0, uid |-> 0, present |-> FALSE]]
  /\ cut = {}
  /\ s = Idle
  /\ faults = 0

-----------------------------------------------------------------------------
(* The server and the clock.  A session reads them when it selects, searches *)
(* and fetches, and what happens between is taken to happen where it cannot  *)
(* be told apart: an arrival, which SEARCH alone finds, before SELECT; an    *)
(* expunged message is missed by SEARCH or by FETCH; the mailbox may be      *)
(* another at each of the three; the clock counts from SEARCH on.            *)

Reads == s.pc \in {"idle", "search", "fetch"}

Arrives(m) ==
  /\ s.pc = "idle"
  /\ uid[m] = 0
  /\ uidnext \in Uids
  /\ uid' = [uid EXCEPT ![m] = uidnext]
  /\ uidnext' = uidnext + 1
  /\ UNCHANGED <<validity, cp, retries, facts, s, faults>>

Expunges(m) ==
  /\ s.pc \in {"idle", "fetch"}
  /\ uid[m] # 0
  /\ uid' = [uid EXCEPT ![m] = 0]
  /\ UNCHANGED <<validity, uidnext, cp, retries, facts, s, faults>>

\* The mailbox is created anew: the same messages under other UIDs, in any order.
Renumbers ==
  /\ Reads
  /\ validity < MaxValidity
  /\ validity' = validity + 1
  /\ uidnext' = Cardinality(Present) + 1
  /\ uid' \in [Msgs -> 0..Cardinality(Present)]
  /\ \A m \in Msgs : uid'[m] = 0 <=> m \notin Present
  /\ \A m, x \in Present : uid'[m] = uid'[x] => m = x
  /\ UNCHANGED <<cp, retries, facts, s, faults>>

BecomesDue(k) ==
  /\ s.pc \in {"search", "fetch"} /\ ~s.rescan
  /\ rows[k] \in 1..(MaxAttempts - 1)
  /\ k \notin due
  /\ due' = due \cup {k}
  /\ UNCHANGED <<server, cp, rows, facts, s, faults>>

-----------------------------------------------------------------------------
(* receive_imap_account, _sync_imap_mailbox.                                *)

Goes(state) == s' = state
At(pc) == [s EXCEPT !.pc = pc]

\* Failures are counted, so that a behaviour has finitely many of them.
Fault == faults < MaxFaults /\ faults' = faults + 1

Changed(v) == cp.validity \notin {0, v}

\* SELECT, then the checkpoint: another UIDVALIDITY sets the session back to 0.
Selects ==
  LET last == IF Changed(validity) THEN 0 ELSE cp.last IN
  /\ s.pc = "idle"
  /\ Goes([Idle EXCEPT !.pc = IF Changed(validity) THEN "retire" ELSE "search",
             !.v = validity, !.last = last, !.top = last])
  /\ UNCHANGED <<server, cp, retries, facts, faults>>

\* _retire_stale_mailbox_retries: at once, before anything is known to replace them.
Retires ==
  /\ s.pc = "retire"
  /\ rows' = [k \in Keys |-> IF k[1] = s.v THEN rows[k] ELSE 0]
  /\ due' = {k \in due : k[1] = s.v}
  /\ Goes(At("search"))
  /\ UNCHANGED <<server, cp, facts, faults>>

Lowest(S, n) == {u \in S : Cardinality({w \in S : w < u}) < n}

\* The due rows one session takes: the code takes the oldest, here any of them.
Batches == {R \in SUBSET due : \/ R = due /\ Cardinality(R) <= Cap
                               \/ Cardinality(R) = Cap}

\* Variant with a bug: the first new UID is taken for one already seen.
CandidatesSkipOne(all, R) ==
  {u \in all : u <= s.last /\ u + Overlap > s.last}
    \cup Lowest({u \in all : u > s.last + 1}, Cap)
    \cup {k[2] : k \in {x \in R : x[1] = s.v}}

\* The last UIDs already seen, the lowest new ones, and the rows.
Candidates(all, R) ==
  {u \in all : u <= s.last /\ u + Overlap > s.last}
    \cup Lowest({u \in all : u > s.last}, Cap)
    \cup {k[2] : k \in {x \in R : x[1] = s.v}}

\* A membership snapshot is due every 24 hours, and after a change of UIDVALIDITY.
\* A mailbox that was created anew meanwhile does not answer the old session.
Searches(full) ==
  /\ s.pc = "search"
  /\ validity = s.v
  /\ Changed(s.v) => full
  /\ \E R \in Batches :
       Goes([At("fetch") EXCEPT !.full = full, !.found = IF full THEN ServerUids ELSE {},
               !.new = {u \in ServerUids : u > s.last}, !.todo = Candidates(ServerUids, R)])
  /\ UNCHANGED <<server, cp, retries, facts, faults>>

Refused ==
  /\ s.pc = "search"
  /\ validity # s.v
  /\ Goes(Idle)
  /\ UNCHANGED <<server, cp, retries, facts, faults>>

\* _fetch_with_isolation: a UID that is gone has no content, nor has one that fails,
\* alone or, when the connection is lost, with others.
Fetches ==
  LET there == {x \in s.todo \X Msgs : validity = s.v /\ uid[x[2]] = x[1]} IN
  /\ s.pc = "fetch"
  /\ \/ Goes([At("each") EXCEPT !.got = there]) /\ UNCHANGED faults
     \/ \E got \in SUBSET there : Goes([At("each") EXCEPT !.got = got]) /\ Fault
  /\ UNCHANGED <<server, cp, retries, facts>>

Key(u) == <<s.v, u>>

\* Variant with a bug: whatever has a row waits.
WaitsForEver(u) == ~s.rescan /\ rows[Key(u)] > 0

\* _retry_is_due; a rescan does not ask.
Waits(u) == ~s.rescan /\ rows[Key(u)] > 0 /\ Key(u) \notin due

\* The candidate u has been dealt with.
Passes(u) == [s EXCEPT !.pc = "each", !.todo = @ \ {u}, !.got = {x \in @ : x[1] # u},
                       !.u = 0, !.m = NoMsg]

\* The candidate u is the message m, and there is more to do with it.
Holds(u, m, pc) == [Passes(u) EXCEPT !.pc = pc, !.u = u, !.m = m]

\* A message was dealt with: a rescan leaves its row alone.
Succeeds(u) == IF s.rescan THEN Passes(u) ELSE Holds(u, NoMsg, "clear")

\* Variant with a bug: the time of the next attempt is not set again.
RecordFailureStaysDue(u) ==
  /\ rows' = [rows EXCEPT ![Key(u)] = IF @ < MaxAttempts THEN @ + 1 ELSE @]
  /\ due' = due
  /\ Goes([Passes(u) EXCEPT !.failed = TRUE])

\* _record_message_failure.  Counts beyond the last attempt are all alike.
RecordFailure(u) ==
  /\ rows' = [rows EXCEPT ![Key(u)] = IF @ < MaxAttempts THEN @ + 1 ELSE @]
  /\ due' = due \ {Key(u)}
  /\ Goes([Passes(u) EXCEPT !.failed = TRUE])

Defers(u) ==
  /\ s.pc = "each"
  /\ u \in s.todo /\ Waits(u)
  /\ Goes(Passes(u))
  /\ UNCHANGED <<server, cp, retries, facts, faults>>

FindsNothing(u) ==
  /\ s.pc = "each"
  /\ u \in s.todo /\ ~Waits(u)
  /\ \A x \in s.got : x[1] # u
  /\ RecordFailure(u)
  /\ UNCHANGED <<server, cp, facts, faults>>

\* process_normalized_mail up to archive_normalized_mail.  A complete package comes
\* before the rule, a rescan may do without the rule.  A partial package is completed
\* like one that is missing: only this session knows of it.
Processes(u, m) ==
  /\ s.pc = "each"
  /\ u \in s.todo /\ ~Waits(u)
  /\ <<u, m>> \in s.got
  /\ \/ /\ verdict[m] = "ready"
        /\ Goes(Holds(u, m, "map"))
        /\ UNCHANGED <<verdict, retries, faults>>
     \/ /\ verdict[m] # "ready"
        /\ verdict' = [verdict EXCEPT ![m] = "refused"]
        /\ Goes(Succeeds(u))
        /\ UNCHANGED <<retries, faults>>
     \/ /\ verdict[m] # "ready"
        /\ verdict' = [verdict EXCEPT ![m] = "ready"]
        /\ Goes(Holds(u, m, "map"))
        /\ UNCHANGED <<retries, faults>>
     \/ /\ verdict[m] # "ready"
        /\ Goes(Holds(u, m, "mappart"))
        /\ Fault
        /\ UNCHANGED <<verdict, retries>>
     \/ /\ RecordFailure(u)
        /\ Fault
        /\ UNCHANGED verdict
  /\ UNCHANGED <<server, cp, member, cut>>

\* The package of m is a member of the mailbox as it is now.
Member(m) == member[m] = [validity |-> validity, uid |-> uid[m], present |-> TRUE]

\* Variant with a bug: the package keeps the UID of its first observation.
MembershipKept(m, u) ==
  /\ member' = IF member[m].validity = 0
                 THEN [member EXCEPT ![m] = [validity |-> s.v, uid |-> u, present |-> TRUE]]
                 ELSE member
  /\ cut' = cut \ {m}

\* record_package_mailbox_mapping
Membership(m, u) ==
  /\ member' = [member EXCEPT ![m] = [validity |-> s.v, uid |-> u, present |-> TRUE]]
  /\ cut' = cut \ {m}

\* A partial archive is a failure of the message, but not to a rescan.
Maps ==
  /\ s.pc \in {"map", "mappart"}
  /\ \/ /\ Membership(s.m, s.u)
        /\ Goes(IF s.pc = "mappart" /\ ~s.rescan
                  THEN Holds(s.u, NoMsg, "fail") ELSE Succeeds(s.u))
        /\ UNCHANGED <<retries, faults>>
     \/ RecordFailure(s.u) /\ Fault /\ UNCHANGED <<member, cut>>
  /\ UNCHANGED <<server, cp, verdict>>

Fails ==
  /\ s.pc = "fail"
  /\ RecordFailure(s.u)
  /\ UNCHANGED <<server, cp, facts, faults>>

\* clear_receive_retries, and the UID counts for the checkpoint.
Clears ==
  /\ s.pc = "clear"
  /\ \/ /\ rows' = [rows EXCEPT ![Key(s.u)] = 0]
        /\ due' = due \ {Key(s.u)}
        /\ Goes([Passes(s.u) EXCEPT !.top = IF s.u > @ THEN s.u ELSE @])
        /\ UNCHANGED faults
     \/ RecordFailure(s.u) /\ Fault
  /\ UNCHANGED <<server, cp, facts>>

\* reconcile_mailbox_uid_snapshot, whatever became of the messages.
Snapshots ==
  /\ s.pc = "each" /\ s.todo = {}
  /\ s.full
  /\ member' = [m \in Msgs |->
       IF member[m].validity # s.v \/ member[m].uid \notin s.found
         THEN [member[m] EXCEPT !.present = FALSE] ELSE member[m]]
  /\ Goes(At("finish"))
  /\ UNCHANGED <<server, cp, retries, verdict, cut, faults>>

Pending == Changed(s.v) \/ cp.pending

\* Variant with a bug: a mailbox without new messages is never reconciled.
CompletedNeedsNews ==
  /\ s.new # {} /\ \A u \in s.new : u <= s.top
  /\ \A k \in Keys : k[1] = s.v => rows[k] = 0
  /\ ~s.failed

\* reconciliation_completed
Completed ==
  /\ \A u \in s.new : u <= s.top
  /\ \A k \in Keys : k[1] = s.v => rows[k] = 0
  /\ ~s.failed

\* finish_mailbox_attempt: a session in which messages failed counts as a success.
Finishes ==
  /\ \/ s.pc = "finish"
     \/ s.pc = "each" /\ s.todo = {} /\ ~s.full /\ ~s.rescan
  /\ cp' = [validity |-> s.v, last |-> s.top, pending |-> Pending /\ ~Completed]
  /\ Goes(Idle)
  /\ UNCHANGED <<server, retries, facts, faults>>

\* The connection, the database or the process fails: no checkpoint is written.
Breaks ==
  /\ s.pc # "idle"
  /\ Fault
  /\ Goes(Idle)
  /\ cut' = IF s.rescan /\ s.pc = "map" /\ ~Member(s.m) THEN cut \cup {s.m} ELSE cut
  /\ UNCHANGED <<server, cp, retries, verdict, member>>

\* rescan_imap_account: the UIDs of a range of dates, without rows or checkpoint.
Rescans ==
  /\ Rescanning
  /\ s.pc = "idle"
  /\ \E range \in SUBSET ServerUids \ {{}} :
       Goes([Idle EXCEPT !.pc = "fetch", !.rescan = TRUE, !.v = validity, !.todo = range])
  /\ UNCHANGED <<server, cp, retries, facts, faults>>

\* At the end of the range, or when the user cancels.
RescanEnds ==
  /\ s.pc = "each"
  /\ s.rescan
  /\ Goes(Idle)
  /\ UNCHANGED <<server, cp, retries, facts, faults>>

SessionStep ==
  \/ Retires \/ (\E full \in BOOLEAN : Searches(full)) \/ Refused \/ Fetches
  \/ \E u \in Uids : Defers(u) \/ FindsNothing(u) \/ \E m \in Msgs : Processes(u, m)
  \/ Maps \/ Fails \/ Clears \/ Snapshots \/ Finishes \/ RescanEnds

Next ==
  \/ \E m \in Msgs : Arrives(m) \/ Expunges(m)
  \/ Renumbers
  \/ \E k \in Keys : BecomesDue(k)
  \/ Selects \/ Rescans \/ SessionStep \/ Breaks

Spec == Init /\ [][Next]_vars

\* The scheduler tries again and again, whatever rescans come between; a session
\* goes on, and the time of a retry comes.
Fairness ==
  /\ SF_vars(Selects)
  /\ WF_vars(SessionStep)
  /\ \A k \in Keys : SF_vars(BecomesDue(k))

FairSpec == Spec /\ Fairness

-----------------------------------------------------------------------------
(* Properties.                                                              *)

Settled(m) == verdict[m] \in {"ready", "refused"}

\* The checkpoint passes over messages that failed, so each message below it is
\* archived, refused by the rule, or still remembered by a row of its generation.
NothingForgotten ==
  cp.validity = validity =>
    \A m \in Present :
      uid[m] <= cp.last => Settled(m) \/ rows[<<validity, uid[m]>>] > 0

\* When the reconciliation after a change of UIDVALIDITY is declared complete, each
\* message up to the checkpoint is archived or refused, although sessions failed and
\* rows were retired on the way, and what is archived is a member of the mailbox under
\* its new UID.  Except for what a rescan has cut: one that dies between a package and
\* its membership leaves no row, and nothing below the overlap looks at it again.
ReconciledComplete ==
  /\ cp.pending \/ cp.validity \notin {0, cp'.validity}
  /\ ~cp'.pending /\ cp'.validity = validity
  => \A m \in Present : uid[m] <= cp'.last =>
       /\ Settled(m)
       /\ verdict[m] = "ready" /\ m \notin cut => Member(m)

ReconciledIsComplete == [][ReconciledComplete]_vars

\* A message that stays on the server is archived, refused, or given up as
\* "needs attention", if only its failures end.
EveryMailSettles ==
  \A m \in Msgs :
    uid[m] # 0 ~> \/ Settled(m) \/ uid[m] = 0
                  \/ rows[<<validity, uid[m]>>] = MaxAttempts

\* A reconciliation ends unless a message of the generation is given up.
ReconciliationEnds ==
  cp.pending ~> ~cp.pending \/ \E u \in Uids : rows[<<cp.validity, u>>] = MaxAttempts
=============================================================================
