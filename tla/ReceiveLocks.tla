---------------------------- MODULE ReceiveLocks ----------------------------
(***************************************************************************)
(* The mutual exclusion of receive() and historical_rescan(): a threading  *)
(* lock per account inside a process, then, for calls that name no         *)
(* account, the old receive.lock, then receive-<account>.lock between      *)
(* processes.  The GUI, one MCP server per client and command-line calls   *)
(* take them; get_mail_sync_status probes the files.                       *)
(***************************************************************************)
CONSTANTS
  Calls,      \* calls of receive() or historical_rescan()
  Probes,     \* calls of get_mail_sync_status()
  ProcOf,     \* [Calls \cup Probes -> process]
  AccountOf,  \* [Calls \cup Probes -> account]
  Default,    \* the calls and probes that name no account
  Free        \* a lock nobody holds

\* A call is not a probe, and nobody is called Free.
Distinct == Calls \cap Probes = {} /\ Free \notin Calls \cup Probes

Everyone == Calls \cup Probes
Procs == {ProcOf[x] : x \in Everyone}
Accounts == {AccountOf[x] : x \in Everyone}

VARIABLES
  threadLock,   \* _account_receive_locks of each process: holder per account
  legacyLock,   \* holder of .locks/receive.lock
  accountLock,  \* holder of .locks/receive-<account>.lock
  at,           \* where each call is
  raised,       \* calls that an exception ended before their try block
  died          \* some process has died

vars == <<threadLock, legacyLock, accountLock, at, raised, died>>

-----------------------------------------------------------------------------

\* The locks are files locked by the operating system, and thread locks.
TypeOK ==
  /\ threadLock \in [Procs -> [Accounts -> Calls \cup {Free}]]
  /\ legacyLock \in Everyone \cup {Free}
  /\ accountLock \in [Accounts -> Everyone \cup {Free}]
  /\ at \in [Everyone -> {"idle", "legacy", "account", "work", "release", "legacyBack", "threadBack"}]
  /\ raised \subseteq Calls
  /\ died \in BOOLEAN

Init ==
  /\ threadLock = [p \in Procs |-> [a \in Accounts |-> Free]]
  /\ legacyLock = Free
  /\ accountLock = [a \in Accounts |-> Free]
  /\ at = [x \in Everyone |-> "idle"]
  /\ raised = {}
  /\ died = FALSE

Goes(x, place) == at' = [at EXCEPT ![x] = place]
ThreadLockOf(c) == threadLock[ProcOf[c]][AccountOf[c]]
SetThreadLock(c, holder) == threadLock' = [threadLock EXCEPT ![ProcOf[c]][AccountOf[c]] = holder]
SetAccountLock(x, holder) == accountLock' = [accountLock EXCEPT ![AccountOf[x]] = holder]

-----------------------------------------------------------------------------
(* receive() and historical_rescan().                                       *)

\* receive_lock.acquire(blocking=False); "receive_busy" leaves no trace.
Enters(c) ==
  /\ at[c] = "idle"
  /\ ThreadLockOf(c) = Free
  /\ SetThreadLock(c, c)
  /\ Goes(c, IF c \in Default THEN "legacy" ELSE "account")
  /\ UNCHANGED <<legacyLock, accountLock, raised, died>>

\* Variant with a bug: a call without an account is content with the old lock.
AfterLegacyOnly == "work"

AfterLegacy == "account"

TakesLegacy(c) ==
  /\ at[c] = "legacy"
  /\ legacyLock = Free
  /\ legacyLock' = c
  /\ Goes(c, AfterLegacy)
  /\ UNCHANGED <<threadLock, accountLock, raised, died>>

TakesAccount(c) ==
  /\ at[c] = "account"
  /\ accountLock[AccountOf[c]] = Free
  /\ SetAccountLock(c, c)
  /\ Goes(c, "work")
  /\ UNCHANGED <<threadLock, legacyLock, raised, died>>

Held(c) == IF at[c] = "legacy" THEN legacyLock ELSE accountLock[AccountOf[c]]

\* Variant with a bug: the early return of a busy account forgets the old lock.
AfterRefusalForgets(c) == "threadBack"

AfterRefusal(c) == IF at[c] = "account" /\ c \in Default THEN "legacyBack" ELSE "threadBack"

\* Variant with a bug: the call waits for the lock without a deadline.
GivesUpNever(c) == FALSE

\* ProcessLock.acquire gives up, at once or, with wait_for_process_lock, when its
\* deadline has passed: "sync_in_progress".
GivesUp(c) ==
  /\ at[c] \in {"legacy", "account"}
  /\ Held(c) # Free
  /\ Goes(c, AfterRefusal(c))
  /\ UNCHANGED <<threadLock, legacyLock, accountLock, raised, died>>

\* ProcessLock.acquire raises outside of the try block: the directory or the lock
\* file cannot be opened, or its first byte is written while another process has
\* locked it.  The file locks close with their streams; the thread lock stays.
AcquireRaises(c) ==
  /\ at[c] \in {"legacy", "account"}
  /\ raised' = raised \cup {c}
  /\ legacyLock' = IF legacyLock = c THEN Free ELSE legacyLock
  /\ Goes(c, "idle")
  /\ UNCHANGED <<threadLock, accountLock, died>>

\* Every way out of the try block, exceptions included, goes through finally.
Works(c) ==
  /\ at[c] = "work"
  /\ Goes(c, "release")
  /\ UNCHANGED <<threadLock, legacyLock, accountLock, raised, died>>

ReleasesAccount(c) ==
  /\ at[c] = "release"
  /\ SetAccountLock(c, Free)
  /\ Goes(c, IF c \in Default THEN "legacyBack" ELSE "threadBack")
  /\ UNCHANGED <<threadLock, legacyLock, raised, died>>

ReleasesLegacy(c) ==
  /\ at[c] = "legacyBack"
  /\ legacyLock' = Free
  /\ Goes(c, "threadBack")
  /\ UNCHANGED <<threadLock, accountLock, raised, died>>

ReleasesThread(c) ==
  /\ at[c] = "threadBack"
  /\ SetThreadLock(c, Free)
  /\ Goes(c, "idle")
  /\ UNCHANGED <<legacyLock, accountLock, raised, died>>

Step(c) ==
  \/ TakesLegacy(c) \/ TakesAccount(c) \/ GivesUp(c) \/ Works(c)
  \/ ReleasesAccount(c) \/ ReleasesLegacy(c) \/ ReleasesThread(c)

-----------------------------------------------------------------------------
(* get_mail_sync_status() asks is_lock_available(), which takes the lock.   *)

\* any() stops at the first lock it finds taken.
ProbesAccount(x) ==
  /\ at[x] = "idle"
  /\ accountLock[AccountOf[x]] = Free
  /\ SetAccountLock(x, x)
  /\ Goes(x, "account")
  /\ UNCHANGED <<threadLock, legacyLock, raised, died>>

LeavesAccount(x) ==
  /\ at[x] = "account"
  /\ SetAccountLock(x, Free)
  /\ Goes(x, IF x \in Default THEN "legacy" ELSE "idle")
  /\ UNCHANGED <<threadLock, legacyLock, raised, died>>

ProbesLegacy(x) ==
  /\ at[x] = "legacy"
  /\ IF legacyLock = Free
       THEN legacyLock' = x /\ Goes(x, "release")
       ELSE Goes(x, "idle") /\ UNCHANGED legacyLock
  /\ UNCHANGED <<threadLock, accountLock, raised, died>>

LeavesLegacy(x) ==
  /\ at[x] = "release"
  /\ legacyLock' = Free
  /\ Goes(x, "idle")
  /\ UNCHANGED <<threadLock, accountLock, raised, died>>

ProbeStep(x) == LeavesAccount(x) \/ ProbesLegacy(x) \/ LeavesLegacy(x)

-----------------------------------------------------------------------------

\* A process dies: the operating system unlocks its files, its threads are gone.
Dies(p) ==
  LET mine == {x \in Everyone : ProcOf[x] = p} IN
  /\ ~died
  /\ died' = TRUE
  /\ threadLock' = [threadLock EXCEPT ![p] = [a \in Accounts |-> Free]]
  /\ legacyLock' = IF legacyLock \in mine THEN Free ELSE legacyLock
  /\ accountLock' = [a \in Accounts |-> IF accountLock[a] \in mine THEN Free ELSE accountLock[a]]
  /\ at' = [x \in Everyone |-> IF x \in mine THEN "idle" ELSE at[x]]
  /\ raised' = raised \ mine

Next ==
  \/ \E c \in Calls : Enters(c) \/ Step(c) \/ AcquireRaises(c)
  \/ \E x \in Probes : ProbesAccount(x) \/ ProbeStep(x)
  \/ \E p \in Procs : Dies(p)

Spec == Init /\ [][Next]_vars

-----------------------------------------------------------------------------
(* Properties.                                                              *)

\* README.md, a lock per account between threads and processes: no two calls work
\* on one account, whether or not they name it.
OneReceivePerAccount ==
  \A c, d \in Calls :
    at[c] = "work" /\ at[d] = "work" /\ AccountOf[c] = AccountOf[d] => c = d

\* A call that has returned holds nothing: busy or not, it gives back every lock it
\* took on the way, except the thread lock of a call that raised too early.
ReturnedHoldsNothing ==
  \A c \in Calls : at[c] = "idle" =>
    /\ legacyLock # c
    /\ \A a \in Accounts : accountLock[a] # c
    /\ ThreadLockOf(c) = c => c \in raised

\* No call waits for ever: not for a lock another process holds while it waits for
\* this one, and not behind a thread lock that nobody will give back.
CallsReturn == \A c \in Calls : at[c] # "idle" ~> at[c] = "idle"
=============================================================================
