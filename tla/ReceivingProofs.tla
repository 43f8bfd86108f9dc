-------------------------- MODULE ReceivingProofs ---------------------------
(***************************************************************************)
(* The parts of receiving, for any number of calls, accounts, segments,    *)
(* tasks and operations: each part has an inductive invariant of its own,  *)
(* and a step of one part leaves the others alone.                         *)
(***************************************************************************)
EXTENDS Receiving, TLAPS

-----------------------------------------------------------------------------
(* ReceiveLocks: a call at work holds the file lock of its account, which  *)
(* has one holder; where a call is says what it holds.                     *)

\* Who holds a file lock is at a place where he does, and the other way round for the lock of an account.
CallsHold ==
  \A c \in Calls :
    /\ at[c] \in {"work", "release"} => accountLock[AccountOf[c]] = c
    /\ \A a \in Locks!Accounts : accountLock[a] = c => at[c] \in {"work", "release"} /\ a = AccountOf[c]
    /\ at[c] = "legacy" \/ legacyLock = c => c \in Default
    /\ legacyLock = c => at[c] \in {"account", "work", "release", "legacyBack"}
ThreadsHold == \A c \in Calls : at[c] = "idle" /\ Locks!ThreadLockOf(c) = c => c \in raised
ProbesHold == \A x \in Probes : at[x] = "account" => accountLock[AccountOf[x]] = x
LockInv == Locks!TypeOK /\ CallsHold /\ ThreadsHold /\ ProbesHold

\* The invariant holds at the start.
LEMMA LocksInit == ASSUME Locks!Distinct, Locks!Init PROVE LockInv
  BY DEF Locks!Distinct, Locks!Init, LockInv, Locks!TypeOK, CallsHold, ThreadsHold, ProbesHold, Locks!ThreadLockOf, Locks!Everyone, Locks!Procs, Locks!Accounts

\* Every call, probe and account is in the domain of the lock it takes.
LEMMA LockDomains ==
  /\ \A x \in Locks!Everyone : AccountOf[x] \in Locks!Accounts /\ ProcOf[x] \in Locks!Procs
  /\ Calls \subseteq Locks!Everyone /\ Probes \subseteq Locks!Everyone
  BY DEF Locks!Everyone, Locks!Accounts, Locks!Procs

\* Every step keeps the invariant.
LEMMA LocksStep ==
  ASSUME Locks!Distinct, LockInv, [Locks!Next]_(Locks!vars)
  PROVE  LockInv'
<1> USE DEF LockInv
<1> DEFINE Inv == Locks!TypeOK /\ CallsHold /\ ThreadsHold /\ ProbesHold
<1>1. ASSUME NEW c \in Calls, Locks!Enters(c) PROVE Inv'
  <2>1. Locks!TypeOK'
    BY <1>1, LockDomains DEF Locks!Distinct, Locks!Enters, Locks!TypeOK, Locks!Goes, Locks!SetThreadLock, Locks!ThreadLockOf
  <2>2. CallsHold'
    BY <1>1, LockDomains DEF Locks!Distinct, Locks!Enters, Locks!TypeOK, CallsHold, ProbesHold, Locks!Goes, Locks!SetThreadLock, Locks!ThreadLockOf
  <2>3. ThreadsHold'
    BY <1>1, LockDomains DEF Locks!Distinct, Locks!Enters, Locks!TypeOK, ThreadsHold, Locks!Goes, Locks!SetThreadLock, Locks!ThreadLockOf
  <2>4. ProbesHold'
    BY <1>1, LockDomains DEF Locks!Distinct, Locks!Enters, Locks!TypeOK, CallsHold, ProbesHold, Locks!Goes, Locks!SetThreadLock, Locks!ThreadLockOf
  <2>5. QED BY <2>1, <2>2, <2>3, <2>4
<1>2. ASSUME NEW c \in Calls, Locks!TakesLegacy(c) PROVE Inv'
  <2>1. Locks!TypeOK'
    BY <1>2, LockDomains DEF Locks!Distinct, Locks!TakesLegacy, Locks!AfterLegacy, Locks!TypeOK, Locks!Goes
  <2>2. CallsHold'
    BY <1>2, LockDomains DEF Locks!Distinct, Locks!TakesLegacy, Locks!AfterLegacy, Locks!TypeOK, CallsHold, ProbesHold, Locks!Goes
  <2>3. ThreadsHold'
    BY <1>2, LockDomains DEF Locks!Distinct, Locks!TakesLegacy, Locks!AfterLegacy, Locks!TypeOK, ThreadsHold, Locks!Goes, Locks!ThreadLockOf
  <2>4. ProbesHold'
    BY <1>2, LockDomains DEF Locks!Distinct, Locks!TakesLegacy, Locks!AfterLegacy, Locks!TypeOK, CallsHold, ProbesHold, Locks!Goes
  <2>5. QED BY <2>1, <2>2, <2>3, <2>4
<1>3. ASSUME NEW c \in Calls, Locks!TakesAccount(c) PROVE Inv'
  <2>1. Locks!TypeOK'
    BY <1>3, LockDomains DEF Locks!Distinct, Locks!TakesAccount, Locks!TypeOK, Locks!Goes, Locks!SetAccountLock
  <2>2. CallsHold'
    BY <1>3, LockDomains DEF Locks!Distinct, Locks!TakesAccount, Locks!TypeOK, CallsHold, ProbesHold, Locks!Goes, Locks!SetAccountLock
  <2>3. ThreadsHold'
    BY <1>3, LockDomains DEF Locks!Distinct, Locks!TakesAccount, Locks!TypeOK, ThreadsHold, Locks!Goes, Locks!SetAccountLock, Locks!ThreadLockOf
  <2>4. ProbesHold'
    BY <1>3, LockDomains DEF Locks!Distinct, Locks!TakesAccount, Locks!TypeOK, CallsHold, ProbesHold, Locks!Goes, Locks!SetAccountLock
  <2>5. QED BY <2>1, <2>2, <2>3, <2>4
<1>4. ASSUME NEW c \in Calls, Locks!GivesUp(c) PROVE Inv'
  <2>1. Locks!TypeOK'
    BY <1>4, LockDomains DEF Locks!Distinct, Locks!GivesUp, Locks!AfterRefusal, Locks!TypeOK, Locks!Goes, Locks!Held
  <2>2. CallsHold'
    BY <1>4, LockDomains DEF Locks!Distinct, Locks!GivesUp, Locks!AfterRefusal, Locks!TypeOK, CallsHold, ProbesHold, Locks!Goes, Locks!Held
  <2>3. ThreadsHold'
    BY <1>4, LockDomains DEF Locks!Distinct, Locks!GivesUp, Locks!AfterRefusal, Locks!TypeOK, ThreadsHold, Locks!Goes, Locks!ThreadLockOf, Locks!Held
  <2>4. ProbesHold'
    BY <1>4, LockDomains DEF Locks!Distinct, Locks!GivesUp, Locks!AfterRefusal, Locks!TypeOK, CallsHold, ProbesHold, Locks!Goes, Locks!Held
  <2>5. QED BY <2>1, <2>2, <2>3, <2>4
<1>5. ASSUME NEW c \in Calls, Locks!Works(c) PROVE Inv'
  <2>1. Locks!TypeOK'
    BY <1>5, LockDomains DEF Locks!Distinct, Locks!Works, Locks!TypeOK, Locks!Goes
  <2>2. CallsHold'
    BY <1>5, LockDomains DEF Locks!Distinct, Locks!Works, Locks!TypeOK, CallsHold, ProbesHold, Locks!Goes
  <2>3. ThreadsHold'
    BY <1>5, LockDomains DEF Locks!Distinct, Locks!Works, Locks!TypeOK, ThreadsHold, Locks!Goes, Locks!ThreadLockOf
  <2>4. ProbesHold'
    BY <1>5, LockDomains DEF Locks!Distinct, Locks!Works, Locks!TypeOK, CallsHold, ProbesHold, Locks!Goes
  <2>5. QED BY <2>1, <2>2, <2>3, <2>4
<1>6. ASSUME NEW c \in Calls, Locks!ReleasesAccount(c) PROVE Inv'
  <2>1. Locks!TypeOK'
    BY <1>6, LockDomains DEF Locks!Distinct, Locks!ReleasesAccount, Locks!TypeOK, Locks!Goes, Locks!SetAccountLock
  <2>2. CallsHold'
    BY <1>6, LockDomains DEF Locks!Distinct, Locks!ReleasesAccount, Locks!TypeOK, CallsHold, ProbesHold, Locks!Goes, Locks!SetAccountLock
  <2>3. ThreadsHold'
    BY <1>6, LockDomains DEF Locks!Distinct, Locks!ReleasesAccount, Locks!TypeOK, ThreadsHold, Locks!Goes, Locks!SetAccountLock, Locks!ThreadLockOf
  <2>4. ProbesHold'
    BY <1>6, LockDomains DEF Locks!Distinct, Locks!ReleasesAccount, Locks!TypeOK, CallsHold, ProbesHold, Locks!Goes, Locks!SetAccountLock
  <2>5. QED BY <2>1, <2>2, <2>3, <2>4
<1>7. ASSUME NEW c \in Calls, Locks!ReleasesLegacy(c) PROVE Inv'
  <2>1. Locks!TypeOK'
    BY <1>7, LockDomains DEF Locks!Distinct, Locks!ReleasesLegacy, Locks!TypeOK, Locks!Goes
  <2>2. CallsHold'
    BY <1>7, LockDomains DEF Locks!Distinct, Locks!ReleasesLegacy, Locks!TypeOK, CallsHold, ProbesHold, Locks!Goes
  <2>3. ThreadsHold'
    BY <1>7, LockDomains DEF Locks!Distinct, Locks!ReleasesLegacy, Locks!TypeOK, ThreadsHold, Locks!Goes, Locks!ThreadLockOf
  <2>4. ProbesHold'
    BY <1>7, LockDomains DEF Locks!Distinct, Locks!ReleasesLegacy, Locks!TypeOK, CallsHold, ProbesHold, Locks!Goes
  <2>5. QED BY <2>1, <2>2, <2>3, <2>4
<1>8. ASSUME NEW c \in Calls, Locks!ReleasesThread(c) PROVE Inv'
  <2>1. Locks!TypeOK'
    BY <1>8, LockDomains DEF Locks!Distinct, Locks!ReleasesThread, Locks!TypeOK, Locks!Goes, Locks!SetThreadLock
  <2>2. CallsHold'
    BY <1>8, LockDomains DEF Locks!Distinct, Locks!ReleasesThread, Locks!TypeOK, CallsHold, ProbesHold, Locks!Goes, Locks!SetThreadLock
  <2>3. ThreadsHold'
    BY <1>8, LockDomains DEF Locks!Distinct, Locks!ReleasesThread, Locks!TypeOK, ThreadsHold, Locks!Goes, Locks!SetThreadLock, Locks!ThreadLockOf
  <2>4. ProbesHold'
    BY <1>8, LockDomains DEF Locks!Distinct, Locks!ReleasesThread, Locks!TypeOK, CallsHold, ProbesHold, Locks!Goes, Locks!SetThreadLock
  <2>5. QED BY <2>1, <2>2, <2>3, <2>4
<1>9. ASSUME NEW c \in Calls, Locks!AcquireRaises(c) PROVE Inv'
  <2>1. Locks!TypeOK'
    BY <1>9, LockDomains DEF Locks!Distinct, Locks!AcquireRaises, Locks!TypeOK, Locks!Goes
  <2>2. CallsHold'
    BY <1>9, LockDomains DEF Locks!Distinct, Locks!AcquireRaises, Locks!TypeOK, CallsHold, ProbesHold, Locks!Goes
  <2>3. ThreadsHold'
    BY <1>9, LockDomains DEF Locks!Distinct, Locks!AcquireRaises, Locks!TypeOK, ThreadsHold, Locks!Goes, Locks!ThreadLockOf
  <2>4. ProbesHold'
    BY <1>9, LockDomains DEF Locks!Distinct, Locks!AcquireRaises, Locks!TypeOK, CallsHold, ProbesHold, Locks!Goes
  <2>5. QED BY <2>1, <2>2, <2>3, <2>4
<1>10. ASSUME NEW x \in Probes, Locks!ProbesAccount(x) PROVE Inv'
  <2>1. Locks!TypeOK'
    BY <1>10, LockDomains DEF Locks!Distinct, Locks!ProbesAccount, Locks!TypeOK, Locks!Goes, Locks!SetAccountLock
  <2>2. CallsHold'
    BY <1>10, LockDomains DEF Locks!Distinct, Locks!ProbesAccount, Locks!TypeOK, CallsHold, ProbesHold, Locks!Goes, Locks!SetAccountLock
  <2>3. ThreadsHold'
    BY <1>10, LockDomains DEF Locks!Distinct, Locks!ProbesAccount, Locks!TypeOK, ThreadsHold, Locks!Goes, Locks!SetAccountLock, Locks!ThreadLockOf
  <2>4. ProbesHold'
    BY <1>10, LockDomains DEF Locks!Distinct, Locks!ProbesAccount, Locks!TypeOK, CallsHold, ProbesHold, Locks!Goes, Locks!SetAccountLock
  <2>5. QED BY <2>1, <2>2, <2>3, <2>4
<1>11. ASSUME NEW x \in Probes, Locks!LeavesAccount(x) PROVE Inv'
  <2>1. Locks!TypeOK'
    BY <1>11, LockDomains DEF Locks!Distinct, Locks!LeavesAccount, Locks!TypeOK, Locks!Goes, Locks!SetAccountLock
  <2>2. CallsHold'
    BY <1>11, LockDomains DEF Locks!Distinct, Locks!LeavesAccount, Locks!TypeOK, CallsHold, ProbesHold, Locks!Goes, Locks!SetAccountLock
  <2>3. ThreadsHold'
    BY <1>11, LockDomains DEF Locks!Distinct, Locks!LeavesAccount, Locks!TypeOK, ThreadsHold, Locks!Goes, Locks!SetAccountLock, Locks!ThreadLockOf
  <2>4. ProbesHold'
    BY <1>11, LockDomains DEF Locks!Distinct, Locks!LeavesAccount, Locks!TypeOK, CallsHold, ProbesHold, Locks!Goes, Locks!SetAccountLock
  <2>5. QED BY <2>1, <2>2, <2>3, <2>4
<1>12. ASSUME NEW x \in Probes, Locks!ProbesLegacy(x) PROVE Inv'
  <2>1. Locks!TypeOK'
    BY <1>12, LockDomains DEF Locks!Distinct, Locks!ProbesLegacy, Locks!TypeOK, Locks!Goes
  <2>2. CallsHold'
    BY <1>12, LockDomains DEF Locks!Distinct, Locks!ProbesLegacy, Locks!TypeOK, CallsHold, ProbesHold, Locks!Goes
  <2>3. ThreadsHold'
    BY <1>12, LockDomains DEF Locks!Distinct, Locks!ProbesLegacy, Locks!TypeOK, ThreadsHold, Locks!Goes, Locks!ThreadLockOf
  <2>4. ProbesHold'
    BY <1>12, LockDomains DEF Locks!Distinct, Locks!ProbesLegacy, Locks!TypeOK, CallsHold, ProbesHold, Locks!Goes
  <2>5. QED BY <2>1, <2>2, <2>3, <2>4
<1>13. ASSUME NEW x \in Probes, Locks!LeavesLegacy(x) PROVE Inv'
  <2>1. Locks!TypeOK'
    BY <1>13, LockDomains DEF Locks!Distinct, Locks!LeavesLegacy, Locks!TypeOK, Locks!Goes
  <2>2. CallsHold'
    BY <1>13, LockDomains DEF Locks!Distinct, Locks!LeavesLegacy, Locks!TypeOK, CallsHold, ProbesHold, Locks!Goes
  <2>3. ThreadsHold'
    BY <1>13, LockDomains DEF Locks!Distinct, Locks!LeavesLegacy, Locks!TypeOK, ThreadsHold, Locks!Goes, Locks!ThreadLockOf
  <2>4. ProbesHold'
    BY <1>13, LockDomains DEF Locks!Distinct, Locks!LeavesLegacy, Locks!TypeOK, CallsHold, ProbesHold, Locks!Goes
  <2>5. QED BY <2>1, <2>2, <2>3, <2>4
<1>14. ASSUME NEW p \in Locks!Procs, Locks!Dies(p) PROVE Inv'
  <2>1. Locks!TypeOK'
    BY <1>14, LockDomains DEF Locks!Distinct, Locks!Dies, Locks!TypeOK
  <2>2. CallsHold'
    BY <1>14, LockDomains DEF Locks!Distinct, Locks!Dies, Locks!TypeOK, CallsHold, ProbesHold
  <2>3. ThreadsHold'
    BY <1>14, LockDomains DEF Locks!Distinct, Locks!Dies, Locks!TypeOK, ThreadsHold, Locks!ThreadLockOf
  <2>4. ProbesHold'
    BY <1>14, LockDomains DEF Locks!Distinct, Locks!Dies, Locks!TypeOK, CallsHold, ProbesHold
  <2>5. QED BY <2>1, <2>2, <2>3, <2>4
<1>15. CASE UNCHANGED Locks!vars
  BY <1>15 DEF Locks!vars, Locks!TypeOK, CallsHold, ThreadsHold, ProbesHold, Locks!ThreadLockOf
<1>16. QED
  BY <1>1, <1>2, <1>3, <1>4, <1>5, <1>6, <1>7, <1>8, <1>9, <1>10, <1>11, <1>12, <1>13, <1>14, <1>15
     DEF Locks!Next, Locks!Step, Locks!ProbeStep

\* Two calls at work on one account would both hold its lock, and a lock has one holder.
LEMMA LocksInvExcludes == ASSUME LockInv PROVE Locks!OneReceivePerAccount /\ Locks!ReturnedHoldsNothing
  BY LockDomains DEF LockInv, CallsHold, ThreadsHold, Locks!OneReceivePerAccount, Locks!ReturnedHoldsNothing

-----------------------------------------------------------------------------
(* HistoryImport: what the row of the run says of the segments is true     *)
(* wherever calls were cancelled, cut or killed.  The row is no wiser than *)
(* the call that wrote it, so the invariant is about what the call under   *)
(* way knows.                                                              *)

Under == scan.at \in {"segment", "rescan"}

\* Where the call is.
PlacesHold ==
  /\ Under => scan.i \in 1..Segments + 1 /\ scan.retry <= scan.i /\ first <= scan.i
  /\ scan.at = "rescan" => scan.i <= Segments
  /\ Under /\ scan.retry = 0 => scan.next = scan.i
  /\ Under => ~scan.cancelled
\* Nothing before the segment under way, or before the one to go on from, has never been scanned.
VisitedHold ==
  /\ Under => \A s \in 1..Segments : s < scan.i => clean[s] # "never"
  /\ scan.at # "none" => \A s \in 1..Segments : s < scan.next => clean[s] # "never"
\* As long as there is nothing to retry, what the call went through is clean.
CleanHold ==
  /\ Under /\ scan.retry = 0 => \A s \in 1..Segments : first <= s /\ s < scan.i => clean[s] = "clean"
  /\ scan.at = "end" /\ scan.retry = 0 /\ ~scan.cancelled =>
       scan.next > Segments /\ \A s \in 1..Segments : first <= s => clean[s] = "clean"
EndingHolds == job.status \in History!Ending => scan.at = "none"

ImportInv ==
  /\ History!TypeOK /\ PlacesHold /\ VisitedHold /\ CleanHold /\ EndingHolds
  /\ History!NoSegmentIsPassedOver /\ History!CompletedIsTrue

ScanType == [at : {"none", "segment", "rescan", "end"}, i : 0..Segments + 1,
             retry : 0..Segments, next : 1..Segments + 1, found : History!Found, failed : BOOLEAN,
             hard : BOOLEAN, cancelled : BOOLEAN, truncated : BOOLEAN]

\* No call is a value of scan.
LEMMA NoScanIsTyped == ASSUME History!Bounds PROVE History!NoScan \in ScanType
<1>1. 0 \in 0..Segments + 1 /\ 0 \in 0..Segments /\ 1 \in 1..Segments + 1
  BY DEF History!Bounds
<1>2. QED
  BY <1>1 DEF History!NoScan, ScanType, History!Found

\* The invariant holds at the start.
LEMMA ImportInit == ASSUME History!Bounds, History!Init PROVE ImportInv
<1>1. scan.at = "none" /\ job.next = 1 /\ job.status = "none"
  BY DEF History!Init, History!NoScan
<1>2. History!TypeOK
  <2>1. 1 \in 1..Segments + 1 /\ 0 \in 0..MaxRuns
    BY DEF History!Bounds
  <2>2. job \in [status : History!Statuses, next : 1..Segments + 1, found : History!Found]
    BY <2>1 DEF History!Init, History!Statuses, History!Found
  <2>3. scan \in ScanType
    BY NoScanIsTyped DEF History!Init
  <2>4. clean \in [1..Segments -> {"never", "clean", "dirty"}]
    BY DEF History!Init
  <2>5. QED
    BY <2>1, <2>2, <2>3, <2>4 DEF History!Init, History!TypeOK, ScanType
<1>3. PlacesHold /\ VisitedHold /\ CleanHold /\ EndingHolds
  BY <1>1 DEF PlacesHold, VisitedHold, CleanHold, EndingHolds, Under
<1>4. History!NoSegmentIsPassedOver /\ History!CompletedIsTrue
  BY <1>1 DEF History!Bounds, History!NoSegmentIsPassedOver, History!CompletedIsTrue, History!Ending
<1>5. QED
  BY <1>2, <1>3, <1>4 DEF ImportInv

\* A segment that is not done is one to go on from, and a call stops behind no other.
LEMMA RetryIsRight ==
  ASSUME History!Bounds, History!TypeOK, PlacesHold, scan.at = "rescan", NEW raw \in History!Raw
  PROVE  /\ History!RetryFrom(raw) \in 0..Segments /\ History!RetryFrom(raw) <= scan.i
         /\ History!RetryFrom(raw) = 0 => scan.retry = 0 /\ ~History!Incomplete(raw)
         /\ History!RescanStatus(raw) = "FAILED" \/ raw.cancelled \/ raw.truncated => History!RetryFrom(raw) > 0
  BY DEF History!Bounds, History!TypeOK, PlacesHold, Under, History!Raw, History!RetryFrom, History!Incomplete

\* The status of an end.
LEMMA FinalStatusIsRight ==
  /\ History!FinalStatus \in History!Statuses
  /\ History!FinalStatus \in History!Ending => ~scan.cancelled /\ ~(scan.retry > 0)
  BY DEF History!FinalStatus, History!Statuses, History!Ending

\* A call begins where the row says.
LEMMA ImportBeginsKeeps == ASSUME History!Bounds, ImportInv, History!Begins PROVE ImportInv'
<1> USE DEF ImportInv
<1>1. /\ scan' = [History!NoScan EXCEPT !.at = "segment", !.i = job.next, !.next = job.next, !.found = job.found]
      /\ job' = [job EXCEPT !.status = "running"]
      /\ first' = job.next /\ cancel' = FALSE /\ clean' = clean /\ calls' = calls + 1 /\ calls < MaxRuns
  BY DEF History!Begins
<1>2. job.next \in 1..Segments + 1 /\ job.found \in History!Found /\ job \in [status : History!Statuses, next : 1..Segments + 1, found : History!Found]
  BY DEF History!TypeOK
<1>3. /\ scan'.at = "segment" /\ scan'.i = job.next /\ scan'.next = job.next /\ scan'.retry = 0 /\ ~scan'.cancelled
      /\ job'.next = job.next /\ job'.status = "running"
  BY <1>1, <1>2 DEF History!NoScan
<1>4. History!TypeOK'
  <2>1. job' \in [status : History!Statuses, next : 1..Segments + 1, found : History!Found]
    BY <1>1, <1>2 DEF History!Statuses
  <2>2. scan' \in ScanType
    <3>1. 0 \in 0..Segments /\ job.next \in 0..Segments + 1
      BY <1>2 DEF History!Bounds
    <3>2. scan' = [at |-> "segment", i |-> job.next, retry |-> 0, next |-> job.next, found |-> job.found,
                   failed |-> FALSE, hard |-> FALSE, cancelled |-> FALSE, truncated |-> FALSE]
      BY <1>1 DEF History!NoScan
    <3>3. QED
      BY <1>2, <3>1, <3>2 DEF ScanType
  <2>3. calls' \in 0..MaxRuns
    BY <1>1 DEF History!TypeOK, History!Bounds
  <2>4. clean' \in [1..Segments -> {"never", "clean", "dirty"}]
    BY <1>1 DEF History!TypeOK
  <2>5. QED
    BY <1>1, <1>2, <2>1, <2>2, <2>3, <2>4 DEF History!TypeOK, ScanType
<1>5. PlacesHold' /\ EndingHolds' /\ History!CompletedIsTrue'
  BY <1>1, <1>2, <1>3 DEF PlacesHold, EndingHolds, History!CompletedIsTrue, Under, History!Ending, History!Bounds
<1>6. VisitedHold' /\ CleanHold' /\ History!NoSegmentIsPassedOver'
  BY <1>1, <1>2, <1>3 DEF VisitedHold, CleanHold, History!NoSegmentIsPassedOver, Under, History!Bounds
<1>7. QED
  BY <1>4, <1>5, <1>6

\* The head of the loop goes on, stops for the user, or is through.
LEMMA EntersSegmentKeeps == ASSUME History!Bounds, ImportInv, History!EntersSegment PROVE ImportInv'
<1> USE DEF ImportInv
<1>1. /\ scan.at = "segment" /\ Under
      /\ job' = job /\ first' = first /\ cancel' = cancel /\ clean' = clean /\ calls' = calls
  BY DEF History!EntersSegment, Under
<1>2. /\ scan.i \in 1..Segments + 1 /\ scan.retry \in 0..Segments /\ scan.next \in 1..Segments + 1
      /\ first \in 1..Segments + 1 /\ Segments \in Nat
  BY <1>1 DEF History!TypeOK, PlacesHold, History!Bounds
<1>3. \/ /\ scan.i > Segments /\ scan' = [scan EXCEPT !.at = "end"]
      \/ /\ scan.i <= Segments /\ scan' = [scan EXCEPT !.at = "end", !.cancelled = TRUE, !.next = scan.i]
      \/ /\ scan.i <= Segments /\ scan' = [scan EXCEPT !.at = "rescan"]
  BY <1>2 DEF History!EntersSegment
<1>4. /\ scan'.i = scan.i /\ scan'.retry = scan.retry
      /\ \/ scan.i > Segments /\ scan'.at = "end" /\ scan'.next = scan.next
         \/ scan.i <= Segments /\ scan'.at = "end" /\ scan'.cancelled /\ scan'.next = scan.i
         \/ scan.i <= Segments /\ scan'.at = "rescan" /\ scan'.next = scan.next /\ scan'.cancelled = scan.cancelled
  BY <1>3 DEF History!TypeOK
<1>5. History!TypeOK'
  BY <1>1, <1>2, <1>3 DEF History!TypeOK
<1>6. PlacesHold' /\ EndingHolds' /\ History!CompletedIsTrue' /\ History!NoSegmentIsPassedOver'
  BY <1>1, <1>2, <1>4 DEF PlacesHold, EndingHolds, History!CompletedIsTrue, History!NoSegmentIsPassedOver, Under
<1>7. VisitedHold' /\ CleanHold'
  BY <1>1, <1>2, <1>4 DEF VisitedHold, CleanHold, PlacesHold, Under
<1>8. QED
  BY <1>5, <1>6, <1>7

\* The progress names the segment under way.
LEMMA PublishesKeeps == ASSUME History!Bounds, ImportInv, History!Publishes PROVE ImportInv'
<1> USE DEF ImportInv
<1>1. PICK found \in History!Found : job' = [status |-> "running", next |-> scan.i, found |-> History!Better(scan.found, found)]
  BY DEF History!Publishes, History!PublishedNext
<1>2. /\ scan.at = "rescan" /\ Under /\ scan.i \in 1..Segments + 1 /\ Segments \in Nat
      /\ scan' = scan /\ first' = first /\ cancel' = cancel /\ clean' = clean /\ calls' = calls
      /\ job'.next = scan.i /\ job'.status = "running"
  BY <1>1 DEF History!Publishes, Under, PlacesHold, History!Bounds
<1>3. History!Better(scan.found, found) \in History!Found
  BY <1>1 DEF History!TypeOK, History!Better, History!Found
<1>4. History!TypeOK'
  BY <1>1, <1>2, <1>3 DEF History!TypeOK, History!Statuses
<1>5. PlacesHold' /\ EndingHolds' /\ History!CompletedIsTrue' /\ VisitedHold' /\ CleanHold' /\ History!NoSegmentIsPassedOver'
  BY <1>2 DEF PlacesHold, EndingHolds, History!CompletedIsTrue, VisitedHold, CleanHold, History!NoSegmentIsPassedOver, Under, History!Ending
<1>6. QED
  BY <1>4, <1>5

\* A segment that is left is clean, or the first one to be scanned again.
LEMMA LeavesSegmentKeeps == ASSUME History!Bounds, ImportInv, History!LeavesSegment PROVE ImportInv'
<1> USE DEF ImportInv
<1>1. /\ scan.at = "rescan" /\ Under
      /\ job' = job /\ first' = first /\ cancel' = cancel /\ calls' = calls
  BY DEF History!LeavesSegment, Under
<1>2. /\ scan.i \in 1..Segments /\ scan.retry \in 0..Segments /\ first \in 1..Segments + 1 /\ Segments \in Nat
  BY <1>1 DEF History!TypeOK, PlacesHold, History!Bounds
<1>3. PICK raw \in History!Raw :
        LET stops == History!RescanStatus(raw) = "FAILED" \/ raw.cancelled \/ raw.truncated IN
        /\ scan' = [at |-> IF stops THEN "end" ELSE "segment",
                    i |-> IF stops THEN scan.i ELSE scan.i + 1,
                    retry |-> History!RetryFrom(raw),
                    next |-> IF History!RetryFrom(raw) > 0 THEN History!RetryFrom(raw) ELSE scan.i + 1,
                    found |-> History!Better(scan.found, raw.found),
                    failed |-> scan.failed \/ raw.failed,
                    hard |-> History!RescanStatus(raw) = "FAILED", cancelled |-> raw.cancelled, truncated |-> raw.truncated]
        /\ clean' = [clean EXCEPT ![scan.i] = IF History!Incomplete(raw) THEN "dirty" ELSE "clean"]
  BY DEF History!LeavesSegment
<1>4. /\ History!RetryFrom(raw) \in 0..Segments /\ History!RetryFrom(raw) <= scan.i
      /\ History!RetryFrom(raw) = 0 => scan.retry = 0 /\ ~History!Incomplete(raw)
      /\ History!RescanStatus(raw) = "FAILED" \/ raw.cancelled \/ raw.truncated => History!RetryFrom(raw) > 0
  BY <1>1, RetryIsRight
<1>5. /\ scan'.retry = History!RetryFrom(raw)
      /\ scan'.next = IF History!RetryFrom(raw) > 0 THEN History!RetryFrom(raw) ELSE scan.i + 1
      /\ \/ scan'.at = "end" /\ History!RetryFrom(raw) > 0
         \/ scan'.at = "segment" /\ scan'.i = scan.i + 1 /\ ~scan'.cancelled
  BY <1>3, <1>4
<1>6. /\ \A s \in 1..Segments : s # scan.i => clean'[s] = clean[s]
      /\ clean'[scan.i] = IF History!Incomplete(raw) THEN "dirty" ELSE "clean"
  BY <1>2, <1>3 DEF History!TypeOK
<1>7. History!TypeOK'
  <2>1. raw.cancelled \in BOOLEAN /\ raw.truncated \in BOOLEAN /\ raw.failed \in BOOLEAN /\ raw.found \in History!Found
    BY DEF History!Raw
  <2>2. History!Better(scan.found, raw.found) \in History!Found /\ scan.failed \in BOOLEAN
    BY <2>1 DEF History!TypeOK, History!Better, History!Found
  <2>3. scan' \in ScanType
    BY <1>2, <1>3, <1>4, <2>1, <2>2 DEF ScanType
  <2>4. clean' \in [1..Segments -> {"never", "clean", "dirty"}]
    BY <1>2, <1>3 DEF History!TypeOK
  <2>5. QED
    BY <1>1, <2>3, <2>4 DEF History!TypeOK, ScanType
<1>8. PlacesHold' /\ EndingHolds'
  BY <1>1, <1>2, <1>4, <1>5 DEF PlacesHold, EndingHolds, Under
<1>9. VisitedHold' /\ History!NoSegmentIsPassedOver'
  BY <1>1, <1>2, <1>4, <1>5, <1>6 DEF VisitedHold, History!NoSegmentIsPassedOver, Under, History!TypeOK
<1>10. CleanHold' /\ History!CompletedIsTrue'
  BY <1>1, <1>2, <1>4, <1>5, <1>6 DEF CleanHold, EndingHolds, History!CompletedIsTrue, Under, History!TypeOK
<1>11. QED
  BY <1>7, <1>8, <1>9, <1>10

\* The final row says of the range what the call knows.
LEMMA ImportEndsKeeps == ASSUME History!Bounds, ImportInv, History!Ends PROVE ImportInv'
<1> USE DEF ImportInv
<1>1. /\ scan.at = "end" /\ scan' = History!NoScan /\ job' = [status |-> History!FinalStatus, next |-> scan.next, found |-> scan.found]
      /\ first' = first /\ cancel' = FALSE /\ clean' = clean /\ calls' = calls
  BY DEF History!Ends
<1>2. scan'.at = "none" /\ job'.next = scan.next /\ job'.status = History!FinalStatus
  BY <1>1 DEF History!NoScan
<1>3. History!TypeOK'
  BY <1>1, FinalStatusIsRight, NoScanIsTyped DEF History!TypeOK, ScanType
<1>4. PlacesHold' /\ VisitedHold' /\ CleanHold' /\ EndingHolds'
  BY <1>2 DEF PlacesHold, VisitedHold, CleanHold, EndingHolds, Under
<1>5. History!NoSegmentIsPassedOver'
  BY <1>1, <1>2 DEF History!NoSegmentIsPassedOver, VisitedHold
<1>6. History!CompletedIsTrue'
  BY <1>1, <1>2, FinalStatusIsRight DEF History!CompletedIsTrue, CleanHold, History!TypeOK, History!Bounds
<1>7. QED
  BY <1>3, <1>4, <1>5, <1>6

\* A call that dies leaves the row as it was.
LEMMA ImportDiesKeeps == ASSUME History!Bounds, ImportInv, History!Dies PROVE ImportInv'
<1> USE DEF ImportInv
<1>1. /\ scan' = History!NoScan /\ cancel' = FALSE /\ scan'.at = "none"
      /\ job' = job /\ first' = first /\ clean' = clean /\ calls' = calls
  BY DEF History!Dies, History!NoScan
<1>2. History!TypeOK'
  BY <1>1, NoScanIsTyped DEF History!TypeOK, ScanType
<1>3. PlacesHold' /\ VisitedHold' /\ CleanHold' /\ EndingHolds' /\ History!NoSegmentIsPassedOver' /\ History!CompletedIsTrue'
  BY <1>1 DEF PlacesHold, VisitedHold, CleanHold, EndingHolds, History!NoSegmentIsPassedOver, History!CompletedIsTrue, Under
<1>4. QED
  BY <1>2, <1>3

\* Every step keeps the invariant.
LEMMA ImportStep == ASSUME History!Bounds, ImportInv, [History!Next]_(History!vars) PROVE ImportInv'
<1>1. CASE History!UserCancels
  BY <1>1 DEF History!UserCancels, ImportInv, History!TypeOK, PlacesHold, VisitedHold, CleanHold, EndingHolds, History!NoSegmentIsPassedOver, History!CompletedIsTrue, Under
<1>2. CASE UNCHANGED History!vars
  BY <1>2 DEF History!vars, ImportInv, History!TypeOK, PlacesHold, VisitedHold, CleanHold, EndingHolds, History!NoSegmentIsPassedOver, History!CompletedIsTrue, Under
<1>3. QED
  BY <1>1, <1>2, ImportBeginsKeeps, EntersSegmentKeeps, PublishesKeeps, LeavesSegmentKeeps, ImportEndsKeeps, ImportDiesKeeps DEF History!Next
-----------------------------------------------------------------------------
(* AutoReceive: the delay that is owed is never longer than the one the row *)
(* keeps, and no account that a round has still to come to is enabled while *)
(* the switch is off, unless a tool has put an older row back.              *)

GuiType == [up : BOOLEAN, switch : BOOLEAN, armed : BOOLEAN,
            task : {"none", "round", "other"}, failures : Rounds!Failures]
RoundType == [i : 0..Len(Order) + 1, at : {"none", "next", "receive"},
              age : 0..Rounds!Longest, global : BOOLEAN, row : Rounds!Row]
CallType == [at : {"idle", "receive", "write"}, a : Rounds!Accounts,
             before : Rounds!Failures, ok : BOOLEAN, row : Rounds!Row]

RowsAreTyped ==
  /\ round.row \in Rounds!Row
  /\ round.at = "receive" => round.i \in 1..Len(Order)
  /\ round.at = "next" => round.i >= 1

BackoffIsKept ==
  ~raced => /\ \A a \in Rounds!Accounts : owed[a] <= auto[a].next
            /\ round.at = "receive" => owed[Rounds!Current] = 0

\* The places in the order that the round has still to come to.
Ahead == {j \in 1..Len(Order) : IF round.at = "receive" THEN j > round.i ELSE j >= round.i}

PauseIsSeen ==
  round.at # "none" =>
    /\ gui.up
    /\ ~raced => \A j \in Ahead : auto[Order[j]].enabled => gui.switch

RoundInv == Rounds!TypeOK /\ RowsAreTyped /\ BackoffIsKept /\ PauseIsSeen

\* The tables: an account has a place, a delay of the back-off is one of the row, and
\* failures are counted up to the end of the table.
LEMMA Tables ==
  /\ Len(Order) \in Nat \ {0} /\ Len(Backoff) \in Nat \ {0}
  /\ \A i \in 1..Len(Order) : Order[i] \in Rounds!Accounts
  /\ \A i, j \in 1..Len(Order) : Order[i] = Order[j] => i = j
  /\ Order[1] \in Rounds!Accounts
  /\ Rounds!Longest \in Nat /\ Interval \in 0..Rounds!Longest
  /\ \A i \in 1..Len(Backoff) : Backoff[i] \in 0..Rounds!Longest
  /\ \A n \in Nat : Rounds!Capped(n + 1) \in 1..Len(Backoff) /\ Rounds!Capped(n + 1) \in Rounds!Failures
<1>1. /\ Len(Order) \in Nat \ {0} /\ Len(Backoff) \in Nat \ {0}
      /\ \A i \in 1..Len(Backoff) : Backoff[i] \in Nat
  BY RoundsAreTabled DEF Rounds!Tabled
<1>2. \A i \in 1..Len(Order) : Order[i] \in Rounds!Accounts BY DEF Rounds!Accounts
<1>3. Order[1] \in Rounds!Accounts BY <1>1, <1>2
<1>4. Backoff[Len(Backoff)] \in Nat BY <1>1
<1>5. Rounds!Longest \in Nat /\ Interval \in 0..Rounds!Longest
  BY <1>4, RoundsAreTabled DEF Rounds!Tabled, Rounds!Longest
<1>6. \A i \in 1..Len(Backoff) : Backoff[i] \in 0..Rounds!Longest
  BY <1>1, <1>4, RoundsAreTabled DEF Rounds!Tabled, Rounds!Longest
<1>7. \A n \in Nat : Rounds!Capped(n + 1) \in 1..Len(Backoff) /\ Rounds!Capped(n + 1) \in Rounds!Failures
  BY <1>1 DEF Rounds!Capped, Rounds!Failures
<1> QED BY <1>1, <1>2, <1>3, <1>5, <1>6, <1>7, RoundsAreTabled DEF Rounds!Tabled

\* What is left of a delay is a delay.
LEMMA LeftIsADelay ==
  ASSUME Rounds!TypeOK, NEW d \in 0..Rounds!Longest
  PROVE  Rounds!Left(d) \in 0..Rounds!Longest
  BY Tables DEF Rounds!TypeOK, Rounds!Left

\* The round begins with nothing to save.
LEMMA NoRoundIsTyped ==
  /\ Rounds!NoRound.row \in Rounds!Row /\ Rounds!NoRound.at = "none" /\ Rounds!NoRound.i = 0
  /\ Rounds!NoRound \in [i : 0..Len(Order) + 1, at : {"none", "next", "receive"},
                       age : 0..Rounds!Longest, global : BOOLEAN, row : Rounds!Row]
  /\ \A a \in Rounds!Accounts :
       Rounds!NoCall(a) \in [at : {"idle", "receive", "write"}, a : Rounds!Accounts,
                           before : Rounds!Failures, ok : BOOLEAN, row : Rounds!Row]
<1>1. 0 \in Rounds!Failures /\ 0 \in 0..Rounds!Longest /\ 0 \in 0..Len(Order) + 1
  BY Tables DEF Rounds!Failures
<1>2. Rounds!NoRound.row \in Rounds!Row BY <1>1 DEF Rounds!NoRound, Rounds!Row
<1> QED BY <1>1, <1>2 DEF Rounds!NoRound, Rounds!NoCall

\* A call that begins its receive.
LEMMA BeginsCall ==
  ASSUME NEW call \in CallType, NEW n \in Rounds!Failures
  PROVE  [call EXCEPT !.at = "receive", !.before = n] \in CallType
BY DEF CallType

\* The invariant holds at the start.
LEMMA RoundInit == Rounds!Init => RoundInv
<1> SUFFICES ASSUME Rounds!Init PROVE RoundInv OBVIOUS
<1>1. 0 \in Rounds!Failures /\ 0 \in 0..Rounds!Longest /\ 0 \in 0..MaxStarts /\ 0 \in 0..MaxUpsets
  BY Tables, RoundsAreTabled DEF Rounds!Failures, Rounds!Tabled
<1>2. Rounds!TypeOK
  BY <1>1, NoRoundIsTyped, Tables DEF Rounds!Init, Rounds!TypeOK, Rounds!Row, Rounds!Down
<1>3. round.at = "none" /\ round.row \in Rounds!Row BY NoRoundIsTyped DEF Rounds!Init
<1>4. BackoffIsKept BY <1>1, <1>3 DEF Rounds!Init, BackoffIsKept
<1> QED BY <1>2, <1>3, <1>4 DEF RoundInv, RowsAreTyped, PauseIsSeen

\* A broadcast leaves every row typed, and nothing owed.
LEMMA BroadcastKeeps ==
  ASSUME Rounds!TypeOK
  PROVE  /\ \A on \in BOOLEAN, n \in Rounds!Failures, d \in 0..Rounds!Longest :
              Rounds!BroadcastAll(on, n, d) =>
                /\ auto' \in [Rounds!Accounts -> Rounds!Row]
                /\ persisted' \in [enabled : BOOLEAN, failures : Rounds!Failures]
                /\ owed' \in [Rounds!Accounts -> 0..Rounds!Longest]
                /\ \A a \in Rounds!Accounts : owed'[a] = 0 /\ owed'[a] <= auto'[a].next /\ auto'[a].enabled = on
         /\ \A d \in 0..Rounds!Longest :
              Rounds!BroadcastNext(d) =>
                /\ auto' \in [Rounds!Accounts -> Rounds!Row]
                /\ persisted' \in [enabled : BOOLEAN, failures : Rounds!Failures]
                /\ owed' \in [Rounds!Accounts -> 0..Rounds!Longest]
                /\ \A a \in Rounds!Accounts : owed'[a] = 0 /\ owed'[a] <= auto'[a].next
<1>0. 0 \in 0..Rounds!Longest BY Tables
<1>1. ASSUME NEW on \in BOOLEAN, NEW n \in Rounds!Failures, NEW d \in 0..Rounds!Longest, Rounds!BroadcastAll(on, n, d)
      PROVE  /\ auto' \in [Rounds!Accounts -> Rounds!Row]
             /\ persisted' \in [enabled : BOOLEAN, failures : Rounds!Failures]
             /\ owed' \in [Rounds!Accounts -> 0..Rounds!Longest]
             /\ \A a \in Rounds!Accounts : owed'[a] = 0 /\ owed'[a] <= auto'[a].next /\ auto'[a].enabled = on
  <2>1. [enabled |-> on, failures |-> n, next |-> d] \in Rounds!Row BY DEF Rounds!Row
  <2>2. auto' = [a \in Rounds!Accounts |-> [enabled |-> on, failures |-> n, next |-> d]]
        /\ owed' = [a \in Rounds!Accounts |-> 0] /\ persisted' = [enabled |-> on, failures |-> n]
    BY <1>1 DEF Rounds!BroadcastAll
  <2>3. 0 <= d BY Tables
  <2> QED BY <1>0, <2>1, <2>2, <2>3
<1>2. ASSUME NEW d \in 0..Rounds!Longest, Rounds!BroadcastNext(d)
      PROVE  /\ auto' \in [Rounds!Accounts -> Rounds!Row]
             /\ persisted' \in [enabled : BOOLEAN, failures : Rounds!Failures]
             /\ owed' \in [Rounds!Accounts -> 0..Rounds!Longest]
             /\ \A a \in Rounds!Accounts : owed'[a] = 0 /\ owed'[a] <= auto'[a].next
  <2>1. \A a \in Rounds!Accounts : /\ [auto[a] EXCEPT !.enabled = TRUE, !.next = d] \in Rounds!Row
                                   /\ [auto[a] EXCEPT !.enabled = TRUE, !.next = d].next = d
    BY DEF Rounds!TypeOK, Rounds!Row
  <2>2. auto' = [a \in Rounds!Accounts |-> [auto[a] EXCEPT !.enabled = TRUE, !.next = d]]
        /\ owed' = [a \in Rounds!Accounts |-> 0] /\ persisted' = [persisted EXCEPT !.enabled = TRUE]
    BY <1>2 DEF Rounds!BroadcastNext
  <2>3. 0 <= d BY Tables
  <2>4. persisted' \in [enabled : BOOLEAN, failures : Rounds!Failures] BY <2>2 DEF Rounds!TypeOK
  <2>5. \A a \in Rounds!Accounts : auto'[a] \in Rounds!Row /\ auto'[a].next = d /\ owed'[a] = 0 BY <2>1, <2>2
  <2> QED BY <1>0, <2>1, <2>2, <2>3, <2>4, <2>5
<1> QED BY <1>1, <1>2

\* The steps of the window that tell every account something.
LEMMA WindowKeeps ==
  ASSUME RoundInv, Rounds!Starts \/ Rounds!Toggles \/ Rounds!TimerWaits \/ Rounds!Reschedules \/ Rounds!RoundRaises
  PROVE  RoundInv'
<1> USE DEF RoundInv
<1>0. 0 \in Rounds!Failures /\ 0 \in 0..Rounds!Longest /\ Interval \in 0..Rounds!Longest
      /\ MaxStarts \in Nat /\ MaxUpsets \in Nat
  BY Tables, RoundsAreTabled DEF Rounds!Failures, Rounds!Tabled
<1>1. CASE Rounds!Starts
  <2>1. round.at = "none" BY <1>1 DEF Rounds!Starts, PauseIsSeen
  <2>2. starts' \in 0..MaxStarts BY <1>0, <1>1 DEF Rounds!Starts, Rounds!TypeOK
  <2>3. gui' \in GuiType BY <1>1 DEF Rounds!Starts, Rounds!TypeOK, GuiType
  <2>4. /\ auto' \in [Rounds!Accounts -> Rounds!Row]
        /\ persisted' \in [enabled : BOOLEAN, failures : Rounds!Failures]
        /\ owed' \in [Rounds!Accounts -> 0..Rounds!Longest]
        /\ ~raced => \A a \in Rounds!Accounts : owed'[a] <= auto'[a].next
    <3>1. CASE persisted.enabled BY <1>0, <1>1, <3>1, BroadcastKeeps DEF Rounds!Starts
    <3>2. CASE ~persisted.enabled
      <4>1. auto' = [a \in Rounds!Accounts |-> [auto[a] EXCEPT !.enabled = FALSE]] /\ UNCHANGED <<persisted, owed>>
        BY <1>1, <3>2 DEF Rounds!Starts
      <4>2. \A a \in Rounds!Accounts : auto'[a] \in Rounds!Row /\ auto'[a].next = auto[a].next
        BY <4>1 DEF Rounds!TypeOK, Rounds!Row
      <4> QED BY <4>1, <4>2 DEF Rounds!TypeOK, BackoffIsKept
    <3> QED BY <3>1, <3>2
  <2>5. UNCHANGED <<round, tool, upsets, wish, raced>> BY <1>1 DEF Rounds!Starts
  <2>6. Rounds!TypeOK' BY <2>2, <2>3, <2>4, <2>5 DEF Rounds!TypeOK, GuiType
  <2> QED BY <2>1, <2>4, <2>5, <2>6 DEF RowsAreTyped, BackoffIsKept, PauseIsSeen
<1>2. CASE Rounds!Toggles
  <2> DEFINE on == ~gui.switch
             failures == IF on THEN 0 ELSE gui.failures
  <2>1. on \in BOOLEAN /\ failures \in Rounds!Failures BY <1>0 DEF Rounds!TypeOK
  <2>2. /\ Rounds!BroadcastAll(on, failures, 0) /\ gui.up
        /\ gui' = [gui EXCEPT !.switch = on, !.armed = on, !.failures = failures]
        /\ wish' = on /\ UNCHANGED <<round, tool, starts, upsets, raced>>
    BY <1>2 DEF Rounds!Toggles
  <2> HIDE DEF on, failures
  <2>3. /\ auto' \in [Rounds!Accounts -> Rounds!Row]
        /\ persisted' \in [enabled : BOOLEAN, failures : Rounds!Failures]
        /\ owed' \in [Rounds!Accounts -> 0..Rounds!Longest]
        /\ \A a \in Rounds!Accounts : owed'[a] = 0 /\ owed'[a] <= auto'[a].next /\ auto'[a].enabled = on
    BY <1>0, <2>1, <2>2, BroadcastKeeps
  <2>4. Rounds!TypeOK' /\ gui'.switch = on /\ gui'.up BY <2>1, <2>2, <2>3 DEF Rounds!TypeOK
  <2> QED BY <2>2, <2>3, <2>4, Tables
          DEF RowsAreTyped, BackoffIsKept, PauseIsSeen, Ahead, Rounds!Current
<1>3. CASE Rounds!TimerWaits \/ Rounds!Reschedules
  <2>1. /\ Rounds!BroadcastNext(0) \/ Rounds!BroadcastNext(Interval)
        /\ gui.up /\ gui.switch
        /\ gui' = gui \/ gui' = [gui EXCEPT !.armed = TRUE]
        /\ upsets' \in 0..MaxUpsets
        /\ UNCHANGED <<round, tool, starts, wish, raced>>
    BY <1>0, <1>3 DEF Rounds!TimerWaits, Rounds!Reschedules, Rounds!TypeOK
  <2>2. /\ auto' \in [Rounds!Accounts -> Rounds!Row]
        /\ persisted' \in [enabled : BOOLEAN, failures : Rounds!Failures]
        /\ owed' \in [Rounds!Accounts -> 0..Rounds!Longest]
        /\ \A a \in Rounds!Accounts : owed'[a] = 0 /\ owed'[a] <= auto'[a].next
    BY <1>0, <2>1, BroadcastKeeps
  <2>3. gui' \in GuiType /\ gui'.switch /\ gui'.up BY <2>1 DEF Rounds!TypeOK, GuiType
  <2>4. Rounds!TypeOK' BY <2>1, <2>2, <2>3 DEF Rounds!TypeOK, GuiType
  <2> QED BY <2>1, <2>2, <2>3, <2>4, Tables
          DEF RowsAreTyped, BackoffIsKept, PauseIsSeen, Ahead, Rounds!Current
<1>4. CASE Rounds!RoundRaises
  <2> DEFINE failures == Rounds!Capped(gui.failures + 1)
  <2>1. failures \in Rounds!Failures /\ failures \in 1..Len(Backoff) /\ Backoff[failures] \in 0..Rounds!Longest
    <3>1. gui.failures \in Nat BY Tables DEF Rounds!TypeOK, Rounds!Failures
    <3> QED BY <3>1, Tables
  <2>5. upsets' \in 0..MaxUpsets BY <1>0, <1>4 DEF Rounds!RoundRaises, Rounds!TypeOK
  <2>2. /\ round' = Rounds!NoRound
        /\ IF gui.switch
             THEN /\ gui' = [gui EXCEPT !.task = "none", !.armed = TRUE, !.failures = failures]
                  /\ Rounds!BroadcastAll(TRUE, failures, Backoff[failures])
             ELSE gui' = [gui EXCEPT !.task = "none"] /\ UNCHANGED <<auto, persisted, owed>>
        /\ UNCHANGED <<tool, starts, wish, raced>>
    BY <1>4 DEF Rounds!RoundRaises
  <2> HIDE DEF failures
  <2>3. /\ auto' \in [Rounds!Accounts -> Rounds!Row]
        /\ persisted' \in [enabled : BOOLEAN, failures : Rounds!Failures]
        /\ owed' \in [Rounds!Accounts -> 0..Rounds!Longest]
        /\ ~raced => \A a \in Rounds!Accounts : owed'[a] <= auto'[a].next
    BY <2>1, <2>2, BroadcastKeeps DEF Rounds!TypeOK, BackoffIsKept
  <2>4. gui' \in GuiType BY <2>1, <2>2 DEF Rounds!TypeOK, GuiType
  <2>6. Rounds!TypeOK' BY <2>2, <2>3, <2>4, <2>5, NoRoundIsTyped DEF Rounds!TypeOK, GuiType, RoundType
  <2> QED BY <2>2, <2>3, <2>6, NoRoundIsTyped DEF RowsAreTyped, BackoffIsKept, PauseIsSeen
<1> QED BY <1>1, <1>2, <1>3, <1>4

\* The steps of the window that tell nobody anything.
LEMMA QuietKeeps ==
  ASSUME RoundInv,
         Rounds!TimerRuns \/ Rounds!OtherTaskBegins \/ Rounds!OtherTaskEnds \/ Rounds!Dies \/ Rounds!RoundEnds
  PROVE  RoundInv'
<1> USE DEF RoundInv
<1>0. 0 \in Rounds!Failures BY Tables DEF Rounds!Failures
<1>1. CASE Rounds!TimerRuns
  <2>1. /\ round' = [Rounds!NoRound EXCEPT !.i = 1, !.at = "next", !.global = persisted.enabled]
        /\ gui' = [gui EXCEPT !.armed = FALSE, !.task = "round"] /\ gui.up /\ gui.switch
        /\ UNCHANGED <<auto, persisted, tool, starts, upsets, wish, owed, raced>>
    BY <1>1 DEF Rounds!TimerRuns
  <2>2. 1 \in 0..Len(Order) + 1 BY Tables
  <2>3. Rounds!TypeOK' BY <2>1, <2>2, NoRoundIsTyped DEF Rounds!TypeOK
  <2>4. round'.at = "next" /\ round'.i = 1 /\ round'.row \in Rounds!Row /\ gui'.up /\ gui'.switch
    BY <2>1, NoRoundIsTyped DEF Rounds!TypeOK
  <2> QED BY <2>1, <2>3, <2>4 DEF RowsAreTyped, BackoffIsKept, PauseIsSeen
<1>2. CASE Rounds!OtherTaskBegins \/ Rounds!OtherTaskEnds
  <2>1. /\ \E task \in {"none", "other"} : gui' = [gui EXCEPT !.task = task]
        /\ UNCHANGED <<auto, persisted, round, tool, starts, upsets, wish, owed, raced>>
    BY <1>2 DEF Rounds!OtherTaskBegins, Rounds!OtherTaskEnds
  <2>2. Rounds!TypeOK' /\ gui'.up = gui.up /\ gui'.switch = gui.switch BY <2>1 DEF Rounds!TypeOK
  <2> QED BY <2>1, <2>2 DEF RowsAreTyped, BackoffIsKept, PauseIsSeen, Ahead, Rounds!Current
<1>3. CASE Rounds!Dies
  BY <1>0, <1>3, NoRoundIsTyped
  DEF Rounds!Dies, Rounds!Down, Rounds!TypeOK, RowsAreTyped, BackoffIsKept, PauseIsSeen
<1>4. CASE Rounds!RoundEnds
  BY <1>0, <1>4, NoRoundIsTyped
  DEF Rounds!RoundEnds, Rounds!TypeOK, RowsAreTyped, BackoffIsKept, PauseIsSeen
<1> QED BY <1>1, <1>2, <1>3, <1>4

\* The round comes to an account.
LEMMA TakesAccountKeeps ==
  ASSUME RoundInv, Rounds!TakesAccount
  PROVE  RoundInv'
<1> USE DEF RoundInv
<1>1. /\ round.at = "next" /\ round.i \in 1..Len(Order) /\ Rounds!Current \in Rounds!Accounts
      /\ UNCHANGED <<auto, persisted, gui, tool, starts, upsets, wish, owed, raced>>
  BY Tables DEF Rounds!TakesAccount, RowsAreTyped, Rounds!TypeOK, Rounds!Current
<1>2. CASE Rounds!IsDue(auto[Rounds!Current])
  <2>1. round' = [round EXCEPT !.at = "receive", !.row = auto[Rounds!Current]]
    BY <1>2 DEF Rounds!TakesAccount
  <2>2. auto[Rounds!Current] \in Rounds!Row BY <1>1 DEF Rounds!TypeOK
  <2>3. round' \in RoundType BY <2>1, <2>2 DEF Rounds!TypeOK, RoundType
  <2>7. Rounds!TypeOK' BY <1>1, <2>3 DEF Rounds!TypeOK, RoundType
  <2>4. round'.at = "receive" /\ round'.i = round.i /\ round'.row \in Rounds!Row
    BY <2>1, <2>2 DEF Rounds!TypeOK
  <2>5. BackoffIsKept'
    <3>1. ~raced => owed[Rounds!Current] = 0
      BY <1>1, <1>2, Tables DEF BackoffIsKept, Rounds!IsDue, Rounds!TypeOK, Rounds!Row
    <3> QED BY <1>1, <2>4, <3>1 DEF BackoffIsKept, Rounds!Current
  <2>6. PauseIsSeen' BY <1>1, <2>4 DEF PauseIsSeen, Ahead
  <2> QED BY <1>1, <2>4, <2>5, <2>6, <2>7 DEF RowsAreTyped
<1>3. CASE ~Rounds!IsDue(auto[Rounds!Current])
  <2>1. round' = [round EXCEPT !.i = round.i + 1, !.at = "next"]
    BY <1>3 DEF Rounds!TakesAccount, Rounds!NextAccount
  <2>5. round.i + 1 \in 0..Len(Order) + 1 BY <1>1, Tables
  <2>6. round' \in RoundType BY <2>1, <2>5 DEF Rounds!TypeOK, RoundType
  <2>2. Rounds!TypeOK' BY <1>1, <2>6 DEF Rounds!TypeOK, RoundType
  <2>3. round'.at = "next" /\ round'.i = round.i + 1 /\ round'.row = round.row
    BY <2>1 DEF Rounds!TypeOK
  <2>4. PauseIsSeen' BY <1>1, <2>3 DEF PauseIsSeen, Ahead
  <2> QED BY <1>1, <2>2, <2>3, <2>4 DEF RowsAreTyped, BackoffIsKept
<1> QED BY <1>2, <1>3

\* The result of a receive is written to the row of its account, and to no other.
LEMMA ReceiveKeeps ==
  ASSUME RoundInv, Rounds!ReceiveSucceeds \/ Rounds!ReceiveIsBusy \/ Rounds!ReceiveFails
  PROVE  RoundInv'
<1> USE DEF RoundInv
<1>1. /\ round.at = "receive" /\ round.i \in 1..Len(Order) /\ Rounds!Current \in Rounds!Accounts
      /\ round' = [round EXCEPT !.i = round.i + 1, !.at = "next"]
      /\ UNCHANGED <<persisted, gui, tool, starts, upsets, wish, raced>>
  BY Tables DEF Rounds!ReceiveSucceeds, Rounds!ReceiveIsBusy, Rounds!ReceiveFails, Rounds!AfterFailure,
                Rounds!NextAccount, RowsAreTyped, Rounds!Current
<1>2. round'.at = "next" /\ round'.i = round.i + 1 /\ round'.row = round.row /\ round' \in RoundType
  <2>1. round.i + 1 \in 0..Len(Order) + 1 BY <1>1, Tables
  <2> QED BY <1>1, <2>1 DEF Rounds!TypeOK, RoundType
<1>3. \E n \in Rounds!Failures, d \in 0..Rounds!Longest :
        /\ auto' = [auto EXCEPT ![Rounds!Current] = [enabled |-> round.row.enabled, failures |-> n, next |-> d]]
        /\ \/ owed' = [owed EXCEPT ![Rounds!Current] = 0] \/ owed' = owed
           \/ owed' = [owed EXCEPT ![Rounds!Current] = d]
  <2>1. Rounds!Left(Interval) \in 0..Rounds!Longest BY LeftIsADelay, Tables
  <2>2. 0 \in Rounds!Failures /\ round.row.failures \in Rounds!Failures
    BY Tables DEF RowsAreTyped, Rounds!Row, Rounds!Failures
  <2>3. CASE Rounds!ReceiveSucceeds BY <2>1, <2>2, <2>3 DEF Rounds!ReceiveSucceeds, Rounds!Saves
  <2>4. CASE Rounds!ReceiveIsBusy BY <2>1, <2>2, <2>4 DEF Rounds!ReceiveIsBusy, Rounds!Saves
  <2>5. CASE Rounds!ReceiveFails
    <3>1. round.row.failures \in Nat BY <2>2, Tables DEF Rounds!Failures
    <3>2. /\ Rounds!Capped(round.row.failures + 1) \in Rounds!Failures
          /\ Rounds!Left(Backoff[Rounds!Capped(round.row.failures + 1)]) \in 0..Rounds!Longest
      BY <3>1, Tables, LeftIsADelay
    <3> QED BY <2>5, <3>2 DEF Rounds!ReceiveFails, Rounds!Saves
  <2> QED BY <2>3, <2>4, <2>5
<1>4. PICK n \in Rounds!Failures, d \in 0..Rounds!Longest :
        /\ auto' = [auto EXCEPT ![Rounds!Current] = [enabled |-> round.row.enabled, failures |-> n, next |-> d]]
        /\ \/ owed' = [owed EXCEPT ![Rounds!Current] = 0] \/ owed' = owed
           \/ owed' = [owed EXCEPT ![Rounds!Current] = d]
  BY <1>3
<1>5. /\ auto' \in [Rounds!Accounts -> Rounds!Row] /\ owed' \in [Rounds!Accounts -> 0..Rounds!Longest]
  <2>1. [enabled |-> round.row.enabled, failures |-> n, next |-> d] \in Rounds!Row
    BY DEF RowsAreTyped, Rounds!Row
  <2>2. auto' \in [Rounds!Accounts -> Rounds!Row] BY <1>4, <2>1 DEF Rounds!TypeOK
  <2>3. 0 \in 0..Rounds!Longest BY Tables
  <2>4. owed' \in [Rounds!Accounts -> 0..Rounds!Longest] BY <1>4, <2>3 DEF Rounds!TypeOK
  <2> QED BY <2>2, <2>4
<1>6. Rounds!TypeOK' BY <1>1, <1>2, <1>5 DEF Rounds!TypeOK, RoundType
<1>7. BackoffIsKept'
  <2>1. SUFFICES ASSUME ~raced, NEW a \in Rounds!Accounts PROVE owed'[a] <= auto'[a].next
    BY <1>1, <1>2 DEF BackoffIsKept
  <2>2. owed[a] <= auto[a].next /\ owed[Rounds!Current] = 0 BY <1>1, <2>1 DEF BackoffIsKept
  <2>3. CASE a = Rounds!Current
    <3>1. auto'[a].next = d BY <1>1, <1>4, <2>3 DEF Rounds!TypeOK
    <3>2. owed'[a] = 0 \/ owed'[a] = d BY <1>1, <1>4, <2>2, <2>3 DEF Rounds!TypeOK
    <3> QED BY <3>1, <3>2, Tables
  <2>4. CASE a # Rounds!Current BY <1>4, <2>2, <2>4 DEF Rounds!TypeOK
  <2> QED BY <2>3, <2>4
<1>8. PauseIsSeen'
  <2>1. SUFFICES ASSUME ~raced, NEW j \in Ahead', auto'[Order[j]].enabled PROVE gui.switch
    BY <1>1 DEF PauseIsSeen
  <2>2. j \in 1..Len(Order) /\ j > round.i BY <1>1, <1>2, <2>1 DEF Ahead
  <2>3. Order[j] # Rounds!Current BY <1>1, <2>2, Tables DEF Rounds!Current
  <2>4. auto'[Order[j]] = auto[Order[j]] BY <1>4, <2>2, <2>3, Tables DEF Rounds!TypeOK
  <2> QED BY <1>1, <2>1, <2>2, <2>4 DEF PauseIsSeen, Ahead
<1> QED BY <1>1, <1>2, <1>6, <1>7, <1>8 DEF RowsAreTyped

\* A tool puts back what it read, and a row it makes older is raced.
LEMMA ToolKeeps ==
  ASSUME RoundInv, NEW t \in Tools, Rounds!ToolStarts(t) \/ Rounds!ToolReads(t) \/ Rounds!ToolWrites(t)
  PROVE  RoundInv'
<1> USE DEF RoundInv
<1>1. CASE Rounds!ToolStarts(t) \/ Rounds!ToolReads(t)
  <2>1. UNCHANGED <<auto, persisted, gui, round, starts, upsets, wish, owed, raced>>
    BY <1>1 DEF Rounds!ToolStarts, Rounds!ToolReads
  <2>2. CASE Rounds!ToolStarts(t)
    <3>1. PICK a \in Rounds!Accounts :
            tool' = [tool EXCEPT ![t] = [Rounds!NoCall(a) EXCEPT !.at = "receive", !.before = auto[a].failures]]
      BY <2>2 DEF Rounds!ToolStarts
    <3>2. auto[a].failures \in Rounds!Failures BY DEF Rounds!TypeOK, Rounds!Row
    <3>4. [Rounds!NoCall(a) EXCEPT !.at = "receive", !.before = auto[a].failures] \in CallType
      <4>1. Rounds!NoCall(a) \in CallType BY NoRoundIsTyped DEF CallType
      <4> QED BY <3>2, <4>1, BeginsCall
    <3>5. tool' \in [Tools -> CallType] BY <3>1, <3>4 DEF Rounds!TypeOK, CallType
    <3>3. Rounds!TypeOK' BY <2>1, <3>5 DEF Rounds!TypeOK, CallType
    <3> QED BY <2>1, <3>3 DEF RowsAreTyped, BackoffIsKept, PauseIsSeen, Ahead, Rounds!Current
  <2>3. CASE Rounds!ToolReads(t)
    <3>2. Rounds!NoCall(Order[1]) \in CallType BY NoRoundIsTyped, Tables DEF CallType
    <3>3. \A ok \in BOOLEAN : [tool[t] EXCEPT !.at = "write", !.ok = ok, !.row = auto[tool[t].a]] \in CallType
      BY DEF Rounds!TypeOK, CallType
    <3>5. tool \in [Tools -> CallType] BY DEF Rounds!TypeOK, CallType
    <3>6. \E call \in CallType : tool' = [tool EXCEPT ![t] = call] BY <2>3, <3>2, <3>3 DEF Rounds!ToolReads
    <3>4. tool' \in [Tools -> CallType] BY <3>5, <3>6
    <3>1. Rounds!TypeOK' BY <2>1, <3>4 DEF Rounds!TypeOK, CallType
    <3> QED BY <2>1, <3>1 DEF RowsAreTyped, BackoffIsKept, PauseIsSeen, Ahead, Rounds!Current
  <2> QED BY <1>1, <2>2, <2>3
<1>2. CASE Rounds!ToolWrites(t)
  <2> DEFINE a == tool[t].a
             row == tool[t].row
             failures == IF tool[t].ok THEN 0 ELSE Rounds!Capped(tool[t].before + 1)
  <2>1. a \in Rounds!Accounts /\ row \in Rounds!Row BY DEF Rounds!TypeOK
  <2>2. failures \in Rounds!Failures
    <3>1. tool[t].before \in Nat BY Tables DEF Rounds!TypeOK, Rounds!Failures
    <3> QED BY <3>1, Tables DEF Rounds!Failures
  <2>3. /\ auto' = [auto EXCEPT ![a] = [row EXCEPT !.failures = failures]]
        /\ raced' = (raced \/ row.enabled # auto[a].enabled \/ row.next < auto[a].next)
        /\ tool' = [tool EXCEPT ![t] = Rounds!NoCall(Order[1])]
        /\ UNCHANGED <<persisted, gui, round, starts, upsets, wish, owed>>
    BY <1>2 DEF Rounds!ToolWrites
  <2> HIDE DEF a, row, failures
  <2>4. auto' \in [Rounds!Accounts -> Rounds!Row] BY <2>1, <2>2, <2>3 DEF Rounds!TypeOK, Rounds!Row
  <2>5. Rounds!TypeOK' BY <2>3, <2>4, NoRoundIsTyped, Tables DEF Rounds!TypeOK
  <2>6. ASSUME ~raced', NEW b \in Rounds!Accounts
        PROVE  auto'[b].enabled = auto[b].enabled /\ auto'[b].next >= auto[b].next
    <3>1. CASE b = a
      <4>1. auto'[b].enabled = row.enabled /\ auto'[b].next = row.next
        BY <2>1, <2>3, <3>1 DEF Rounds!TypeOK, Rounds!Row
      <4>2. row.enabled = auto[a].enabled /\ ~(row.next < auto[a].next) BY <2>3, <2>6
      <4>3. row.next \in Nat /\ auto[a].next \in Nat BY <2>1, Tables DEF Rounds!TypeOK, Rounds!Row
      <4> QED BY <3>1, <4>1, <4>2, <4>3
    <3>2. CASE b # a
      <4>1. auto[b].next \in Nat BY Tables DEF Rounds!TypeOK, Rounds!Row
      <4> QED BY <2>3, <3>2, <4>1 DEF Rounds!TypeOK
    <3> QED BY <3>1, <3>2
  <2>7. BackoffIsKept'
    <3>1. \A b \in Rounds!Accounts : owed[b] \in Nat /\ auto[b].next \in Nat /\ auto'[b].next \in Nat
      <4>1. \A b \in Rounds!Accounts : /\ owed[b] \in 0..Rounds!Longest /\ auto[b].next \in 0..Rounds!Longest
                                       /\ auto'[b].next \in 0..Rounds!Longest
        BY <2>4 DEF Rounds!TypeOK, Rounds!Row
      <4> QED BY <4>1, Tables
    <3>2. ~raced' => ~raced BY <2>3 DEF Rounds!TypeOK
    <3> QED BY <2>3, <2>6, <3>1, <3>2 DEF BackoffIsKept, Rounds!Current
  <2>8. PauseIsSeen'
    <3>1. ~raced' => ~raced BY <2>3 DEF Rounds!TypeOK
    <3> QED BY <2>3, <2>6, <3>1, Tables DEF PauseIsSeen, Ahead
  <2> QED BY <2>3, <2>5, <2>7, <2>8 DEF RowsAreTyped
<1> QED BY <1>1, <1>2

\* Time passes for what is owed and for the rows alike.
LEMMA TickKeeps ==
  ASSUME RoundInv, Rounds!Tick
  PROVE  RoundInv'
<1> USE DEF RoundInv
<1> DEFINE Older(n) == IF n > 0 THEN n - 1 ELSE 0
<1>1. /\ auto' = [a \in Rounds!Accounts |-> [auto[a] EXCEPT !.next = Older(auto[a].next)]]
      /\ owed' = [a \in Rounds!Accounts |-> Older(owed[a])]
      /\ round' = IF round.at # "none" /\ round.age < Rounds!Longest
                    THEN [round EXCEPT !.age = round.age + 1] ELSE round
      /\ UNCHANGED <<persisted, gui, tool, starts, upsets, wish, raced>>
  BY DEF Rounds!Tick
<1>2. round'.at = round.at /\ round'.i = round.i /\ round'.row = round.row /\ round' \in RoundType
  <2>1. CASE round.at # "none" /\ round.age < Rounds!Longest
    <3>1. round.age + 1 \in 0..Rounds!Longest BY <2>1, Tables DEF Rounds!TypeOK
    <3> QED BY <1>1, <2>1, <3>1 DEF Rounds!TypeOK, RoundType
  <2>2. CASE ~(round.at # "none" /\ round.age < Rounds!Longest) BY <1>1, <2>2 DEF Rounds!TypeOK, RoundType
  <2> QED BY <2>1, <2>2
<1>3. \A n \in 0..Rounds!Longest : Older(n) \in 0..Rounds!Longest BY Tables
<1>4. \A a \in Rounds!Accounts :
        /\ owed[a] \in 0..Rounds!Longest /\ auto[a].next \in 0..Rounds!Longest
        /\ owed'[a] = Older(owed[a]) /\ auto'[a].next = Older(auto[a].next)
        /\ auto'[a].enabled = auto[a].enabled
  BY <1>1 DEF Rounds!TypeOK, Rounds!Row
<1>5. auto' \in [Rounds!Accounts -> Rounds!Row] /\ owed' \in [Rounds!Accounts -> 0..Rounds!Longest]
  <2>1. \A a \in Rounds!Accounts : Older(owed[a]) \in 0..Rounds!Longest /\ Older(auto[a].next) \in 0..Rounds!Longest
    BY <1>3, <1>4
  <2> HIDE DEF Older
  <2>2. \A a \in Rounds!Accounts : [auto[a] EXCEPT !.next = Older(auto[a].next)] \in Rounds!Row
    BY <2>1 DEF Rounds!TypeOK, Rounds!Row
  <2> QED BY <1>1, <2>1, <2>2
<1>6. Rounds!TypeOK' BY <1>1, <1>2, <1>5 DEF Rounds!TypeOK, RoundType
<1>7. BackoffIsKept'
  <2>1. \A a \in Rounds!Accounts : owed[a] <= auto[a].next => owed'[a] <= auto'[a].next
    BY <1>4, Tables
  <2>2. round.at = "receive" => Rounds!Current \in Rounds!Accounts
    BY Tables DEF RowsAreTyped, Rounds!Current
  <2>3. round.at = "receive" /\ owed[Rounds!Current] = 0 => owed'[Rounds!Current] = 0 BY <1>4, <2>2
  <2> QED BY <1>1, <1>2, <2>1, <2>3 DEF BackoffIsKept, Rounds!Current
<1>8. PauseIsSeen' BY <1>1, <1>2, <1>4, Tables DEF PauseIsSeen, Ahead
<1> QED BY <1>1, <1>2, <1>6, <1>7, <1>8 DEF RowsAreTyped

\* Every step keeps the invariant.
LEMMA RoundStepKeeps == ASSUME RoundInv, [Rounds!Next]_(Rounds!vars) PROVE RoundInv'
<1>1. CASE UNCHANGED Rounds!vars
  BY <1>1 DEF Rounds!vars, RoundInv, Rounds!TypeOK, RowsAreTyped, BackoffIsKept, PauseIsSeen, Ahead, Rounds!Current
<1> QED BY <1>1, WindowKeeps, QuietKeeps, TakesAccountKeeps, ReceiveKeeps, ToolKeeps, TickKeeps
        DEF Rounds!Next, Rounds!RoundStep

\* A receive begins where nothing is owed, and not behind the back of a user who paused.
LEMMA RoundStepHonours ==
  ASSUME RoundInv, [Rounds!Next]_(Rounds!vars), NEW a \in Rounds!Accounts, Rounds!Receives(a)
  PROVE  (owed[a] = 0 \/ raced) /\ (gui.switch \/ raced)
<1> USE DEF RoundInv
<1>1. round.at = "next" /\ round'.at = "receive" /\ Rounds!Current = a BY DEF Rounds!Receives
<1>2. Rounds!TakesAccount
  BY <1>1, NoRoundIsTyped
  DEF Rounds!Next, Rounds!RoundStep, Rounds!vars, Rounds!Starts, Rounds!Toggles, Rounds!TimerRuns, Rounds!TimerWaits,
      Rounds!OtherTaskBegins, Rounds!OtherTaskEnds, Rounds!Reschedules, Rounds!Dies, Rounds!ReceiveSucceeds,
      Rounds!ReceiveIsBusy, Rounds!ReceiveFails, Rounds!RoundEnds, Rounds!RoundRaises, Rounds!ToolStarts,
      Rounds!ToolReads, Rounds!ToolWrites, Rounds!Tick, Rounds!TypeOK
<1>3. Rounds!IsDue(auto[a]) /\ round.i \in 1..Len(Order)
  BY <1>1, <1>2 DEF Rounds!TakesAccount, Rounds!NextAccount, RowsAreTyped, Rounds!TypeOK
<1>4. auto[a].enabled /\ auto[a].next = 0 BY <1>3 DEF Rounds!IsDue
<1>5. owed[a] = 0 \/ raced BY <1>4, Tables DEF BackoffIsKept, Rounds!TypeOK
<1>6. gui.switch \/ raced BY <1>1, <1>3, <1>4 DEF PauseIsSeen, Ahead, Rounds!Current
<1> QED BY <1>5, <1>6
-----------------------------------------------------------------------------
(* Accounts: what the owner's operation has still to do, and what a task    *)
(* has read, agree with the stores unless a task that was under way when    *)
(* the owner wrote has written over it.                                     *)

Secret == {Account!Nothing, "old", "new"}
Todos == {<<>>, <<"imap">>, <<"smtp">>, <<"imap", "smtp">>}
Pending(todo) == {todo[i] : i \in DOMAIN todo}
OwnerType == [at : {"idle", "switch", "secrets", "paths", "row", "clean", "env", "upsert"},
              op : {Account!NoOne, "create", "accept", "remove", "save"}, todo : Todos, new : BOOLEAN,
              clean : SUBSET {"secrets", "token"}, failed : BOOLEAN, previous : Secret]
TaskType == [at : {"idle", "listed", "secrets", "migrates", "copies", "marks", "works", "saves"},
             todo : Todos, read : Secret, on : BOOLEAN, lists : BOOLEAN]

AccountType == [state : {Account!NoOne, "live", "removed"}, enabled : BOOLEAN]
StoresTyped ==
  /\ provider \in Providers /\ configured \in BOOLEAN /\ switch \in BOOLEAN /\ allOn \in BOOLEAN
  /\ account \in AccountType
  /\ secrets \in [Account!Kinds -> Secret] /\ legacySecret \in Secret /\ remembered \in Secret
  /\ token \in {Account!Nothing, "old"} /\ marker \in BOOLEAN
  /\ before \subseteq Tasks /\ cleaned \subseteq {"secrets", "token"}
  /\ told \in BOOLEAN /\ overtaken \in BOOLEAN
ActorsAreTyped == StoresTyped /\ owner \in OwnerType /\ tasks \in [Tasks -> TaskType]

RowHolds ==
  /\ account.enabled => Account!Live
  /\ owner.at = "switch" => Account!Live /\ account.enabled
  /\ owner.at = "clean" => account.state = "removed" /\ Account!UnderWay \subseteq before

\* What a task has read and will write back, when the owner has not written since.
SavesHold == ~overtaken => \A t \in Tasks \ before : tasks[t].at = "saves" => tasks[t].on = switch
MigratesHold ==
  \A t \in Tasks : tasks[t].at = "migrates" =>
     /\ tasks[t].todo # <<>>
     /\ t \notin before =>
          /\ tasks[t].read = legacySecret /\ legacySecret # Account!Nothing
          /\ Account!FallsBack(Head(tasks[t].todo))
          /\ ~overtaken => secrets[Head(tasks[t].todo)] \in {Account!Nothing, legacySecret}

\* The secrets the owner's operation has set, and those it has deleted.
NewHolds ==
  owner.at \in {"switch", "secrets"} /\ owner.new /\ ~overtaken =>
    \A k \in Pending(Account!KindsOf) \ Pending(owner.todo) : secrets[k] = "new"
CleaningHolds ==
  owner.at = "clean" /\ "secrets" \in owner.clean /\ ~owner.failed /\ ~overtaken =>
    \A k \in Account!Kinds \ Pending(owner.todo) :
      secrets[k] = Account!Nothing /\ (Account!GoesWith(k) => legacySecret = Account!Nothing)

\* An older token is not copied again once the account's own has been deleted.
TokenHolds ==
  /\ owner.at = "paths" => provider = "gmail"
  /\ provider = "gmail" /\ configured =>
       /\ owner.at \in {"row", "clean"} /\ "token" \in owner.clean => marker
       /\ "token" \in cleaned => marker
  /\ "token" \in cleaned => \A t \in Tasks : tasks[t].at = "copies" => t \in before
EnvHolds == owner.at = "env" /\ owner.new => "secrets" \notin cleaned

RowInv == RowHolds /\ Account!RowIsAsChosen /\ Account!SwitchFollows
ReadInv == SavesHold /\ MigratesHold
ToldInv == NewHolds /\ Account!ToldIsTrue
CleanInv == CleaningHolds /\ TokenHolds /\ EnvHolds /\ Account!CleanedIsClean
AccountInv == ActorsAreTyped /\ RowInv /\ ReadInv /\ ToldInv /\ CleanInv

\* The lists of secrets an operation or a task has still to go through.
LEMMA TodoLists ==
  /\ \A todo \in Todos : Pending(todo) \subseteq Account!Kinds
  /\ \A todo \in Todos : todo # <<>> =>
       /\ Head(todo) \in Account!Kinds /\ Tail(todo) \in Todos
       /\ Pending(todo) = Pending(Tail(todo)) \cup {Head(todo)}
  /\ Pending(<<>>) = {} /\ Pending(<<"imap", "smtp">>) = Account!Kinds
  /\ <<>> \in Todos /\ <<"imap", "smtp">> \in Todos
<1>1. Pending(<<>>) = {} BY DEF Pending
<1>2. Pending(<<"imap">>) = {"imap"} /\ Pending(<<"smtp">>) = {"smtp"} /\ Pending(<<"imap", "smtp">>) = {"imap", "smtp"}
  BY DEF Pending
<1>3. /\ Head(<<"imap">>) = "imap" /\ Tail(<<"imap">>) = <<>>
      /\ Head(<<"smtp">>) = "smtp" /\ Tail(<<"smtp">>) = <<>>
      /\ Head(<<"imap", "smtp">>) = "imap" /\ Tail(<<"imap", "smtp">>) = <<"smtp">>
  OBVIOUS
<1>4. \A todo \in Todos : Pending(todo) \subseteq Account!Kinds BY <1>1, <1>2 DEF Todos, Account!Kinds
<1>5. ASSUME NEW todo \in Todos, todo # <<>>
      PROVE  /\ Head(todo) \in Account!Kinds /\ Tail(todo) \in Todos
             /\ Pending(todo) = Pending(Tail(todo)) \cup {Head(todo)}
  <2>1. CASE todo = <<"imap">> BY <1>1, <1>2, <1>3, <2>1 DEF Todos, Account!Kinds
  <2>2. CASE todo = <<"smtp">> BY <1>1, <1>2, <1>3, <2>2 DEF Todos, Account!Kinds
  <2>3. CASE todo = <<"imap", "smtp">> BY <1>1, <1>2, <1>3, <2>3 DEF Todos, Account!Kinds
  <2> QED BY <1>5, <2>1, <2>2, <2>3 DEF Todos
<1> QED BY <1>1, <1>2, <1>4, <1>5 DEF Account!Kinds, Todos

\* The secrets of the account are such a list.
LEMMA KindsOfAccount ==
  /\ Account!KindsOf \in Todos /\ Account!KindsOf # <<>>
  /\ Pending(Account!KindsOf) = IF provider = "gmail" THEN {"imap"} ELSE Account!Kinds
  /\ Account!ToldIsTrue <=> (told /\ ~overtaken => \A k \in Pending(Account!KindsOf) : secrets[k] = "new")
<1>1. Account!KindsOf \in Todos /\ Account!KindsOf # <<>> BY DEF Account!KindsOf, Todos
<1>2. Pending(<<"imap">>) = {"imap"} /\ Pending(<<"imap", "smtp">>) = {"imap", "smtp"} BY DEF Pending
<1>3. Pending(Account!KindsOf) = IF provider = "gmail" THEN {"imap"} ELSE Account!Kinds
  BY <1>2 DEF Account!KindsOf, Account!Kinds
<1> QED BY <1>1, <1>3 DEF Account!ToldIsTrue, Pending

\* The changes of the record of an operation, and of a task's, leave it one.
Places == {"idle", "switch", "secrets", "paths", "row", "clean", "env", "upsert"}
Operations == {"create", "accept", "remove", "save"}
Stations == {"idle", "listed", "secrets", "migrates", "copies", "marks", "works", "saves"}

LEMMA OwnerChanges ==
  /\ Account!IdleOwner \in OwnerType
  /\ \A place \in Places, op \in Operations, new \in BOOLEAN, todo \in Todos :
       [Account!IdleOwner EXCEPT !.at = place, !.op = op, !.new = new, !.todo = todo] \in OwnerType
  /\ \A place \in Places, op \in Operations, c \in SUBSET {"secrets", "token"} :
       [Account!IdleOwner EXCEPT !.at = place, !.op = op, !.clean = c] \in OwnerType
  /\ \A place \in Places, op \in Operations, new \in BOOLEAN, s \in Secret :
       [Account!IdleOwner EXCEPT !.at = place, !.op = op, !.new = new, !.previous = s] \in OwnerType
  /\ \A o \in OwnerType, place \in Places : [o EXCEPT !.at = place] \in OwnerType
  /\ \A o \in OwnerType, todo \in Todos :
       /\ [o EXCEPT !.todo = todo] \in OwnerType
       /\ [o EXCEPT !.todo = todo, !.failed = TRUE] \in OwnerType
  /\ \A o \in OwnerType, place \in Places, todo \in Todos : [o EXCEPT !.at = place, !.todo = todo] \in OwnerType
  /\ \A o \in OwnerType, place \in Places, c \in SUBSET {"secrets", "token"} :
       [o EXCEPT !.at = place, !.clean = c, !.failed = TRUE] \in OwnerType
<1>1. Account!IdleOwner \in OwnerType BY TodoLists DEF Account!IdleOwner, OwnerType, Secret
<1>2. \A o \in OwnerType, place \in Places, op \in Operations, new \in BOOLEAN, todo \in Todos :
        [o EXCEPT !.at = place, !.op = op, !.new = new, !.todo = todo] \in OwnerType
  BY DEF OwnerType, Places, Operations
<1>3. \A o \in OwnerType, place \in Places, op \in Operations, c \in SUBSET {"secrets", "token"} :
        [o EXCEPT !.at = place, !.op = op, !.clean = c] \in OwnerType
  BY DEF OwnerType, Places, Operations
<1>4. \A o \in OwnerType, place \in Places, op \in Operations, new \in BOOLEAN, s \in Secret :
        [o EXCEPT !.at = place, !.op = op, !.new = new, !.previous = s] \in OwnerType
  BY DEF OwnerType, Places, Operations
<1>5. \A o \in OwnerType, place \in Places : [o EXCEPT !.at = place] \in OwnerType
  BY DEF OwnerType, Places
<1>6. \A o \in OwnerType, todo \in Todos :
        /\ [o EXCEPT !.todo = todo] \in OwnerType
        /\ [o EXCEPT !.todo = todo, !.failed = TRUE] \in OwnerType
  BY DEF OwnerType
<1>7. \A o \in OwnerType, place \in Places, todo \in Todos : [o EXCEPT !.at = place, !.todo = todo] \in OwnerType
  BY DEF OwnerType, Places
<1>8. \A o \in OwnerType, place \in Places, c \in SUBSET {"secrets", "token"} :
        [o EXCEPT !.at = place, !.clean = c, !.failed = TRUE] \in OwnerType
  BY DEF OwnerType, Places
<1>9. /\ \A place \in Places, op \in Operations, new \in BOOLEAN, todo \in Todos :
           [Account!IdleOwner EXCEPT !.at = place, !.op = op, !.new = new, !.todo = todo] \in OwnerType
      /\ \A place \in Places, op \in Operations, c \in SUBSET {"secrets", "token"} :
           [Account!IdleOwner EXCEPT !.at = place, !.op = op, !.clean = c] \in OwnerType
      /\ \A place \in Places, op \in Operations, new \in BOOLEAN, s \in Secret :
           [Account!IdleOwner EXCEPT !.at = place, !.op = op, !.new = new, !.previous = s] \in OwnerType
  BY <1>1, <1>2, <1>3, <1>4
<1> QED BY <1>1, <1>5, <1>6, <1>7, <1>8, <1>9

LEMMA AccountTypes == ActorsAreTyped => Account!TypeOK
<1>1. ASSUME ActorsAreTyped
      PROVE  /\ owner.at \in {"idle", "switch", "secrets", "paths", "row", "clean", "env", "upsert"}
             /\ \A t \in Tasks : tasks[t].at \in {"idle", "listed", "secrets", "migrates", "copies", "marks", "works", "saves"}
  BY <1>1 DEF OwnerType, TaskType, ActorsAreTyped
<1> QED BY <1>1 DEF StoresTyped, ActorsAreTyped, Account!TypeOK, AccountType, Secret

LEMMA TaskChanges ==
  /\ Account!IdleTask \in TaskType
  /\ Account!InContext \in TaskType
  /\ [Account!InContext EXCEPT !.lists = TRUE] \in TaskType
  /\ [Account!IdleTask EXCEPT !.at = "listed", !.lists = TRUE] \in TaskType
  /\ \A k \in TaskType, place \in Stations : [k EXCEPT !.at = place] \in TaskType
  /\ \A k \in TaskType, todo \in Todos : [k EXCEPT !.todo = todo] \in TaskType
  /\ \A k \in TaskType, place \in Stations, s \in Secret : [k EXCEPT !.at = place, !.read = s] \in TaskType
  /\ \A k \in TaskType, place \in Stations, on \in BOOLEAN : [k EXCEPT !.at = place, !.on = on] \in TaskType
  /\ \A k \in TaskType, place \in Stations, todo \in Todos, s \in Secret :
       [k EXCEPT !.at = place, !.todo = todo, !.read = s] \in TaskType
<1>1. Account!IdleTask \in TaskType BY TodoLists DEF Account!IdleTask, TaskType, Secret
<1>2. ASSUME NEW k \in TaskType, NEW place \in Stations, NEW todo \in Todos
      PROVE  /\ [k EXCEPT !.at = place] \in TaskType
             /\ [k EXCEPT !.todo = todo] \in TaskType
             /\ \A s \in Secret : /\ [k EXCEPT !.at = place, !.read = s] \in TaskType
                                 /\ [k EXCEPT !.at = place, !.todo = todo, !.read = s] \in TaskType
             /\ \A on \in BOOLEAN : [k EXCEPT !.at = place, !.on = on] \in TaskType
             /\ [k EXCEPT !.at = place, !.lists = TRUE] \in TaskType
             /\ [k EXCEPT !.lists = TRUE] \in TaskType
             /\ [k EXCEPT !.at = place, !.todo = todo] \in TaskType
  BY DEF TaskType, Stations
<1>3. "listed" \in Stations /\ "secrets" \in Stations BY DEF Stations
<1>4. Account!InContext \in TaskType BY <1>1, <1>2, <1>3, KindsOfAccount DEF Account!InContext
<1>5. <<>> \in Todos BY TodoLists
<1> QED BY <1>1, <1>2, <1>3, <1>4, <1>5

\* The owner writes: whatever a task under way has read is no longer counted on.
LEMMA OwnerWritesKeeps ==
  ASSUME AccountInv, UNCHANGED tasks, Account!Writes
  PROVE  /\ overtaken' = overtaken => ReadInv'
         /\ (Account!UnderWay \subseteq before)'
         /\ before' \subseteq Tasks
         /\ \A t \in Tasks : tasks'[t].at = "copies" => t \in before'
<1>1. before' = before \cup Account!UnderWay /\ tasks' = tasks BY DEF Account!Writes
<1>2. \A t \in Tasks : tasks'[t].at # "idle" => t \in before' BY <1>1 DEF Account!UnderWay
<1>3. before' \subseteq Tasks BY <1>1 DEF AccountInv, ActorsAreTyped, StoresTyped, Account!UnderWay
<1>4. ReadInv' BY <1>1, <1>2 DEF AccountInv, ReadInv, SavesHold, MigratesHold
<1> QED BY <1>1, <1>2, <1>3, <1>4 DEF Account!UnderWay

\* What is not touched stays as it was.
LEMMA RowStays ==
  ASSUME AccountInv, UNCHANGED <<account, chosen, switch, allOn>>, overtaken => overtaken',
         owner'.at # "switch" \/ owner'.at = owner.at,
         owner'.at # "clean" \/ (owner'.at = owner.at /\ (Account!UnderWay \subseteq before)')
  PROVE  RowInv'
BY DEF AccountInv, RowInv, RowHolds, Account!RowIsAsChosen, Account!SwitchFollows, Account!Live

LEMMA ReadStays ==
  ASSUME AccountInv, UNCHANGED <<tasks, before, overtaken, switch, secrets, legacySecret, configured, provider>>
  PROVE  ReadInv'
BY DEF AccountInv, ReadInv, SavesHold, MigratesHold, Account!FallsBack

\* create_mail_account.
LEMMA CreatesKeeps == ASSUME AccountInv, NEW new \in BOOLEAN, Account!Creates(new) PROVE AccountInv'
<1> USE DEF Account!Nothing, Account!NoOne
<1> DEFINE todo == IF new THEN Account!KindsOf ELSE <<>>
<1>1. /\ owner' = [Account!IdleOwner EXCEPT !.at = "switch", !.op = "create", !.new = new, !.todo = todo]
      /\ account' = [state |-> "live", enabled |-> TRUE] /\ chosen' = [state |-> "live", enabled |-> TRUE]
      /\ ~Account!Live /\ Account!Writes
      /\ UNCHANGED <<provider, allOn, token, marker, tasks, faults, configured, switch, secrets, legacySecret,
                     remembered, told, cleaned, overtaken>>
  BY DEF Account!Creates, Account!Starts
<1>2. todo \in Todos BY KindsOfAccount, TodoLists
<1> HIDE DEF todo
<1>3. owner'.at = "switch" /\ owner'.new = new /\ owner'.todo = todo
  BY <1>1 DEF Account!IdleOwner
<1>4. ActorsAreTyped'
  <2>1. owner' \in OwnerType BY <1>1, <1>2, OwnerChanges DEF Places, Operations
  <2>2. account' \in AccountType BY <1>1 DEF AccountType
  <2> QED BY <1>1, <2>1, <2>2, OwnerWritesKeeps DEF AccountInv, StoresTyped, ActorsAreTyped
<1>5. RowInv'
  BY <1>1, <1>3 DEF AccountInv, RowInv, RowHolds, Account!RowIsAsChosen, Account!SwitchFollows, Account!Live
<1>6. ReadInv' BY <1>1, OwnerWritesKeeps
<1>7. ToldInv'
  <2>1. Account!ToldIsTrue' BY <1>1 DEF AccountInv, ToldInv, Account!ToldIsTrue, Account!KindsOf
  <2>2. new => Pending(Account!KindsOf) = Pending(todo) BY DEF todo
  <2> QED BY <1>1, <1>3, <2>1, <2>2 DEF ToldInv, NewHolds, Account!KindsOf
<1>8. CleanInv'
  BY <1>1, <1>3, OwnerWritesKeeps
  DEF AccountInv, CleanInv, CleaningHolds, TokenHolds, EnvHolds, Account!CleanedIsClean
<1> QED BY <1>4, <1>5, <1>6, <1>7, <1>8 DEF AccountInv

\* The dialog of the account: its row and its switch change together.
LEMMA AcceptsKeeps ==
  ASSUME AccountInv, NEW new \in BOOLEAN, NEW on \in BOOLEAN, Account!Accepts(on, new) PROVE AccountInv'
<1> USE DEF Account!Nothing, Account!NoOne
<1> DEFINE todo == IF new THEN Account!KindsOf ELSE <<>>
           place == IF on THEN "switch" ELSE "secrets"
<1>1. /\ owner' = [Account!IdleOwner EXCEPT !.at = place, !.op = "accept", !.new = new, !.todo = todo]
      /\ account' = [account EXCEPT !.enabled = on] /\ chosen' = [state |-> "live", enabled |-> on]
      /\ switch' = (switch /\ on)
      /\ Account!Live /\ Account!Writes
      /\ UNCHANGED <<provider, allOn, token, marker, tasks, faults, configured, secrets, legacySecret,
                     remembered, told, cleaned, overtaken>>
  BY DEF Account!Accepts, Account!Starts
<1>2. todo \in Todos /\ place \in {"switch", "secrets"} BY KindsOfAccount, TodoLists
<1>3. on => place = "switch" BY DEF place
<1>9. place = "switch" => on BY DEF place
<1>10. new => Pending(Account!KindsOf) = Pending(todo) BY DEF todo
<1> HIDE DEF todo, place
<1>11. owner'.at = place /\ owner'.new = new /\ owner'.todo = todo
  BY <1>1 DEF Account!IdleOwner
<1>4. ActorsAreTyped'
  <2>1. owner' \in OwnerType BY <1>1, <1>2, OwnerChanges DEF Places, Operations
  <2>2. account' \in AccountType BY <1>1 DEF AccountType, AccountInv, StoresTyped, ActorsAreTyped
  <2>3. switch' \in BOOLEAN BY <1>1
  <2> QED BY <1>1, <2>1, <2>2, <2>3, OwnerWritesKeeps DEF AccountInv, StoresTyped, ActorsAreTyped
<1>5. RowInv'
  <2>1. account' = [state |-> "live", enabled |-> on]
    BY <1>1 DEF AccountInv, ActorsAreTyped, StoresTyped, AccountType, Account!Live
  <2> QED BY <1>1, <1>2, <1>9, <1>11, <2>1
      DEF AccountInv, RowInv, RowHolds, Account!RowIsAsChosen, Account!SwitchFollows, Account!Live
<1>6. ReadInv' BY <1>1, OwnerWritesKeeps
<1>7. ToldInv'
  <2>1. Account!ToldIsTrue' BY <1>1 DEF AccountInv, ToldInv, Account!ToldIsTrue, Account!KindsOf
  <2> QED BY <1>1, <1>10, <1>11, <2>1 DEF ToldInv, NewHolds, Account!KindsOf
<1>8. CleanInv'
  BY <1>1, <1>2, <1>11, OwnerWritesKeeps
  DEF AccountInv, CleanInv, CleaningHolds, TokenHolds, EnvHolds, Account!CleanedIsClean
<1> QED BY <1>4, <1>5, <1>6, <1>7, <1>8 DEF AccountInv

\* The switch of all accounts becomes the account's.
LEMMA CopiesSwitchKeeps == ASSUME AccountInv, Account!CopiesSwitch PROVE AccountInv'
<1> USE DEF Account!Nothing, Account!NoOne
<1>1. /\ owner.at = "switch" /\ switch' = allOn /\ owner' = [owner EXCEPT !.at = "secrets"] /\ Account!Writes
      /\ UNCHANGED <<provider, configured, account, allOn, secrets, legacySecret, remembered, token, marker, tasks,
                     chosen, told, cleaned, overtaken>>
  BY DEF Account!CopiesSwitch
<1>2. owner'.at = "secrets" /\ owner'.new = owner.new /\ owner'.todo = owner.todo
  BY <1>1 DEF AccountInv, ActorsAreTyped, OwnerType
<1>3. ActorsAreTyped'
  <2>1. owner' \in OwnerType BY <1>1, OwnerChanges DEF Places, AccountInv, ActorsAreTyped
  <2> QED BY <1>1, <2>1, OwnerWritesKeeps DEF AccountInv, StoresTyped, ActorsAreTyped
<1>4. RowInv'
  BY <1>1, <1>2 DEF AccountInv, RowInv, RowHolds, Account!RowIsAsChosen, Account!SwitchFollows, Account!Live
<1>5. ReadInv' BY <1>1, OwnerWritesKeeps
<1>6. ToldInv'
  BY <1>1, <1>2 DEF AccountInv, ToldInv, NewHolds, Account!ToldIsTrue, Account!KindsOf
<1>7. CleanInv'
  BY <1>1, <1>2, OwnerWritesKeeps
  DEF AccountInv, CleanInv, CleaningHolds, TokenHolds, EnvHolds, Account!CleanedIsClean
<1> QED BY <1>3, <1>4, <1>5, <1>6, <1>7 DEF AccountInv

\* A secret is set, or it is not and the owner is told so.
LEMMA SetsSecretKeeps == ASSUME AccountInv, Account!SetsSecret PROVE AccountInv'
<1> USE DEF Account!Nothing, Account!NoOne
<1>1. /\ owner.at = "secrets" /\ owner.todo # <<>>
      /\ UNCHANGED <<provider, configured, account, switch, allOn, legacySecret, remembered, token, marker, tasks,
                     chosen, overtaken, ops>>
  BY DEF Account!SetsSecret
<1>2. /\ owner \in OwnerType /\ owner.todo \in Todos /\ Head(owner.todo) \in Account!Kinds
      /\ Tail(owner.todo) \in Todos /\ Pending(owner.todo) = Pending(Tail(owner.todo)) \cup {Head(owner.todo)}
  BY <1>1, TodoLists DEF AccountInv, ActorsAreTyped, OwnerType
<1>3. CASE /\ secrets' = [secrets EXCEPT ![Head(owner.todo)] = "new"]
           /\ owner' = [owner EXCEPT !.todo = Tail(owner.todo)]
           /\ cleaned' = cleaned \ {"secrets"} /\ Account!Writes /\ UNCHANGED <<told, faults>>
  <2>1. owner'.at = "secrets" /\ owner'.new = owner.new /\ owner'.todo = Tail(owner.todo)
    BY <1>1, <1>2, <1>3 DEF OwnerType
  <2>2. \A k \in Account!Kinds : secrets'[k] = IF k = Head(owner.todo) THEN "new" ELSE secrets[k]
    BY <1>2, <1>3 DEF AccountInv, ActorsAreTyped, StoresTyped
  <2>3. ActorsAreTyped'
    <3>1. owner' \in OwnerType BY <1>2, <1>3, OwnerChanges
    <3>2. secrets' \in [Account!Kinds -> Secret]
      BY <1>2, <1>3 DEF AccountInv, ActorsAreTyped, StoresTyped, Secret
    <3> QED BY <1>1, <1>3, <3>1, <3>2, OwnerWritesKeeps DEF AccountInv, StoresTyped, ActorsAreTyped
  <2>4. RowInv' BY <1>1, <2>1, RowStays
  <2>5. ReadInv' BY <1>1, <1>3, OwnerWritesKeeps
  <2>6. ToldInv'
    <3>1. Pending(Account!KindsOf) \subseteq Account!Kinds BY KindsOfAccount, TodoLists
    <3>2. Account!KindsOf' = Account!KindsOf BY <1>1 DEF Account!KindsOf
    <3>3. Account!ToldIsTrue' BY <1>1, <1>3, <2>2, <3>1, <3>2, KindsOfAccount
      DEF AccountInv, ToldInv, Account!ToldIsTrue, Pending
    <3>4. NewHolds' BY <1>1, <1>2, <2>1, <2>2, <3>1, <3>2 DEF AccountInv, ToldInv, NewHolds
    <3> QED BY <3>3, <3>4 DEF ToldInv
  <2>7. CleanInv'
    BY <1>1, <1>3, <2>1, OwnerWritesKeeps
    DEF AccountInv, CleanInv, CleaningHolds, TokenHolds, EnvHolds, Account!CleanedIsClean
  <2> QED BY <2>3, <2>4, <2>5, <2>6, <2>7 DEF AccountInv
<1>4. CASE owner' = Account!IdleOwner /\ told' = FALSE /\ UNCHANGED <<secrets, cleaned, before>>
  <2>1. owner'.at = "idle" BY <1>4 DEF Account!IdleOwner
  <2>2. ActorsAreTyped' BY <1>1, <1>4, OwnerChanges DEF AccountInv, StoresTyped, ActorsAreTyped
  <2>3. RowInv' /\ ReadInv' BY <1>1, <1>4, <2>1, RowStays, ReadStays
  <2>4. ToldInv' BY <1>4, <2>1 DEF ToldInv, NewHolds, Account!ToldIsTrue
  <2>5. CleanInv'
    BY <1>1, <1>4, <2>1
    DEF AccountInv, CleanInv, CleaningHolds, TokenHolds, EnvHolds, Account!CleanedIsClean
  <2> QED BY <2>2, <2>3, <2>4, <2>5 DEF AccountInv
<1> QED BY <1>3, <1>4 DEF Account!SetsSecret

\* The owner is told that every secret is saved, when the last one is.
LEMMA IsToldKeeps == ASSUME AccountInv, Account!IsTold PROVE AccountInv'
<1> USE DEF Account!Nothing, Account!NoOne
<1>1. /\ owner.at = "secrets" /\ owner.todo = <<>> /\ told' = (told \/ owner.new) /\ owner' = Account!IdleOwner
      /\ UNCHANGED <<provider, configured, account, switch, allOn, secrets, legacySecret, remembered, token, marker,
                     tasks, chosen, cleaned, before, overtaken>>
  BY DEF Account!IsTold
<1>2. owner'.at = "idle" BY <1>1 DEF Account!IdleOwner
<1>3. ActorsAreTyped'
  <2>1. told' \in BOOLEAN BY <1>1
  <2> QED BY <1>1, <2>1, OwnerChanges DEF AccountInv, StoresTyped, ActorsAreTyped
<1>4. RowInv' /\ ReadInv' BY <1>1, <1>2, RowStays, ReadStays
<1>5. ToldInv'
  <2>1. owner.new /\ ~overtaken => \A k \in Pending(Account!KindsOf) : secrets[k] = "new"
    BY <1>1, TodoLists DEF AccountInv, ToldInv, NewHolds
  <2>2. told /\ ~overtaken => \A k \in Pending(Account!KindsOf) : secrets[k] = "new"
    BY KindsOfAccount DEF AccountInv, ToldInv
  <2>3. Account!KindsOf' = Account!KindsOf BY <1>1 DEF Account!KindsOf
  <2>4. Account!ToldIsTrue' BY <1>1, <2>1, <2>2, <2>3 DEF Account!ToldIsTrue, Pending
  <2> QED BY <1>2, <2>4 DEF ToldInv, NewHolds
<1>6. CleanInv'
  BY <1>1, <1>2
  DEF AccountInv, CleanInv, CleaningHolds, TokenHolds, EnvHolds, Account!CleanedIsClean
<1> QED BY <1>3, <1>4, <1>5, <1>6 DEF AccountInv

\* A removal begins.
LEMMA RemovesKeeps ==
  ASSUME AccountInv, NEW c \in SUBSET {"secrets", "token"}, Account!Removes(c) PROVE AccountInv'
<1> USE DEF Account!Nothing, Account!NoOne
<1> DEFINE place == IF "token" \in c /\ provider = "gmail" THEN "paths" ELSE "row"
<1>1. /\ owner' = [Account!IdleOwner EXCEPT !.at = place, !.op = "remove", !.clean = c]
      /\ UNCHANGED <<provider, allOn, token, marker, tasks, faults, configured, account, switch, secrets, legacySecret,
                     remembered, chosen, told, cleaned, before, overtaken>>
  BY DEF Account!Removes, Account!Starts
<1>2. place \in {"paths", "row"} /\ (place = "paths" => provider = "gmail")
      /\ ("token" \in c /\ provider = "gmail" => place = "paths")
  BY DEF place
<1> HIDE DEF place
<1>3. owner'.at = place /\ owner'.clean = c BY <1>1 DEF Account!IdleOwner
<1>4. ActorsAreTyped'
  <2>1. owner' \in OwnerType BY <1>1, <1>2, OwnerChanges DEF Places, Operations
  <2> QED BY <1>1, <2>1 DEF AccountInv, StoresTyped, ActorsAreTyped
<1>5. RowInv' /\ ReadInv' BY <1>1, <1>2, <1>3, RowStays, ReadStays
<1>6. ToldInv'
  BY <1>1, <1>2, <1>3 DEF AccountInv, ToldInv, NewHolds, Account!ToldIsTrue, Account!KindsOf
<1>7. CleanInv'
  BY <1>1, <1>2, <1>3
  DEF AccountInv, CleanInv, CleaningHolds, TokenHolds, EnvHolds, Account!CleanedIsClean
<1> QED BY <1>4, <1>5, <1>6, <1>7 DEF AccountInv

\* The context of the account takes over the older secret and token, or the token is left where it is.
LEMMA FindsTokenKeeps == ASSUME AccountInv, Account!FindsToken PROVE AccountInv'
<1> USE DEF Account!Nothing, Account!NoOne
<1>1. /\ owner.at = "paths" /\ provider = "gmail"
      /\ UNCHANGED <<provider, configured, account, switch, allOn, legacySecret, remembered, tasks, chosen, told,
                     before, overtaken, ops>>
  BY DEF Account!FindsToken, AccountInv, CleanInv, TokenHolds
<1>2. CASE /\ secrets' = [k \in Account!Kinds |-> IF Account!FallsBack(k) /\ secrets[k] = Account!Nothing THEN legacySecret
                                                ELSE secrets[k]]
           /\ token' = IF configured /\ ~marker /\ token = Account!Nothing THEN "old" ELSE token
           /\ marker' = (marker \/ configured)
           /\ owner' = [owner EXCEPT !.at = "row"]
           /\ cleaned' = {c \in cleaned : c # "secrets" \/ secrets' = secrets}
  <2>1. owner'.at = "row" /\ owner'.clean = owner.clean BY <1>2 DEF AccountInv, ActorsAreTyped, OwnerType
  <2>2. \A k \in Account!Kinds : secrets'[k] = secrets[k] \/ (secrets[k] = Account!Nothing /\ secrets'[k] = legacySecret)
    BY <1>2
  <2>3. ActorsAreTyped'
    <3>1. owner' \in OwnerType BY <1>2, OwnerChanges DEF Places, AccountInv, ActorsAreTyped
    <3>2. secrets' \in [Account!Kinds -> Secret] BY <1>2 DEF AccountInv, ActorsAreTyped, StoresTyped
    <3>3. token' \in {Account!Nothing, "old"} /\ marker' \in BOOLEAN /\ cleaned' \subseteq {"secrets", "token"}
      BY <1>2 DEF AccountInv, ActorsAreTyped, StoresTyped
    <3> QED BY <1>1, <3>1, <3>2, <3>3 DEF AccountInv, StoresTyped, ActorsAreTyped
  <2>4. RowInv' BY <1>1, <2>1, RowStays
  <2>5. ReadInv'
    <3>1. \A t \in Tasks : tasks[t].at = "migrates" => Head(tasks[t].todo) \in Account!Kinds
      BY TodoLists DEF AccountInv, ActorsAreTyped, TaskType, ReadInv, MigratesHold
    <3> QED BY <1>1, <2>2, <3>1 DEF AccountInv, ReadInv, SavesHold, MigratesHold, Account!FallsBack
  <2>6. ToldInv'
    <3>1. Pending(Account!KindsOf) \subseteq Account!Kinds BY KindsOfAccount, TodoLists
    <3>2. Account!KindsOf' = Account!KindsOf BY <1>1 DEF Account!KindsOf
    <3>3. told /\ ~overtaken => \A k \in Pending(Account!KindsOf) : secrets[k] = "new"
      BY KindsOfAccount DEF AccountInv, ToldInv
    <3>4. Account!ToldIsTrue' BY <1>1, <2>2, <3>1, <3>2, <3>3 DEF Account!ToldIsTrue, Pending
    <3> QED BY <2>1, <3>4 DEF ToldInv, NewHolds
  <2>7. CleanInv'
    <3>1. TokenHolds' BY <1>1, <1>2, <2>1 DEF AccountInv, CleanInv, TokenHolds, ActorsAreTyped, StoresTyped
    <3>2. Account!CleanedIsClean'
      BY <1>1, <1>2 DEF AccountInv, CleanInv, TokenHolds, Account!CleanedIsClean
    <3> QED BY <2>1, <3>1, <3>2 DEF CleanInv, CleaningHolds, EnvHolds
  <2> QED BY <2>3, <2>4, <2>5, <2>6, <2>7 DEF AccountInv
<1>3. CASE /\ owner' = [owner EXCEPT !.at = "row", !.clean = owner.clean \ {"token"}, !.failed = TRUE]
           /\ UNCHANGED <<secrets, token, marker, cleaned>>
  <2>1. owner'.at = "row" /\ "token" \notin owner'.clean BY <1>3 DEF AccountInv, ActorsAreTyped, OwnerType
  <2>2. ActorsAreTyped'
    <3>1. owner.clean \ {"token"} \in SUBSET {"secrets", "token"} BY DEF AccountInv, ActorsAreTyped, OwnerType
    <3>2. owner' \in OwnerType BY <1>3, <3>1, OwnerChanges DEF Places, AccountInv, ActorsAreTyped
    <3> QED BY <1>1, <1>3, <3>2 DEF AccountInv, StoresTyped, ActorsAreTyped
  <2>3. RowInv' /\ ReadInv' BY <1>1, <1>3, <2>1, RowStays, ReadStays
  <2>4. ToldInv' BY <1>1, <1>3, <2>1 DEF AccountInv, ToldInv, NewHolds, Account!ToldIsTrue, Account!KindsOf
  <2>5. CleanInv'
    BY <1>1, <1>3, <2>1
    DEF AccountInv, CleanInv, CleaningHolds, TokenHolds, EnvHolds, Account!CleanedIsClean
  <2> QED BY <2>2, <2>3, <2>4, <2>5 DEF AccountInv
<1> QED BY <1>2, <1>3 DEF Account!FindsToken

\* The row is removed, and nobody can have a context of the account any more.
LEMMA RemovesRowKeeps == ASSUME AccountInv, Account!RemovesRow PROVE AccountInv'
<1> USE DEF Account!Nothing, Account!NoOne
<1> DEFINE todo == IF "secrets" \in owner.clean THEN <<"imap", "smtp">> ELSE <<>>
<1>1. /\ owner.at = "row" /\ switch' = FALSE
      /\ account' = [state |-> "removed", enabled |-> FALSE] /\ chosen' = [state |-> "removed", enabled |-> FALSE]
      /\ owner' = [owner EXCEPT !.at = "clean", !.todo = todo] /\ Account!Writes
      /\ UNCHANGED <<provider, configured, allOn, secrets, legacySecret, remembered, token, marker, tasks, told,
                     cleaned, overtaken>>
  BY DEF Account!RemovesRow
<1>2. todo \in Todos /\ ("secrets" \in owner.clean => Pending(todo) = Account!Kinds) BY TodoLists
<1> HIDE DEF todo
<1>3. owner'.at = "clean" /\ owner'.clean = owner.clean /\ owner'.todo = todo
  BY <1>1 DEF AccountInv, ActorsAreTyped, OwnerType
<1>4. ActorsAreTyped'
  <2>1. owner' \in OwnerType BY <1>1, <1>2, OwnerChanges DEF Places, AccountInv, ActorsAreTyped
  <2>2. account' \in AccountType BY <1>1 DEF AccountType
  <2> QED BY <1>1, <2>1, <2>2, OwnerWritesKeeps DEF AccountInv, StoresTyped, ActorsAreTyped
<1>5. RowInv'
  BY <1>1, <1>3, OwnerWritesKeeps DEF RowInv, RowHolds, Account!RowIsAsChosen, Account!SwitchFollows
<1>6. ReadInv' BY <1>1, OwnerWritesKeeps
<1>7. ToldInv' BY <1>1, <1>3 DEF AccountInv, ToldInv, NewHolds, Account!ToldIsTrue, Account!KindsOf
<1>8. CleanInv'
  BY <1>1, <1>2, <1>3, OwnerWritesKeeps
  DEF AccountInv, CleanInv, CleaningHolds, TokenHolds, EnvHolds, Account!CleanedIsClean
<1> QED BY <1>4, <1>5, <1>6, <1>7, <1>8 DEF AccountInv

\* A secret is deleted, with the older one that goes with it; one that cannot be is remembered as failed.
LEMMA DeletesSecretKeeps == ASSUME AccountInv, Account!DeletesSecret PROVE AccountInv'
<1> USE DEF Account!Nothing, Account!NoOne
<1> DEFINE kind == Head(owner.todo)
<1>1. /\ owner.at = "clean" /\ owner.todo # <<>> /\ told' = FALSE /\ Account!Writes
      /\ UNCHANGED <<provider, configured, account, switch, allOn, remembered, token, marker, tasks, chosen, cleaned,
                     overtaken>>
      /\ \/ /\ secrets' = [secrets EXCEPT ![kind] = Account!Nothing]
            /\ legacySecret' = IF Account!GoesWith(kind) THEN Account!Nothing ELSE legacySecret
            /\ owner' = [owner EXCEPT !.todo = Tail(owner.todo)]
         \/ /\ owner' = [owner EXCEPT !.todo = Tail(owner.todo), !.failed = TRUE]
            /\ UNCHANGED <<secrets, legacySecret>>
  BY DEF Account!DeletesSecret
<1>2. /\ owner \in OwnerType /\ owner.todo \in Todos /\ kind \in Account!Kinds
      /\ Tail(owner.todo) \in Todos /\ Pending(owner.todo) = Pending(Tail(owner.todo)) \cup {kind}
  BY <1>1, TodoLists DEF AccountInv, ActorsAreTyped, OwnerType
<1> HIDE DEF kind
<1>3. owner'.at = "clean" /\ owner'.clean = owner.clean /\ owner'.todo = Tail(owner.todo) /\ (owner.failed => owner'.failed)
  BY <1>1, <1>2 DEF OwnerType
<1>4. ActorsAreTyped'
  <2>1. owner' \in OwnerType BY <1>1, <1>2, OwnerChanges
  <2>2. secrets' \in [Account!Kinds -> Secret] /\ legacySecret' \in Secret
    BY <1>1, <1>2 DEF AccountInv, ActorsAreTyped, StoresTyped, Secret
  <2> QED BY <1>1, <2>1, <2>2, OwnerWritesKeeps DEF AccountInv, StoresTyped, ActorsAreTyped
<1>5. RowInv' BY <1>1, <1>3, OwnerWritesKeeps, RowStays
<1>6. ReadInv' BY <1>1, OwnerWritesKeeps
<1>7. ToldInv' BY <1>1, <1>3 DEF ToldInv, NewHolds, Account!ToldIsTrue
<1>8. /\ \A k \in Account!Kinds : secrets[k] = Account!Nothing => secrets'[k] = Account!Nothing
      /\ legacySecret = Account!Nothing => legacySecret' = Account!Nothing
  BY <1>1, <1>2 DEF AccountInv, ActorsAreTyped, StoresTyped
<1>9. CleaningHolds'
  <2>1. SUFFICES ASSUME "secrets" \in owner.clean, ~owner'.failed, ~overtaken, NEW k \in Account!Kinds \ Pending(Tail(owner.todo))
                 PROVE  secrets'[k] = Account!Nothing /\ (Account!GoesWith(k)' => legacySecret' = Account!Nothing)
    BY <1>1, <1>3 DEF CleaningHolds, Account!Kinds
  <2>2. Account!GoesWith(k)' <=> Account!GoesWith(k) BY <1>1 DEF Account!GoesWith
  <2>3. CASE k = kind
    <3>1. ~(owner' = [owner EXCEPT !.todo = Tail(owner.todo), !.failed = TRUE]) BY <1>2, <2>1 DEF OwnerType
    <3> QED BY <1>1, <1>2, <2>2, <2>3, <3>1 DEF AccountInv, ActorsAreTyped, StoresTyped
  <2>4. CASE k # kind
    <3>1. k \in Account!Kinds \ Pending(owner.todo) BY <1>2, <2>4
    <3>2. secrets[k] = Account!Nothing /\ (Account!GoesWith(k) => legacySecret = Account!Nothing)
      BY <1>1, <1>3, <2>1, <3>1 DEF AccountInv, CleanInv, CleaningHolds
    <3> QED BY <1>8, <2>2, <3>2
  <2> QED BY <2>3, <2>4
<1>10. CleanInv'
  <2>1. Account!CleanedIsClean' BY <1>1, <1>8 DEF AccountInv, CleanInv, Account!CleanedIsClean, Account!Kinds
  <2> QED BY <1>1, <1>3, <1>9, <2>1, OwnerWritesKeeps DEF AccountInv, CleanInv, TokenHolds, EnvHolds
<1> QED BY <1>4, <1>5, <1>6, <1>7, <1>10 DEF AccountInv

\* The token is deleted, and the owner is told what is gone.
LEMMA DeletesTokenKeeps == ASSUME AccountInv, \A p \in Providers : p \in {"gmail", "qq", "other"}, Account!DeletesToken
                           PROVE  AccountInv'
<1> USE DEF Account!Nothing, Account!NoOne
<1>1. /\ owner.at = "clean" /\ owner.todo = <<>> /\ owner' = Account!IdleOwner /\ Account!Writes
      /\ UNCHANGED <<provider, configured, account, switch, allOn, secrets, legacySecret, remembered, marker, tasks,
                     chosen, told, overtaken>>
      /\ \/ /\ token' = IF "token" \in owner.clean THEN Account!Nothing ELSE token
            /\ cleaned' = IF owner.failed THEN cleaned ELSE cleaned \cup owner.clean
         \/ UNCHANGED <<token, cleaned>>
  BY DEF Account!DeletesToken
<1>2. owner'.at = "idle" BY <1>1 DEF Account!IdleOwner
<1>3. owner.clean \subseteq {"secrets", "token"} BY DEF AccountInv, ActorsAreTyped, OwnerType
<1>4. ActorsAreTyped'
  <2>1. token' \in {Account!Nothing, "old"} /\ cleaned' \subseteq {"secrets", "token"}
    BY <1>1, <1>3 DEF AccountInv, ActorsAreTyped, StoresTyped
  <2> QED BY <1>1, <2>1, OwnerChanges, OwnerWritesKeeps DEF AccountInv, StoresTyped, ActorsAreTyped
<1>5. RowInv' BY <1>1, <1>2, RowStays
<1>6. ReadInv' BY <1>1, OwnerWritesKeeps
<1>7. ToldInv' BY <1>1, <1>2 DEF AccountInv, ToldInv, NewHolds, Account!ToldIsTrue, Account!KindsOf
<1>8. CleanInv'
  <2>1. "secrets" \in owner.clean /\ ~owner.failed /\ ~overtaken =>
          /\ \A k \in Account!Kinds : secrets[k] = Account!Nothing
          /\ provider # "other" /\ configured => legacySecret = Account!Nothing
    <3>1. "secrets" \in owner.clean /\ ~owner.failed /\ ~overtaken =>
            \A k \in Account!Kinds : secrets[k] = Account!Nothing /\ (Account!GoesWith(k) => legacySecret = Account!Nothing)
      BY <1>1, TodoLists DEF AccountInv, CleanInv, CleaningHolds
    <3>2. provider \in {"gmail", "qq", "other"} BY DEF AccountInv, ActorsAreTyped, StoresTyped
    <3>3. provider # "other" /\ configured => \E k \in Account!Kinds : Account!GoesWith(k)
      BY <3>2 DEF Account!GoesWith, Account!Kinds
    <3> QED BY <3>1, <3>3
  <2>2. Account!CleanedIsClean'
    BY <1>1, <1>3, <2>1 DEF AccountInv, CleanInv, Account!CleanedIsClean, Account!Kinds
  <2>3. TokenHolds' BY <1>1, <1>2, OwnerWritesKeeps DEF AccountInv, CleanInv, TokenHolds
  <2> QED BY <1>2, <2>2, <2>3 DEF CleanInv, CleaningHolds, EnvHolds
<1> QED BY <1>4, <1>5, <1>6, <1>7, <1>8 DEF AccountInv

\* The dialog of the older version: its secret ...
LEMMA SavesLegacyKeeps ==
  ASSUME AccountInv, NEW new \in BOOLEAN, Account!SavesLegacy(new) PROVE AccountInv'
<1> USE DEF Account!Nothing, Account!NoOne
<1>1. /\ owner' = [Account!IdleOwner EXCEPT !.at = "env", !.op = "save", !.new = new, !.previous = remembered]
      /\ IF new THEN legacySecret' = "new" /\ remembered' = "new" /\ cleaned' = cleaned \ {"secrets"}
                ELSE UNCHANGED <<legacySecret, remembered, cleaned>>
      /\ Account!Writes
      /\ UNCHANGED <<provider, allOn, token, marker, tasks, configured, account, switch, secrets, chosen, told, overtaken>>
  BY DEF Account!SavesLegacy, Account!Starts
<1>2. owner'.at = "env" /\ owner'.new = new BY <1>1 DEF Account!IdleOwner
<1>3. ActorsAreTyped'
  <2>1. owner' \in OwnerType BY <1>1, OwnerChanges DEF Places, Operations, AccountInv, ActorsAreTyped, StoresTyped
  <2>2. legacySecret' \in Secret /\ remembered' \in Secret /\ cleaned' \subseteq {"secrets", "token"}
    BY <1>1 DEF AccountInv, ActorsAreTyped, StoresTyped, Secret
  <2> QED BY <1>1, <2>1, <2>2, OwnerWritesKeeps DEF AccountInv, StoresTyped, ActorsAreTyped
<1>4. RowInv' BY <1>1, <1>2, RowStays
<1>5. ReadInv' BY <1>1, OwnerWritesKeeps
<1>6. ToldInv' BY <1>1, <1>2 DEF AccountInv, ToldInv, NewHolds, Account!ToldIsTrue, Account!KindsOf
<1>7. CleanInv'
  BY <1>1, <1>2, OwnerWritesKeeps
  DEF AccountInv, CleanInv, CleaningHolds, TokenHolds, EnvHolds, Account!CleanedIsClean
<1> QED BY <1>3, <1>4, <1>5, <1>6, <1>7 DEF AccountInv

\* ... its configuration ...
LEMMA WritesEnvKeeps == ASSUME AccountInv, Account!WritesEnv PROVE AccountInv'
<1> USE DEF Account!Nothing, Account!NoOne
<1>1. /\ owner.at = "env" /\ Account!Writes
      /\ UNCHANGED <<provider, account, switch, allOn, secrets, token, marker, tasks, chosen, told, overtaken>>
      /\ \/ /\ configured' = TRUE /\ owner' = [owner EXCEPT !.at = "upsert"]
            /\ cleaned' = IF configured THEN cleaned ELSE {}
            /\ UNCHANGED <<legacySecret, remembered>>
         \/ /\ IF owner.new THEN legacySecret' = owner.previous /\ remembered' = owner.previous
                            ELSE UNCHANGED <<legacySecret, remembered>>
            /\ owner' = Account!IdleOwner /\ UNCHANGED <<configured, cleaned>>
  BY DEF Account!WritesEnv
<1>2. owner'.at \in {"idle", "upsert"}
  <2>1. Account!IdleOwner.at = "idle" BY DEF Account!IdleOwner
  <2>2. [owner EXCEPT !.at = "upsert"].at = "upsert" BY DEF AccountInv, ActorsAreTyped, OwnerType
  <2> QED BY <1>1, <2>1, <2>2
<1>3. ActorsAreTyped'
  <2>1. owner' \in OwnerType BY <1>1, OwnerChanges DEF Places, AccountInv, ActorsAreTyped
  <2>2. owner.previous \in Secret BY DEF AccountInv, ActorsAreTyped, OwnerType
  <2>3. /\ legacySecret' \in Secret /\ remembered' \in Secret /\ cleaned' \subseteq {"secrets", "token"}
        /\ configured' \in BOOLEAN
    BY <1>1, <2>2 DEF AccountInv, ActorsAreTyped, StoresTyped
  <2> QED BY <1>1, <2>1, <2>3, OwnerWritesKeeps DEF AccountInv, StoresTyped, ActorsAreTyped
<1>4. RowInv' BY <1>1, <1>2, RowStays
<1>5. ReadInv' BY <1>1, OwnerWritesKeeps
<1>6. ToldInv' BY <1>1, <1>2 DEF AccountInv, ToldInv, NewHolds, Account!ToldIsTrue, Account!KindsOf
<1>7. CleanInv'
  <2>1. /\ "secrets" \in cleaned' =>
             /\ "secrets" \in cleaned /\ (configured' <=> configured)
             /\ legacySecret' = legacySecret
        /\ "token" \in cleaned' => "token" \in cleaned /\ (configured' <=> configured)
    <3>1. CASE configured' = TRUE /\ cleaned' = (IF configured THEN cleaned ELSE {}) /\ legacySecret' = legacySecret
      BY <3>1 DEF AccountInv, ActorsAreTyped, StoresTyped
    <3>2. CASE /\ IF owner.new THEN legacySecret' = owner.previous ELSE UNCHANGED legacySecret
               /\ UNCHANGED <<configured, cleaned>>
      BY <1>1, <3>2 DEF AccountInv, CleanInv, EnvHolds
    <3> QED BY <1>1, <3>1, <3>2
  <2>2. Account!CleanedIsClean' BY <1>1, <2>1 DEF AccountInv, CleanInv, Account!CleanedIsClean
  <2>3. TokenHolds' BY <1>1, <1>2, <2>1, OwnerWritesKeeps DEF AccountInv, CleanInv, TokenHolds
  <2> QED BY <1>2, <2>2, <2>3 DEF CleanInv, CleaningHolds, EnvHolds
<1> QED BY <1>3, <1>4, <1>5, <1>6, <1>7 DEF AccountInv

\* The configured account is written where there is no row yet, and nowhere else.
LEMMA UpsertedKeeps ==
  ASSUME AccountInv
  PROVE  /\ Account!Upserted \in AccountType
         /\ Account!Upserted = IF configured /\ chosen.state = Account!NoOne THEN [state |-> "live", enabled |-> TRUE]
                               ELSE chosen
         /\ account.state # Account!NoOne => Account!Upserted = account
         /\ account.state = Account!NoOne => ~(switch /\ ~overtaken)
         /\ Account!Upserted.enabled => Account!Upserted.state = "live"
<1> USE DEF Account!Nothing, Account!NoOne
<1>1. account = chosen /\ account \in AccountType
  BY DEF AccountInv, RowInv, Account!RowIsAsChosen, ActorsAreTyped, StoresTyped
<1>2. [state |-> "live", enabled |-> TRUE] \in AccountType BY DEF AccountType
<1> QED BY <1>1, <1>2 DEF Account!Upserted, AccountInv, RowInv, RowHolds, Account!SwitchFollows, Account!Live

\* ... and the row.
LEMMA SavesAccountKeeps == ASSUME AccountInv, Account!SavesAccount PROVE AccountInv'
<1> USE DEF Account!Nothing, Account!NoOne
<1>1. /\ owner.at = "upsert" /\ account' = Account!Upserted /\ Account!Writes
      /\ chosen' = IF configured /\ chosen.state = Account!NoOne THEN [state |-> "live", enabled |-> TRUE] ELSE chosen
      /\ \/ owner' = [owner EXCEPT !.at = "secrets", !.todo = Account!KindsOf]
         \/ owner' = Account!IdleOwner
      /\ UNCHANGED <<provider, configured, switch, allOn, secrets, legacySecret, remembered, token, marker, tasks, told,
                     cleaned, overtaken>>
  BY DEF Account!SavesAccount
<1>2. owner'.at \in {"idle", "secrets"} /\ (owner'.at = "secrets" => owner'.todo = Account!KindsOf)
  <2>1. Account!IdleOwner.at = "idle" BY DEF Account!IdleOwner
  <2>2. /\ [owner EXCEPT !.at = "secrets", !.todo = Account!KindsOf].at = "secrets"
        /\ [owner EXCEPT !.at = "secrets", !.todo = Account!KindsOf].todo = Account!KindsOf
    BY DEF AccountInv, ActorsAreTyped, OwnerType
  <2> QED BY <1>1, <2>1, <2>2
<1>3. ActorsAreTyped'
  <2>1. owner' \in OwnerType
    <3>1. "secrets" \in Places /\ Account!KindsOf \in Todos /\ owner \in OwnerType
      BY KindsOfAccount DEF Places, AccountInv, ActorsAreTyped
    <3>2. [owner EXCEPT !.at = "secrets", !.todo = Account!KindsOf] \in OwnerType BY <3>1, OwnerChanges
    <3>3. Account!IdleOwner \in OwnerType BY OwnerChanges
    <3> QED BY <1>1, <3>2, <3>3
  <2> QED BY <1>1, <2>1, UpsertedKeeps, OwnerWritesKeeps DEF AccountInv, StoresTyped, ActorsAreTyped
<1>4. RowInv'
  BY <1>1, <1>2, UpsertedKeeps
  DEF AccountInv, RowInv, RowHolds, Account!RowIsAsChosen, Account!SwitchFollows, Account!Live
<1>5. ReadInv' BY <1>1, OwnerWritesKeeps
<1>6. ToldInv'
  <2>1. Account!KindsOf' = Account!KindsOf BY <1>1 DEF Account!KindsOf
  <2> QED BY <1>1, <1>2, <2>1 DEF AccountInv, ToldInv, NewHolds, Account!ToldIsTrue
<1>7. CleanInv'
  BY <1>1, <1>2, OwnerWritesKeeps
  DEF AccountInv, CleanInv, CleaningHolds, TokenHolds, EnvHolds, Account!CleanedIsClean
<1> QED BY <1>3, <1>4, <1>5, <1>6, <1>7 DEF AccountInv

\* The window's switch reaches every account that is enabled.
LEMMA SwitchesAllKeeps == ASSUME AccountInv, Account!SwitchesAll PROVE AccountInv'
<1> USE DEF Account!Nothing, Account!NoOne
<1>1. /\ owner = Account!IdleOwner /\ allOn' = ~allOn /\ switch' = (IF account.enabled THEN ~allOn ELSE switch)
      /\ Account!Writes
      /\ UNCHANGED <<provider, configured, account, secrets, legacySecret, remembered, token, marker, owner, tasks,
                     chosen, told, cleaned, overtaken>>
  BY DEF Account!SwitchesAll
<1>2. owner.at = "idle" BY <1>1 DEF Account!IdleOwner
<1>3. ActorsAreTyped'
  <2>1. switch' \in BOOLEAN /\ allOn' \in BOOLEAN BY <1>1 DEF AccountInv, StoresTyped, ActorsAreTyped
  <2> QED BY <1>1, <2>1, OwnerWritesKeeps DEF AccountInv, StoresTyped, ActorsAreTyped
<1>4. RowInv'
  BY <1>1, <1>2 DEF AccountInv, RowInv, RowHolds, Account!RowIsAsChosen, Account!SwitchFollows, Account!Live
<1>5. ReadInv' BY <1>1, OwnerWritesKeeps
<1>6. ToldInv' BY <1>1, <1>2 DEF AccountInv, ToldInv, NewHolds, Account!ToldIsTrue, Account!KindsOf
<1>7. CleanInv'
  BY <1>1, <1>2, OwnerWritesKeeps
  DEF AccountInv, CleanInv, CleaningHolds, TokenHolds, EnvHolds, Account!CleanedIsClean
<1> QED BY <1>3, <1>4, <1>5, <1>6, <1>7 DEF AccountInv

\* The older secret is deleted by its own dialog.
LEMMA DeletesLegacyKeeps == ASSUME AccountInv, Account!DeletesLegacy PROVE AccountInv'
<1> USE DEF Account!Nothing, Account!NoOne
<1>1. /\ owner = Account!IdleOwner /\ legacySecret' = Account!Nothing /\ remembered' = Account!Nothing /\ Account!Writes
      /\ UNCHANGED <<provider, allOn, token, marker, tasks, configured, account, switch, secrets, owner, chosen, told,
                     cleaned, overtaken>>
  BY DEF Account!DeletesLegacy, Account!Starts
<1>2. owner.at = "idle" BY <1>1 DEF Account!IdleOwner
<1>3. ActorsAreTyped'
  <2>1. legacySecret' \in Secret /\ remembered' \in Secret BY <1>1 DEF Secret
  <2> QED BY <1>1, <2>1, OwnerWritesKeeps DEF AccountInv, StoresTyped, ActorsAreTyped
<1>4. RowInv' BY <1>1, <1>2, RowStays
<1>5. ReadInv' BY <1>1, OwnerWritesKeeps
<1>6. ToldInv' BY <1>1, <1>2 DEF AccountInv, ToldInv, NewHolds, Account!ToldIsTrue, Account!KindsOf
<1>7. CleanInv'
  BY <1>1, <1>2, OwnerWritesKeeps
  DEF AccountInv, CleanInv, CleaningHolds, TokenHolds, EnvHolds, Account!CleanedIsClean
<1> QED BY <1>3, <1>4, <1>5, <1>6, <1>7 DEF AccountInv

\* The owner's process ends wherever it is.
LEMMA OwnerDiesKeeps == ASSUME AccountInv, Account!OwnerDies PROVE AccountInv'
<1> USE DEF Account!Nothing, Account!NoOne
<1>1. /\ owner' = Account!IdleOwner /\ remembered' = legacySecret /\ told' = (told /\ owner.at # "secrets")
      /\ UNCHANGED <<provider, configured, account, switch, allOn, secrets, legacySecret, token, marker, tasks, chosen,
                     cleaned, before, overtaken>>
  BY DEF Account!OwnerDies
<1>2. owner'.at = "idle" BY <1>1 DEF Account!IdleOwner
<1>3. ActorsAreTyped' BY <1>1, OwnerChanges DEF AccountInv, StoresTyped, ActorsAreTyped
<1>4. RowInv' /\ ReadInv' BY <1>1, <1>2, RowStays, ReadStays
<1>5. ToldInv' BY <1>1, <1>2 DEF AccountInv, ToldInv, NewHolds, Account!ToldIsTrue, Account!KindsOf
<1>6. CleanInv'
  BY <1>1, <1>2 DEF AccountInv, CleanInv, CleaningHolds, TokenHolds, EnvHolds, Account!CleanedIsClean
<1> QED BY <1>3, <1>4, <1>5, <1>6 DEF AccountInv

\* A task goes on.  It changes the stores of the account under the owner's hands only when it was under
\* way as he wrote; what it goes on with is what is there, or was not his.
LEMMA TaskGoesOn ==
  ASSUME AccountInv, NEW t \in Tasks, NEW k \in TaskType, Account!Goes(t, k),
         before' = before \/ (before' = before \ {t} /\ k.at = "idle"),
         tasks[t].at # "idle" \/ owner.at # "clean" \/ k.at = "idle",
         k.at = "saves" => k.on = switch,
         k.at = "migrates" =>
           /\ k.todo # <<>> /\ k.read = legacySecret /\ legacySecret # Account!Nothing
           /\ Account!FallsBack(Head(k.todo)) /\ secrets[Head(k.todo)] = Account!Nothing,
         k.at = "copies" => "token" \notin cleaned,
         overtaken => overtaken',
         ~overtaken' => switch' = switch /\ \A s \in Account!Kinds : secrets'[s] = secrets[s] \/ secrets'[s] = legacySecret,
         UNCHANGED <<legacySecret, configured, provider, cleaned>>
  PROVE  /\ tasks' \in [Tasks -> TaskType] /\ before' \subseteq Tasks
         /\ ReadInv'
         /\ owner.at = "clean" => (Account!UnderWay \subseteq before)'
         /\ "token" \in cleaned => \A u \in Tasks : tasks'[u].at = "copies" => u \in before'
<1> USE DEF Account!Nothing, Account!NoOne
<1>1. tasks' \in [Tasks -> TaskType] /\ tasks'[t] = k /\ \A u \in Tasks : u # t => tasks'[u] = tasks[u]
  BY DEF Account!Goes, AccountInv, ActorsAreTyped
<1>2. before' \subseteq Tasks /\ \A u \in Tasks : u # t => (u \in before' <=> u \in before)
  BY DEF AccountInv, ActorsAreTyped, StoresTyped
<1>3. k.at # "idle" => before' = before OBVIOUS
<1>4. SavesHold'
  BY <1>1, <1>2 DEF AccountInv, ReadInv, SavesHold
<1>5. MigratesHold'
  <2>1. SUFFICES ASSUME NEW u \in Tasks, tasks'[u].at = "migrates"
                 PROVE  /\ tasks'[u].todo # <<>>
                        /\ u \notin before' =>
                             /\ tasks'[u].read = legacySecret /\ legacySecret # Account!Nothing
                             /\ Account!FallsBack(Head(tasks'[u].todo))
                             /\ ~overtaken' => secrets'[Head(tasks'[u].todo)] \in {Account!Nothing, legacySecret}
    BY DEF MigratesHold, Account!FallsBack
  <2>2. Head(tasks'[u].todo) \in Account!Kinds
    <3>1. tasks'[u].todo \in Todos BY <1>1 DEF TaskType
    <3>2. tasks'[u].todo # <<>> BY <1>1, <2>1 DEF AccountInv, ReadInv, MigratesHold
    <3> QED BY <3>1, <3>2, TodoLists
  <2>3. CASE u = t BY <1>1, <2>1, <2>2, <2>3
  <2>4. CASE u # t BY <1>1, <1>2, <2>1, <2>2, <2>4 DEF AccountInv, ReadInv, MigratesHold
  <2> QED BY <2>3, <2>4
<1>6. owner.at = "clean" => (Account!UnderWay \subseteq before)'
  BY <1>1, <1>2, <1>3 DEF AccountInv, RowInv, RowHolds, Account!UnderWay
<1>7. "token" \in cleaned => \A u \in Tasks : tasks'[u].at = "copies" => u \in before'
  BY <1>1, <1>2, <1>3 DEF AccountInv, CleanInv, TokenHolds
<1> QED BY <1>1, <1>2, <1>4, <1>5, <1>6, <1>7 DEF ReadInv

\* A task that changes no store.
LEMMA TaskKeeps ==
  ASSUME AccountInv, NEW t \in Tasks, NEW k \in TaskType, Account!Goes(t, k),
         before' = before \/ (before' = before \ {t} /\ k.at = "idle"),
         tasks[t].at # "idle" \/ owner.at # "clean" \/ k.at = "idle",
         k.at = "saves" => k.on = switch,
         k.at = "migrates" =>
           /\ k.todo # <<>> /\ k.read = legacySecret /\ legacySecret # Account!Nothing
           /\ Account!FallsBack(Head(k.todo)) /\ secrets[Head(k.todo)] = Account!Nothing,
         k.at = "copies" => "token" \notin cleaned,
         UNCHANGED <<provider, configured, account, switch, allOn, secrets, legacySecret, remembered, token, marker,
                     owner, chosen, told, cleaned, overtaken>>
  PROVE  AccountInv'
<1>1. /\ tasks' \in [Tasks -> TaskType] /\ before' \subseteq Tasks /\ ReadInv'
      /\ owner.at = "clean" => (Account!UnderWay \subseteq before)'
      /\ "token" \in cleaned => \A u \in Tasks : tasks'[u].at = "copies" => u \in before'
  BY TaskGoesOn
<1>2. ActorsAreTyped' BY <1>1 DEF AccountInv, StoresTyped, ActorsAreTyped
<1>3. RowInv' BY <1>1, RowStays
<1>4. ToldInv' BY DEF AccountInv, ToldInv, NewHolds, Account!ToldIsTrue, Account!KindsOf
<1>5. CleanInv'
  BY <1>1
  DEF AccountInv, CleanInv, CleaningHolds, TokenHolds, EnvHolds, Account!CleanedIsClean, Account!GoesWith
<1> QED BY <1>1, <1>2, <1>3, <1>4, <1>5 DEF AccountInv

\* A task begins: an account that is being cleaned has no context.
LEMMA BeginsKeeps ==
  ASSUME AccountInv, NEW t \in Tasks, Account!Receives(t) \/ Account!Enters(t) PROVE AccountInv'
<1> USE DEF Account!Nothing, Account!NoOne
<1>1. /\ Account!InContext \in TaskType /\ Account!InContext.at = "secrets"
      /\ [Account!InContext EXCEPT !.lists = TRUE] \in TaskType
      /\ [Account!InContext EXCEPT !.lists = TRUE].at = "secrets"
      /\ Account!IdleTask \in TaskType /\ Account!IdleTask.at = "idle"
  BY TaskChanges DEF Account!InContext, Account!IdleTask
<1>2. CASE Account!Receives(t)
  <2>1. owner.at # "clean" BY <1>2 DEF Account!Receives, Account!Live, AccountInv, RowInv, RowHolds
  <2> QED BY <1>1, <1>2, <2>1, TaskKeeps DEF Account!Receives
<1>3. CASE Account!Enters(t)
  BY <1>1, <1>3, TaskKeeps DEF Account!Enters, Account!Ends
<1> QED BY <1>2, <1>3

\* A listing writes the configured account first, where it is not there yet.
LEMMA ListsKeeps == ASSUME AccountInv, NEW t \in Tasks, Account!Lists(t) PROVE AccountInv'
<1> USE DEF Account!Nothing, Account!NoOne
<1> DEFINE k == [Account!IdleTask EXCEPT !.at = "listed", !.lists = TRUE]
<1>1. /\ account' = Account!Upserted
      /\ chosen' = IF configured /\ chosen.state = Account!NoOne THEN [state |-> "live", enabled |-> TRUE] ELSE chosen
      /\ (account'.state = "live" /\ Account!Goes(t, k)) \/ UNCHANGED tasks
      /\ UNCHANGED <<provider, configured, switch, allOn, secrets, legacySecret, remembered, token, marker, owner, told,
                     cleaned, before, overtaken>>
  BY DEF Account!Lists
<1>2. k \in TaskType /\ k.at = "listed" BY TaskChanges DEF Account!IdleTask
<1> HIDE DEF k
<1>3. owner.at = "clean" => account' = account
  BY <1>1, UpsertedKeeps DEF AccountInv, RowInv, RowHolds
<1>4. owner.at = "clean" => UNCHANGED tasks
  BY <1>1, <1>3 DEF AccountInv, RowInv, RowHolds
<1>5. /\ tasks' \in [Tasks -> TaskType] /\ before' \subseteq Tasks /\ ReadInv'
      /\ owner.at = "clean" => (Account!UnderWay \subseteq before)'
      /\ "token" \in cleaned => \A u \in Tasks : tasks'[u].at = "copies" => u \in before'
  <2>1. CASE UNCHANGED tasks
    <3>1. ReadInv' BY <1>1, <2>1, ReadStays
    <3> QED BY <1>1, <2>1, <3>1
        DEF AccountInv, ActorsAreTyped, StoresTyped, RowInv, RowHolds, CleanInv, TokenHolds, Account!UnderWay
  <2>2. CASE ~UNCHANGED tasks BY <1>1, <1>2, <1>4, <2>2, TaskGoesOn
  <2> QED BY <2>1, <2>2
<1>6. ActorsAreTyped' BY <1>1, <1>5, UpsertedKeeps DEF AccountInv, StoresTyped, ActorsAreTyped
<1>7. RowInv'
  BY <1>1, <1>3, <1>5, UpsertedKeeps
  DEF AccountInv, RowInv, RowHolds, Account!RowIsAsChosen, Account!SwitchFollows, Account!Live
<1>8. ToldInv' BY <1>1 DEF AccountInv, ToldInv, NewHolds, Account!ToldIsTrue, Account!KindsOf
<1>9. CleanInv'
  BY <1>1, <1>5
  DEF AccountInv, CleanInv, CleaningHolds, TokenHolds, EnvHolds, Account!CleanedIsClean, Account!GoesWith
<1> QED BY <1>5, <1>6, <1>7, <1>8, <1>9 DEF AccountInv

\* A task looks: at a secret, at the token, at the switch.
LEMMA LooksKeeps ==
  ASSUME AccountInv, NEW t \in Tasks, Account!ReadsSecret(t) \/ Account!LooksAtToken(t) \/ Account!ReadsState(t)
  PROVE  AccountInv'
<1> USE DEF Account!Nothing, Account!NoOne
<1>1. tasks[t] \in TaskType /\ tasks[t].todo \in Todos BY DEF AccountInv, ActorsAreTyped, TaskType
<1>2. CASE Account!ReadsSecret(t)
  <2> DEFINE taken == [tasks[t] EXCEPT !.at = "migrates", !.read = legacySecret]
             left == [tasks[t] EXCEPT !.todo = Tail(tasks[t].todo)]
  <2>1. /\ tasks[t].at = "secrets" /\ tasks[t].todo # <<>>
        /\ \/ /\ Account!Goes(t, taken) /\ secrets[Head(tasks[t].todo)] = Account!Nothing
              /\ Account!FallsBack(Head(tasks[t].todo)) /\ legacySecret # Account!Nothing
           \/ Account!Goes(t, left)
        /\ UNCHANGED <<provider, configured, account, switch, allOn, secrets, legacySecret, remembered, token, marker,
                       owner, chosen, told, cleaned, before, overtaken>>
    BY <1>2 DEF Account!ReadsSecret
  <2>2. taken \in TaskType
    <3>1. legacySecret \in Secret /\ "migrates" \in Stations BY DEF AccountInv, ActorsAreTyped, StoresTyped, Stations
    <3> QED BY <1>1, <3>1, TaskChanges
  <2>3. left \in TaskType BY <1>1, <2>1, TaskChanges, TodoLists
  <2>4. taken.at = "migrates" /\ taken.read = legacySecret /\ taken.todo = tasks[t].todo /\ left.at = "secrets"
    BY <1>1, <2>1 DEF TaskType
  <2> HIDE DEF taken, left
  <2> QED BY <2>1, <2>2, <2>3, <2>4, TaskKeeps
<1>3. CASE Account!LooksAtToken(t)
  <2>1. PICK place \in {"works", "copies", "marks"} :
          /\ Account!Goes(t, [tasks[t] EXCEPT !.at = place])
          /\ place = "copies" => provider = "gmail" /\ configured /\ ~marker
    BY <1>3 DEF Account!LooksAtToken
  <2>2. /\ tasks[t].at = "secrets"
        /\ UNCHANGED <<provider, configured, account, switch, allOn, secrets, legacySecret, remembered, token, marker,
                       owner, chosen, told, cleaned, before, overtaken>>
    BY <1>3 DEF Account!LooksAtToken
  <2>3. [tasks[t] EXCEPT !.at = place] \in TaskType /\ [tasks[t] EXCEPT !.at = place].at = place
    <3>1. place \in Stations BY DEF Stations
    <3>2. [tasks[t] EXCEPT !.at = place] \in TaskType BY <1>1, <3>1, TaskChanges
    <3> QED BY <1>1, <3>2 DEF TaskType
  <2>4. place = "copies" => "token" \notin cleaned BY <2>1 DEF AccountInv, CleanInv, TokenHolds
  <2> QED BY <2>1, <2>2, <2>3, <2>4, TaskKeeps
<1>4. CASE Account!ReadsState(t)
  <2>1. /\ tasks[t].at = "works"
        /\ \/ Account!Ends(t)
           \/ Account!Goes(t, [tasks[t] EXCEPT !.at = "saves", !.on = switch]) /\ UNCHANGED before
        /\ UNCHANGED <<provider, configured, account, switch, allOn, secrets, legacySecret, remembered, token, marker,
                       owner, chosen, told, cleaned, overtaken>>
    BY <1>4 DEF Account!ReadsState
  <2>2. CASE Account!Ends(t)
    <3>1. Account!IdleTask \in TaskType /\ Account!IdleTask.at = "idle" BY TaskChanges DEF Account!IdleTask
    <3> QED BY <2>1, <2>2, <3>1, TaskKeeps DEF Account!Ends
  <2>3. CASE Account!Goes(t, [tasks[t] EXCEPT !.at = "saves", !.on = switch]) /\ UNCHANGED before
    <3>1. [tasks[t] EXCEPT !.at = "saves", !.on = switch] \in TaskType
      <4>1. switch \in BOOLEAN /\ "saves" \in Stations BY DEF AccountInv, ActorsAreTyped, StoresTyped, Stations
      <4> QED BY <1>1, <4>1, TaskChanges
    <3>2. /\ [tasks[t] EXCEPT !.at = "saves", !.on = switch].at = "saves"
          /\ [tasks[t] EXCEPT !.at = "saves", !.on = switch].on = switch
      BY <1>1 DEF TaskType
    <3> QED BY <2>1, <2>3, <3>1, <3>2, TaskKeeps
  <2> QED BY <2>1, <2>2, <2>3
<1> QED BY <1>2, <1>3, <1>4

\* A task that fails ends.
LEMMA TaskFails ==
  ASSUME AccountInv, NEW t \in Tasks, Account!Ends(t),
         UNCHANGED <<provider, configured, account, switch, allOn, secrets, legacySecret, remembered, token, marker,
                     owner, chosen, told, cleaned, overtaken>>
  PROVE  AccountInv'
<1>1. Account!IdleTask \in TaskType /\ Account!IdleTask.at = "idle" BY TaskChanges DEF Account!IdleTask
<1> QED BY <1>1, TaskKeeps DEF Account!Ends

\* A task takes over the older secret: where the account had one of its own meanwhile, the owner was at work.
LEMMA TakesSecretKeeps == ASSUME AccountInv, NEW t \in Tasks, Account!TakesSecret(t) PROVE AccountInv'
<1> USE DEF Account!Nothing, Account!NoOne
<1> DEFINE kind == Head(tasks[t].todo)
           read == tasks[t].read
           k == [tasks[t] EXCEPT !.at = "secrets", !.todo = Tail(tasks[t].todo), !.read = Account!Nothing]
<1>1. /\ tasks[t].at = "migrates"
      /\ UNCHANGED <<provider, configured, account, switch, allOn, legacySecret, remembered, token, marker, owner,
                     chosen, told, cleaned>>
      /\ \/ /\ secrets' = [secrets EXCEPT ![kind] = read] /\ Account!Goes(t, k)
            /\ overtaken' = (overtaken \/ (secrets' # secrets /\ t \in before)) /\ UNCHANGED before
         \/ Account!Ends(t) /\ UNCHANGED <<secrets, overtaken>>
  BY DEF Account!TakesSecret, Account!WritesBack
<1>2. tasks[t] \in TaskType /\ tasks[t].todo \in Todos /\ tasks[t].todo # <<>> /\ read \in Secret
  BY <1>1 DEF AccountInv, ActorsAreTyped, TaskType, ReadInv, MigratesHold
<1>3. kind \in Account!Kinds /\ Tail(tasks[t].todo) \in Todos BY <1>2, TodoLists
<1>4. k \in TaskType
  <2>1. "secrets" \in Stations /\ Account!Nothing \in Secret BY DEF Stations, Secret
  <2> QED BY <1>2, <1>3, <2>1, TaskChanges
<1>5. k.at = "secrets" BY <1>2 DEF TaskType
<1>6. t \notin before => /\ read = legacySecret /\ legacySecret # Account!Nothing /\ Account!FallsBack(kind)
                         /\ ~overtaken => secrets[kind] \in {Account!Nothing, legacySecret}
  BY <1>1 DEF AccountInv, ReadInv, MigratesHold
<1> HIDE DEF kind, read, k
<1>7. CASE Account!Ends(t) /\ UNCHANGED <<secrets, overtaken>> BY <1>1, <1>7, TaskFails
<1>8. CASE /\ secrets' = [secrets EXCEPT ![kind] = read] /\ Account!Goes(t, k)
           /\ overtaken' = (overtaken \/ (secrets' # secrets /\ t \in before)) /\ UNCHANGED before
  <2>1. \A s \in Account!Kinds : secrets'[s] = IF s = kind THEN read ELSE secrets[s]
    BY <1>3, <1>8 DEF AccountInv, ActorsAreTyped, StoresTyped
  <2>2. overtaken => overtaken' BY <1>8
  <2>3. ~overtaken' => \/ secrets' = secrets
                       \/ /\ secrets[kind] \in {Account!Nothing, legacySecret} /\ read = legacySecret
                          /\ legacySecret # Account!Nothing /\ Account!FallsBack(kind)
    BY <1>6, <1>8
  <2>4. /\ tasks' \in [Tasks -> TaskType] /\ before' \subseteq Tasks /\ ReadInv'
        /\ owner.at = "clean" => (Account!UnderWay \subseteq before)'
        /\ "token" \in cleaned => \A u \in Tasks : tasks'[u].at = "copies" => u \in before'
    <3>1. ~overtaken' => switch' = switch /\ \A s \in Account!Kinds : secrets'[s] = secrets[s] \/ secrets'[s] = legacySecret
      BY <1>1, <2>1, <2>3
    <3> QED BY <1>1, <1>4, <1>5, <1>8, <2>2, <3>1, TaskGoesOn
  <2>5. ActorsAreTyped'
    <3>1. secrets' \in [Account!Kinds -> Secret] BY <1>2, <1>3, <1>8 DEF read, AccountInv, ActorsAreTyped, StoresTyped
    <3>2. overtaken' \in BOOLEAN BY <1>8
    <3> QED BY <1>1, <2>4, <3>1, <3>2 DEF AccountInv, StoresTyped, ActorsAreTyped
  <2>6. RowInv' BY <1>1, <2>2, <2>4, RowStays
  <2>7. ~overtaken' => \A s \in Account!Kinds : secrets[s] = "new" => secrets'[s] = "new"
    BY <2>1, <2>3
  <2>8. ToldInv'
    <3>1. Pending(Account!KindsOf) \subseteq Account!Kinds BY KindsOfAccount, TodoLists
    <3>2. Account!KindsOf' = Account!KindsOf BY <1>1 DEF Account!KindsOf
    <3>3. told /\ ~overtaken => \A s \in Pending(Account!KindsOf) : secrets[s] = "new"
      BY KindsOfAccount DEF AccountInv, ToldInv
    <3>4. Account!ToldIsTrue' BY <1>1, <2>2, <2>7, <3>1, <3>2, <3>3 DEF Account!ToldIsTrue, Pending
    <3>5. NewHolds' BY <1>1, <2>2, <2>7, <3>1, <3>2 DEF AccountInv, ToldInv, NewHolds
    <3> QED BY <3>4, <3>5 DEF ToldInv
  <2>9. CleanInv'
    <3>1. TokenHolds' BY <1>1, <2>4 DEF AccountInv, CleanInv, TokenHolds
    <3>2. owner.at = "clean" /\ ~overtaken' => secrets' = secrets
      BY <1>1, <1>8 DEF AccountInv, RowInv, RowHolds, Account!UnderWay
    <3>3. CleaningHolds'
      BY <1>1, <2>2, <3>2 DEF AccountInv, CleanInv, CleaningHolds, Account!GoesWith
    <3>4. Account!CleanedIsClean'
      <4>1. Account!FallsBack(kind) => provider # "other" /\ configured BY DEF Account!FallsBack
      <4> QED BY <1>1, <2>2, <2>3, <4>1 DEF AccountInv, CleanInv, Account!CleanedIsClean
    <3> QED BY <1>1, <3>1, <3>3, <3>4 DEF AccountInv, CleanInv, EnvHolds
  <2> QED BY <2>4, <2>5, <2>6, <2>8, <2>9 DEF AccountInv
<1> QED BY <1>1, <1>7, <1>8

\* A task copies the older token, marks it as copied, and writes back the switch.
LEMMA CopiesTokenKeeps == ASSUME AccountInv, NEW t \in Tasks, Account!CopiesToken(t) PROVE AccountInv'
<1> USE DEF Account!Nothing, Account!NoOne
<1> DEFINE k == [tasks[t] EXCEPT !.at = "marks"]
<1>1. /\ tasks[t].at = "copies"
      /\ UNCHANGED <<provider, configured, account, switch, allOn, secrets, legacySecret, remembered, marker, owner,
                     chosen, told, cleaned>>
      /\ \/ /\ token' = "old" /\ Account!Goes(t, k) /\ UNCHANGED before
            /\ overtaken' = (overtaken \/ (token' # token /\ t \in before))
         \/ Account!Ends(t) /\ UNCHANGED <<token, overtaken>>
  BY DEF Account!CopiesToken, Account!WritesBack
<1>2. k \in TaskType /\ k.at = "marks"
  <2>1. tasks[t] \in TaskType /\ "marks" \in Stations BY DEF AccountInv, ActorsAreTyped, Stations
  <2>2. k \in TaskType BY <2>1, TaskChanges
  <2> QED BY <2>1, <2>2 DEF TaskType
<1> HIDE DEF k
<1>3. CASE Account!Ends(t) /\ UNCHANGED <<token, overtaken>> BY <1>1, <1>3, TaskFails
<1>4. CASE /\ token' = "old" /\ Account!Goes(t, k) /\ UNCHANGED before
           /\ overtaken' = (overtaken \/ (token' # token /\ t \in before))
  <2>1. (overtaken => overtaken') /\ overtaken' \in BOOLEAN BY <1>4
  <2>2. /\ tasks' \in [Tasks -> TaskType] /\ before' \subseteq Tasks /\ ReadInv'
        /\ owner.at = "clean" => (Account!UnderWay \subseteq before)'
        /\ "token" \in cleaned => \A u \in Tasks : tasks'[u].at = "copies" => u \in before'
    BY <1>1, <1>2, <1>4, <2>1, TaskGoesOn
  <2>3. ActorsAreTyped' BY <1>1, <1>4, <2>1, <2>2 DEF AccountInv, StoresTyped, ActorsAreTyped
  <2>4. RowInv' BY <1>1, <2>1, <2>2, RowStays
  <2>5. ToldInv' BY <1>1, <2>1 DEF AccountInv, ToldInv, NewHolds, Account!ToldIsTrue, Account!KindsOf
  <2>6. CleanInv'
    <3>1. Account!CleanedIsClean'
      BY <1>1, <1>4 DEF AccountInv, CleanInv, TokenHolds, Account!CleanedIsClean
    <3> QED BY <1>1, <2>1, <2>2, <3>1
        DEF AccountInv, CleanInv, CleaningHolds, TokenHolds, EnvHolds, Account!GoesWith
  <2> QED BY <2>2, <2>3, <2>4, <2>5, <2>6 DEF AccountInv
<1> QED BY <1>1, <1>3, <1>4

LEMMA MarksKeeps == ASSUME AccountInv, NEW t \in Tasks, Account!Marks(t) PROVE AccountInv'
<1> USE DEF Account!Nothing, Account!NoOne
<1> DEFINE k == [tasks[t] EXCEPT !.at = "works"]
<1>1. /\ tasks[t].at = "marks"
      /\ UNCHANGED <<provider, configured, account, switch, allOn, secrets, legacySecret, remembered, token, owner,
                     chosen, told, cleaned, overtaken>>
      /\ \/ marker' = TRUE /\ Account!Goes(t, k) /\ UNCHANGED before
         \/ Account!Ends(t) /\ UNCHANGED marker
  BY DEF Account!Marks
<1>2. k \in TaskType /\ k.at = "works"
  <2>1. tasks[t] \in TaskType /\ "works" \in Stations BY DEF AccountInv, ActorsAreTyped, Stations
  <2>2. k \in TaskType BY <2>1, TaskChanges
  <2> QED BY <2>1, <2>2 DEF TaskType
<1> HIDE DEF k
<1>3. CASE Account!Ends(t) /\ UNCHANGED marker BY <1>1, <1>3, TaskFails
<1>4. CASE marker' = TRUE /\ Account!Goes(t, k) /\ UNCHANGED before
  <2>1. /\ tasks' \in [Tasks -> TaskType] /\ before' \subseteq Tasks /\ ReadInv'
        /\ owner.at = "clean" => (Account!UnderWay \subseteq before)'
        /\ "token" \in cleaned => \A u \in Tasks : tasks'[u].at = "copies" => u \in before'
    BY <1>1, <1>2, <1>4, TaskGoesOn
  <2>2. ActorsAreTyped' BY <1>1, <1>4, <2>1 DEF AccountInv, StoresTyped, ActorsAreTyped
  <2>3. RowInv' BY <1>1, <2>1, RowStays
  <2>4. ToldInv' BY <1>1 DEF AccountInv, ToldInv, NewHolds, Account!ToldIsTrue, Account!KindsOf
  <2>5. CleanInv'
    BY <1>1, <1>4, <2>1
    DEF AccountInv, CleanInv, CleaningHolds, TokenHolds, EnvHolds, Account!CleanedIsClean, Account!GoesWith
  <2> QED BY <2>1, <2>2, <2>3, <2>4, <2>5 DEF AccountInv
<1> QED BY <1>1, <1>3, <1>4

LEMMA SavesStateKeeps == ASSUME AccountInv, NEW t \in Tasks, Account!SavesState(t) PROVE AccountInv'
<1> USE DEF Account!Nothing, Account!NoOne
<1>1. /\ tasks[t].at = "saves" /\ switch' = tasks[t].on
      /\ overtaken' = (overtaken \/ (switch' # switch /\ t \in before))
      /\ Account!Goes(t, Account!IdleTask) /\ before' = before \ {t}
      /\ UNCHANGED <<provider, configured, account, allOn, secrets, legacySecret, remembered, token, marker, owner,
                     chosen, told, cleaned>>
  BY DEF Account!SavesState, Account!WritesBack, Account!Ends
<1>2. Account!IdleTask \in TaskType /\ Account!IdleTask.at = "idle" BY TaskChanges DEF Account!IdleTask
<1>3. (overtaken => overtaken') /\ overtaken' \in BOOLEAN /\ switch' \in BOOLEAN
  BY <1>1 DEF AccountInv, ActorsAreTyped, TaskType
<1>4. ~overtaken' => switch' = switch
  BY <1>1 DEF AccountInv, ReadInv, SavesHold
<1>5. /\ tasks' \in [Tasks -> TaskType] /\ before' \subseteq Tasks /\ ReadInv'
      /\ owner.at = "clean" => (Account!UnderWay \subseteq before)'
      /\ "token" \in cleaned => \A u \in Tasks : tasks'[u].at = "copies" => u \in before'
  BY <1>1, <1>2, <1>3, <1>4, TaskGoesOn
<1>6. ActorsAreTyped' BY <1>1, <1>3, <1>5 DEF AccountInv, StoresTyped, ActorsAreTyped
<1>7. RowInv'
  BY <1>1, <1>3, <1>4, <1>5
  DEF AccountInv, RowInv, RowHolds, Account!RowIsAsChosen, Account!SwitchFollows, Account!Live
<1>8. ToldInv' BY <1>1, <1>3 DEF AccountInv, ToldInv, NewHolds, Account!ToldIsTrue, Account!KindsOf
<1>9. CleanInv'
  BY <1>1, <1>3, <1>5
  DEF AccountInv, CleanInv, CleaningHolds, TokenHolds, EnvHolds, Account!CleanedIsClean, Account!GoesWith
<1> QED BY <1>5, <1>6, <1>7, <1>8, <1>9 DEF AccountInv

\* The invariant holds at the start ...
LEMMA AccountInit == Account!Init => AccountInv
<1> SUFFICES ASSUME Account!Init PROVE AccountInv OBVIOUS
<1> USE DEF Account!Nothing, Account!NoOne
<1>1. owner.at = "idle" /\ \A t \in Tasks : tasks[t].at = "idle"
  BY DEF Account!Init, Account!IdleOwner, Account!IdleTask
<1>2. ActorsAreTyped
  <2>1. account \in AccountType BY DEF Account!Init, AccountType
  <2>2. owner \in OwnerType BY OwnerChanges DEF Account!Init
  <2>3. tasks \in [Tasks -> TaskType] BY TaskChanges DEF Account!Init
  <2> QED BY <2>1, <2>2, <2>3 DEF Account!Init, ActorsAreTyped, StoresTyped, Secret
<1>3. RowInv
  BY <1>1 DEF Account!Init, RowInv, RowHolds, Account!RowIsAsChosen, Account!SwitchFollows, Account!Live
<1>4. ReadInv BY <1>1 DEF ReadInv, SavesHold, MigratesHold
<1>5. ToldInv BY <1>1 DEF Account!Init, ToldInv, NewHolds, Account!ToldIsTrue
<1>6. CleanInv
  BY <1>1 DEF Account!Init, CleanInv, CleaningHolds, TokenHolds, EnvHolds, Account!CleanedIsClean
<1> QED BY <1>2, <1>3, <1>4, <1>5, <1>6 DEF AccountInv

\* ... and every step keeps it.
LEMMA AccountStep == ASSUME Account!Known, AccountInv, [Account!Next]_(Account!vars) PROVE AccountInv'
<1>1. CASE UNCHANGED Account!vars
  <2>1. /\ UNCHANGED <<provider, configured, account, switch, allOn, secrets, legacySecret, remembered, token, marker>>
        /\ UNCHANGED <<owner, tasks, chosen, told, cleaned, before, overtaken>>
    BY <1>1 DEF Account!vars
  <2>2. ActorsAreTyped' BY <2>1 DEF AccountInv, StoresTyped, ActorsAreTyped
  <2>3. (Account!UnderWay \subseteq before)' <=> Account!UnderWay \subseteq before BY <2>1 DEF Account!UnderWay
  <2>4. RowInv' BY <2>1, <2>3, RowStays DEF AccountInv, RowInv, RowHolds
  <2>5. ReadInv' BY <2>1, ReadStays
  <2>6. ToldInv' BY <2>1 DEF AccountInv, ToldInv, NewHolds, Account!ToldIsTrue, Account!KindsOf
  <2>7. CleanInv'
    BY <2>1
    DEF AccountInv, CleanInv, CleaningHolds, TokenHolds, EnvHolds, Account!CleanedIsClean, Account!GoesWith
  <2> QED BY <2>2, <2>4, <2>5, <2>6, <2>7 DEF AccountInv
<1>2. CASE \E new \in BOOLEAN : Account!Creates(new) \/ Account!SavesLegacy(new) \/ \E on \in BOOLEAN : Account!Accepts(on, new)
  BY <1>2, CreatesKeeps, SavesLegacyKeeps, AcceptsKeeps
<1>3. CASE \E c \in SUBSET {"secrets", "token"} : Account!Removes(c) BY <1>3, RemovesKeeps
<1>4. CASE Account!CopiesSwitch \/ Account!SetsSecret \/ Account!IsTold \/ Account!FindsToken \/ Account!RemovesRow
  BY <1>4, CopiesSwitchKeeps, SetsSecretKeeps, IsToldKeeps, FindsTokenKeeps, RemovesRowKeeps
<1>5. CASE Account!DeletesSecret \/ Account!DeletesToken
  <2>1. \A p \in Providers : p \in {"gmail", "qq", "other"} BY DEF Account!Known
  <2> QED BY <1>5, <2>1, DeletesSecretKeeps, DeletesTokenKeeps
<1>6. CASE Account!WritesEnv \/ Account!SavesAccount \/ Account!SwitchesAll \/ Account!DeletesLegacy \/ Account!OwnerDies
  BY <1>6, WritesEnvKeeps, SavesAccountKeeps, SwitchesAllKeeps, DeletesLegacyKeeps, OwnerDiesKeeps
<1>7. CASE \E t \in Tasks :
             \/ Account!Receives(t) \/ Account!Lists(t) \/ Account!Enters(t) \/ Account!ReadsSecret(t)
             \/ Account!TakesSecret(t) \/ Account!LooksAtToken(t) \/ Account!CopiesToken(t) \/ Account!Marks(t)
             \/ Account!ReadsState(t) \/ Account!SavesState(t)
  BY <1>7, BeginsKeeps, ListsKeeps, LooksKeeps, TakesSecretKeeps, CopiesTokenKeeps, MarksKeeps, SavesStateKeeps
<1> QED BY <1>1, <1>2, <1>3, <1>4, <1>5, <1>6, <1>7 DEF Account!Next

-----------------------------------------------------------------------------
(* The parts together.                                                      *)

PartsInv == /\ turn \in {"locks", "auto", "history", "account"}
            /\ LockInv /\ RoundInv /\ ImportInv /\ AccountInv

\* A step of one part is a step of it, and leaves the variables of the others alone.
LEMMA StepsOfParts ==
  ASSUME [Next]_vars
  PROVE  /\ UNCHANGED turn
         /\ [Locks!Next]_(Locks!vars) /\ [Rounds!Next]_(Rounds!vars)
         /\ [History!Next]_(History!vars) /\ [Account!Next]_(Account!vars)
<1>1. CASE UNCHANGED vars
  BY <1>1 DEF vars, locksVars, autoVars, historyVars, accountVars, Locks!vars, Rounds!vars, History!vars, Account!vars
<1>2. CASE Next
  <2>1. UNCHANGED locksVars <=> UNCHANGED Locks!vars BY DEF locksVars, Locks!vars
  <2>2. UNCHANGED autoVars <=> UNCHANGED Rounds!vars BY DEF autoVars, Rounds!vars
  <2>3. UNCHANGED historyVars <=> UNCHANGED History!vars BY DEF historyVars, History!vars
  <2>4. UNCHANGED accountVars <=> UNCHANGED Account!vars BY DEF accountVars, Account!vars
  <2>5. CASE turn = "locks" /\ Locks!Next /\ UNCHANGED <<turn, autoVars, historyVars, accountVars>>
    BY <2>2, <2>3, <2>4, <2>5
  <2>6. CASE turn = "auto" /\ Rounds!Next /\ UNCHANGED <<turn, locksVars, historyVars, accountVars>>
    BY <2>1, <2>3, <2>4, <2>6
  <2>7. CASE turn = "history" /\ History!Next /\ UNCHANGED <<turn, locksVars, autoVars, accountVars>>
    BY <2>1, <2>2, <2>4, <2>7
  <2>8. CASE turn = "account" /\ Account!Next /\ UNCHANGED <<turn, locksVars, autoVars, historyVars>>
    BY <2>1, <2>2, <2>3, <2>8
  <2> QED BY <1>2, <2>5, <2>6, <2>7, <2>8 DEF Next
<1> QED BY <1>1, <1>2

\* The invariant of every behaviour.
THEOREM Invariance == Spec => []PartsInv
<1>1. Init => PartsInv
  BY LocksInit, RoundInit, ImportInit, AccountInit, LocksAreDistinct, ImportsAreBounded DEF Init, PartsInv
<1>2. PartsInv /\ [Next]_vars => PartsInv'
  <2> SUFFICES ASSUME PartsInv, [Next]_vars PROVE PartsInv' OBVIOUS
  <2>1. LockInv' BY StepsOfParts, LocksStep, LocksAreDistinct DEF PartsInv
  <2>2. RoundInv' BY StepsOfParts, RoundStepKeeps DEF PartsInv
  <2>3. ImportInv' BY StepsOfParts, ImportStep, ImportsAreBounded DEF PartsInv
  <2>4. AccountInv' BY StepsOfParts, AccountStep, AccountsAreKnown DEF PartsInv
  <2>5. turn' = turn BY StepsOfParts
  <2> QED BY <2>1, <2>2, <2>3, <2>4, <2>5 DEF PartsInv
<1>3. QED BY <1>1, <1>2, PTL DEF Spec

\* Every variable of every part has its type.
THEOREM EverythingIsTyped == Spec => []TypesOK
<1>1. PartsInv => TypesOK
  <2> SUFFICES ASSUME PartsInv PROVE TypesOK OBVIOUS
  <2>1. Locks!TypeOK /\ Rounds!TypeOK /\ History!TypeOK /\ Account!TypeOK
    BY AccountTypes DEF PartsInv, LockInv, RoundInv, ImportInv, AccountInv
  <2> QED BY <2>1 DEF PartsInv, TypesOK
<1>2. QED BY <1>1, Invariance, PTL

\* receive() and historical_rescan(): two calls never work on one account at once, whichever processes they
\* run in and whether they name the account or not; a call that has returned, however it ended, holds no
\* lock, but the thread lock when it raised on its way in.
THEOREM LocksAlwaysExclude == Spec => []LocksExclude
<1>1. PartsInv => LocksExclude BY LocksInvExcludes DEF PartsInv, LocksExclude
<1>2. QED BY <1>1, Invariance, PTL

\* import_historical_mails: a resumed import never passes over a segment nobody has scanned, and a run that
\* says completed or no_changes has gone through the range to its end, every segment its last call went
\* through being clean.
THEOREM HistoryIsAlwaysWhole == Spec => []HistoryIsWhole
<1>1. PartsInv => HistoryIsWhole BY DEF PartsInv, HistoryIsWhole, ImportInv
<1>2. QED BY <1>1, Invariance, PTL

\* sync_due_mail_accounts: a round begins no receive of an account whose delay after a failure is not over,
\* and none after the user paused, unless a tool has put back an older row.
THEOREM RoundsHonour == Spec => RoundHonours
<1>1. PartsInv /\ [Next]_vars =>
        /\ [\A a \in Rounds!Accounts : Rounds!Receives(a) => owed[a] = 0 \/ raced]_(Rounds!vars)
        /\ [\A a \in Rounds!Accounts : Rounds!Receives(a) => gui.switch \/ raced]_(Rounds!vars)
  BY StepsOfParts, RoundStepHonours DEF PartsInv
<1>2. QED BY <1>1, Invariance, PTL DEF Spec, RoundHonours, Rounds!BackoffIsHonoured, Rounds!PauseStopsTheRound

\* An account stays in the state its owner left it in; what he was told is deleted stays deleted and what he
\* was told is saved is in use, and it is synchronised only while he wants it, whatever fails or dies, unless
\* a task that was under way when he wrote has written over it.
THEOREM AccountIsAlwaysKept == Spec => []AccountIsKept
<1>1. PartsInv => AccountIsKept
  BY DEF PartsInv, AccountIsKept, AccountInv, RowInv, ToldInv, CleanInv
<1>2. QED BY <1>1, Invariance, PTL
=============================================================================
