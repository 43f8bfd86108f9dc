--------------------------- MODULE HistoryImport ----------------------------
(***************************************************************************)
(* The import of historical mail (import_historical_mails): a long range   *)
(* is split into segments, each is scanned by historical_rescan, and the   *)
(* row of history_import_runs says from which segment a later call goes    *)
(* on.  A segment may fail, stop at its scan cap or find the account busy; *)
(* the user may cancel and resume, the process may die.                    *)
(***************************************************************************)
EXTENDS Naturals

CONSTANTS
  Segments,   \* number of segments of the range
  MaxRuns     \* bound on the calls for one run_id

VARIABLES
  job,      \* the history_import_runs row
  scan,     \* the call under way
  cancel,   \* cancel_event of the call
  calls,
  clean,    \* how the last scan of each segment ended
  first     \* the segment the last call began with

Bounds == Segments \in Nat /\ MaxRuns \in Nat

vars == <<job, scan, cancel, calls, clean, first>>

Ending == {"completed", "no_changes"}
Statuses == Ending \cup {"none", "running", "partial", "failed", "cancelled"}

Found == {"nothing", "duplicates", "saved"}
Better(f, g) == IF "saved" \in {f, g} THEN "saved" ELSE IF f = "nothing" THEN g ELSE f

\* at: no call, before a segment, inside it, after the last.  retry is
\* retry_from_segment, 0 for None; found is the best outcome of a message.
NoScan == [at |-> "none", i |-> 0, retry |-> 0, next |-> 1, found |-> "nothing", failed |-> FALSE,
           hard |-> FALSE, cancelled |-> FALSE, truncated |-> FALSE]

TypeOK ==
  /\ job \in [status : Statuses, next : 1..Segments + 1, found : Found]
  /\ scan \in [at : {"none", "segment", "rescan", "end"}, i : 0..Segments + 1,
               retry : 0..Segments, next : 1..Segments + 1, found : Found, failed : BOOLEAN,
               hard : BOOLEAN, cancelled : BOOLEAN, truncated : BOOLEAN]
  /\ cancel \in BOOLEAN
  /\ calls \in 0..MaxRuns
  /\ clean \in [1..Segments -> {"never", "clean", "dirty"}]
  /\ first \in 1..Segments + 1

Init ==
  /\ job = [status |-> "none", next |-> 1, found |-> "nothing"]
  /\ scan = NoScan
  /\ cancel = FALSE
  /\ calls = 0
  /\ clean = [s \in 1..Segments |-> "never"]
  /\ first = 1

-----------------------------------------------------------------------------
(* historical_rescan.                                                       *)

\* What one scan may report; a busy account is reported as cancelled.
Raw == [global : BOOLEAN, cancelled : BOOLEAN, failed : BOOLEAN, truncated : BOOLEAN, found : Found]

RescanStatus(raw) ==
  IF raw.global THEN "FAILED"
  ELSE IF raw.cancelled THEN "CANCELLED"
  ELSE IF raw.failed \/ raw.truncated THEN "PARTIAL"
  ELSE IF raw.found = "saved" THEN "SUCCESS" ELSE "NO_CHANGES"

-----------------------------------------------------------------------------
(* import_historical_mails and resume_history_import.                       *)

\* The row is written before the first segment; a resumed call forgets the failures.
Begins ==
  /\ scan.at = "none"
  /\ calls < MaxRuns
  /\ ~(job.next > Segments /\ job.status \in Ending)
  /\ calls' = calls + 1
  /\ cancel' = FALSE
  /\ first' = job.next
  /\ scan' = [NoScan EXCEPT !.at = "segment", !.i = job.next, !.next = job.next, !.found = job.found]
  /\ job' = [job EXCEPT !.status = "running"]
  /\ UNCHANGED clean

UserCancels ==
  /\ scan.at \in {"segment", "rescan"}
  /\ cancel' = TRUE
  /\ UNCHANGED <<job, scan, calls, clean, first>>

\* The head of the loop; a cancelled call stops in front of segment i.
EntersSegment ==
  /\ scan.at = "segment"
  /\ scan' = IF scan.i > Segments THEN [scan EXCEPT !.at = "end"]
             ELSE IF cancel THEN [scan EXCEPT !.at = "end", !.cancelled = TRUE, !.next = scan.i]
             ELSE [scan EXCEPT !.at = "rescan"]
  /\ UNCHANGED <<job, cancel, calls, clean, first>>

\* Variant with a bug: the segment under way counts as done.
PublishedNextIsLater == IF scan.i < Segments THEN scan.i + 1 ELSE scan.i

PublishedNext == scan.i

\* publish: the progress of the scan is stored, with the segment it is in.
Publishes ==
  /\ scan.at = "rescan"
  /\ \E found \in Found :
       job' = [status |-> "running", next |-> PublishedNext, found |-> Better(scan.found, found)]
  /\ UNCHANGED <<scan, cancel, calls, clean, first>>

Incomplete(raw) ==
  raw.cancelled \/ raw.truncated \/ raw.failed \/ RescanStatus(raw) \in {"FAILED", "PARTIAL"}

RetryFrom(raw) == IF Incomplete(raw) /\ scan.retry = 0 THEN scan.i ELSE scan.retry

\* The result of a segment: go on, unless it failed as a whole, was cancelled or cut.
LeavesSegment ==
  /\ scan.at = "rescan"
  /\ \E raw \in Raw :
       LET hard == RescanStatus(raw) = "FAILED"
           retry == RetryFrom(raw)
           stops == hard \/ raw.cancelled \/ raw.truncated IN
       /\ scan' = [at |-> IF stops THEN "end" ELSE "segment",
                   i |-> IF stops THEN scan.i ELSE scan.i + 1,
                   retry |-> retry,
                   next |-> IF retry > 0 THEN retry ELSE scan.i + 1,
                   found |-> Better(scan.found, raw.found),
                   failed |-> scan.failed \/ raw.failed,
                   hard |-> hard, cancelled |-> raw.cancelled, truncated |-> raw.truncated]
       /\ clean' = [clean EXCEPT ![scan.i] = IF Incomplete(raw) THEN "dirty" ELSE "clean"]
  /\ UNCHANGED <<job, cancel, calls, first>>

\* Variant with a bug: how the last segment ended decides.
FinalStatusOfLast ==
  IF scan.cancelled THEN "cancelled"
  ELSE IF scan.hard THEN "failed"
  ELSE IF scan.truncated THEN "partial"
  ELSE IF scan.found = "saved" THEN "completed" ELSE "no_changes"

\* Variant with a bug: a status no reader of the row knows.
FinalStatusMisspelt == IF scan.cancelled THEN "canceled" ELSE "completed"

FinalStatus ==
  IF scan.cancelled THEN "cancelled"
  ELSE IF scan.hard /\ scan.found = "nothing" THEN "failed"
  ELSE IF scan.hard \/ scan.truncated \/ scan.failed \/ scan.retry > 0 THEN "partial"
  ELSE IF scan.found = "saved" THEN "completed" ELSE "no_changes"

\* The final row.
Ends ==
  /\ scan.at = "end"
  /\ job' = [status |-> FinalStatus, next |-> scan.next, found |-> scan.found]
  /\ scan' = NoScan
  /\ cancel' = FALSE
  /\ UNCHANGED <<calls, clean, first>>

\* The process dies; the row goes on saying "running".
Dies ==
  /\ scan.at # "none"
  /\ scan' = NoScan
  /\ cancel' = FALSE
  /\ UNCHANGED <<job, calls, clean, first>>

Next ==
  \/ Begins \/ UserCancels \/ EntersSegment \/ Publishes \/ LeavesSegment \/ Ends \/ Dies

Spec == Init /\ [][Next]_vars

-----------------------------------------------------------------------------
(* Properties.                                                              *)

\* No resumed import passes over a segment nobody has scanned, wherever the earlier
\* calls were cancelled, cut or killed.
NoSegmentIsPassedOver ==
  \A s \in 1..Segments : s < job.next => clean[s] # "never"

\* An import that says completed or no_changes means it of every segment the last
\* call went through.
CompletedIsTrue ==
  job.status \in Ending => job.next > Segments /\ \A s \in first..Segments : clean[s] = "clean"

(* What the documents say and the code does not keep.                       *)

\* docs/历史邮件导入说明.md:7, a later call goes on from the first segment that is not
\* complete: an import that says completed has scanned the whole range.
CompletedIsWhole ==
  job.status \in Ending => \A s \in 1..Segments : clean[s] = "clean"
=============================================================================
