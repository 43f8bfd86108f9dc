----------------------- MODULE SnapshotCleanupProofs -----------------------
(***************************************************************************)
(* Proofs about SnapshotCleanup for every number of requests and           *)
(* processes.  The argument has two halves: whoever deletes files works on *)
(* a request whose row is committed as cleaned, and whoever is about to    *)
(* mark a row holds the write lock, so the row is still the one it checked *)
(* inside the transaction.                                                 *)
(***************************************************************************)
EXTENDS SnapshotCleanup, TLAPS

\* The steps of a process that concern one request.
Busy == {"read", "restore", "remove", "removing", "move", "mark", "undo", "size"}

\* A process that works on a request has one.
HasRequest == \A p \in Procs : proc[p].pc \in Busy => proc[p].r \in Reqs

\* Files are deleted only when the row is committed as cleaned.
DeletesCleaned ==
  \A p \in Procs : proc[p].pc \in {"remove", "removing", "size"} => row[proc[p].r].cleaned

\* The row that a transaction will mark is still eligible: the lock protects it.
LockProtects ==
  \A p \in Procs : proc[p].pc \in {"move", "mark"} => writer = p /\ Eligible(proc[p].r)

\* The inductive invariant.
IInv == TypeOK /\ HasRequest /\ DeletesCleaned /\ LockProtects /\ SnapshotIsKept

\* The expendability of a row that is marked as cleaned, as a relation of two states.
OnlyExpendableStep ==
  \A r \in Reqs : row'[r].cleaned # row[r].cleaned =>
    /\ row[r].status \notin PROTECTED_STATUSES
    /\ row[r].status \in LongRetention => row[r].ready /\ row[r].matched

\* Nothing is quarantined, cleaned or locked at the beginning.
LEMMA InitHolds == Init => IInv
  BY ProcAssumption
  DEF Init, IInv, TypeOK, HasRequest, DeletesCleaned, LockProtects, SnapshotIsKept, Rows,
      ProcState, Pcs, Idle, Busy, PROTECTED_STATUSES, ShortRetention, LongRetention, Procs

-----------------------------------------------------------------------------
(* The local state after a step.                                            *)

\* A state that works on a request, if any, and deletes only what is cleaned.
Sound(s) ==
  /\ s.pc \in Busy => s.r \in Reqs
  /\ s.pc \in {"remove", "removing", "size"} => row[s.r].cleaned

\* Going to another step with the same request gives a local state.
LEMMA AtTyped ==
  ASSUME TypeOK, NEW p \in Procs, NEW pc \in Pcs
  PROVE  At(p, pc) \in ProcState /\ At(p, pc).pc = pc /\ At(p, pc).r = proc[p].r
  BY DEF TypeOK, ProcState, At

\* Taking up the next request leaves the process without one.
LEMMA ResumesTyped ==
  ASSUME TypeOK, NEW p \in Procs, Resumes(p)
  PROVE  \E s \in ProcState : Goes(p, s) /\ s.pc \in {"next", "each"}
<1> DEFINE s == [proc[p] EXCEPT !.pc = IF proc[p].plan = {} /\ proc[p].items = {}
                                       THEN "next" ELSE "each", !.r = NoReq, !.n = 0]
<1>1. proc[p] \in ProcState BY DEF TypeOK
<1>2. s \in ProcState /\ s.pc \in {"next", "each"} BY <1>1 DEF ProcState, Pcs
<1>3. Goes(p, s) BY DEF Resumes
<1>. QED BY <1>2, <1>3

\* A step that leaves the rows alone and does not enter a transaction.
LEMMA QuietStep ==
  ASSUME IInv, NEW p \in Procs, NEW s \in ProcState, Goes(p, s), Sound(s),
         s.pc \notin {"move", "mark"}, row' = row,
         writer' = writer \/ (writer = p /\ writer' = NoProc)
  PROVE  /\ proc' \in [Procs -> ProcState]
         /\ HasRequest' /\ DeletesCleaned' /\ LockProtects' /\ OnlyExpendableStep
<1>1. proc \in [Procs -> ProcState] /\ proc' = [proc EXCEPT ![p] = s]
  BY DEF IInv, TypeOK, Goes
<1>2. proc' \in [Procs -> ProcState] /\ proc'[p] = s /\ \A q \in Procs \ {p} : proc'[q] = proc[q]
  BY <1>1
<1>3. HasRequest' /\ DeletesCleaned'
  BY <1>2 DEF IInv, HasRequest, DeletesCleaned, Sound
<1>4. LockProtects'
  BY <1>2 DEF IInv, LockProtects, Eligible
<1>. QED BY <1>2, <1>3, <1>4 DEF OnlyExpendableStep

\* A step that stays inside, or enters, the transaction of p.
LEMMA LockedStep ==
  ASSUME IInv, NEW p \in Procs, NEW s \in ProcState, Goes(p, s), s.r \in Reqs,
         s.pc \in {"move", "mark"}, row' = row, Eligible(s.r),
         writer \in {p, NoProc}, writer' = p
  PROVE  /\ proc' \in [Procs -> ProcState]
         /\ HasRequest' /\ DeletesCleaned' /\ LockProtects' /\ OnlyExpendableStep
<1>1. proc \in [Procs -> ProcState] /\ proc' = [proc EXCEPT ![p] = s]
  BY DEF IInv, TypeOK, Goes
<1>2. proc' \in [Procs -> ProcState] /\ proc'[p] = s /\ \A q \in Procs \ {p} : proc'[q] = proc[q]
  BY <1>1
<1>3. HasRequest' /\ DeletesCleaned'
  BY <1>2 DEF IInv, HasRequest, DeletesCleaned
<1>4. \A q \in Procs \ {p} : proc[q].pc \notin {"move", "mark"}
  BY ProcAssumption DEF IInv, LockProtects, Procs
<1>5. LockProtects'
  BY <1>2, <1>4 DEF LockProtects, Eligible
<1>. QED BY <1>2, <1>3, <1>5 DEF OnlyExpendableStep

\* A transaction of somebody else changes rows only when nobody holds the lock.
LEMMA ForeignStep ==
  ASSUME IInv, writer = NoProc, row' \in [Reqs -> Rows],
         UNCHANGED <<place, whole, tries, writer, recorded, proc, crashes>>,
         \A r \in Reqs : row'[r].cleaned = row[r].cleaned
  PROVE  IInv' /\ OnlyExpendableStep
<1>1. TypeOK' BY DEF IInv, TypeOK
<1>2. HasRequest' /\ DeletesCleaned'
  BY DEF IInv, HasRequest, DeletesCleaned, Busy
<1>3. \A q \in Procs : proc[q].pc \notin {"move", "mark"}
  BY ProcAssumption DEF IInv, LockProtects, Procs
<1>4. LockProtects' BY <1>3 DEF LockProtects
<1>5. SnapshotIsKept' BY DEF IInv, SnapshotIsKept
<1>. QED BY <1>1, <1>2, <1>4, <1>5 DEF IInv, OnlyExpendableStep

\* The rows that the transactions write.
LEMMA RowsTyped ==
  ASSUME NEW x \in Rows
  PROVE  /\ [x EXCEPT !.cleaned = TRUE, !.age = 0] \in Rows
         /\ [x EXCEPT !.cleaned = TRUE, !.age = 0].cleaned
         /\ [x EXCEPT !.status = "sent_reconciled", !.matched = TRUE, !.age = 0] \in Rows
         /\ [x EXCEPT !.status = "sent_reconciled", !.matched = TRUE, !.age = 0].cleaned = x.cleaned
<1>1. 0 \in 0..2 /\ "sent_reconciled" \in LongRetention BY DEF LongRetention
<1>2. TRUE \in BOOLEAN OBVIOUS
<1>3. [x EXCEPT !.cleaned = TRUE, !.age = 0] \in Rows BY <1>1, <1>2 DEF Rows
<1>4. [x EXCEPT !.status = "sent_reconciled", !.matched = TRUE, !.age = 0] \in Rows BY <1>1, <1>2 DEF Rows
<1>. QED BY <1>3, <1>4 DEF Rows

\* A directory that moves is somewhere.
LEMMA MovesToTyped ==
  ASSUME TypeOK, NEW r \in Reqs, NEW at \in {"root", "quarantine", "gone"}, NEW n \in Nat, MovesTo(r, at, n)
  PROVE  place' \in [Reqs -> [at : {"root", "quarantine", "gone"}, n : Nat]]
  BY DEF TypeOK, MovesTo

-----------------------------------------------------------------------------
(* One lemma per action.                                                    *)

\* Only the state of p changes.
LEMMA StartsHolds == ASSUME IInv, NEW p \in Procs, Starts(p) PROVE IInv' /\ OnlyExpendableStep
<1>t. TypeOK /\ proc[p] \in ProcState BY DEF IInv, TypeOK
<1>1. PICK s \in ProcState : Goes(p, s) /\ Sound(s) /\ s.pc \notin {"move", "mark"}
  BY <1>t DEF Starts, Idle, ProcState, Pcs, Sound, Busy
<1>2. proc' \in [Procs -> ProcState] /\ HasRequest' /\ DeletesCleaned' /\ LockProtects' /\ OnlyExpendableStep
  BY <1>1, QuietStep DEF Starts
<1>3. TypeOK'
  BY <1>2 DEF IInv, TypeOK, Starts
<1>4. SnapshotIsKept'
  BY DEF IInv, SnapshotIsKept, Starts
<1>. QED BY <1>2, <1>3, <1>4 DEF IInv

\* Only the state of p changes: it remembers what the quarantine holds.
LEMMA ListsHolds == ASSUME IInv, NEW p \in Procs, Lists(p) PROVE IInv' /\ OnlyExpendableStep
<1>t. TypeOK /\ proc[p] \in ProcState BY DEF IInv, TypeOK
<1> DEFINE todo == {<<r, place[r].n>> : r \in {x \in Reqs : place[x].at = "quarantine"}}
          state == [At(p, "next") EXCEPT !.todo = todo]
<1>a. todo \in SUBSET (Reqs \X Nat) BY <1>t DEF TypeOK
<1>b. state \in ProcState /\ state.pc = "next"
  BY <1>t, <1>a DEF At, ProcState, Pcs
<1>1. PICK s \in ProcState : Goes(p, s) /\ Sound(s) /\ s.pc \notin {"move", "mark"}
  BY <1>b DEF Lists, Sound, Busy
<1>2. proc' \in [Procs -> ProcState] /\ HasRequest' /\ DeletesCleaned' /\ LockProtects' /\ OnlyExpendableStep
  BY <1>1, QuietStep DEF Lists
<1>3. TypeOK'
  BY <1>2 DEF IInv, TypeOK, Lists
<1>4. SnapshotIsKept'
  BY DEF IInv, SnapshotIsKept, Lists
<1>. QED BY <1>2, <1>3, <1>4 DEF IInv

\* A listed directory belongs to a request.
LEMMA TakesNextHolds == ASSUME IInv, NEW p \in Procs, TakesNext(p) PROVE IInv' /\ OnlyExpendableStep
<1>t. TypeOK /\ proc[p] \in ProcState BY DEF IInv, TypeOK
<1>a. ASSUME NEW x \in proc[p].todo, Goes(p, [At(p, "read") EXCEPT !.r = x[1], !.n = x[2], !.todo = @ \ {x}])
      PROVE  \E s \in ProcState : Goes(p, s) /\ Sound(s) /\ s.pc \notin {"move", "mark"}
  <2> DEFINE state == [At(p, "read") EXCEPT !.r = x[1], !.n = x[2], !.todo = @ \ {x}]
  <2>1. proc[p].todo \in SUBSET (Reqs \X Nat) BY <1>t DEF ProcState
  <2>2. x[1] \in Reqs /\ x[2] \in Nat /\ proc[p].todo \ {x} \in SUBSET (Reqs \X Nat) BY <2>1
  <2>3. state \in ProcState /\ state.pc = "read" /\ state.r \in Reqs
    BY <1>t, <2>2 DEF At, ProcState, Pcs
  <2>. QED BY <1>a, <2>3 DEF Sound
<1>b. Idle \in ProcState /\ Idle.pc = "idle" BY DEF Idle, ProcState, Pcs
<1>c. At(p, "plan") \in ProcState /\ At(p, "plan").pc = "plan" BY <1>t, AtTyped DEF Pcs
<1>1. PICK s \in ProcState : Goes(p, s) /\ Sound(s) /\ s.pc \notin {"move", "mark"}
  BY <1>a, <1>b, <1>c DEF TakesNext, Sound, Busy
<1>2. proc' \in [Procs -> ProcState] /\ HasRequest' /\ DeletesCleaned' /\ LockProtects' /\ OnlyExpendableStep
  BY <1>1, QuietStep DEF TakesNext
<1>3. TypeOK'
  BY <1>2 DEF IInv, TypeOK, TakesNext
<1>4. SnapshotIsKept'
  BY DEF IInv, SnapshotIsKept, TakesNext
<1>. QED BY <1>2, <1>3, <1>4 DEF IInv

\* The purge begins only on a committed row.
LEMMA ReadsRowHolds == ASSUME IInv, NEW p \in Procs, ReadsRow(p) PROVE IInv' /\ OnlyExpendableStep
<1>t. TypeOK /\ proc[p] \in ProcState BY DEF IInv, TypeOK
<1>a. proc[p].r \in Reqs BY DEF IInv, HasRequest, ReadsRow, Busy
<1>b. ASSUME InQuarantine(proc[p].r, proc[p].n) PROVE \E s \in ProcState : Goes(p, s) /\ Sound(s) /\ s.pc \notin {"move", "mark"}
  <2> DEFINE state == At(p, AfterRead(p))
  <2>1. AfterRead(p) \in Pcs /\ AfterRead(p) \in {"remove", "restore"}
        /\ (AfterRead(p) = "remove" => row[proc[p].r].cleaned)
    BY DEF AfterRead, Pcs
  <2>2. state \in ProcState /\ state.pc = AfterRead(p) /\ state.r = proc[p].r
    BY <1>t, <2>1, AtTyped
  <2>3. Goes(p, state) BY <1>b DEF ReadsRow
  <2>. QED BY <1>a, <2>1, <2>2, <2>3 DEF Sound
<1>c. ASSUME ~InQuarantine(proc[p].r, proc[p].n) PROVE \E s \in ProcState : Goes(p, s) /\ Sound(s) /\ s.pc \notin {"move", "mark"}
  BY <1>c, <1>t, ResumesTyped DEF ReadsRow, Sound, Busy
<1>1. PICK s \in ProcState : Goes(p, s) /\ Sound(s) /\ s.pc \notin {"move", "mark"}
  BY <1>b, <1>c
<1>2. proc' \in [Procs -> ProcState] /\ HasRequest' /\ DeletesCleaned' /\ LockProtects' /\ OnlyExpendableStep
  BY <1>1, QuietStep DEF ReadsRow
<1>3. TypeOK'
  BY <1>2 DEF IInv, TypeOK, ReadsRow
<1>4. SnapshotIsKept'
  BY DEF IInv, SnapshotIsKept, ReadsRow
<1>. QED BY <1>2, <1>3, <1>4 DEF IInv

\* The directory comes back as it is.
LEMMA RestoresHolds == ASSUME IInv, NEW p \in Procs, Restores(p) PROVE IInv' /\ OnlyExpendableStep
<1>t. TypeOK /\ proc[p] \in ProcState BY DEF IInv, TypeOK
<1>1. PICK s \in ProcState : Goes(p, s) /\ Sound(s) /\ s.pc \notin {"move", "mark"}
  BY <1>t, ResumesTyped DEF Restores, Sound, Busy
<1>r. proc[p].r \in Reqs BY DEF IInv, HasRequest, Restores, Busy
<1>2. proc' \in [Procs -> ProcState] /\ HasRequest' /\ DeletesCleaned' /\ LockProtects' /\ OnlyExpendableStep
  BY <1>1, QuietStep DEF Restores
<1>3. TypeOK'
  BY <1>2, <1>r DEF IInv, TypeOK, Restores, MovesTo
<1>4. SnapshotIsKept'
  BY <1>r, <1>t DEF IInv, SnapshotIsKept, Restores, MovesTo, TypeOK
<1>. QED BY <1>2, <1>3, <1>4 DEF IInv

\* Only the state of p changes.
LEMMA RestoreFailsHolds == ASSUME IInv, NEW p \in Procs, RestoreFails(p) PROVE IInv' /\ OnlyExpendableStep
<1>t. TypeOK /\ proc[p] \in ProcState BY DEF IInv, TypeOK
<1>1. PICK s \in ProcState : Goes(p, s) /\ Sound(s) /\ s.pc \notin {"move", "mark"}
  BY <1>t, ResumesTyped DEF RestoreFails, Sound, Busy
<1>2. proc' \in [Procs -> ProcState] /\ HasRequest' /\ DeletesCleaned' /\ LockProtects' /\ OnlyExpendableStep
  BY <1>1, QuietStep DEF RestoreFails
<1>3. TypeOK'
  BY <1>2 DEF IInv, TypeOK, RestoreFails
<1>4. SnapshotIsKept'
  BY DEF IInv, SnapshotIsKept, RestoreFails
<1>. QED BY <1>2, <1>3, <1>4 DEF IInv

\* Files go, of a request whose row is cleaned.
LEMMA RemoveBeginsHolds == ASSUME IInv, NEW p \in Procs, RemoveBegins(p) PROVE IInv' /\ OnlyExpendableStep
<1>t. TypeOK /\ proc[p] \in ProcState BY DEF IInv, TypeOK
<1>r. proc[p].r \in Reqs /\ row[proc[p].r].cleaned
  BY DEF IInv, HasRequest, DeletesCleaned, RemoveBegins, Busy
<1>a. At(p, "removing") \in ProcState /\ At(p, "removing").pc = "removing" /\ At(p, "removing").r = proc[p].r
  BY <1>t, AtTyped DEF Pcs
<1>1. PICK s \in ProcState : Goes(p, s) /\ Sound(s) /\ s.pc \notin {"move", "mark"}
  BY <1>t, <1>r, <1>a, ResumesTyped DEF RemoveBegins, Sound, Busy
<1>2. proc' \in [Procs -> ProcState] /\ HasRequest' /\ DeletesCleaned' /\ LockProtects' /\ OnlyExpendableStep
  BY <1>1, QuietStep DEF RemoveBegins
<1>3. TypeOK'
  BY <1>2 DEF IInv, TypeOK, RemoveBegins
<1>4. SnapshotIsKept'
  BY <1>r, <1>t DEF IInv, SnapshotIsKept, RemoveBegins, TypeOK
<1>. QED BY <1>2, <1>3, <1>4 DEF IInv

\* The directory goes, of a request whose row is cleaned.
LEMMA RemoveEndsHolds == ASSUME IInv, NEW p \in Procs, RemoveEnds(p) PROVE IInv' /\ OnlyExpendableStep
<1>t. TypeOK /\ proc[p] \in ProcState BY DEF IInv, TypeOK
<1>1. PICK s \in ProcState : Goes(p, s) /\ Sound(s) /\ s.pc \notin {"move", "mark"}
  BY <1>t, ResumesTyped DEF RemoveEnds, Sound, Busy
<1>r. proc[p].r \in Reqs /\ row[proc[p].r].cleaned
  BY DEF IInv, HasRequest, DeletesCleaned, RemoveEnds, Busy
<1>2. proc' \in [Procs -> ProcState] /\ HasRequest' /\ DeletesCleaned' /\ LockProtects' /\ OnlyExpendableStep
  BY <1>1, QuietStep DEF RemoveEnds
<1>3. TypeOK'
  BY <1>2, <1>r DEF IInv, TypeOK, RemoveEnds, MovesTo
<1>4. SnapshotIsKept'
  BY <1>r, <1>t DEF IInv, SnapshotIsKept, RemoveEnds, MovesTo, TypeOK
<1>. QED BY <1>2, <1>3, <1>4 DEF IInv

\* Only the state of p changes.
LEMMA RemoveFailsHolds == ASSUME IInv, NEW p \in Procs, RemoveFails(p) PROVE IInv' /\ OnlyExpendableStep
<1>t. TypeOK /\ proc[p] \in ProcState BY DEF IInv, TypeOK
<1>1. PICK s \in ProcState : Goes(p, s) /\ Sound(s) /\ s.pc \notin {"move", "mark"}
  BY <1>t, ResumesTyped DEF RemoveFails, Sound, Busy
<1>2. proc' \in [Procs -> ProcState] /\ HasRequest' /\ DeletesCleaned' /\ LockProtects' /\ OnlyExpendableStep
  BY <1>1, QuietStep DEF RemoveFails
<1>3. TypeOK'
  BY <1>2 DEF IInv, TypeOK, RemoveFails
<1>4. SnapshotIsKept'
  BY DEF IInv, SnapshotIsKept, RemoveFails
<1>. QED BY <1>2, <1>3, <1>4 DEF IInv

\* A plan gives no right yet.
LEMMA PlansHolds == ASSUME IInv, NEW p \in Procs, Plans(p) PROVE IInv' /\ OnlyExpendableStep
<1>t. TypeOK /\ proc[p] \in ProcState BY DEF IInv, TypeOK
<1> DEFINE items == {r \in Reqs : Eligible(r)}
          state == [At(p, IF items = {} THEN "record" ELSE "each") EXCEPT !.plan = items, !.items = items]
<1>a. state \in ProcState /\ state.pc \in {"record", "each"}
  BY <1>t DEF At, ProcState, Pcs
<1>1. PICK s \in ProcState : Goes(p, s) /\ Sound(s) /\ s.pc \notin {"move", "mark"}
  BY <1>a DEF Plans, Sound, Busy
<1>2. proc' \in [Procs -> ProcState] /\ HasRequest' /\ DeletesCleaned' /\ LockProtects' /\ OnlyExpendableStep
  BY <1>1, QuietStep DEF Plans
<1>3. TypeOK'
  BY <1>2 DEF IInv, TypeOK, Plans
<1>4. SnapshotIsKept'
  BY DEF IInv, SnapshotIsKept, Plans
<1>. QED BY <1>2, <1>3, <1>4 DEF IInv

\* The row stays cleaned.
LEMMA SizesHolds == ASSUME IInv, NEW p \in Procs, Sizes(p) PROVE IInv' /\ OnlyExpendableStep
<1>t. TypeOK /\ proc[p] \in ProcState BY DEF IInv, TypeOK
<1>r. proc[p].r \in Reqs /\ row[proc[p].r].cleaned
  BY DEF IInv, HasRequest, DeletesCleaned, Sizes, Busy
<1>a. \A pc \in {"remove", "undo"} : At(p, pc) \in ProcState /\ At(p, pc).pc = pc /\ At(p, pc).r = proc[p].r
  BY <1>t, AtTyped DEF Pcs
<1>1. PICK s \in ProcState : Goes(p, s) /\ Sound(s) /\ s.pc \notin {"move", "mark"}
  BY <1>r, <1>a DEF Sizes, Sound
<1>2. proc' \in [Procs -> ProcState] /\ HasRequest' /\ DeletesCleaned' /\ LockProtects' /\ OnlyExpendableStep
  BY <1>1, QuietStep DEF Sizes
<1>3. TypeOK'
  BY <1>2 DEF IInv, TypeOK, Sizes
<1>4. SnapshotIsKept'
  BY DEF IInv, SnapshotIsKept, Sizes
<1>. QED BY <1>2, <1>3, <1>4 DEF IInv

\* Only the holder of the lock gives it up.
LEMMA FailsHolds == ASSUME IInv, NEW p \in Procs, Fails(p) PROVE IInv' /\ OnlyExpendableStep
<1>t. TypeOK /\ proc[p] \in ProcState BY DEF IInv, TypeOK
<1>r. proc[p].r \in Reqs /\ writer = p
  BY DEF IInv, HasRequest, LockProtects, Fails, Busy
<1>a. At(p, "undo") \in ProcState /\ At(p, "undo").pc = "undo" /\ At(p, "undo").r = proc[p].r
  BY <1>t, AtTyped DEF Pcs
<1>1. PICK s \in ProcState : Goes(p, s) /\ Sound(s) /\ s.pc \notin {"move", "mark"}
  BY <1>t, <1>r, <1>a, ResumesTyped DEF Fails, Sound, Busy
<1>2. proc' \in [Procs -> ProcState] /\ HasRequest' /\ DeletesCleaned' /\ LockProtects' /\ OnlyExpendableStep
  BY <1>1, <1>r, QuietStep DEF Fails
<1>3. TypeOK'
  BY <1>2 DEF IInv, TypeOK, Fails
<1>4. SnapshotIsKept'
  BY DEF IInv, SnapshotIsKept, Fails
<1>. QED BY <1>2, <1>3, <1>4 DEF IInv

\* The directory comes back as it is.
LEMMA UndoesHolds == ASSUME IInv, NEW p \in Procs, Undoes(p) PROVE IInv' /\ OnlyExpendableStep
<1>t. TypeOK /\ proc[p] \in ProcState BY DEF IInv, TypeOK
<1>1. PICK s \in ProcState : Goes(p, s) /\ Sound(s) /\ s.pc \notin {"move", "mark"}
  BY <1>t, ResumesTyped DEF Undoes, Sound, Busy
<1>r. proc[p].r \in Reqs BY DEF IInv, HasRequest, Undoes, Busy
<1>2. proc' \in [Procs -> ProcState] /\ HasRequest' /\ DeletesCleaned' /\ LockProtects' /\ OnlyExpendableStep
  BY <1>1, QuietStep DEF Undoes
<1>p. place' \in [Reqs -> [at : {"root", "quarantine", "gone"}, n : Nat]]
  <2>1. place \in [Reqs -> [at : {"root", "quarantine", "gone"}, n : Nat]] BY <1>t DEF TypeOK
  <2>2. [at |-> "root", n |-> 0] \in [at : {"root", "quarantine", "gone"}, n : Nat] OBVIOUS
  <2>3. \/ place' = [place EXCEPT ![proc[p].r] = [at |-> "root", n |-> 0]]
        \/ place' = place
    BY DEF Undoes, MovesTo
  <2>. QED BY <1>r, <2>1, <2>2, <2>3
<1>3. TypeOK'
  BY <1>2, <1>p, <1>t DEF TypeOK, Undoes
<1>4. SnapshotIsKept'
  BY <1>r, <1>t DEF IInv, SnapshotIsKept, Undoes, MovesTo, TypeOK
<1>. QED BY <1>2, <1>3, <1>4 DEF IInv

\* Only the state of p changes.
LEMMA PlanIsDoneHolds == ASSUME IInv, NEW p \in Procs, PlanIsDone(p) PROVE IInv' /\ OnlyExpendableStep
<1>t. TypeOK /\ proc[p] \in ProcState BY DEF IInv, TypeOK
<1>1. PICK s \in ProcState : Goes(p, s) /\ Sound(s) /\ s.pc \notin {"move", "mark"}
  BY <1>t, AtTyped DEF PlanIsDone, Sound, Pcs, Busy
<1>2. proc' \in [Procs -> ProcState] /\ HasRequest' /\ DeletesCleaned' /\ LockProtects' /\ OnlyExpendableStep
  BY <1>1, QuietStep DEF PlanIsDone
<1>3. TypeOK'
  BY <1>2 DEF IInv, TypeOK, PlanIsDone
<1>4. SnapshotIsKept'
  BY DEF IInv, SnapshotIsKept, PlanIsDone
<1>. QED BY <1>2, <1>3, <1>4 DEF IInv

\* Only the audit changes.
LEMMA RecordsHolds == ASSUME IInv, NEW p \in Procs, Records(p) PROVE IInv' /\ OnlyExpendableStep
<1>t. TypeOK /\ proc[p] \in ProcState BY DEF IInv, TypeOK
<1>a. Idle \in ProcState /\ Idle.pc = "idle" BY DEF Idle, ProcState, Pcs
<1>1. PICK s \in ProcState : Goes(p, s) /\ Sound(s) /\ s.pc \notin {"move", "mark"}
  BY <1>a DEF Records, Sound, Busy
<1>2. proc' \in [Procs -> ProcState] /\ HasRequest' /\ DeletesCleaned' /\ LockProtects' /\ OnlyExpendableStep
  BY <1>1, QuietStep DEF Records
<1>3. TypeOK'
  BY <1>2, <1>t DEF IInv, TypeOK, Records, ProcState
<1>4. SnapshotIsKept'
  BY DEF IInv, SnapshotIsKept, Records
<1>. QED BY <1>2, <1>3, <1>4 DEF IInv

\* A dead process gives up the lock and its step.
LEMMA CrashHolds == ASSUME IInv, NEW p \in Procs, Crash(p) PROVE IInv' /\ OnlyExpendableStep
<1>t. TypeOK /\ proc[p] \in ProcState BY DEF IInv, TypeOK
<1>a. Idle \in ProcState /\ Idle.pc = "idle" BY DEF Idle, ProcState, Pcs
<1>1. PICK s \in ProcState : Goes(p, s) /\ Sound(s) /\ s.pc \notin {"move", "mark"}
  BY <1>a DEF Crash, Sound, Busy
<1>2. proc' \in [Procs -> ProcState] /\ HasRequest' /\ DeletesCleaned' /\ LockProtects' /\ OnlyExpendableStep
  BY <1>1, QuietStep DEF Crash
<1>3. TypeOK'
  BY <1>2, ProcAssumption DEF IInv, TypeOK, Crash, Procs
<1>4. SnapshotIsKept'
  BY DEF IInv, SnapshotIsKept, Crash
<1>. QED BY <1>2, <1>3, <1>4 DEF IInv

\* The lock was free, so no other process is between check and mark.
LEMMA BeginsHolds == ASSUME IInv, NEW p \in Procs, Begins(p) PROVE IInv' /\ OnlyExpendableStep
<1>t. TypeOK /\ proc[p] \in ProcState /\ proc[p].pc = "each" /\ writer = NoProc
  BY DEF IInv, TypeOK, Begins
<1>1. PICK r \in proc[p].plan :
        IF StillEligible(r)
          THEN /\ writer' = p
               /\ Goes(p, [At(p, "move") EXCEPT !.r = r, !.plan = @ \ {r}])
          ELSE /\ Goes(p, [proc[p] EXCEPT !.plan = @ \ {r}])
               /\ UNCHANGED writer
  BY DEF Begins
<1>r. r \in Reqs BY <1>t DEF ProcState
<1>2. proc' \in [Procs -> ProcState] /\ HasRequest' /\ DeletesCleaned' /\ LockProtects' /\ OnlyExpendableStep
  <2>1. CASE StillEligible(r)
    <3> DEFINE s == [At(p, "move") EXCEPT !.r = r, !.plan = @ \ {r}]
    <3>1. s \in ProcState /\ s.pc = "move" /\ s.r = r
      BY <1>t, <1>r DEF At, ProcState, Pcs
    <3>2. Goes(p, s) /\ writer' = p /\ Eligible(s.r) /\ row' = row
      BY <1>1, <2>1, <3>1 DEF StillEligible, Begins
    <3>. QED BY <1>t, <1>r, <3>1, <3>2, LockedStep
  <2>2. CASE ~StillEligible(r)
    <3> DEFINE s == [proc[p] EXCEPT !.plan = @ \ {r}]
    <3>1. s \in ProcState /\ s.pc = "each"
      BY <1>t DEF ProcState
    <3>2. Goes(p, s) /\ writer' = writer /\ row' = row
      BY <1>1, <2>2 DEF Begins
    <3>3. Sound(s) BY <3>1 DEF Sound, Busy
    <3>. QED BY <3>1, <3>2, <3>3, QuietStep
  <2>. QED BY <2>1, <2>2
<1>3. TypeOK'
  BY <1>1, <1>2 DEF IInv, TypeOK, Begins, Procs
<1>4. SnapshotIsKept'
  BY DEF IInv, SnapshotIsKept, Begins
<1>. QED BY <1>2, <1>3, <1>4 DEF IInv

\* The directory keeps its files when it moves.
LEMMA MovesHolds == ASSUME IInv, NEW p \in Procs, Moves(p) PROVE IInv' /\ OnlyExpendableStep
<1>t. TypeOK /\ proc[p] \in ProcState BY DEF IInv, TypeOK
<1>r. proc[p].r \in Reqs /\ writer = p /\ Eligible(proc[p].r)
  BY DEF IInv, HasRequest, LockProtects, Moves, Busy
<1>n. tries[proc[p].r] + 1 \in Nat BY <1>t, <1>r DEF TypeOK
<1>a. At(p, "mark") \in ProcState /\ At(p, "mark").pc = "mark" /\ At(p, "mark").r = proc[p].r
  BY <1>t, AtTyped DEF Pcs
<1>b. \A n \in Nat : LET s == [At(p, "mark") EXCEPT !.n = n] IN
        s \in ProcState /\ s.pc = "mark" /\ s.r = proc[p].r
  BY <1>a DEF ProcState
<1>1. PICK s \in ProcState : Goes(p, s) /\ s.pc = "mark" /\ s.r = proc[p].r
  BY <1>a, <1>b, <1>n DEF Moves
<1>2. proc' \in [Procs -> ProcState] /\ HasRequest' /\ DeletesCleaned' /\ LockProtects' /\ OnlyExpendableStep
  BY <1>1, <1>r, LockedStep DEF Moves
<1>3. TypeOK'
  <2>1. place' \in [Reqs -> [at : {"root", "quarantine", "gone"}, n : Nat]]
    BY <1>t, <1>n, <1>r, MovesToTyped DEF Moves, TypeOK
  <2>2. tries' \in [Reqs -> Nat] BY <1>t, <1>n, <1>r DEF Moves, TypeOK
  <2>. QED BY <1>2, <2>1, <2>2 DEF IInv, TypeOK, Moves
<1>4. SnapshotIsKept'
  BY <1>r, <1>t DEF IInv, SnapshotIsKept, Moves, MovesTo, TypeOK
<1>. QED BY <1>2, <1>3, <1>4 DEF IInv

\* The row that is marked is the one that was checked.
LEMMA MarksHolds == ASSUME IInv, NEW p \in Procs, Marks(p) PROVE IInv' /\ OnlyExpendableStep
<1>t. TypeOK /\ proc[p] \in ProcState BY DEF IInv, TypeOK
<1>r. proc[p].r \in Reqs /\ writer = p /\ Eligible(proc[p].r)
  BY DEF IInv, HasRequest, LockProtects, Marks, Busy
<1>a. At(p, "size") \in ProcState /\ At(p, "size").pc = "size" /\ At(p, "size").r = proc[p].r
  BY <1>t, AtTyped DEF Pcs
<1>b. row[proc[p].r] \in Rows BY <1>t, <1>r DEF TypeOK
<1>c. [row[proc[p].r] EXCEPT !.cleaned = TRUE, !.age = 0] \in Rows BY <1>b, RowsTyped
<1>d. row' = [row EXCEPT ![proc[p].r] = [row[proc[p].r] EXCEPT !.cleaned = TRUE, !.age = 0]]
  BY <1>t, <1>r DEF Marks, TypeOK
<1>e. row' \in [Reqs -> Rows] /\ row'[proc[p].r].cleaned /\ \A r \in Reqs \ {proc[p].r} : row'[r] = row[r]
  BY <1>b, <1>c, <1>d, <1>t, <1>r, RowsTyped DEF TypeOK
<1>1. PICK s \in ProcState : /\ Goes(p, s) /\ s.pc \in {"size", "next", "each"}
                             /\ s.pc = "size" => s.r = proc[p].r
  BY <1>t, <1>a, ResumesTyped DEF Marks
<1>2. proc' \in [Procs -> ProcState] /\ proc'[p] = s /\ \A q \in Procs \ {p} : proc'[q] = proc[q]
  BY <1>1, <1>t DEF TypeOK, Goes
<1>3. HasRequest'
  BY <1>1, <1>2, <1>r DEF IInv, HasRequest, Busy
<1>4. DeletesCleaned'
  BY <1>1, <1>2, <1>e DEF IInv, DeletesCleaned, HasRequest, Busy
<1>5. \A q \in Procs \ {p} : proc[q].pc \notin {"move", "mark"}
  BY <1>r DEF IInv, LockProtects
<1>6. LockProtects'
  BY <1>1, <1>2, <1>5 DEF LockProtects
<1>7. TypeOK'
  BY <1>2, <1>e DEF IInv, TypeOK, Marks
<1>8. SnapshotIsKept'
  BY <1>e DEF IInv, SnapshotIsKept, Marks
<1>9. OnlyExpendableStep
  BY <1>r, <1>e DEF OnlyExpendableStep, Eligible, ShortRetention, LongRetention, PROTECTED_STATUSES
<1>. QED BY <1>3, <1>4, <1>6, <1>7, <1>8, <1>9 DEF IInv

\* A Sent observation is a transaction of its own and does not touch cleaned.
LEMMA SentObservedHolds == ASSUME IInv, NEW r \in Reqs, SentObserved(r) PROVE IInv' /\ OnlyExpendableStep
<1>1. row[r] \in Rows /\ row \in [Reqs -> Rows] BY DEF IInv, TypeOK
<1> DEFINE new == [row[r] EXCEPT !.status = "sent_reconciled", !.matched = TRUE, !.age = 0]
<1>2. new \in Rows /\ new.cleaned = row[r].cleaned BY <1>1, RowsTyped
<1>3. row' = [row EXCEPT ![r] = new] BY <1>1 DEF SentObserved
<1>4. row' \in [Reqs -> Rows] /\ \A x \in Reqs : row'[x].cleaned = row[x].cleaned BY <1>1, <1>2, <1>3
<1>. QED BY <1>4, ForeignStep DEF SentObserved

\* So is the store of an archive outcome.
LEMMA PackageLoweredHolds == ASSUME IInv, NEW r \in Reqs, PackageLowered(r) PROVE IInv' /\ OnlyExpendableStep
<1>1. row[r] \in Rows /\ row \in [Reqs -> Rows] BY DEF IInv, TypeOK
<1> DEFINE new == [row[r] EXCEPT !.ready = FALSE]
<1>2. new \in Rows /\ new.cleaned = row[r].cleaned BY <1>1 DEF Rows
<1>3. row' = [row EXCEPT ![r] = new] BY <1>1 DEF PackageLowered
<1>4. row' \in [Reqs -> Rows] /\ \A x \in Reqs : row'[x].cleaned = row[x].cleaned BY <1>1, <1>2, <1>3
<1>. QED BY <1>4, ForeignStep DEF PackageLowered

-----------------------------------------------------------------------------

\* Every step keeps the invariant and marks only what is expendable.
LEMMA StepHolds == IInv /\ [Next]_vars => IInv' /\ OnlyExpendableStep
<1> SUFFICES ASSUME IInv, [Next]_vars PROVE IInv' /\ OnlyExpendableStep
  OBVIOUS
<1>1. CASE UNCHANGED vars
  BY <1>1 DEF vars, IInv, TypeOK, HasRequest, DeletesCleaned, LockProtects, SnapshotIsKept, Eligible,
    OnlyExpendableStep
<1>2. ASSUME NEW p \in Procs, Starts(p) \/ Step(p) \/ Crash(p) PROVE IInv' /\ OnlyExpendableStep
  BY <1>2, StartsHolds, ListsHolds, TakesNextHolds, ReadsRowHolds, RestoresHolds, RestoreFailsHolds, RemoveBeginsHolds,
    RemoveEndsHolds, RemoveFailsHolds, PlansHolds, BeginsHolds, MovesHolds, MarksHolds,
    SizesHolds, FailsHolds, UndoesHolds, PlanIsDoneHolds, RecordsHolds, CrashHolds DEF Step
<1>3. ASSUME NEW r \in Reqs, SentObserved(r) \/ PackageLowered(r) PROVE IInv' /\ OnlyExpendableStep
  BY <1>3, SentObservedHolds, PackageLoweredHolds
<1>. QED BY <1>1, <1>2, <1>3 DEF Next

\* The inductive invariant of the clean-up holds in every reachable state.
THEOREM CleanupInvariance == Spec => []IInv
<1>1. Init => IInv BY InitHolds
<1>2. IInv /\ [Next]_vars => IInv' BY StepHolds
<1>. QED BY <1>1, <1>2, PTL DEF Spec

\* The phases, quarantines and locks of a clean-up and its recovery stay within their
\* types.
THEOREM CleanupTypes == Spec => []TypeOK
<1>1. IInv => TypeOK BY DEF IInv
<1>. QED BY <1>1, CleanupInvariance, PTL

\* A snapshot whose row is not committed as cleaned is never lost, not even in part
\* (_delete_snapshot_if_still_eligible and recover_snapshot_cleanup_transactions).
THEOREM SnapshotSafety == Spec => []SnapshotIsKept
<1>1. IInv => SnapshotIsKept BY DEF IInv
<1>. QED BY <1>1, CleanupInvariance, PTL

\* The row that is marked as cleaned is expendable at that very moment, although it
\* was chosen earlier (_eligible_requests inside BEGIN IMMEDIATE).
THEOREM Expendability == Spec => OnlyExpendableIsCleaned
<1>1. IInv /\ [Next]_vars => [OnlyExpendableStep]_vars BY StepHolds
<1>2. Spec => [][OnlyExpendableStep]_vars BY <1>1, CleanupInvariance, PTL DEF Spec
<1>. QED BY <1>2 DEF OnlyExpendableIsCleaned, OnlyExpendableStep
=============================================================================
