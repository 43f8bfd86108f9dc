-------------------------- MODULE SendTruthProofs --------------------------
(***************************************************************************)
(* What the pipeline reports is true, on every instance: a request is      *)
(* called accepted, sent or reconciled only if the provider took it or the *)
(* user said so, "sent" has an archive, "matched" has a Sent mapping, and  *)
(* a recovery that denies a delivery on what it has just read is right.    *)
(*                                                                         *)
(* All of it rests on facts that are never taken back (Grows).  So a row,  *)
(* or the memory of an actor, that does not change stays true, and each    *)
(* lemma below looks only at the steps that change its part of the state.  *)
(***************************************************************************)
EXTENDS SendPipelineProofs

-----------------------------------------------------------------------------
(* The world.                                                               *)

\* No step takes a fact back.
Grows ==
  \A r \in Reqs :
    /\ delivered[r] => delivered'[r]
    /\ Happened(r) => Happened(r)'
    /\ Stored(r) => Stored(r)'
    /\ pkg[r] # "none" => pkg'[r] # "none"
    /\ mapped[r] => mapped'[r]
    /\ "sent" \in said[r] => "sent" \in said'[r]

\* The types of the world.
LEMMA WorldFacts ==
  ASSUME IInv
  PROVE  /\ pkg \in [Reqs -> PkgStates] /\ mapped \in [Reqs -> BOOLEAN]
         /\ delivered \in [Reqs -> BOOLEAN] /\ said \in [Reqs -> SUBSET {"sent", "not_sent"}]
         /\ sends \in [Reqs -> Nat]
         /\ exec \in [Execs -> ExecState] /\ work \in [Workers -> WorkState]
         /\ sync \in [Syncs -> SyncState]
         /\ req \in [Reqs -> Row] /\ lease \in [Reqs -> Lease]
  BY DEF IInv, TypeOK, StoreTypeOK

\* An archiver that stores its outcome lowers a package at most to "lowered".
LEMMA PackageGrows ==
  ASSUME IInv, NEW r \in Reqs, NEW result \in ArchiveResults, PackageStored(r, result)
  PROVE  /\ \A q \in Reqs : Stored(q) => Stored(q)'
         /\ \A q \in Reqs : pkg[q] # "none" => pkg'[q] # "none"
         /\ \A q \in Reqs \ {r} : pkg'[q] = pkg[q]
         /\ result = "ready" => Stored(r)'
         /\ result # "none" => pkg'[r] # "none"
         /\ result = "none" => pkg'[r] = pkg[r]
<1> DEFINE v == CASE result = "none" -> pkg[r]
                  [] result = "partial" /\ pkg[r] \in {"ready", "lowered"} -> "lowered"
                  [] OTHER -> result
<1>1. /\ pkg[r] # "none" => v # "none"
      /\ pkg[r] \in {"ready", "lowered"} => v \in {"ready", "lowered"}
      /\ result = "ready" => v = "ready"
      /\ result # "none" => v # "none"
      /\ result = "none" => v = pkg[r]
  BY DEF ArchiveResults
<1>2. pkg' = [pkg EXCEPT ![r] = v]
  BY DEF PackageStored
<1> HIDE DEF v
<1>3. pkg'[r] = v /\ \A q \in Reqs \ {r} : pkg'[q] = pkg[q]
  BY <1>2, WorldFacts
<1> QED BY <1>1, <1>3 DEF Stored

\* A step that leaves the facts alone takes none back.
LEMMA StillGrows ==
  ASSUME UNCHANGED <<pkg, mapped, delivered, said>>
  PROVE  Grows
  BY DEF Grows, Happened, Stored

\* A step that changes packages only, as an archiver does, takes no fact back.
LEMMA ArchiverGrows ==
  ASSUME IInv, NEW r \in Reqs, NEW result \in ArchiveResults, PackageStored(r, result),
         UNCHANGED <<mapped, delivered, said>>
  PROVE  Grows
  BY PackageGrows DEF Grows, Happened

\* No step of an execution takes a fact back.
LEMMA ExecutionGrows ==
  ASSUME IInv, NEW e \in Execs, ExecStarts(e) \/ ExecStep(e)
  PROVE  Grows
<1> USE DEF factVars, worldVars
<1>0. exec[e].pc # "idle" => exec[e].r \in Reqs
  BY ExecFacts DEF ExecOK
<1>1. CASE \E related \in BOOLEAN, result \in ArchiveResults : StoresPackage(e, result, related)
  BY <1>0, <1>1, ArchiverGrows DEF StoresPackage
<1>2. CASE \E taken, answered \in BOOLEAN : SendData(e, taken, answered)
  <2>1. PICK taken \in BOOLEAN, answered \in BOOLEAN : SendData(e, taken, answered)
    BY <1>2
  <2>2. exec[e].r \in Reqs /\ delivered' = [delivered EXCEPT ![exec[e].r] = @ \/ taken]
        /\ pkg' = pkg /\ mapped' = mapped /\ said' = said
    BY <1>0, <2>1 DEF SendData
  <2>3. \A q \in Reqs : delivered[q] => delivered'[q]
    BY <2>2, WorldFacts
  <2> QED BY <2>2, <2>3 DEF Grows, Happened, Stored
<1>3. CASE /\ \A related \in BOOLEAN, result \in ArchiveResults : ~StoresPackage(e, result, related)
           /\ \A taken, answered \in BOOLEAN : ~SendData(e, taken, answered)
  <2>1. UNCHANGED <<pkg, mapped, delivered, said>>
    BY <1>3 DEF ExecStarts, ExecStep, SubmitLooksUp, GuiConfirms, SubmitCreates, SubmitFindsDuplicate,
       ClaimReadsClock, ClaimSucceeds, ClaimFails, StageReadsClock, StageCommits, StageFails,
       HandlerInspects, HandlerSettles, RecordsPendingFact, LooksForPackage, RecordsFinalFact, Finishes
  <2> QED BY <2>1, StillGrows
<1> QED BY <1>1, <1>2, <1>3

\* No step of a recovery or of the user takes a fact back.
LEMMA WorkerGrows ==
  ASSUME IInv, NEW w \in Workers,
         WorkStep(w) \/ UserActs(w) \/ \E r \in Reqs : RecoveryLists(w, r)
  PROVE  Grows
<1> USE DEF factVars, worldVars, ReadOnly
<1>1. CASE \E related \in BOOLEAN, result \in ArchiveResults : ArchiveStores(w, result, related)
  BY <1>1, WorkerFacts, ArchiverGrows DEF ArchiveStores
<1>2. CASE MarkWrites(w)
  <2> DEFINE word == IF work[w].verdict = "definitely_not_sent" THEN "not_sent" ELSE "sent"
  <2>1. /\ said' = [said EXCEPT ![work[w].r] = @ \cup {word}]
        /\ pkg' = pkg /\ mapped' = mapped /\ delivered' = delivered
    BY <1>2 DEF MarkWrites
  <2> HIDE DEF word
  <2>2. \A q \in Reqs : said[q] \subseteq said'[q]
    BY <2>1, WorldFacts
  <2> QED BY <2>1, <2>2 DEF Grows, Happened, Stored
<1>3. CASE /\ \A related \in BOOLEAN, result \in ArchiveResults : ~ArchiveStores(w, result, related)
           /\ ~MarkWrites(w)
  <2>1. UNCHANGED <<pkg, mapped, delivered, said>>
    BY <1>3 DEF WorkStep, UserActs, RecoveryLists, RecoveryReadsRow, RecoveryReadsLease, RecoveryJudges,
       ReconcileReadsRow, ReconcileReadsEvidence, ReconcileWrites, RecoveryLeavesUnknown, RecoveryDecides,
       ArchiveReadsRow, ArchiveReadsLease, ArchiveChecks, ArchiveLooks, ArchiveRecordsFact,
       ArchiveFinishes, UserReconciles, UserMarks
  <2> QED BY <2>1, StillGrows
<1> QED BY <1>1, <1>2, <1>3

\* No step of a synchronisation takes a fact back.
LEMMA SyncGrows ==
  ASSUME IInv, NEW s \in Syncs, SyncStep(s) \/ \E r \in Reqs : SyncFinds(s, r)
  PROVE  Grows
<1> USE DEF factVars, worldVars
<1>0. sync[s].pc # "idle" => sync[s].r \in Reqs
  BY DEF IInv, SyncShape
<1>1. CASE \E result \in ArchiveResults : SyncStores(s, result)
  BY <1>0, <1>1, ArchiverGrows DEF SyncStores
<1>2. CASE SyncMaps(s)
  <2>1. mapped' = [mapped EXCEPT ![sync[s].r] = TRUE] /\ pkg' = pkg /\ delivered' = delivered /\ said' = said
    BY <1>2 DEF SyncMaps
  <2> QED BY <2>1, WorldFacts DEF Grows, Happened, Stored
<1>3. CASE /\ \A result \in ArchiveResults : ~SyncStores(s, result)
           /\ ~SyncMaps(s)
  <2>1. UNCHANGED <<pkg, mapped, delivered, said>>
    BY <1>3 DEF SyncStep, SyncFinds, SyncPrepares, SyncLooks, SyncUpdatesFact, SyncUpdatesRow
  <2> QED BY <2>1, StillGrows
<1> QED BY <1>1, <1>2, <1>3

\* No step takes a fact back.
LEMMA WorldGrows == ASSUME IInv, [Next]_vars PROVE Grows
<1>1. CASE TimePasses \/ Crash \/ UNCHANGED vars \/ \E r \in Reqs : UserCancelsOrExpires(r)
  BY <1>1, StillGrows DEF TimePasses, Crash, vars, UserCancelsOrExpires, factVars, worldVars
<1> QED
  BY <1>1, ExecutionGrows, WorkerGrows, SyncGrows DEF Next, Workers

-----------------------------------------------------------------------------
(* What the actors remember.                                                *)

\* A true local state stays true while the facts grow.
LEMMA MemoryStaysTrue ==
  ASSUME Grows
  PROVE  /\ \A e \in Execs : exec'[e] = exec[e] /\ (exec[e].pc # "idle" => exec[e].r \in Reqs)
              => (ExecIsTrue(exec[e]) => ExecIsTrue(exec[e])')
         /\ \A w \in Workers : work'[w] = work[w] /\ (work[w].pc # "idle" => work[w].r \in Reqs)
              => (WorkIsTrue(work[w]) => WorkIsTrue(work[w])')
         /\ \A s \in Syncs : sync'[s] = sync[s] /\ (sync[s].pc # "idle" => sync[s].r \in Reqs)
              => (SyncIsTrue(sync[s]) => SyncIsTrue(sync[s])')
  BY DEF Grows, ExecIsTrue, WorkIsTrue, SyncIsTrue, StagePcs

\* What is true of an execution stays or becomes true: only an answer of the provider
\* leads past DATA, only a complete package to the verdict "sent".
LEMMA ExecutionsStayTrue ==
  ASSUME IInv, TruthInv, [Next]_vars, Grows
  PROVE  ExecutionsAreTrue'
<1> SUFFICES ASSUME NEW e \in Execs PROVE ExecIsTrue(exec[e])'
  BY DEF ExecutionsAreTrue
<1>0. /\ ExecIsTrue(exec[e]) /\ exec \in [Execs -> ExecState] /\ exec[e] \in ExecState
      /\ exec[e].pc # "idle" => exec[e].r \in Reqs
      /\ exec[e].pc \in StagePcs => exec[e].k \in 1..7
      /\ exec[e].pc = "data" => exec[e].k = 5
      /\ exec[e].pc = "pending" => exec[e].k = 7
      /\ exec[e].pc = "settle" => exec[e].verdict \in {"failed", "delivery_unknown", "sent_archive_failed"}
  BY ExecFacts DEF ExecOK, TruthInv, ExecutionsAreTrue
<1>1. CASE exec'[e] = exec[e]
  BY <1>0, <1>1, MemoryStaysTrue
<1>2. ASSUME exec'[e].pc \in {"idle", "create", "claim", "claiming", "data", "inspect"} PROVE ExecIsTrue(exec[e])'
  BY <1>2 DEF ExecIsTrue, StagePcs
<1>3. CASE StageReadsClock(e)
  BY <1>0, <1>3 DEF StageReadsClock, ExecGoes, At, ExecIsTrue, StagePcs, Grows, ExecState
<1>4. CASE StageCommits(e)
  <2> DEFINE k == exec[e].k  pc == PcAfterStage(k)
  <2>1. k \in 1..7 /\ exec[e].pc = "staging"
    BY <1>0, <1>4 DEF StageCommits, StagePcs
  <2>2. /\ pc \in {"stage", "data", "pending", "archive"}
        /\ pc = "stage" => (k + 1 >= 5 => k >= 5)
        /\ pc \in {"pending", "archive"} => k >= 6
    BY <2>1 DEF PcAfterStage, StageOrder
  <2>3. exec'[e] = [exec[e] EXCEPT !.pc = pc, !.k = k + 1, !.now = 0]
    BY <1>0, <1>4 DEF StageCommits, ExecGoes, At, ExecState
  <2>4. exec'[e].pc = pc /\ exec'[e].k = k + 1 /\ exec'[e].r = exec[e].r
    BY <1>0, <2>3 DEF ExecState
  <2> HIDE DEF pc, k
  <2>5. k >= 5 => delivered[exec[e].r] /\ delivered'[exec[e].r]
    BY <1>0, <2>1 DEF ExecIsTrue, StagePcs, Grows, k
  <2> QED BY <2>1, <2>2, <2>4, <2>5 DEF ExecIsTrue, StagePcs
<1>5. CASE StageFails(e)
  <2>1. exec'[e].pc \in {"settle", "inspect", "idle"} /\ (exec'[e].pc = "settle" => exec'[e].verdict = "failed")
    BY <1>0, <1>5 DEF StageFails, ExecGoes, At, IdleExec, ExecState
  <2> QED BY <2>1 DEF ExecIsTrue, StagePcs
<1>6. CASE \E taken, answered \in BOOLEAN : SendData(e, taken, answered)
  <2>1. PICK taken \in BOOLEAN, answered \in BOOLEAN : SendData(e, taken, answered)
    BY <1>6
  <2>2. /\ exec'[e].r = exec[e].r /\ exec[e].r \in Reqs
        /\ exec'[e].pc = IF taken /\ answered THEN "stage" ELSE "inspect"
    BY <1>0, <2>1 DEF SendData, ExecGoes, At, ExecState
  <2>3. taken => delivered'[exec[e].r]
    BY <2>1, <2>2, WorldFacts DEF SendData
  <2> QED BY <2>2, <2>3 DEF ExecIsTrue, StagePcs
<1>7. CASE HandlerInspects(e)
  <2> DEFINE row == req[exec[e].r]
  <2>1. /\ exec'[e].r = exec[e].r /\ exec[e].r \in Reqs
        /\ exec'[e].pc = "settle" /\ exec'[e].verdict = HandlerVerdict(row)
    BY <1>0, <1>7 DEF HandlerInspects, ExecGoes, At, ExecState
  <2>2. HandlerVerdict(row) = "sent_archive_failed" => delivered[exec[e].r]
    BY <2>1 DEF HandlerVerdict, TruthInv, RowsAreTrue, RowIsTrue
  <2> QED BY <2>1, <2>2 DEF ExecIsTrue, StagePcs, Grows
<1>8. CASE RecordsPendingFact(e)
  <2>1. exec'[e].pc = "stage" /\ exec'[e].r = exec[e].r /\ exec[e].r \in Reqs /\ exec[e].pc = "pending"
    BY <1>0, <1>8 DEF RecordsPendingFact, ExecGoes, At, ExecState
  <2> QED BY <1>0, <2>1 DEF ExecIsTrue, StagePcs, Grows
<1>9. CASE \E related \in BOOLEAN : LooksForPackage(e, related)
  <2>1. PICK related \in BOOLEAN : LooksForPackage(e, related)
    BY <1>9
  <2>2. /\ exec'[e].r = exec[e].r /\ exec[e].r \in Reqs /\ exec[e].pc = "archive"
        /\ \/ exec'[e].pc = "fact" /\ exec'[e].link /\ pkg[exec[e].r] = "ready" /\ pkg' = pkg
           \/ exec'[e].pc = "store"
    BY <1>0, <2>1 DEF LooksForPackage, ExecGoes, At, ExecState, factVars
  <2> QED BY <1>0, <2>2 DEF ExecIsTrue, StagePcs, Grows, Stored
<1>10. CASE \E related \in BOOLEAN, result \in ArchiveResults : StoresPackage(e, result, related)
  <2>1. PICK related \in BOOLEAN, result \in ArchiveResults : StoresPackage(e, result, related)
    BY <1>10
  <2>2. /\ exec'[e].r = exec[e].r /\ exec[e].r \in Reqs /\ exec[e].pc = "store" /\ exec'[e].pc = "fact"
        /\ exec'[e].link = (result # "none")
        /\ exec'[e].verdict = "sent" => result = "ready"
        /\ PackageStored(exec[e].r, result)
    BY <1>0, <2>1 DEF StoresPackage, ExecGoes, At, ExecState
  <2>3. result = "ready" => Stored(exec[e].r)'
    BY <2>2, PackageGrows
  <2> QED BY <1>0, <2>2, <2>3 DEF ExecIsTrue, StagePcs, Grows, Stored
<1>11. CASE RecordsFinalFact(e)
  <2>1. /\ exec'[e].pc = "finish" /\ exec'[e].r = exec[e].r /\ exec[e].r \in Reqs /\ exec[e].pc = "fact"
        /\ exec'[e].verdict = exec[e].verdict /\ exec'[e].link = exec[e].link
    BY <1>0, <1>11 DEF RecordsFinalFact, ExecGoes, At, ExecState
  <2> QED BY <1>0, <2>1 DEF ExecIsTrue, StagePcs, Grows, Stored
<1>12. CASE ExecStarts(e)
  <2>1. exec'[e].pc \in {"create", "claim"}
    BY <1>0, <1>12 DEF ExecStarts, SubmitLooksUp, GuiConfirms, ExecGoes, IdleExec
  <2> QED BY <1>2, <2>1
<1>13. CASE SubmitFindsDuplicate(e) \/ ClaimFails(e) \/ HandlerSettles(e) \/ Finishes(e)
  <2>1. ExecGoes(e, IdleExec)
    BY <1>13 DEF SubmitFindsDuplicate, ClaimFails, HandlerSettles, Finishes
  <2>2. exec'[e].pc = "idle"
    BY <1>0, <2>1 DEF ExecGoes, IdleExec
  <2> QED BY <1>2, <2>2
<1>14. CASE (\E mode \in Modes : SubmitCreates(e, mode)) \/ ClaimReadsClock(e)
  <2>1. \/ ExecGoes(e, [At(e, "claim") EXCEPT !.now = 0])
        \/ ExecGoes(e, IdleExec)
        \/ ExecGoes(e, [At(e, "claiming") EXCEPT !.now = clock])
    BY <1>14 DEF SubmitCreates, ClaimReadsClock
  <2>2. ExecGoes(e, IdleExec) => exec'[e].pc = "idle"
    BY <1>0 DEF ExecGoes, IdleExec
  <2>3. ExecGoes(e, [At(e, "claim") EXCEPT !.now = 0]) => exec'[e].pc = "claim"
    BY <1>0 DEF ExecGoes, At, ExecState
  <2>4. ExecGoes(e, [At(e, "claiming") EXCEPT !.now = clock]) => exec'[e].pc = "claiming"
    BY <1>0 DEF ExecGoes, At, ExecState
  <2> QED BY <1>2, <2>1, <2>2, <2>3, <2>4
<1>15. CASE ClaimSucceeds(e)
  <2>1. exec'[e].pc = "stage" /\ exec'[e].k = 1
    BY <1>0, <1>15 DEF ClaimSucceeds, ExecGoes, At, ExecState
  <2> QED BY <2>1 DEF ExecIsTrue, StagePcs
<1>16. CASE Crash /\ exec'[e] # exec[e]
  <2>1. exec'[e] = IdleExec
    BY <1>0, <1>16 DEF Crash, ExecGoes
  <2> QED BY <1>2, <2>1 DEF IdleExec
<1> QED
  BY <1>1, <1>3, <1>4, <1>5, <1>6, <1>7, <1>8, <1>9, <1>10, <1>11, <1>12, <1>13, <1>14, <1>15, <1>16,
     OthersLeaveExecutionAlone DEF ExecStep

\* Only its own steps and a crash change a worker.
LEMMA OthersLeaveWorkerAlone ==
  ASSUME IInv, [Next]_vars, NEW w \in Workers, work'[w] # work[w]
  PROVE  WorkStep(w) \/ UserActs(w) \/ (\E r \in Reqs : RecoveryLists(w, r)) \/ Crash
<1>0. work \in [Workers -> WorkState]
  BY WorldFacts
<1>1. ASSUME NEW v \in Workers, WorkStep(v) \/ UserActs(v) \/ \E r \in Reqs : RecoveryLists(v, r) PROVE v = w
  <2>1. \E x : WorkGoes(v, x)
    BY <1>1 DEF WorkStep, UserActs, RecoveryLists, RecoveryReadsRow, RecoveryReadsLease, RecoveryJudges,
       ReconcileReadsRow, ReconcileReadsEvidence, ReconcileWrites, RecoveryLeavesUnknown, RecoveryDecides,
       ArchiveReadsRow, ArchiveReadsLease, ArchiveChecks, ArchiveLooks, ArchiveStores, ArchiveRecordsFact,
       ArchiveFinishes, UserReconciles, UserMarks, MarkWrites
  <2> QED BY <1>0, <2>1 DEF WorkGoes
<1>2. ASSUME NEW e \in Execs, ExecStarts(e) \/ ExecStep(e) PROVE FALSE
  BY <1>2 DEF ExecStarts, ExecStep, SubmitLooksUp, GuiConfirms, SubmitCreates, SubmitFindsDuplicate,
     ClaimReadsClock, ClaimSucceeds, ClaimFails, StageReadsClock, StageCommits, StageFails, SendData,
     HandlerInspects, HandlerSettles, RecordsPendingFact, LooksForPackage, StoresPackage,
     RecordsFinalFact, Finishes
<1>3. ASSUME NEW s \in Syncs, SyncStep(s) \/ \E r \in Reqs : SyncFinds(s, r) PROVE FALSE
  BY <1>3 DEF SyncStep, SyncFinds, SyncPrepares, SyncLooks, SyncStores, SyncMaps, SyncUpdatesFact, SyncUpdatesRow
<1>4. ASSUME NEW r \in Reqs, UserCancelsOrExpires(r) PROVE FALSE
  BY <1>4 DEF UserCancelsOrExpires, localVars
<1>5. ~TimePasses /\ ~UNCHANGED vars
  BY DEF TimePasses, vars, localVars
<1> QED
  BY <1>1, <1>2, <1>3, <1>4, <1>5 DEF Next, Workers

\* Only its own steps and a crash change a synchronisation.
LEMMA OthersLeaveSyncAlone ==
  ASSUME IInv, [Next]_vars, NEW s \in Syncs, sync'[s] # sync[s]
  PROVE  SyncStep(s) \/ (\E r \in Reqs : SyncFinds(s, r)) \/ Crash
<1>0. sync \in [Syncs -> SyncState]
  BY WorldFacts
<1>1. ASSUME NEW v \in Syncs, SyncStep(v) \/ \E r \in Reqs : SyncFinds(v, r) PROVE v = s
  <2>1. \E x : SyncGoes(v, x)
    BY <1>1 DEF SyncStep, SyncFinds, SyncPrepares, SyncLooks, SyncStores, SyncMaps, SyncUpdatesFact, SyncUpdatesRow
  <2> QED BY <1>0, <2>1 DEF SyncGoes
<1>2. ASSUME NEW e \in Execs, ExecStarts(e) \/ ExecStep(e) PROVE FALSE
  BY <1>2 DEF ExecStarts, ExecStep, SubmitLooksUp, GuiConfirms, SubmitCreates, SubmitFindsDuplicate,
     ClaimReadsClock, ClaimSucceeds, ClaimFails, StageReadsClock, StageCommits, StageFails, SendData,
     HandlerInspects, HandlerSettles, RecordsPendingFact, LooksForPackage, StoresPackage,
     RecordsFinalFact, Finishes
<1>3. ASSUME NEW w \in Workers, WorkStep(w) \/ UserActs(w) \/ \E r \in Reqs : RecoveryLists(w, r)
      PROVE  FALSE
  BY <1>3 DEF WorkStep, UserActs, RecoveryLists, RecoveryReadsRow, RecoveryReadsLease, RecoveryJudges,
     ReconcileReadsRow, ReconcileReadsEvidence, ReconcileWrites, RecoveryLeavesUnknown, RecoveryDecides,
     ArchiveReadsRow, ArchiveReadsLease, ArchiveChecks, ArchiveLooks, ArchiveStores, ArchiveRecordsFact,
     ArchiveFinishes, UserReconciles, UserMarks, MarkWrites, ReadOnly
<1>4. ASSUME NEW r \in Reqs, UserCancelsOrExpires(r) PROVE FALSE
  BY <1>4 DEF UserCancelsOrExpires, localVars
<1>5. ~TimePasses /\ ~UNCHANGED vars
  BY DEF TimePasses, vars, localVars
<1> QED
  BY <1>1, <1>2, <1>3, <1>4, <1>5 DEF Next, Workers

\* What is true of a worker stays or becomes true: what it remembers it has read from
\* true rows, and it archives and writes on accepted requests only.
LEMMA WorkersStayTrue ==
  ASSUME IInv, TruthInv, [Next]_vars, Grows
  PROVE  WorkersAreTrue'
<1> USE DEF WorkersAreTrue
<1> SUFFICES ASSUME NEW w \in Workers PROVE WorkIsTrue(work[w])' /\ VerdictIsDue(work[w])'
  OBVIOUS
<1> DEFINE x == work[w]  r == x.r
<1>0. /\ WorkIsTrue(x) /\ VerdictIsDue(x) /\ work \in [Workers -> WorkState] /\ x \in WorkState
      /\ x.pc # "idle" => r \in Reqs
      /\ \A q \in Reqs : RowIsTrue(q) /\ (pkg[q] # "none" => Happened(q))
  BY WorldFacts, WorkerFacts DEF TruthInv, RowsAreTrue, PackagesAreOfSent
<1>i. work'[w] = IdleWork => WorkIsTrue(work[w])' /\ VerdictIsDue(work[w])'
  BY DEF IdleWork, AbsentRow, WorkIsTrue, VerdictIsDue, AcceptanceProven
<1>a. work'[w] = [IdleWork EXCEPT !.pc = "arow", !.r = r] => WorkIsTrue(work[w])' /\ VerdictIsDue(work[w])'
  BY DEF IdleWork, AbsentRow, WorkIsTrue, VerdictIsDue, AcceptanceProven
<1>1. CASE work'[w] = work[w]
  BY <1>0, <1>1, MemoryStaysTrue DEF VerdictIsDue
<1>2. CASE \E q \in Reqs : RecoveryLists(w, q)
  <2>1. PICK q \in Reqs : work'[w] = [IdleWork EXCEPT !.pc = "row", !.r = q, !.startup = TRUE]
    BY <1>0, <1>2 DEF RecoveryLists, WorkGoes
  <2> QED BY <2>1 DEF IdleWork, AbsentRow, WorkIsTrue, VerdictIsDue, AcceptanceProven
<1>3. CASE RecoveryReadsRow(w)
  <2>1. /\ r \in Reqs /\ work'[w].row = req[r] /\ work'[w].pc = "lease" /\ work'[w].r = r
        /\ work'[w].startup = x.startup
    BY <1>0, <1>3 DEF RecoveryReadsRow, WorkGoes, WAt, WorkState
  <2> QED BY <1>0, <2>1 DEF WorkIsTrue, VerdictIsDue, RowIsTrue, Grows
<1>4. CASE RecoveryReadsLease(w)
  <2>1. /\ r \in Reqs /\ work'[w].row = x.row /\ work'[w].pc = "judge" /\ work'[w].r = r
        /\ work'[w].startup = x.startup
    BY <1>0, <1>4 DEF RecoveryReadsLease, WorkGoes, WAt, WorkState
  <2> QED BY <1>0, <2>1 DEF WorkIsTrue, VerdictIsDue, Grows
<1>5. CASE RecoveryJudges(w)
  <2>1. \/ work'[w] = IdleWork
        \/ work'[w] = [IdleWork EXCEPT !.pc = "arow", !.r = r]
        \/ work'[w] = WAt(w, "rescan") /\ x.row.status \notin {"sent_archive_failed", "smtp_accepted"}
    BY <1>0, <1>5 DEF RecoveryJudges, WorkGoes
  <2>2. ASSUME work'[w] = WAt(w, "rescan"), x.row.status \notin {"sent_archive_failed", "smtp_accepted"}
        PROVE  WorkIsTrue(work[w])' /\ VerdictIsDue(work[w])'
    <3>1. work'[w].row = x.row /\ work'[w].pc = "rescan" /\ work'[w].r = r /\ r \in Reqs
      BY <1>0, <1>5, <2>2 DEF RecoveryJudges, WAt, WorkState
    <3> QED BY <1>0, <2>2, <3>1 DEF WorkIsTrue, VerdictIsDue, Grows
  <2> QED BY <1>i, <1>a, <2>1, <2>2
<1>6. CASE ReconcileReadsRow(w)
  <2> DEFINE v == IF req[r].status \in Verdicts THEN req[r].status ELSE "none"
  <2>1. x.pc = "rescan" /\ work'[w] = [WAt(w, "evidence") EXCEPT !.verdict = v]
    BY <1>0, <1>6 DEF ReconcileReadsRow, WorkGoes
  <2> HIDE DEF v
  <2>2. /\ work'[w].row = x.row /\ work'[w].pc = "evidence" /\ work'[w].r = r /\ r \in Reqs
        /\ work'[w].startup = x.startup
    BY <1>0, <2>1 DEF WAt, WorkState
  <2> QED BY <1>0, <2>1, <2>2 DEF WorkIsTrue, VerdictIsDue, Grows
<1>7. CASE ReconcileReadsEvidence(w)
  <2> DEFINE found == LocalVerdict(r)  changes == x.verdict # found
  <2>1. /\ x.pc = "evidence" /\ r \in Reqs
        /\ \/ pkg[r] = "ready" /\ work'[w] = [WAt(w, "reconcile") EXCEPT !.verdict = found, !.link = changes]
           \/ x.startup /\ work'[w] = [WAt(w, "verdict") EXCEPT !.verdict = "none"]
           \/ work'[w] = IdleWork
    BY <1>0, <1>7 DEF ReconcileReadsEvidence, WorkGoes
  <2>2. found = "sent_reconciled" => mapped[r]
    BY DEF LocalVerdict
  <2> HIDE DEF found, changes
  <2>3. ASSUME pkg[r] = "ready", work'[w] = [WAt(w, "reconcile") EXCEPT !.verdict = found, !.link = changes]
        PROVE  WorkIsTrue(work[w])' /\ VerdictIsDue(work[w])'
    <3>1. /\ work'[w].row = x.row /\ work'[w].pc = "reconcile" /\ work'[w].r = r /\ work'[w].verdict = found
          /\ work'[w].startup = x.startup
      BY <1>0, <2>3 DEF WAt, WorkState
    <3>2. Happened(r) /\ Stored(r)
      BY <1>0, <2>1, <2>3 DEF Stored
    <3> QED BY <1>0, <2>1, <2>2, <3>1, <3>2 DEF WorkIsTrue, VerdictIsDue, Grows, Happened, Stored
  <2>4. ASSUME x.startup, work'[w] = [WAt(w, "verdict") EXCEPT !.verdict = "none"]
        PROVE  WorkIsTrue(work[w])' /\ VerdictIsDue(work[w])'
    <3>1. /\ work'[w].row = x.row /\ work'[w].pc = "verdict" /\ work'[w].r = r
          /\ work'[w].startup = x.startup
      BY <1>0, <2>4 DEF WAt, WorkState
    <3> QED BY <1>0, <2>1, <2>4, <3>1 DEF WorkIsTrue, VerdictIsDue, Grows
  <2> QED BY <1>i, <2>1, <2>3, <2>4
<1>8. CASE ReconcileWrites(w)
  <2>1. /\ x.pc = "reconcile" /\ r \in Reqs
        /\ \/ x.startup /\ work'[w] = [WAt(w, "verdict") EXCEPT !.verdict = "none"]
           \/ work'[w] = IdleWork
    BY <1>0, <1>8 DEF ReconcileWrites, WorkGoes
  <2>2. ASSUME x.startup, work'[w] = [WAt(w, "verdict") EXCEPT !.verdict = "none"]
        PROVE  WorkIsTrue(work[w])' /\ VerdictIsDue(work[w])'
    <3>1. /\ work'[w].row = x.row /\ work'[w].pc = "verdict" /\ work'[w].r = r
          /\ work'[w].startup = x.startup
      BY <1>0, <2>2 DEF WAt, WorkState
    <3> QED BY <1>0, <2>1, <2>2, <3>1 DEF WorkIsTrue, VerdictIsDue, Grows
  <2> QED BY <1>i, <2>1, <2>2
<1>9. CASE RecoveryLeavesUnknown(w) \/ RecoveryDecides(w) \/ ArchiveFinishes(w) \/ MarkWrites(w)
  <2>1. work'[w] = IdleWork \/ work'[w] = [IdleWork EXCEPT !.pc = "arow", !.r = r]
    BY <1>0, <1>9 DEF RecoveryLeavesUnknown, RecoveryDecides, ArchiveFinishes, MarkWrites, WorkGoes
  <2> QED BY <1>i, <1>a, <2>1
<1>10. CASE ArchiveReadsRow(w)
  <2>1. /\ x.pc = "arow" /\ r \in Reqs
        /\ work'[w] = [WAt(w, "alease") EXCEPT !.row = req[r]] \/ work'[w] = IdleWork
    BY <1>0, <1>10 DEF ArchiveReadsRow, WorkGoes
  <2>2. ASSUME work'[w] = [WAt(w, "alease") EXCEPT !.row = req[r]]
        PROVE  WorkIsTrue(work[w])' /\ VerdictIsDue(work[w])'
    <3>1. work'[w].row = req[r] /\ work'[w].pc = "alease" /\ work'[w].r = r
      BY <1>0, <2>2 DEF WAt, WorkState
    <3> QED BY <1>0, <2>1, <3>1 DEF WorkIsTrue, VerdictIsDue, Grows, RowIsTrue
  <2> QED BY <1>i, <2>1, <2>2
<1>11. CASE ArchiveReadsLease(w)
  <2>1. work'[w].row = x.row /\ work'[w].pc = "acheck" /\ work'[w].r = r /\ x.pc = "alease" /\ r \in Reqs
    BY <1>0, <1>11 DEF ArchiveReadsLease, WorkGoes, WAt, WorkState
  <2> QED BY <1>0, <2>1 DEF WorkIsTrue, VerdictIsDue, Grows
<1>12. CASE ArchiveChecks(w)
  <2>1. /\ x.pc = "acheck" /\ r \in Reqs
        /\ \/ work'[w] = IdleWork
           \/ /\ AcceptanceProven(x.row)
              /\ \/ pkg[r] = "ready" /\ work'[w] = [WAt(w, "afact") EXCEPT !.lease = NoLease]
                 \/ work'[w] = [WAt(w, "aarchive") EXCEPT !.lease = NoLease]
    BY <1>0, <1>12 DEF ArchiveChecks, WorkGoes, Reusable
  <2>2. ASSUME AcceptanceProven(x.row), NEW pc \in {"afact", "aarchive"}, pc = "afact" => pkg[r] = "ready",
               work'[w] = [WAt(w, pc) EXCEPT !.lease = NoLease]
        PROVE  WorkIsTrue(work[w])' /\ VerdictIsDue(work[w])'
    <3>1. work'[w].row = x.row /\ work'[w].pc = pc /\ work'[w].r = r
      BY <1>0, <2>2 DEF WAt, WorkState
    <3>2. Happened(r) /\ (pc = "afact" => Stored(r))
      BY <1>0, <2>1, <2>2 DEF WorkIsTrue, Stored
    <3> QED BY <1>0, <2>1, <3>1, <3>2 DEF WorkIsTrue, VerdictIsDue, Grows
  <2> QED BY <1>i, <2>1, <2>2
<1>13. CASE \E related \in BOOLEAN : ArchiveLooks(w, related)
  <2>1. /\ x.pc = "aarchive" /\ r \in Reqs
        /\ \/ work'[w] = IdleWork
           \/ pkg[r] = "ready" /\ work'[w] = WAt(w, "afact")
           \/ work'[w] = WAt(w, "astore")
    BY <1>0, <1>13 DEF ArchiveLooks, WorkGoes
  <2>2. ASSUME NEW pc \in {"afact", "astore"}, pc = "afact" => pkg[r] = "ready", work'[w] = WAt(w, pc)
        PROVE  WorkIsTrue(work[w])' /\ VerdictIsDue(work[w])'
    <3>1. work'[w].row = x.row /\ work'[w].pc = pc /\ work'[w].r = r
      BY <1>0, <2>2 DEF WAt, WorkState
    <3>2. pc = "afact" => Stored(r)
      BY <2>2 DEF Stored
    <3> QED BY <1>0, <2>1, <3>1, <3>2 DEF WorkIsTrue, VerdictIsDue, Grows
  <2> QED BY <1>i, <2>1, <2>2
<1>14. CASE \E related \in BOOLEAN, result \in ArchiveResults : ArchiveStores(w, result, related)
  <2>1. PICK result \in ArchiveResults :
        /\ x.pc = "astore" /\ r \in Reqs /\ PackageStored(r, result)
        /\ \/ work'[w] = IdleWork
           \/ result = "ready" /\ work'[w] = WAt(w, "afact")
    BY <1>0, <1>14 DEF ArchiveStores, WorkGoes
  <2>2. ASSUME result = "ready", work'[w] = WAt(w, "afact")
        PROVE  WorkIsTrue(work[w])' /\ VerdictIsDue(work[w])'
    <3>1. work'[w].row = x.row /\ work'[w].pc = "afact" /\ work'[w].r = r
      BY <1>0, <2>2 DEF WAt, WorkState
    <3>2. PICK q \in Reqs : q = r
      BY <2>1
    <3>3. Stored(q)'
      BY <2>1, <2>2, <3>2, PackageGrows
    <3> QED BY <1>0, <2>1, <3>1, <3>2, <3>3 DEF WorkIsTrue, VerdictIsDue, Grows, Stored
  <2> QED BY <1>i, <2>1, <2>2
<1>15. CASE ArchiveRecordsFact(w)
  <2>1. work'[w].row = x.row /\ work'[w].pc = "afinish" /\ work'[w].r = r /\ x.pc = "afact" /\ r \in Reqs
    BY <1>0, <1>15 DEF ArchiveRecordsFact, WorkGoes, WAt, WorkState
  <2> QED BY <1>0, <2>1 DEF WorkIsTrue, VerdictIsDue, Grows
<1>16. CASE UserActs(w)
  <2>1. CASE \E q \in Reqs : UserReconciles(w, q)
    <3>1. PICK q \in Reqs, pc \in {"arow", "rescan"} :
          work'[w] = [IdleWork EXCEPT !.r = q, !.row.outbound = req[q].outbound, !.pc = pc]
      BY <1>0, <2>1 DEF UserReconciles, WorkGoes
    <3>2. /\ work'[w].row.accepted = FALSE /\ work'[w].row.delivery = "none" /\ work'[w].pc = pc
          /\ work'[w].startup = FALSE
      BY <3>1 DEF IdleWork, AbsentRow
    <3> QED BY <3>2 DEF WorkIsTrue, VerdictIsDue
  <2>2. CASE \E q \in Reqs, resolution \in {"sent", "not_sent"} : UserMarks(w, q, resolution)
    <3>1. PICK q \in Reqs, resolution \in {"sent", "not_sent"} : UserMarks(w, q, resolution)
      BY <2>2
    <3>2. work'[w].row = req[q] /\ work'[w].r = q /\ work'[w].pc = "mark"
      BY <1>0, <3>1 DEF UserMarks, WorkGoes, IdleWork
    <3> QED BY <1>0, <3>2 DEF WorkIsTrue, VerdictIsDue, RowIsTrue, Grows
  <2> QED BY <1>16, <2>1, <2>2 DEF UserActs
<1>17. CASE Crash /\ work'[w] # work[w]
  <2>1. work'[w] = IdleWork
    BY <1>0, <1>17 DEF Crash, WorkGoes
  <2> QED BY <1>i, <2>1
<1> QED
  BY <1>1, <1>2, <1>3, <1>4, <1>5, <1>6, <1>7, <1>8, <1>9, <1>10, <1>11, <1>12, <1>13, <1>14, <1>15, <1>16, <1>17,
     OthersLeaveWorkerAlone DEF WorkStep

\* What is true of a synchronisation stays or becomes true.
LEMMA SyncsStayTrue ==
  ASSUME IInv, TruthInv, [Next]_vars, Grows
  PROVE  SyncsAreTrue'
<1> SUFFICES ASSUME NEW s \in Syncs PROVE SyncIsTrue(sync[s])'
  BY DEF SyncsAreTrue
<1>0. /\ SyncIsTrue(sync[s]) /\ sync \in [Syncs -> SyncState] /\ sync[s] \in SyncState
      /\ sync[s].pc # "idle" => sync[s].r \in Reqs
  BY WorldFacts DEF TruthInv, SyncsAreTrue, IInv, SyncShape
<1>1. CASE sync'[s] = sync[s]
  BY <1>0, <1>1, MemoryStaysTrue
<1>2. ASSUME sync'[s].pc \in {"idle", "prepare", "archive", "store"} PROVE SyncIsTrue(sync[s])'
  BY <1>2 DEF SyncIsTrue
<1>3. CASE (\E r \in Reqs : SyncFinds(s, r)) \/ SyncPrepares(s) \/ SyncUpdatesRow(s) \/ (Crash /\ sync'[s] # sync[s])
  <2>1. CASE \E r \in Reqs : SyncFinds(s, r)
    <3>1. PICK r \in Reqs, pc \in {"prepare", "archive"}, request \in BOOLEAN :
          sync' = [sync EXCEPT ![s] = [pc |-> pc, r |-> r, request |-> request]]
      BY <2>1 DEF SyncFinds, SyncGoes
    <3>2. sync'[s].pc = pc
      BY <1>0, <3>1
    <3> QED BY <1>2, <3>2
  <2>2. CASE SyncPrepares(s)
    <3>1. sync'[s].pc = "archive"
      BY <1>0, <2>2 DEF SyncPrepares, SyncGoes, SAt, SyncState
    <3> QED BY <1>2, <3>1
  <2>3. CASE SyncUpdatesRow(s) \/ (Crash /\ sync'[s] # sync[s])
    <3>1. sync'[s] = IdleSync
      BY <1>0, <2>3 DEF SyncUpdatesRow, Crash, SyncGoes
    <3> QED BY <1>2, <3>1 DEF IdleSync
  <2> QED BY <1>3, <2>1, <2>2, <2>3
<1>4. CASE SyncLooks(s)
  <2>1. /\ sync'[s].r = sync[s].r /\ sync[s].r \in Reqs /\ pkg' = pkg
        /\ \/ sync'[s].pc = "store"
           \/ sync'[s].pc = "map" /\ pkg[sync[s].r] = "ready"
    BY <1>0, <1>4 DEF SyncLooks, SyncGoes, SAt, SyncState, factVars
  <2> QED BY <2>1 DEF SyncIsTrue
<1>5. CASE \E result \in ArchiveResults : SyncStores(s, result)
  <2>1. PICK result \in ArchiveResults :
        /\ sync[s].r \in Reqs /\ PackageStored(sync[s].r, result)
        /\ \/ sync'[s] = IdleSync
           \/ result # "none" /\ sync'[s] = SAt(s, "map")
    BY <1>0, <1>5 DEF SyncStores, SyncGoes
  <2>2. CASE sync'[s] = IdleSync
    BY <1>2, <2>2 DEF IdleSync
  <2>3. CASE result # "none" /\ sync'[s] = SAt(s, "map")
    <3>1. sync'[s].pc = "map" /\ sync'[s].r = sync[s].r
      BY <1>0, <2>3 DEF SAt, SyncState
    <3>2. pkg'[sync[s].r] # "none"
      BY <2>1, <2>3, PackageGrows
    <3> QED BY <3>1, <3>2 DEF SyncIsTrue
  <2> QED BY <2>1, <2>2, <2>3
<1>6. CASE SyncMaps(s)
  <2>1. /\ sync'[s].pc = "fact" /\ sync'[s].r = sync[s].r /\ sync[s].r \in Reqs /\ sync[s].pc = "map"
        /\ mapped' = [mapped EXCEPT ![sync[s].r] = TRUE]
    BY <1>0, <1>6 DEF SyncMaps, SyncGoes, SAt, SyncState
  <2>2. mapped'[sync[s].r]
    BY <2>1, WorldFacts
  <2> QED BY <1>0, <2>1, <2>2 DEF SyncIsTrue, Grows
<1>7. CASE SyncUpdatesFact(s)
  <2>1. sync'[s].pc = "row" /\ sync'[s].r = sync[s].r /\ sync[s].r \in Reqs /\ sync[s].pc = "fact"
    BY <1>0, <1>7 DEF SyncUpdatesFact, SyncGoes, SAt, SyncState
  <2> QED BY <1>0, <2>1 DEF SyncIsTrue, Grows
<1> QED
  BY <1>1, <1>3, <1>4, <1>5, <1>6, <1>7, OthersLeaveSyncAlone DEF SyncStep

-----------------------------------------------------------------------------
(* The rows.                                                                *)

\* A row that is not written stays true.
LEMMA RowStaysTrue ==
  ASSUME Grows, NEW r \in Reqs, RowIsTrue(r), req'[r] = req[r]
  PROVE  RowIsTrue(r)'
  BY DEF Grows, RowIsTrue, AcceptanceProven

\* Its stage stays true unless an execution comes to its DATA step.
LEMMA StageStaysTrue ==
  ASSUME NEW r \in Reqs, StageIsTrue(r), req'[r] = req[r], lease'[r] = lease[r],
         DataBegun(r)' => DataBegun(r)
  PROVE  StageIsTrue(r)'
  BY DEF StageIsTrue

\* Only the row that a step writes has to be looked at.
LEMMA OneRowChanges ==
  ASSUME TruthInv, Grows, NEW r \in Reqs,
         \A q \in Reqs \ {r} : /\ req'[q] = req[q] /\ lease'[q] = lease[q]
                               /\ DataBegun(q)' => DataBegun(q),
         RowIsTrue(r)', StageIsTrue(r)'
  PROVE  RowsAreTrue'
<1> SUFFICES ASSUME NEW q \in Reqs PROVE (RowIsTrue(q) /\ StageIsTrue(q))'
  BY DEF RowsAreTrue
<1>1. RowIsTrue(q) /\ StageIsTrue(q)
  BY DEF TruthInv, RowsAreTrue
<1> QED BY <1>1, RowStaysTrue, StageStaysTrue

\* A step that writes no row keeps the rows true if no execution comes to its DATA step.
LEMMA NoRowChanges ==
  ASSUME TruthInv, Grows, UNCHANGED <<req, lease>>, \A r \in Reqs : DataBegun(r)' => DataBegun(r)
  PROVE  RowsAreTrue'
<1> SUFFICES ASSUME NEW r \in Reqs PROVE (RowIsTrue(r) /\ StageIsTrue(r))'
  BY DEF RowsAreTrue
<1>1. RowIsTrue(r) /\ StageIsTrue(r)
  BY DEF TruthInv, RowsAreTrue
<1> QED BY <1>1, RowStaysTrue, StageStaysTrue

\* A step that leads no execution to DATA begins no transmission.
LEMMA NoDataBegins ==
  ASSUME IInv, sends' = sends
  PROVE  /\ exec' = exec => \A q \in Reqs : DataBegun(q)' => DataBegun(q)
         /\ \A e \in Execs : \A x : ExecGoes(e, x) /\ x.pc # "data"
              => \A q \in Reqs : DataBegun(q)' => DataBegun(q)
<1>1. exec' = exec => \A q \in Reqs : DataBegun(q)' => DataBegun(q)
  BY DEF DataBegun
<1>2. ASSUME NEW e \in Execs, NEW x, ExecGoes(e, x), x.pc # "data", NEW q \in Reqs, DataBegun(q)'
      PROVE  DataBegun(q)
  <2>1. exec'[e] = x /\ \A f \in Execs \ {e} : exec'[f] = exec[f]
    BY <1>2, WorldFacts DEF ExecGoes
  <2> QED BY <1>2, <2>1 DEF DataBegun
<1> QED BY <1>1, <1>2

\* What complete_send_request writes is true if its status is.
LEMMA CompletedIsTrue ==
  ASSUME IInv, TruthInv, Grows, NEW r \in Reqs, NEW status \in TERMINAL_SEND_STATUSES,
         NEW o, NEW p, CompleteSendRequest(r, status, o, p),
         status \in Reported => Happened(r)',
         status = "sent" => p /\ Stored(r)',
         status = "sent_reconciled" /\ "sent" \notin said'[r] => mapped'[r] /\ pkg'[r] # "none",
         \A q \in Reqs : DataBegun(q)' => DataBegun(q)
  PROVE  RowsAreTrue'
<1> DEFINE row == req[r]
           ob == row.outbound \/ o  pk == row.package \/ p
           d == DeliveryOf(status)  c == ReconOf(status)
           new == [row EXCEPT !.status = status, !.stage = status, !.delivery = d, !.recon = c,
                              !.outbound = ob, !.package = pk]
<1>0. row \in Row /\ req \in [Reqs -> Row] /\ lease \in [Reqs -> Lease] /\ RowIsTrue(r)
  BY WorldFacts DEF TruthInv, RowsAreTrue
<1>1. req' = [req EXCEPT ![r] = new] /\ lease' = [lease EXCEPT ![r] = NoLease]
  BY DEF CompleteSendRequest, Completed
<1>2. /\ d = "sent" => status \in Reported
      /\ d # "smtp_accepted"
      /\ c = "matched" => status = "sent_reconciled"
      /\ status \notin {"sending", "recovery_required", "smtp_accepted"}
  BY DEF DeliveryOf, ReconOf, Reported, TERMINAL_SEND_STATUSES
<1>3. p => pk
  OBVIOUS
<1> HIDE DEF d, c, ob, pk
<1>4. /\ new.status = status /\ new.delivery = d /\ new.recon = c /\ new.accepted = row.accepted
      /\ new.package = pk
  BY <1>0 DEF Row
<1> HIDE DEF new
<1>5. req'[r] = new /\ \A q \in Reqs \ {r} : req'[q] = req[q] /\ lease'[q] = lease[q]
  BY <1>0, <1>1
<1>6. RowIsTrue(r)'
  BY <1>0, <1>2, <1>3, <1>4, <1>5 DEF RowIsTrue, AcceptanceProven, Grows, Happened
<1>7. StageIsTrue(r)'
  BY <1>2, <1>4, <1>5 DEF StageIsTrue
<1> QED BY <1>5, <1>6, <1>7, OneRowChanges

\* The writes of the recoveries and of the user are true: each rests on what its
\* worker has seen or is being told.
LEMMA WorkerRows ==
  ASSUME IInv, TruthInv, Grows, NEW w \in Workers,
         WorkStep(w) \/ UserActs(w) \/ \E r \in Reqs : RecoveryLists(w, r)
  PROVE  RowsAreTrue'
<1> DEFINE x == work[w]
<1>0. /\ WorkIsTrue(x) /\ x \in WorkState /\ WorkShape
      /\ \A r \in Reqs : (pkg[r] # "none" => Happened(r))
  BY WorldFacts DEF TruthInv, WorkersAreTrue, PackagesAreOfSent, IInv
<1>a. /\ {"sent", "sent_reconciled", "sent_archive_failed", "delivery_unknown", "definitely_not_sent"}
           \subseteq TERMINAL_SEND_STATUSES
      /\ {"delivery_unknown", "definitely_not_sent"} \cap Reported = {}
  BY DEF TERMINAL_SEND_STATUSES, Reported
<1>1. CASE ReconcileWrites(w)
  <2>1. /\ x.r \in Reqs /\ x.verdict \in {"sent", "sent_reconciled"} /\ exec' = exec /\ sends' = sends
        /\ CompleteSendRequest(x.r, x.verdict, x.row.outbound, TRUE)
        /\ Happened(x.r) /\ Stored(x.r) /\ (x.verdict = "sent_reconciled" => mapped[x.r])
    BY <1>0, <1>1 DEF ReconcileWrites, WorkShape, WorkIsTrue, worldVars
  <2>2. PICK r \in Reqs : r = x.r
    BY <2>1
  <2>3. /\ Happened(r)' /\ Stored(r)' /\ (x.verdict = "sent_reconciled" => mapped'[r] /\ pkg'[r] # "none")
    BY <2>1, <2>2 DEF Grows, Stored
  <2> QED BY <1>a, <2>1, <2>2, <2>3, CompletedIsTrue, NoDataBegins
<1>2. CASE RecoveryDecides(w)
  <2> DEFINE v == RecoveryVerdict(x.row, x.lease)
  <2>1. /\ v \in {"sent_archive_failed", "delivery_unknown", "definitely_not_sent"}
        /\ v = "sent_archive_failed" => x.row.accepted
    BY DEF RecoveryVerdict
  <2>2. \E o, p : CompleteSendRequest(x.r, v, o, p)
    BY <1>2 DEF RecoveryDecides
  <2>3. x.r \in Reqs /\ exec' = exec /\ sends' = sends
    BY <1>0, <1>2 DEF RecoveryDecides, WorkShape, worldVars
  <2>4. PICK r \in Reqs : r = x.r
    BY <2>3
  <2> HIDE DEF v
  <2>5. v \in Reported => Happened(r)'
    BY <1>0, <1>a, <2>1, <2>4 DEF WorkIsTrue, Happened, Grows
  <2> QED BY <1>a, <2>1, <2>2, <2>3, <2>4, <2>5, CompletedIsTrue, NoDataBegins
<1>3. CASE ArchiveFinishes(w)
  <2>1. /\ x.r \in Reqs /\ exec' = exec /\ sends' = sends
        /\ CompleteSendRequest(x.r, "sent", TRUE, TRUE) /\ Happened(x.r) /\ Stored(x.r)
    BY <1>0, <1>3 DEF ArchiveFinishes, WorkShape, WorkIsTrue, worldVars
  <2>2. PICK r \in Reqs : r = x.r
    BY <2>1
  <2>3. Happened(r)' /\ Stored(r)'
    BY <2>1, <2>2 DEF Grows
  <2> QED BY <1>a, <2>1, <2>2, <2>3, CompletedIsTrue, NoDataBegins
<1>4. CASE MarkWrites(w)
  <2> DEFINE word == IF x.verdict = "definitely_not_sent" THEN "not_sent" ELSE "sent"
  <2>1. /\ x.r \in Reqs /\ exec' = exec /\ sends' = sends
        /\ x.verdict \in {"definitely_not_sent", "sent_reconciled", "sent_archive_failed"}
        /\ CompleteSendRequest(x.r, x.verdict, x.row.outbound, x.row.package)
        /\ said' = [said EXCEPT ![x.r] = @ \cup {word}]
    BY <1>0, <1>4 DEF MarkWrites, WorkShape
  <2>2. PICK r \in Reqs : r = x.r
    BY <2>1
  <2>3. x.verdict # "definitely_not_sent" => "sent" \in said'[r]
    BY <2>1, <2>2, WorldFacts
  <2> HIDE DEF word
  <2>4. x.verdict \in Reported => Happened(r)'
    BY <1>a, <2>1, <2>3 DEF Happened
  <2>5. x.verdict \in TERMINAL_SEND_STATUSES /\ x.verdict # "sent"
    BY <1>a, <2>1
  <2> QED BY <2>1, <2>2, <2>3, <2>4, <2>5, CompletedIsTrue, NoDataBegins
<1>5. CASE ~ReconcileWrites(w) /\ ~RecoveryDecides(w) /\ ~ArchiveFinishes(w) /\ ~MarkWrites(w)
  <2>1. UNCHANGED <<req, lease, exec, sends>>
    BY <1>5 DEF WorkStep, UserActs, RecoveryLists, RecoveryReadsRow, RecoveryReadsLease, RecoveryJudges,
       ReconcileReadsRow, ReconcileReadsEvidence, RecoveryLeavesUnknown,
       ArchiveReadsRow, ArchiveReadsLease, ArchiveChecks, ArchiveLooks, ArchiveStores, ArchiveRecordsFact,
       UserReconciles, UserMarks, ReadOnly, storeVars, worldVars
  <2> QED BY <2>1, NoRowChanges, NoDataBegins
<1> QED BY <1>1, <1>2, <1>3, <1>4, <1>5

\* The update of a synchronisation is true: the copy it has met is mapped to a
\* package, and the provider made it.
LEMMA SyncRows ==
  ASSUME IInv, TruthInv, Grows, NEW s \in Syncs, SyncStep(s) \/ \E r \in Reqs : SyncFinds(s, r)
  PROVE  RowsAreTrue'
<1>1. CASE SyncUpdatesRow(s) /\ ~UNCHANGED storeVars
  <2>1. /\ sync[s].r \in Reqs /\ delivered[sync[s].r] /\ mapped[sync[s].r] /\ pkg[sync[s].r] # "none"
        /\ ReconcileSentRow(sync[s].r) /\ exec' = exec /\ sends' = sends
    BY <1>1 DEF SyncUpdatesRow, IInv, SyncShape, TruthInv, SyncsAreTrue, SyncIsTrue, worldVars
  <2>2. PICK r \in Reqs : r = sync[s].r
    BY <2>1
  <2> DEFINE row == req[r]  new == Observed(row)
  <2>3. row \in Row /\ RowIsTrue(r) /\ StageIsTrue(r)
    BY WorldFacts DEF TruthInv, RowsAreTrue
  <2>4. /\ req'[r] = new /\ lease' = lease /\ \A q \in Reqs \ {r} : req'[q] = req[q]
        /\ \A q \in Reqs : DataBegun(q)' => DataBegun(q)
    BY <2>1, <2>2, WorldFacts, NoDataBegins DEF ReconcileSentRow
  <2>5. /\ new.accepted = row.accepted /\ new.package
        /\ \/ new.status = "sent_reconciled"
           \/ new.status = row.status /\ new.stage = row.stage /\ row.status \notin Reconcilable
              /\ new.delivery = row.delivery
    BY <2>3 DEF Observed, Row
  <2>6. delivered'[r] /\ mapped'[r] /\ pkg'[r] # "none"
    BY <2>1, <2>2 DEF Grows
  <2> HIDE DEF new
  <2>7. RowIsTrue(r)'
    BY <2>3, <2>4, <2>5, <2>6 DEF RowIsTrue, AcceptanceProven, Happened, Reconcilable
  <2>8. StageIsTrue(r)'
    BY <2>3, <2>4, <2>5 DEF StageIsTrue, Reconcilable
  <2> QED BY <2>4, <2>7, <2>8, OneRowChanges
<1>2. CASE UNCHANGED storeVars \/ ~SyncUpdatesRow(s)
  <2>1. UNCHANGED <<req, lease, exec, sends>>
    BY <1>2 DEF SyncStep, SyncFinds, SyncPrepares, SyncLooks, SyncStores, SyncMaps, SyncUpdatesFact,
       SyncUpdatesRow, storeVars, worldVars
  <2> QED BY <2>1, NoRowChanges, NoDataBegins
<1> QED BY <1>1, <1>2

\* A withdrawal reports nothing.
LEMMA WithdrawalRows ==
  ASSUME IInv, TruthInv, Grows, NEW r \in Reqs, NEW status \in {"cancelled", "expired"},
         req' = [req EXCEPT ![r].status = status], lease' = lease,
         \A q \in Reqs : DataBegun(q)' => DataBegun(q)
  PROVE  RowsAreTrue'
<1>0. req[r] \in Row /\ req \in [Reqs -> Row] /\ RowIsTrue(r)
  BY WorldFacts DEF TruthInv, RowsAreTrue
<1>1. /\ req'[r] = [req[r] EXCEPT !.status = status] /\ \A q \in Reqs \ {r} : req'[q] = req[q]
  BY <1>0
<1>2. /\ req'[r].status = status /\ req'[r].accepted = req[r].accepted
      /\ req'[r].delivery = req[r].delivery /\ req'[r].recon = req[r].recon
  BY <1>0, <1>1 DEF Row
<1>3. RowIsTrue(r)' /\ StageIsTrue(r)'
  BY <1>0, <1>2 DEF RowIsTrue, StageIsTrue, AcceptanceProven, Happened, Reported, Grows
<1> QED BY <1>1, <1>3, OneRowChanges

\* A new request reports nothing.
LEMMA CreationRows ==
  ASSUME IInv, TruthInv, Grows, NEW e \in Execs, NEW mode \in Modes, SubmitCreates(e, mode)
  PROVE  RowsAreTrue'
<1> DEFINE deadline == exec[e].now + ConfirmTicks
           status == IF mode = "confirm" THEN "pending_confirmation" ELSE "ready_to_send"
           stage == IF mode = "confirm" THEN "pending_confirmation" ELSE "ready"
           row == [AbsentRow EXCEPT !.mode = mode, !.deadline = deadline, !.status = status, !.stage = stage]
<1>1. exec[e].r \in Reqs /\ req \in [Reqs -> Row]
  BY ExecFacts DEF ExecOK, SubmitCreates
<1>2. PICK r \in Reqs : r = exec[e].r
  BY <1>1
<1>3. req' = [req EXCEPT ![r] = row] /\ lease' = lease /\ sends' = sends
  BY <1>2 DEF SubmitCreates, CreateSendRequest, worldVars
<1>4. \E x : ExecGoes(e, x) /\ x.pc # "data"
  <2>1. IdleExec.pc # "data" /\ [At(e, "claim") EXCEPT !.now = 0].pc # "data"
    BY ExecFacts DEF IdleExec, At, ExecState
  <2> QED BY <2>1 DEF SubmitCreates
<1>5. \A q \in Reqs : DataBegun(q)' => DataBegun(q)
  BY <1>3, <1>4, NoDataBegins
<1>6. row.status = status /\ row.accepted = FALSE /\ row.delivery = "none" /\ row.recon = "not_started"
  BY DEF AbsentRow
<1>7. status \in {"pending_confirmation", "ready_to_send"}
  OBVIOUS
<1> HIDE DEF row, status
<1>8. req'[r] = row /\ \A q \in Reqs \ {r} : req'[q] = req[q]
  BY <1>1, <1>3
<1>9. RowIsTrue(r)' /\ StageIsTrue(r)'
  BY <1>6, <1>7, <1>8 DEF RowIsTrue, StageIsTrue, AcceptanceProven, Reported
<1> QED BY <1>3, <1>5, <1>8, <1>9, OneRowChanges

\* A claim starts before any transmission.
LEMMA ClaimRows ==
  ASSUME IInv, TruthInv, Grows, NEW e \in Execs, ClaimSucceeds(e)
  PROVE  RowsAreTrue'
<1>1. exec[e].r \in Reqs /\ req \in [Reqs -> Row] /\ lease \in [Reqs -> Lease] /\ exec[e] \in ExecState
  BY ExecFacts DEF ExecOK, ClaimSucceeds
<1>2. PICK r \in Reqs : r = exec[e].r
  BY <1>1
<1> DEFINE row == req[r]
           c == row.confirmed \/ exec[e].gui
           new == [row EXCEPT !.status = "sending", !.stage = "lease_acquired", !.confirmed = c]
<1>3. /\ row.status \in PreClaim /\ req' = [req EXCEPT ![r] = new] /\ sends' = sends
      /\ \A q \in Reqs \ {r} : lease'[q] = lease[q]
      /\ lease'[r].stage = "lease_acquired"
  BY <1>1, <1>2 DEF ClaimSucceeds, ClaimForSend, Claimable, ExpectedStatus, PreClaim, worldVars
<1>4. ExecGoes(e, [At(e, "stage") EXCEPT !.k = 1, !.gui = FALSE, !.now = 0])
  BY DEF ClaimSucceeds
<1>5. \A q \in Reqs : DataBegun(q)' => DataBegun(q)
  <2>1. [At(e, "stage") EXCEPT !.k = 1, !.gui = FALSE, !.now = 0].pc # "data"
    BY <1>1 DEF At, ExecState
  <2> QED BY <1>3, <1>4, <2>1, NoDataBegins
<1>6. ~DataBegun(r)
  <2>1. sends[r] = 0 /\ \A f \in Execs : ~Runs(f, r)
    BY <1>3 DEF IInv, UnclaimedIsQuiet, Claimed
  <2> QED BY <2>1 DEF DataBegun, Runs, InFlightPcs
<1> HIDE DEF c
<1>7. /\ new.status = "sending" /\ new.stage = "lease_acquired" /\ new.accepted = row.accepted
      /\ new.delivery = row.delivery /\ new.recon = row.recon
  BY <1>1 DEF Row
<1> HIDE DEF new
<1>8. req'[r] = new /\ \A q \in Reqs \ {r} : req'[q] = req[q]
  BY <1>1, <1>3
<1>9. RowIsTrue(r)' /\ StageIsTrue(r)'
  <2>1. RowIsTrue(r)
    BY DEF TruthInv, RowsAreTrue
  <2>2. RowIsTrue(r)'
    BY <2>1, <1>7, <1>8 DEF RowIsTrue, AcceptanceProven, Reported, Grows
  <2>3. StageIsTrue(r)'
    BY <1>3, <1>5, <1>6, <1>7, <1>8 DEF StageIsTrue
  <2> QED BY <2>2, <2>3
<1> QED BY <1>3, <1>5, <1>8, <1>9, OneRowChanges

\* A claim that fails keeps in the lease how far the execution it takes over had got.
LEMMA FailedClaimRows ==
  ASSUME IInv, TruthInv, Grows, NEW e \in Execs, ClaimFails(e)
  PROVE  RowsAreTrue'
<1>1. exec[e].r \in Reqs /\ req \in [Reqs -> Row] /\ lease \in [Reqs -> Lease]
  BY ExecFacts DEF ExecOK, ClaimFails
<1>2. PICK r \in Reqs : r = exec[e].r
  BY <1>1
<1>3. \A q \in Reqs : DataBegun(q)' => DataBegun(q)
  BY NoDataBegins DEF ClaimFails, IdleExec, worldVars
<1>4. CASE ClaimTakesOverStaleLease(r, exec[e].now)
  <2> DEFINE row == req[r]  new == [row EXCEPT !.status = "recovery_required", !.stage = "stale_lease"]
             l == lease[r]  newl == [l EXCEPT !.owner = Recovery, !.expires = exec[e].now]
  <2>1. row.status = "sending" /\ req' = [req EXCEPT ![r] = new] /\ lease' = [lease EXCEPT ![r] = newl]
    BY <1>4 DEF ClaimTakesOverStaleLease, StaleLease
  <2>2. /\ new.status = "recovery_required" /\ new.stage = "stale_lease" /\ new.accepted = row.accepted
        /\ new.delivery = row.delivery /\ new.recon = row.recon
        /\ newl.owner = Recovery /\ newl.stage = l.stage
    BY <1>1 DEF Row, Lease
  <2> HIDE DEF new, newl
  <2>3. /\ req'[r] = new /\ lease'[r] = newl
        /\ \A q \in Reqs \ {r} : req'[q] = req[q] /\ lease'[q] = lease[q]
    BY <1>1, <2>1
  <2>4. RowIsTrue(r) /\ StageIsTrue(r)
    BY DEF TruthInv, RowsAreTrue
  <2>5. RowIsTrue(r)'
    BY <2>2, <2>3, <2>4 DEF RowIsTrue, AcceptanceProven, Reported, Grows
  <2>6. StageIsTrue(r)'
    BY <1>3, <2>1, <2>2, <2>3, <2>4 DEF StageIsTrue
  <2> QED BY <1>3, <2>3, <2>5, <2>6, OneRowChanges
<1>5. CASE ClaimFindsExpired(r, exec[e].now)
  BY <1>3, <1>5, WithdrawalRows DEF ClaimFindsExpired, Expire
<1>6. CASE ClaimRefused(r, exec[e].now, exec[e].gui)
  BY <1>3, <1>6, NoRowChanges DEF ClaimRefused, storeVars
<1> QED BY <1>2, <1>4, <1>5, <1>6 DEF ClaimFails

\* A stage that an execution records is true: it reports the acceptance only after
\* the answer of the provider, and it records the start of DATA before DATA.
LEMMA StageRows ==
  ASSUME IInv, TruthInv, Grows, NEW e \in Execs, StageCommits(e)
  PROVE  RowsAreTrue'
<1> DEFINE x == exec[e]  k == x.k
<1>1. /\ x.r \in Reqs /\ x \in ExecState /\ x.pc = "staging" /\ k \in 1..7
      /\ req \in [Reqs -> Row] /\ lease \in [Reqs -> Lease] /\ ExecIsTrue(x)
  BY ExecFacts DEF ExecOK, StageCommits, StagePcs, TruthInv, ExecutionsAreTrue
<1>2. PICK r \in Reqs : r = x.r
  BY <1>1
<1>3. lease[r].owner = e /\ Runs(e, r)
  BY <1>1, <1>2 DEF StageCommits, RecordSendMime, RecordSendStage, LeaseHeld, Runs, InFlightPcs, StagePcs
<1>4. req[r].status # "recovery_required"
  BY <1>3 DEF IInv, OwnedIsSendingOrAccepted
<1>5. RowIsTrue(r) /\ StageIsTrue(r)
  BY DEF TruthInv, RowsAreTrue
<1>6. k <= 4 => ~DataBegun(r)
  <2>1. k <= 4 => sends[r] = 0
    BY <1>1, <1>3 DEF IInv, BeforeDataIsUnsent, BeforeData, StagePcs
  <2>2. \A f \in Execs : exec[f].r = r /\ exec[f].pc = "data" => f = e
    BY <1>3 DEF IInv, OneExecution, Runs, InFlightPcs
  <2> QED BY <1>1, <2>1, <2>2 DEF DataBegun
<1>7. k >= 5 => delivered[r] /\ delivered'[r]
  BY <1>1, <1>2 DEF ExecIsTrue, StagePcs, Grows
<1> DEFINE y == [At(e, PcAfterStage(k)) EXCEPT !.k = k + 1, !.now = 0]
<1>8. ExecGoes(e, y) /\ sends' = sends /\ y.pc = PcAfterStage(k) /\ y.r = r
  BY <1>1, <1>2 DEF StageCommits, worldVars, At, ExecState
<1>9. /\ \A q \in Reqs \ {r} : DataBegun(q)' => DataBegun(q)
      /\ k # 4 => (DataBegun(r)' => DataBegun(r))
  <2>1. exec'[e] = y /\ \A f \in Execs \ {e} : exec'[f] = exec[f]
    BY <1>8, WorldFacts DEF ExecGoes
  <2>2. \A q \in Reqs \ {r} : DataBegun(q)' => DataBegun(q)
    BY <1>8, <2>1 DEF DataBegun
  <2>3. k # 4 => y.pc # "data"
    BY <1>1, <1>8 DEF PcAfterStage, StageOrder
  <2> QED BY <1>8, <2>2, <2>3, NoDataBegins
<1> HIDE DEF y
<1> DEFINE row == req[r]
<1>10. CASE k = 1
  <2> DEFINE new == [row EXCEPT !.mime = TRUE, !.stage = "mime_built"]
             newl == [lease[r] EXCEPT !.expires = clock + LeaseTicks, !.stage = "mime_built"]
  <2>1. req' = [req EXCEPT ![r] = new] /\ lease' = [lease EXCEPT ![r] = newl]
    BY <1>2, <1>10 DEF StageCommits, RecordSendMime
  <2>2. /\ new.status = row.status /\ new.stage = "mime_built" /\ new.accepted = row.accepted
        /\ new.delivery = row.delivery /\ new.recon = row.recon /\ new.package = row.package
        /\ newl.stage = "mime_built"
    BY <1>1 DEF Row, Lease
  <2> HIDE DEF new, newl
  <2>3. /\ req'[r] = new /\ lease'[r] = newl
        /\ \A q \in Reqs \ {r} : req'[q] = req[q] /\ lease'[q] = lease[q]
    BY <1>1, <2>1
  <2>4. RowIsTrue(r)'
    BY <1>5, <2>2, <2>3 DEF RowIsTrue, AcceptanceProven, Grows
  <2>5. StageIsTrue(r)'
    BY <1>4, <1>6, <1>9, <1>10, <2>2, <2>3 DEF StageIsTrue
  <2> QED BY <1>9, <2>3, <2>4, <2>5, OneRowChanges
<1>11. CASE k # 1
  <2> DEFINE stage == StageOrder[k]
             new == StageRecorded(row, lease[r].stage, stage)
             newl == [lease[r] EXCEPT !.expires = x.now + LeaseTicks, !.stage = stage]
  <2>1. req' = [req EXCEPT ![r] = new] /\ lease' = [lease EXCEPT ![r] = newl]
    BY <1>2, <1>11 DEF StageCommits, RecordSendStage
  <2>2. /\ stage \in {"smtp_accepted", "archive_pending"} => k >= 5
        /\ k >= 4 => stage \in UNCERTAIN_STAGES
    BY <1>1, <1>11 DEF StageOrder, UNCERTAIN_STAGES
  <2> HIDE DEF stage
  <2>3. newl.stage = stage
    BY <1>1 DEF Lease
  <2>4. new.stage = stage /\ new.package = row.package
    BY <1>1 DEF StageRecorded, Row
  <2>5. stage = "smtp_accepted" => new.status = "smtp_accepted" /\ new.accepted /\ new.recon = "waiting"
    <3>1. stage = "smtp_accepted" => new.status = "smtp_accepted" /\ new.accepted
      BY <1>1, StageRecordedFields
    <3>2. stage = "smtp_accepted" => new.recon = "waiting"
      BY <1>1 DEF StageRecorded, Row
    <3> QED BY <3>1, <3>2
  <2>6. stage # "smtp_accepted" => /\ new.status = row.status /\ new.accepted = row.accepted
                                   /\ new.delivery = row.delivery /\ new.recon = row.recon
    BY <1>1 DEF StageRecorded, Row
  <2> HIDE DEF new, newl
  <2>7. /\ req'[r] = new /\ lease'[r] = newl
        /\ \A q \in Reqs \ {r} : req'[q] = req[q] /\ lease'[q] = lease[q]
    BY <1>1, <2>1
  <2>8. RowIsTrue(r)'
    <3>1. CASE stage = "smtp_accepted"
      BY <1>7, <2>2, <2>5, <2>7, <3>1 DEF RowIsTrue, AcceptanceProven, Happened
    <3>2. CASE stage # "smtp_accepted"
      BY <1>5, <2>4, <2>6, <2>7, <3>2 DEF RowIsTrue, AcceptanceProven, Grows
    <3> QED BY <3>1, <3>2
  <2>9. StageIsTrue(r)'
    <3>1. k <= 3 => ~DataBegun(r)'
      BY <1>1, <1>6, <1>9
    <3>2. DataBegun(r)' => stage \in UNCERTAIN_STAGES
      BY <1>1, <2>2, <3>1
    <3>3. new.status # "recovery_required"
      BY <1>4, <2>5, <2>6
    <3> QED BY <2>3, <2>4, <2>7, <3>2, <3>3 DEF StageIsTrue
  <2> QED BY <1>9, <2>7, <2>8, <2>9, OneRowChanges
<1> QED BY <1>10, <1>11

\* What an execution writes is true.
LEMMA ExecutionRows ==
  ASSUME IInv, TruthInv, Grows, NEW e \in Execs, ExecStarts(e) \/ ExecStep(e)
  PROVE  RowsAreTrue'
<1> DEFINE x == exec[e]
<1>0. ExecIsTrue(x) /\ x \in ExecState /\ (x.pc # "idle" => x.r \in Reqs)
  BY ExecFacts DEF ExecOK, TruthInv, ExecutionsAreTrue
<1>a. IdleExec.pc # "data" /\ {"sent", "sent_archive_failed", "failed", "delivery_unknown"} \subseteq TERMINAL_SEND_STATUSES
  BY DEF IdleExec, TERMINAL_SEND_STATUSES
<1>1. CASE (\E mode \in Modes : SubmitCreates(e, mode)) \/ ClaimSucceeds(e) \/ ClaimFails(e) \/ StageCommits(e)
  BY <1>1, CreationRows, ClaimRows, FailedClaimRows, StageRows
<1>2. CASE HandlerSettles(e)
  <2>1. /\ ExecGoes(e, IdleExec) /\ sends' = sends /\ x.r \in Reqs /\ x.pc = "settle"
        /\ x.verdict \in {"failed", "delivery_unknown", "sent_archive_failed"}
        /\ CompleteSendRequest(x.r, x.verdict, FALSE, FALSE) \/ UNCHANGED storeVars
    BY <1>0, <1>2 DEF HandlerSettles, CompleteAsOwner, worldVars, IInv, ExecShape
  <2>2. \A q \in Reqs : DataBegun(q)' => DataBegun(q)
    BY <1>a, <2>1, NoDataBegins
  <2>3. PICK r \in Reqs : r = x.r
    BY <2>1
  <2>4. x.verdict \in Reported => Happened(r)'
    BY <1>0, <2>1, <2>3 DEF ExecIsTrue, Reported, Happened, Grows
  <2>5. CASE CompleteSendRequest(r, x.verdict, FALSE, FALSE)
    BY <1>a, <2>1, <2>2, <2>4, <2>5, CompletedIsTrue
  <2>6. CASE UNCHANGED storeVars
    BY <2>2, <2>6, NoRowChanges DEF storeVars
  <2> QED BY <2>1, <2>3, <2>5, <2>6
<1>3. CASE Finishes(e)
  <2>1. /\ ExecGoes(e, IdleExec) /\ sends' = sends /\ x.r \in Reqs /\ x.pc = "finish"
        /\ x.verdict \in {"sent", "sent_archive_failed"}
        /\ CompleteSendRequest(x.r, x.verdict, TRUE, x.link) \/ UNCHANGED storeVars
    BY <1>0, <1>3 DEF Finishes, CompleteAsOwner, worldVars, IInv, ExecShape
  <2>2. \A q \in Reqs : DataBegun(q)' => DataBegun(q)
    BY <1>a, <2>1, NoDataBegins
  <2>3. PICK r \in Reqs : r = x.r
    BY <2>1
  <2>4. Happened(r)' /\ (x.verdict = "sent" => x.link /\ Stored(r)')
    BY <1>0, <2>1, <2>3 DEF ExecIsTrue, Happened, Grows
  <2>5. CASE CompleteSendRequest(r, x.verdict, TRUE, x.link)
    BY <1>a, <2>1, <2>2, <2>4, <2>5, CompletedIsTrue
  <2>6. CASE UNCHANGED storeVars
    BY <2>2, <2>6, NoRowChanges DEF storeVars
  <2> QED BY <2>1, <2>3, <2>5, <2>6
<1>4. CASE \E taken, answered \in BOOLEAN : SendData(e, taken, answered)
  <2>1. PICK pc \in {"stage", "inspect"} :
        /\ UNCHANGED <<req, lease>> /\ x.pc = "data" /\ x.r \in Reqs
        /\ sends' = [sends EXCEPT ![x.r] = @ + 1] /\ exec' = [exec EXCEPT ![e] = At(e, pc)]
    BY <1>0, <1>4 DEF SendData, storeVars, ExecGoes
  <2>2. /\ \A q \in Reqs \ {x.r} : sends'[q] = sends[q]
        /\ exec'[e].pc # "data" /\ \A f \in Execs \ {e} : exec'[f] = exec[f]
    BY <1>0, <2>1, WorldFacts DEF At, ExecState
  <2>3. \A q \in Reqs : DataBegun(q)' => DataBegun(q)
    BY <2>1, <2>2 DEF DataBegun
  <2> QED BY <2>1, <2>3, NoRowChanges
<1>5. CASE /\ ~\E mode \in Modes : SubmitCreates(e, mode)
           /\ ~ClaimSucceeds(e) /\ ~ClaimFails(e) /\ ~StageCommits(e) /\ ~HandlerSettles(e) /\ ~Finishes(e)
           /\ ~\E taken, answered \in BOOLEAN : SendData(e, taken, answered)
  <2>1. UNCHANGED <<req, lease, sends>>
    BY <1>5 DEF ExecStarts, ExecStep, SubmitLooksUp, GuiConfirms, SubmitFindsDuplicate, ClaimReadsClock,
       StageReadsClock, StageFails, HandlerInspects, RecordsPendingFact, LooksForPackage, StoresPackage,
       RecordsFinalFact, storeVars, worldVars
  <2>2. exec'[e].pc # "data" /\ \A f \in Execs \ {e} : exec'[f] = exec[f]
    <3>1. CASE ExecStarts(e)
      BY <3>1, WorldFacts DEF ExecStarts, SubmitLooksUp, GuiConfirms, ExecGoes, IdleExec
    <3>2. CASE SubmitFindsDuplicate(e) \/ StageFails(e) \/ HandlerInspects(e)
      <4>1. PICK y : ExecGoes(e, y) /\ y.pc \in {"idle", "settle", "inspect"}
        <5>1. CASE SubmitFindsDuplicate(e)
          BY <5>1 DEF SubmitFindsDuplicate, IdleExec
        <5>2. CASE HandlerInspects(e)
          <6>1. [At(e, "settle") EXCEPT !.verdict = HandlerVerdict(req[x.r])].pc = "settle"
            BY <1>0 DEF At, ExecState
          <6> QED BY <5>2, <6>1 DEF HandlerInspects
        <5>3. CASE StageFails(e)
          <6>1. /\ [At(e, "settle") EXCEPT !.verdict = "failed", !.now = 0].pc = "settle"
                /\ [At(e, "inspect") EXCEPT !.now = 0].pc = "inspect"
                /\ IdleExec.pc = "idle"
            BY <1>0 DEF At, ExecState, IdleExec
          <6> QED BY <5>3, <6>1 DEF StageFails
        <5> QED BY <3>2, <5>1, <5>2, <5>3
      <4> QED BY <4>1, WorldFacts DEF ExecGoes
    <3>3. CASE ClaimReadsClock(e) \/ StageReadsClock(e) \/ RecordsPendingFact(e) \/ RecordsFinalFact(e)
      BY <1>0, <3>3, WorldFacts DEF ClaimReadsClock, StageReadsClock, RecordsPendingFact, RecordsFinalFact,
         ExecGoes, At, ExecState
    <3>4. CASE \E related \in BOOLEAN : LooksForPackage(e, related)
      BY <1>0, <3>4, WorldFacts DEF LooksForPackage, ExecGoes, At, ExecState
    <3>5. CASE \E related \in BOOLEAN, result \in ArchiveResults : StoresPackage(e, result, related)
      BY <1>0, <3>5, WorldFacts DEF StoresPackage, ExecGoes, At, ExecState
    <3> QED BY <1>5, <3>1, <3>2, <3>3, <3>4, <3>5 DEF ExecStep
  <2>3. \A q \in Reqs : DataBegun(q)' => DataBegun(q)
    BY <2>1, <2>2 DEF DataBegun
  <2> QED BY <2>1, <2>3, NoRowChanges
<1> QED BY <1>1, <1>2, <1>3, <1>4, <1>5

\* Every row stays or becomes true.
LEMMA RowsStayTrue ==
  ASSUME IInv, TruthInv, [Next]_vars, Grows
  PROVE  RowsAreTrue'
<1>1. CASE \E r \in Reqs : UserCancelsOrExpires(r)
  BY <1>1, WithdrawalRows, NoDataBegins DEF UserCancelsOrExpires, CancelSendRequest, ExpireDueSendRequest, Expire,
     localVars, worldVars
<1>2. CASE TimePasses \/ UNCHANGED vars
  BY <1>2, NoRowChanges, NoDataBegins DEF TimePasses, Tick, vars, storeVars, localVars, worldVars
<1>3. CASE Crash
  <2>1. /\ UNCHANGED <<req, lease, sends>>
        /\ exec' = exec \/ \E e \in Execs : ExecGoes(e, IdleExec)
    BY <1>3 DEF Crash, storeVars, worldVars
  <2> QED BY <2>1, NoRowChanges, NoDataBegins DEF IdleExec
<1> QED BY <1>1, <1>2, <1>3, ExecutionRows, WorkerRows, SyncRows DEF Next, Workers

\* Only a mail that was taken is archived: whoever stores its package knows that.
LEMMA PackagesStayOfSent ==
  ASSUME IInv, TruthInv, [Next]_vars, Grows
  PROVE  PackagesAreOfSent'
<1>0. \A r \in Reqs : pkg[r] # "none" => Happened(r)
  BY DEF TruthInv, PackagesAreOfSent
<1>1. ASSUME NEW r \in Reqs, NEW result \in ArchiveResults, PackageStored(r, result), Happened(r)
      PROVE  PackagesAreOfSent'
  BY <1>0, <1>1, PackageGrows DEF PackagesAreOfSent, Grows
<1>2. ASSUME pkg' = pkg PROVE PackagesAreOfSent'
  BY <1>0, <1>2 DEF PackagesAreOfSent, Grows
<1>3. ASSUME NEW e \in Execs, ExecStarts(e) \/ ExecStep(e) PROVE PackagesAreOfSent'
  <2>1. CASE \E related \in BOOLEAN, result \in ArchiveResults : StoresPackage(e, result, related)
    <3>1. exec[e].r \in Reqs /\ Happened(exec[e].r)
      BY <2>1, ExecFacts DEF ExecOK, StoresPackage, TruthInv, ExecutionsAreTrue, ExecIsTrue, Happened
    <3> QED BY <1>1, <2>1, <3>1 DEF StoresPackage
  <2>2. CASE ~\E related \in BOOLEAN, result \in ArchiveResults : StoresPackage(e, result, related)
    <3>1. pkg' = pkg
      BY <1>3, <2>2 DEF factVars, ExecStarts, ExecStep, SubmitLooksUp, GuiConfirms, SubmitCreates, SubmitFindsDuplicate,
         ClaimReadsClock, ClaimSucceeds, ClaimFails, StageReadsClock, StageCommits, StageFails, SendData,
         HandlerInspects, HandlerSettles, RecordsPendingFact, LooksForPackage, RecordsFinalFact, Finishes
    <3> QED BY <1>2, <3>1
  <2> QED BY <2>1, <2>2
<1>4. ASSUME NEW w \in Workers, WorkStep(w) \/ UserActs(w) \/ \E r \in Reqs : RecoveryLists(w, r)
      PROVE  PackagesAreOfSent'
  <2>1. CASE \E related \in BOOLEAN, result \in ArchiveResults : ArchiveStores(w, result, related)
    <3>1. work[w].r \in Reqs /\ Happened(work[w].r)
      BY <2>1, WorkerFacts DEF ArchiveStores, TruthInv, WorkersAreTrue, WorkIsTrue
    <3> QED BY <1>1, <2>1, <3>1 DEF ArchiveStores
  <2>2. CASE ~\E related \in BOOLEAN, result \in ArchiveResults : ArchiveStores(w, result, related)
    <3>1. pkg' = pkg
      BY <1>4, <2>2 DEF factVars, ReadOnly, WorkStep, UserActs, RecoveryLists, RecoveryReadsRow, RecoveryReadsLease,
         RecoveryJudges, ReconcileReadsRow, ReconcileReadsEvidence, ReconcileWrites, RecoveryLeavesUnknown,
         RecoveryDecides, ArchiveReadsRow, ArchiveReadsLease, ArchiveChecks, ArchiveLooks, ArchiveRecordsFact,
         ArchiveFinishes, UserReconciles, UserMarks, MarkWrites
    <3> QED BY <1>2, <3>1
  <2> QED BY <2>1, <2>2
<1>5. ASSUME NEW s \in Syncs, SyncStep(s) \/ \E r \in Reqs : SyncFinds(s, r) PROVE PackagesAreOfSent'
  <2>1. CASE \E result \in ArchiveResults : SyncStores(s, result)
    <3>1. sync[s].r \in Reqs /\ Happened(sync[s].r)
      BY <2>1 DEF IInv, SyncShape, SyncStores, Happened
    <3> QED BY <1>1, <2>1, <3>1 DEF SyncStores
  <2>2. CASE ~\E result \in ArchiveResults : SyncStores(s, result)
    <3>1. pkg' = pkg
      BY <1>5, <2>2 DEF factVars, SyncStep, SyncFinds, SyncPrepares, SyncLooks, SyncMaps, SyncUpdatesFact, SyncUpdatesRow
    <3> QED BY <1>2, <3>1
  <2> QED BY <2>1, <2>2
<1>6. CASE TimePasses \/ Crash \/ UNCHANGED vars \/ \E r \in Reqs : UserCancelsOrExpires(r)
  BY <1>2, <1>6 DEF TimePasses, Crash, vars, UserCancelsOrExpires, factVars
<1> QED BY <1>3, <1>4, <1>5, <1>6 DEF Next, Workers

-----------------------------------------------------------------------------
(* The theorems.                                                            *)

\* At the beginning nothing is reported and nothing is remembered.
LEMMA TruthInit == ASSUME Init PROVE TruthInv
<1>1. RowsAreTrue /\ PackagesAreOfSent
  BY DEF Init, StoreInit, AbsentRow, RowsAreTrue, RowIsTrue, StageIsTrue, PackagesAreOfSent, AcceptanceProven, Reported
<1>2. ExecutionsAreTrue /\ SyncsAreTrue
  BY DEF Init, IdleExec, IdleSync, ExecutionsAreTrue, ExecIsTrue, StagePcs, SyncsAreTrue, SyncIsTrue
<1>3. WorkersAreTrue
  BY DEF Init, IdleWork, AbsentRow, WorkersAreTrue, WorkIsTrue, VerdictIsDue, AcceptanceProven
<1> QED BY <1>1, <1>2, <1>3 DEF TruthInv

\* Every step keeps what is reported, remembered and about to be written true.
LEMMA TruthStep == ASSUME IInv, TruthInv, [Next]_vars PROVE TruthInv'
<1>1. Grows
  BY WorldGrows
<1> QED
  BY <1>1, RowsStayTrue, PackagesStayOfSent, ExecutionsStayTrue, WorkersStayTrue, SyncsStayTrue DEF TruthInv

\* On every instance, everything that is reported, remembered or about to be written
\* about a request rests on a fact.
THEOREM TruthInvariance == Spec => []TruthInv
  BY Invariance, TruthInit, TruthStep, PTL DEF Spec

\* No recovery and no synchronisation turns an uncertain outcome into a delivery,
\* on every instance.
THEOREM ReportsAreTrue == Spec => []SentIsTrue
<1>1. TruthInv => SentIsTrue
  BY DEF TruthInv, RowsAreTrue, RowIsTrue, Reported, Happened, SentIsTrue
<1> QED BY <1>1, TruthInvariance, PTL

\* "sent" has a complete, linked package, on every instance.
THEOREM SentIsArchived == Spec => []SentHasArchive
<1>1. TruthInv => SentHasArchive
  BY DEF TruthInv, RowsAreTrue, RowIsTrue, Stored, SentHasArchive
<1> QED BY <1>1, TruthInvariance, PTL

\* "matched" has a Sent mapping of an archived package, on every instance.
THEOREM MatchedIsMapped == Spec => []MatchedHasMapping
<1>1. TruthInv => MatchedHasMapping
  BY DEF TruthInv, RowsAreTrue, RowIsTrue, MatchedHasMapping
<1> QED BY <1>1, TruthInvariance, PTL

\* A recovery comes to "definitely_not_sent" on a row that is still "sending" or was
\* taken over, and the stage such a row or its lease holds tells of every byte that
\* may have left: a denial on fresh facts is true, on every instance.
LEMMA DenialStep ==
  ASSUME IInv, TruthInv, [Next]_vars, NEW w \in Recoverers,
         work[w].pc = "verdict", work'[w].pc # "verdict",
         work[w].row = req[work[w].r], work[w].lease = lease[work[w].r],
         req[work[w].r].status \in RECOVERY_SEND_STATUSES,
         req'[work[w].r].status = "definitely_not_sent"
  PROVE  sends[work[w].r] = 0 /\ \A e \in Execs : ~(exec[e].r = work[w].r /\ exec[e].pc = "data")
<1>0. w \in Workers /\ work[w].r \in Reqs
  BY WorkerFacts DEF Workers
<1>1. PICK r \in Reqs : r = work[w].r
  BY <1>0
<1> DEFINE row == req[r]  l == lease[r]
<1>2. row.status # "definitely_not_sent" /\ row.status \in RECOVERY_SEND_STATUSES
  BY <1>1 DEF RECOVERY_SEND_STATUSES
<1>3. req' # req
  BY <1>1, <1>2
<1>4. RecoveryDecides(w)
  <2>1. WorkStep(w) \/ UserActs(w) \/ (\E q \in Reqs : RecoveryLists(w, q)) \/ Crash
    BY <1>0, OthersLeaveWorkerAlone
  <2>2. ~Crash
    BY <1>3 DEF Crash, storeVars
  <2> QED
    BY <1>3, <2>1, <2>2 DEF WorkStep, UserActs, RecoveryLists, RecoveryReadsRow, RecoveryReadsLease, RecoveryJudges,
       ReconcileReadsRow, ReconcileReadsEvidence, ReconcileWrites, RecoveryLeavesUnknown, ArchiveReadsRow,
       ArchiveReadsLease, ArchiveChecks, ArchiveLooks, ArchiveStores, ArchiveRecordsFact,
       ArchiveFinishes, UserReconciles, UserMarks, MarkWrites, ReadOnly, storeVars
<1>5. req'[r].status = RecoveryVerdict(row, l) /\ row.status # "delivery_unknown"
  <2>1. /\ row.status # "delivery_unknown"
        /\ \E o, p : req' = [req EXCEPT ![r] = Completed(row, RecoveryVerdict(row, l), o, p)]
    BY <1>1, <1>4 DEF RecoveryDecides, CompleteSendRequest
  <2>2. \A v, o, p : Completed(row, v, o, p).status = v
    BY WorldFacts DEF Completed, Row
  <2> QED BY <2>1, <2>2, WorldFacts
<1>6. InterruptedStage(row, l) \notin UNCERTAIN_STAGES
  BY <1>1, <1>5 DEF RecoveryVerdict
<1>7. row.status \in {"sending", "recovery_required"}
  BY <1>0, <1>1, <1>2, <1>5 DEF TruthInv, WorkersAreTrue, VerdictIsDue, RECOVERY_SEND_STATUSES
<1>8. StageIsTrue(r)
  BY DEF TruthInv, RowsAreTrue
<1>9. ~DataBegun(r)
  <2>1. CASE row.status = "sending"
    BY <1>6, <1>8, <2>1 DEF StageIsTrue, InterruptedStage
  <2>2. CASE row.status = "recovery_required"
    BY <1>6, <1>8, <2>2, OwnerAssumption DEF StageIsTrue, InterruptedStage, NoLease
  <2> QED BY <1>7, <2>1, <2>2
<1> QED BY <1>1, <1>9, WorldFacts DEF DataBegun

\* A fresh denial is true, on every instance.
THEOREM FreshDenials == Spec => FreshDenialIsTrue
<1>1. IInv /\ TruthInv /\ [Next]_vars => FreshDenial
  BY DenialStep DEF FreshDenial
<1> QED BY <1>1, Invariance, TruthInvariance, PTL DEF Spec, FreshDenialIsTrue
=============================================================================
