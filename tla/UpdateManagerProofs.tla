------------------------- MODULE UpdateManagerProofs -------------------------
(***************************************************************************)
(* Proofs about UpdateManager, for every number of processes and versions. *)
(* The steps of the commands have few shapes: take the lock, advance       *)
(* inside the critical section, leave it, move without it.  One lemma      *)
(* shows for each shape that it preserves the inductive invariant; the     *)
(* proof of a command's step then only has to find its shape.              *)
(***************************************************************************)
EXTENDS UpdateManager, TLAPS

(* The two kinds of steps are apart: no free step is a locked one. *)
LEMMA FreeNotLocked == \A l \in FreePcs : l \notin LockedPcs
  BY DEF FreePcs, LockedPcs, PreparePcs, InstallPcs, WaitPcs

(* At a free step nothing is relied on. *)
LEMMA FreeStepFits == \A l \in FreePcs : \A r : StepFits(l, r)
  BY DEF FreePcs, WaitPcs, StepFits

(* Recovery returns a record, and one that still has its candidate. *)
LEMMA RecoveredRecord ==
  ASSUME NEW r \in Records
  PROVE  /\ Recovered(r) \in Records
         /\ (RequiresCandidate(r.state) => RetainedCandidateIsValid(r))
              => (RequiresCandidate(Recovered(r).state)
                    => RetainedCandidateIsValid(Recovered(r)))
  <1> DEFINE kept == NeedsRecovery(r) /\ (r.state = "ready-to-install" \/ FailedExitWait(r))
  <1>1. CASE ~NeedsRecovery(r)
    <2>1. Recovered(r) = r
      BY <1>1 DEF Recovered
    <2> QED BY <2>1
  <1>2. CASE kept
    <2> DEFINE k == [r EXCEPT !.state = "ready-to-install", !.requested = FALSE,
                              !.command = FALSE, !.exitWaitFailed = FALSE]
    <2>1. Recovered(r) = k
      BY <1>2 DEF Recovered
    <2>2. k \in Records /\ k.candidate = r.candidate
      BY DEF Records, States
    <2>3. FailedExitWait(r) => RetainedCandidateIsValid(r)
      BY <1>2 DEF NeedsRecovery, Stale, Expires, FailedExitWait, PreparationActive
    <2>4. r.state = "ready-to-install" => RequiresCandidate(r.state)
      BY DEF RequiresCandidate
    <2> QED BY <1>2, <2>1, <2>2, <2>3, <2>4 DEF RetainedCandidateIsValid
  <1>3. CASE NeedsRecovery(r) /\ ~kept
    <2> DEFINE f == [r EXCEPT !.state = "failed", !.requested = FALSE,
                              !.exitWaitFailed = FALSE]
    <2>1. Recovered(r) = f
      BY <1>3 DEF Recovered
    <2>2. f \in Records /\ f.state = "failed"
      BY DEF Records, States
    <2> QED BY <2>1, <2>2 DEF RequiresCandidate
  <1> QED BY <1>1, <1>2, <1>3

-----------------------------------------------------------------------------
(* The shapes of steps. *)

(* The history is a truth value, whatever it was. *)
LEMMA WatchTyped ==
  ASSUME Watch
  PROVE  arrived' \in BOOLEAN
  BY DEF Watch

(* A process that holds the lock is alone at a locked step. *)
LEMMA OthersAreFree ==
  ASSUME IndInv, NEW p \in Procs, NEW q \in Procs, q # p,
         lock = p \/ lock = None
  PROVE  pc[q] \in FreePcs
  BY ConstantsAssumption DEF IndInv, TypeOK

(* The labels at which commands start, with nothing relied on. *)
EntryPcs == {"updating", "cancelling", "entering", "deciding", "discarding",
             "reconciling", "launching", "repairing", "recovering"}

(* A command that has only started relies on nothing. *)
LEMMA EntryStepFits ==
  /\ EntryPcs \subseteq LockedPcs
  /\ "helping" \notin EntryPcs
  /\ \A l \in EntryPcs : \A r : StepFits(l, r)
  BY DEF EntryPcs, StepFits, LockedPcs, InstallPcs

(* Taking the free lock and loading, or recovering, the record. *)
LEMMA OpeningStep ==
  ASSUME IndInv, NEW p \in Procs, NEW l \in EntryPcs, pc[p] \in FreePcs,
         lock = None, lock' = p, Goto(p, l),
         rec' \in Records, aged' \in BOOLEAN, mem' = [mem EXCEPT ![p] = rec'],
         CandidateRetained', Quiet
  PROVE  IndInv'
  <1> USE DEF IndInv
  <1>1. pc' \in [Procs -> LockedPcs \union FreePcs] /\ pc'[p] = l
    BY EntryStepFits DEF TypeOK, Goto
  <1>2. \A q \in Procs \ {p} : pc'[q] = pc[q] /\ pc[q] \in FreePcs
    BY OthersAreFree DEF TypeOK, Goto
  <1>3. TypeOK'
    BY <1>1, WatchTyped DEF TypeOK, Quiet
  <1>4. (\A q \in Procs : lock = q <=> pc[q] \in LockedPcs)'
    BY <1>1, <1>2, FreeNotLocked, EntryStepFits
  <1>5. HolderIsCurrent'
    BY DEF HolderIsCurrent, TypeOK
  <1>6. (\A q \in Procs : StepFits(pc[q], rec))'
    <2> SUFFICES ASSUME NEW q \in Procs
                 PROVE  StepFits(pc[q], rec)'
      OBVIOUS
    <2>1. CASE q = p
      BY <2>1, <1>1 DEF EntryPcs, StepFits
    <2>2. CASE q # p
      BY <2>2, <1>2 DEF FreePcs, WaitPcs, StepFits
    <2> QED BY <2>1, <2>2
  <1>7. HelperServes'
    <2>1. "helping" \notin FreePcs
      BY DEF FreePcs, WaitPcs
    <2>2. \A q \in Procs : pc'[q] # "helping" /\ pc[q] # "helping"
      BY <1>1, <1>2, <2>1, EntryStepFits
    <2>3. helper.owner = None
      BY <2>2 DEF HelperServes, TypeOK, Helpers, Procs
    <2> QED BY <2>2, <2>3 DEF Quiet, HelperServes, Procs
  <1> QED BY <1>3, <1>4, <1>5, <1>6, <1>7

(* Going on inside the critical section. *)
LEMMA InsideStep ==
  ASSUME IndInv, NEW p \in Procs, NEW l \in LockedPcs, lock = p,
         pc[p] # "helping", l # "helping", Goto(p, l), UNCHANGED lock,
         rec' \in Records, aged' \in BOOLEAN, mem' = [mem EXCEPT ![p] = rec'],
         ws' \in [Versions -> {"absent", "partial", "valid"}],
         app' \in BOOLEAN, UNCHANGED <<helper, installed>>, Watch,
         CandidateRetained', StepFits(l, rec)'
  PROVE  IndInv'
  <1> USE DEF IndInv
  <1>1. pc' \in [Procs -> LockedPcs \union FreePcs] /\ pc'[p] = l
    BY DEF TypeOK, Goto
  <1>2. \A q \in Procs \ {p} : pc'[q] = pc[q] /\ pc[q] \in FreePcs
    BY OthersAreFree DEF TypeOK, Goto
  <1>3. TypeOK'
    BY <1>1, WatchTyped DEF TypeOK
  <1>4. (\A q \in Procs : lock = q <=> pc[q] \in LockedPcs)'
    BY <1>1, <1>2, FreeNotLocked
  <1>5. HolderIsCurrent'
    BY DEF HolderIsCurrent, TypeOK
  <1>6. (\A q \in Procs : StepFits(pc[q], rec))'
    <2> SUFFICES ASSUME NEW q \in Procs
                 PROVE  StepFits(pc[q], rec)'
      OBVIOUS
    <2>1. CASE q = p
      BY <2>1, <1>1 DEF StepFits
    <2>2. CASE q # p
      BY <2>2, <1>2 DEF FreePcs, WaitPcs, StepFits
    <2> QED BY <2>1, <2>2
  <1>7. HelperServes'
    <2>1. "helping" \notin FreePcs
      BY DEF FreePcs, WaitPcs
    <2>2. \A q \in Procs : pc'[q] # "helping" /\ pc[q] # "helping"
      BY <1>1, <1>2, <2>1
    <2>3. helper.owner = None
      BY <2>2 DEF HelperServes, TypeOK, Helpers, Procs
    <2> QED BY <2>2, <2>3 DEF HelperServes, Procs
  <1> QED BY <1>3, <1>4, <1>5, <1>6, <1>7

(* Dropping the lock. *)
LEMMA LeavingStep ==
  ASSUME IndInv, NEW p \in Procs, NEW l \in FreePcs, lock = p,
         pc[p] # "helping", Goto(p, l), lock' = None,
         rec' \in Records, aged' \in BOOLEAN,
         NEW m \in Records, mem' = [mem EXCEPT ![p] = m],
         ws' \in [Versions -> {"absent", "partial", "valid"}],
         UNCHANGED <<helper, installed, app>>, Watch, CandidateRetained'
  PROVE  IndInv'
  <1> USE DEF IndInv
  <1>1. pc' \in [Procs -> LockedPcs \union FreePcs] /\ pc'[p] = l
    BY DEF TypeOK, Goto
  <1>2. \A q \in Procs : pc'[q] \in FreePcs
    <2>1. \A q \in Procs \ {p} : pc'[q] = pc[q] /\ pc[q] \in FreePcs
      BY OthersAreFree DEF TypeOK, Goto
    <2> QED BY <1>1, <2>1
  <1>3. TypeOK'
    BY <1>1, WatchTyped DEF TypeOK
  <1>4. (\A q \in Procs : lock = q <=> pc[q] \in LockedPcs)'
    BY <1>2, FreeNotLocked, ConstantsAssumption
  <1>5. HolderIsCurrent'
    BY ConstantsAssumption DEF HolderIsCurrent
  <1>6. (\A q \in Procs : StepFits(pc[q], rec))'
    BY <1>2 DEF FreePcs, WaitPcs, StepFits
  <1>7. HelperServes'
    <2>1. "helping" \notin FreePcs
      BY DEF FreePcs, WaitPcs
    <2>2. \A q \in Procs : pc'[q] # "helping" /\ pc[q] # "helping"
      BY <1>1, <1>2, <2>1 DEF TypeOK, Goto
    <2>3. helper.owner = None
      BY <2>2 DEF HelperServes, TypeOK, Helpers, Procs
    <2> QED BY <2>2, <2>3 DEF HelperServes, Procs
  <1> QED BY <1>3, <1>4, <1>5, <1>6, <1>7

(* A step without the lock, next to a critical section of anyone. *)
LEMMA FreeStep ==
  ASSUME IndInv, NEW p \in Procs, NEW l \in FreePcs, pc[p] \in FreePcs,
         Goto(p, l), NEW m \in Records, mem' = [mem EXCEPT ![p] = m],
         UNCHANGED <<rec, aged, lock>>, Quiet
  PROVE  IndInv'
  <1> USE DEF IndInv, Quiet
  <1>1. pc' \in [Procs -> LockedPcs \union FreePcs] /\ pc'[p] = l
    BY DEF TypeOK, Goto
  <1>2. \A q \in Procs \ {p} : pc'[q] = pc[q] /\ mem'[q] = mem[q]
    BY DEF TypeOK, Goto
  <1>3. TypeOK'
    BY <1>1, WatchTyped DEF TypeOK
  <1>4. lock # p
    BY FreeNotLocked
  <1>5. (\A q \in Procs : lock = q <=> pc[q] \in LockedPcs)'
    BY <1>1, <1>2, <1>4, FreeNotLocked
  <1>6. HolderIsCurrent'
    BY <1>2, <1>4 DEF HolderIsCurrent
  <1>7. (\A q \in Procs : StepFits(pc[q], rec))'
    <2> SUFFICES ASSUME NEW q \in Procs
                 PROVE  StepFits(pc[q], rec)'
      OBVIOUS
    <2>1. CASE q = p
      BY <2>1, <1>1 DEF FreePcs, WaitPcs, StepFits
    <2>2. CASE q # p
      BY <2>2, <1>2 DEF StepFits
    <2> QED BY <2>1, <2>2
  <1>8. HelperServes'
    <2>1. pc[p] # "helping" /\ l # "helping"
      BY DEF FreePcs, WaitPcs
    <2> QED BY <1>1, <1>2, <2>1 DEF HelperServes, TypeOK, Helpers, Procs
  <1>9. CandidateRetained'
    BY DEF CandidateRetained, RetainedCandidateIsValid
  <1> QED BY <1>3, <1>5, <1>6, <1>7, <1>8, <1>9

-----------------------------------------------------------------------------
(* Facts used by many steps. *)

(* What a process at a locked step knows. *)
LEMMA Holding ==
  ASSUME IndInv, NEW p \in Procs, pc[p] \in LockedPcs
  PROVE  /\ lock = p
         /\ mem[p] = rec
         /\ rec \in Records
         /\ mem = [mem EXCEPT ![p] = rec]
         /\ StepFits(pc[p], rec)
  BY DEF IndInv, HolderIsCurrent, TypeOK

(* A moved record is a record, with the candidate it had. *)
LEMMA MovedRecord ==
  ASSUME NEW r \in Records, NEW s \in States
  PROVE  /\ Moved(r, s) \in Records
         /\ Moved(r, s).state = s
         /\ Moved(r, s).candidate = r.candidate
         /\ Moved(r, s).available = r.available
         /\ Moved(r, s).requested = r.requested
  BY DEF Moved, Records

(* Clearing the candidate fields touches neither state nor available version. *)
LEMMA ClearedRecord ==
  ASSUME NEW r \in Records
  PROVE  /\ ClearCandidateFields(r) \in Records
         /\ ClearCandidateFields(r).state = r.state
         /\ ClearCandidateFields(r).available = r.available
  BY DEF ClearCandidateFields, Records

(* Cleanup for the current record never takes what the record needs. *)
LEMMA CleanupRetains ==
  ASSUME IndInv, Cleanup(rec), UNCHANGED rec
  PROVE  /\ ws' \in [Versions -> {"absent", "partial", "valid"}]
         /\ CandidateRetained'
  BY DEF IndInv, TypeOK, Records, Cleanup, CandidateRetained, RetainedCandidateIsValid

(* A record that needs no candidate is retained whatever the workspaces. *)
LEMMA NothingToRetain ==
  ASSUME ~RequiresCandidate(rec'.state)
  PROVE  CandidateRetained'
  BY DEF CandidateRetained

(* The same candidate over the same workspaces stays retained. *)
LEMMA StillRetained ==
  ASSUME IndInv, UNCHANGED ws, rec'.candidate = rec.candidate,
         RequiresCandidate(rec'.state) => RequiresCandidate(rec.state)
  PROVE  CandidateRetained'
  BY DEF IndInv, CandidateRetained, RetainedCandidateIsValid

(* Opening with recovery, as every command does. *)
LEMMA OpenPreserves ==
  ASSUME IndInv, NEW p \in Procs, NEW l \in EntryPcs, pc[p] \in FreePcs,
         Open(p, l), Quiet
  PROVE  IndInv'
  <1>1. rec' \in Records
    BY RecoveredRecord DEF Open, IndInv, TypeOK
  <1>2. CandidateRetained'
    <2>1. RequiresCandidate(rec'.state) => RetainedCandidateIsValid(rec')
      BY RecoveredRecord DEF Open, IndInv, TypeOK, CandidateRetained
    <2> QED BY <2>1 DEF CandidateRetained, RetainedCandidateIsValid, Quiet
  <1>3. aged' \in BOOLEAN
    BY DEF Open, IndInv, TypeOK
  <1> QED BY <1>1, <1>2, <1>3, OpeningStep DEF Open, Keep

(* Opening without recovery, as relaunch, status and the daemon do. *)
LEMMA LoadPreserves ==
  ASSUME IndInv, NEW p \in Procs, NEW l \in EntryPcs, pc[p] \in FreePcs,
         Load(p, l), Quiet
  PROVE  IndInv'
  <1>1. rec' \in Records /\ aged' \in BOOLEAN
    BY DEF Load, IndInv, TypeOK
  <1>2. CandidateRetained'
    BY StillRetained DEF Load, Quiet
  <1> QED BY <1>1, <1>2, OpeningStep DEF Load, Keep

(* Advancing to a record that needs no candidate. *)
LEMMA AdvancePreserves ==
  ASSUME IndInv, NEW p \in Procs, NEW l \in LockedPcs, NEW r \in Records,
         pc[p] \in LockedPcs, pc[p] # "helping", l # "helping",
         Advance(p, r, l), UNCHANGED <<helper, installed, app>>, Watch,
         ws' \in [Versions -> {"absent", "partial", "valid"}],
         CandidateRetained', StepFits(l, rec)'
  PROVE  IndInv'
  <1>1. app' \in BOOLEAN /\ aged' \in BOOLEAN
    BY DEF IndInv, TypeOK, Advance, Put
  <1> QED BY <1>1, Holding, InsideStep DEF Advance, Put, Keep

(* Moving inside the critical section without saving. *)
LEMMA MovePreserves ==
  ASSUME IndInv, NEW p \in Procs, NEW l \in LockedPcs,
         pc[p] \in LockedPcs, pc[p] # "helping", l # "helping",
         Goto(p, l), UNCHANGED <<rec, aged, lock, mem, helper, installed>>, Watch,
         app' \in BOOLEAN,
         ws' \in [Versions -> {"absent", "partial", "valid"}],
         CandidateRetained', StepFits(l, rec)'
  PROVE  IndInv'
  <1>1. aged' \in BOOLEAN /\ mem' = [mem EXCEPT ![p] = rec'] /\ rec' \in Records
    BY Holding DEF IndInv, TypeOK
  <1> QED BY <1>1, Holding, InsideStep

(* Leaving, with or without a last save. *)
LEMMA LeavePreserves ==
  ASSUME IndInv, NEW p \in Procs, NEW l \in FreePcs,
         pc[p] \in LockedPcs, pc[p] # "helping", Leave(p, l),
         rec' \in Records, aged' \in BOOLEAN,
         ws' \in [Versions -> {"absent", "partial", "valid"}],
         UNCHANGED <<helper, installed, app>>, Watch, CandidateRetained'
  PROVE  IndInv'
  <1>1. DefaultRecord \in Records
    BY DEF DefaultRecord, Records, States
  <1> QED BY <1>1, Holding, LeavingStep DEF Leave, Keep

-----------------------------------------------------------------------------
(* The commands. *)

(* What clients start. *)
LEMMA StartPreserves ==
  ASSUME IndInv, NEW p \in Procs, Start(p)
  PROVE  IndInv'
  <1>1. CASE BeginUpdate(p)
    BY <1>1, OpenPreserves DEF BeginUpdate, EntryPcs, FreePcs
  <1>2. CASE BeginCheck(p)
    BY <1>2, OpenPreserves DEF BeginCheck, EntryPcs, FreePcs
  <1>3. CASE BeginDiscard(p)
    BY <1>3, OpenPreserves DEF BeginDiscard, EntryPcs, FreePcs
  <1>4. CASE BeginReconcile(p)
    BY <1>4, OpenPreserves DEF BeginReconcile, EntryPcs, FreePcs
  <1> QED BY <1>1, <1>2, <1>3, <1>4 DEF Start

(* Preparation. *)
LEMMA PreparePreserves ==
  ASSUME IndInv, NEW p \in Procs, Prepare(p)
  PROVE  IndInv'
  <1> USE DEF LockedPcs, PreparePcs, InstallPcs
  <1>0. /\ ws \in [Versions -> {"absent", "partial", "valid"}]
        /\ app \in BOOLEAN /\ aged \in BOOLEAN
    BY DEF IndInv, TypeOK
  <1>1. CASE RefuseUpdate(p)
    <2>1. rec' \in Records /\ CandidateRetained'
      BY <1>1, Holding, StillRetained DEF RefuseUpdate, Quiet
    <2> QED BY <1>0, <1>1, <2>1, LeavePreserves DEF RefuseUpdate, Quiet, FreePcs
  <1>2. CASE BeginPrepare(p)
    <2>1. mem[p] = rec /\ rec.available # None
      BY <1>2, Holding DEF BeginPrepare, UpdateRefused
    <2>2. StepFits("preparing", rec)'
      BY <1>2, <2>1 DEF BeginPrepare, StepFits
    <2>3. ws' \in [Versions -> {"absent", "partial", "valid"}] /\ CandidateRetained'
      BY <1>2, <2>1, CleanupRetains DEF BeginPrepare
    <2> QED BY <1>0, <1>2, <2>2, <2>3, MovePreserves DEF BeginPrepare
  <1>3. CASE BeginDownload(p)
    <2> DEFINE r == Moved(ClearCandidateFields(rec), "downloading")
    <2>1. mem[p] = rec /\ rec \in Records /\ rec.available # None
      BY <1>3, Holding DEF BeginDownload, StepFits
    <2>2. r \in Records /\ r.state = "downloading" /\ r.available # None
      BY <2>1, ClearedRecord, MovedRecord DEF States
    <2>3. rec' = r
      BY <1>3, <2>1 DEF BeginDownload, Advance, Put
    <2>4. StepFits("downloading", rec)' /\ CandidateRetained'
      BY <2>2, <2>3, NothingToRetain DEF StepFits, RequiresCandidate
    <2> QED BY <1>0, <1>3, <2>1, <2>2, <2>4, AdvancePreserves DEF BeginDownload, Quiet
  <1>4. CASE BeginBuild(p)
    <2> DEFINE r == Moved(rec, "building")
    <2>1. mem[p] = rec /\ rec \in Records /\ rec.available # None
      BY <1>4, Holding DEF BeginBuild, StepFits
    <2>2. r \in Records /\ r.state = "building" /\ r.available # None
      BY <2>1, MovedRecord DEF States
    <2>3. rec' = r /\ ws' \in [Versions -> {"absent", "partial", "valid"}]
      BY <1>0, <1>4, <2>1 DEF BeginBuild, Advance, Put
    <2>4. StepFits("building", rec)' /\ CandidateRetained'
      BY <2>2, <2>3, NothingToRetain DEF StepFits, RequiresCandidate
    <2> QED BY <1>0, <1>4, <2>1, <2>2, <2>3, <2>4, AdvancePreserves DEF BeginBuild
  <1>5. CASE BuildPackage(p)
    <2>1. /\ rec.state \in {"downloading", "building", "validating"}
          /\ rec.available # None
      BY <1>5, Holding DEF BuildPackage, StepFits
    <2>2. ws' \in [Versions -> {"absent", "partial", "valid"}]
      BY <1>0, <1>5 DEF BuildPackage
    <2>3. StepFits("packaging", rec)' /\ CandidateRetained'
      BY <1>5, <2>1, NothingToRetain DEF BuildPackage, StepFits, RequiresCandidate
    <2> QED BY <1>0, <1>5, <2>2, <2>3, MovePreserves DEF BuildPackage
  <1>6. CASE AcceptPackage(p)
    <2> DEFINE r == Moved(rec, "validating")
    <2>1. mem[p] = rec /\ rec \in Records /\ rec.available # None
      BY <1>6, Holding DEF AcceptPackage, StepFits
    <2>2. /\ r \in Records /\ r.state = "validating"
          /\ r.available = rec.available /\ r.available \in Versions
      BY <2>1, MovedRecord DEF States, Records
    <2>3. rec' = r /\ ws' = [ws EXCEPT ![r.available] = "valid"]
      BY <1>6, <2>1, <2>2 DEF AcceptPackage, Advance, Put
    <2>4. ws' \in [Versions -> {"absent", "partial", "valid"}]
      BY <1>0, <2>3
    <2>5. StepFits("validating", rec)' /\ CandidateRetained'
      BY <1>0, <2>1, <2>2, <2>3, NothingToRetain DEF StepFits, RequiresCandidate
    <2> QED BY <1>0, <1>6, <2>1, <2>2, <2>4, <2>5, AdvancePreserves DEF AcceptPackage
  <1>7. CASE RetainCandidate(p)
    <2> DEFINE r == [Moved(rec, "ready-to-install") EXCEPT
                       !.candidate = rec.available, !.available = None]
    <2>1. /\ mem[p] = rec /\ rec \in Records
          /\ rec.available # None /\ ws[rec.available] = "valid"
      BY <1>7, Holding DEF RetainCandidate, StepFits
    <2>2. r \in Records /\ r.candidate = rec.available
      BY <2>1 DEF Moved, States, Records
    <2>3. rec' = r /\ UNCHANGED ws
      BY <1>7, <2>1 DEF RetainCandidate, Advance, Put, Quiet
    <2>4. StepFits("announcing", rec)'
      BY DEF StepFits
    <2>5. CandidateRetained'
      BY <2>1, <2>2, <2>3 DEF CandidateRetained, RetainedCandidateIsValid
    <2> QED BY <1>0, <1>7, <2>1, <2>2, <2>4, <2>5, AdvancePreserves
            DEF RetainCandidate, Quiet
  <1>8. CASE Announce(p)
    <2>1. StepFits("updating", rec)' /\ CandidateRetained'
      BY <1>8, StillRetained DEF Announce, Quiet, StepFits
    <2> QED BY <1>0, <1>8, <2>1, MovePreserves DEF Announce, Quiet
  <1>9. CASE RejectCandidate(p)
    <2> DEFINE kept == IF pc[p] = "preparing" THEN ClearCandidateFields(rec) ELSE rec
               r == Moved(kept, "failed")
    <2>1. mem[p] = rec /\ rec \in Records
      BY <1>9, Holding DEF RejectCandidate
    <2>2. kept \in Records
      BY <2>1, ClearedRecord
    <2>3. r \in Records /\ r.state = "failed"
      BY <2>2, MovedRecord DEF States
    <2>4. rec' = r
      BY <1>9, <2>1 DEF RejectCandidate, Advance, Put
    <2>5. StepFits("rejecting", rec)' /\ CandidateRetained'
      BY <2>3, <2>4, NothingToRetain DEF StepFits, RequiresCandidate
    <2> QED BY <1>0, <1>9, <2>1, <2>3, <2>5, AdvancePreserves
            DEF RejectCandidate, Quiet
  <1>10. CASE CleanRejected(p)
    <2>1. mem[p] = rec /\ rec \in Records
      BY <1>10, Holding DEF CleanRejected
    <2>2. ws' \in [Versions -> {"absent", "partial", "valid"}] /\ CandidateRetained'
      BY <1>10, <2>1, CleanupRetains DEF CleanRejected
    <2> QED BY <1>0, <1>10, <2>1, <2>2, LeavePreserves DEF CleanRejected, FreePcs
  <1> QED BY <1>1, <1>2, <1>3, <1>4, <1>5, <1>6, <1>7, <1>8, <1>9, <1>10 DEF Prepare

(* Consent, exit wait, installation and relaunch. *)
LEMMA InstallPreserves ==
  ASSUME IndInv, NEW p \in Clients, Install(p)
  PROVE  IndInv'
  <1> USE DEF LockedPcs, PreparePcs, InstallPcs
  <1>p. p \in Procs
    BY DEF Procs
  <1>0. /\ ws \in [Versions -> {"absent", "partial", "valid"}]
        /\ app \in BOOLEAN /\ aged \in BOOLEAN
    BY DEF IndInv, TypeOK
  <1>1. CASE RequestInstall(p)
    <2> DEFINE r == [rec EXCEPT !.requested = TRUE]
    <2>1. mem[p] = rec /\ rec \in Records
      BY <1>1, <1>p, Holding DEF RequestInstall
    <2>2. r \in Records /\ r.candidate = rec.candidate /\ r.state = rec.state
      BY <2>1 DEF Records
    <2>3. rec' = r /\ aged' = FALSE
      BY <1>1, <2>1 DEF RequestInstall, Put
    <2>4. CandidateRetained'
      BY <1>1, <2>2, <2>3, StillRetained DEF RequestInstall, Quiet
    <2> QED BY <1>p, <1>0, <1>1, <2>2, <2>3, <2>4, LeavePreserves
            DEF RequestInstall, Quiet, FreePcs, WaitPcs
  <1>2. CASE EndWait(p)
    <2>1. mem[p] \in Records /\ mem' = [mem EXCEPT ![p] = mem[p]]
      BY <1>p, <1>2 DEF EndWait, IndInv, TypeOK
    <2>2. CASE app
      BY <1>p, <1>2, <2>1, <2>2, FreeStep DEF EndWait, Quiet, FreePcs, WaitPcs
    <2>3. CASE ~app
      BY <1>p, <1>2, <2>1, <2>3, FreeStep DEF EndWait, Quiet, FreePcs, WaitPcs
    <2> QED BY <2>2, <2>3
  <1>3. CASE BeginCancel(p)
    BY <1>p, <1>3, OpenPreserves DEF BeginCancel, EntryPcs, FreePcs, WaitPcs
  <1>4. CASE CancelInstallRequest(p)
    <2>1. mem[p] = rec /\ rec \in Records
      BY <1>p, <1>4, Holding DEF CancelInstallRequest
    <2>2. rec' \in Records /\ rec'.candidate = rec.candidate /\ rec'.state = rec.state
      BY <1>4, <2>1 DEF CancelInstallRequest, Put, Moved, Records
    <2>3. aged' \in BOOLEAN
      BY <1>0, <1>4 DEF CancelInstallRequest, Put
    <2>4. CandidateRetained'
      BY <1>4, <2>2, StillRetained DEF CancelInstallRequest, Quiet
    <2> QED BY <1>p, <1>0, <1>4, <2>2, <2>3, <2>4, LeavePreserves
            DEF CancelInstallRequest, Quiet, FreePcs
  <1>5. CASE BeginInstall(p)
    BY <1>p, <1>5, OpenPreserves DEF BeginInstall, EntryPcs, FreePcs, WaitPcs
  <1>6. CASE RefuseInstall(p)
    <2>1. rec' \in Records /\ CandidateRetained'
      BY <1>p, <1>6, Holding, StillRetained DEF RefuseInstall, Quiet
    <2> QED BY <1>p, <1>0, <1>6, <2>1, LeavePreserves DEF RefuseInstall, Quiet, FreePcs
  <1>7. CASE DeferInstall(p)
    <2>1. rec' \in Records /\ CandidateRetained'
      BY <1>p, <1>7, Holding, StillRetained DEF DeferInstall, Quiet
    <2> QED BY <1>p, <1>0, <1>7, <2>1, LeavePreserves DEF DeferInstall, Quiet, FreePcs
  <1>8. CASE InstallReady(p)
    <2> DEFINE r == Moved(rec, "installing")
    <2>1. mem[p] = rec /\ rec \in Records /\ rec.state = "ready-to-install"
      BY <1>p, <1>8, Holding DEF InstallReady
    <2>2. r \in Records /\ r.state = "installing" /\ r.candidate = rec.candidate
      BY <2>1, MovedRecord DEF States
    <2>3. rec' = r
      BY <1>8, <2>1 DEF InstallReady, Advance, Put
    <2>4. StepFits("installing", rec)'
      BY <2>2, <2>3 DEF StepFits
    <2>5. CandidateRetained'
      BY <1>8, <2>1, <2>2, <2>3, StillRetained DEF InstallReady, Quiet, RequiresCandidate
    <2> QED BY <1>p, <1>0, <1>8, <2>1, <2>2, <2>4, <2>5, AdvancePreserves
            DEF InstallReady, Quiet
  <1>9. CASE AuthorizationDenied(p)
    <2> DEFINE r == [Moved(rec, "ready-to-install") EXCEPT
                       !.requested = FALSE, !.command = FALSE]
    <2>1. mem[p] = rec /\ rec \in Records /\ rec.state = "installing"
      BY <1>p, <1>9, Holding DEF AuthorizationDenied, StepFits
    <2>2. r \in Records /\ r.candidate = rec.candidate
      BY <2>1 DEF Moved, Records, States
    <2>3. rec' = r
      BY <1>9, <2>1 DEF AuthorizationDenied, Advance, Put
    <2>4. StepFits("settled", rec)'
      BY DEF StepFits
    <2>5. CandidateRetained'
      BY <1>9, <2>1, <2>2, <2>3, StillRetained
      DEF AuthorizationDenied, Quiet, RequiresCandidate
    <2> QED BY <1>p, <1>0, <1>9, <2>1, <2>2, <2>4, <2>5, AdvancePreserves
            DEF AuthorizationDenied, Quiet
  <1>10. CASE HelperUnavailable(p)
    <2> DEFINE r == [Moved(rec, "install-failed-manual-action") EXCEPT !.command = TRUE]
    <2>1. mem[p] = rec /\ rec \in Records /\ rec.state = "installing"
      BY <1>p, <1>10, Holding DEF HelperUnavailable, StepFits
    <2>2. r \in Records /\ r.candidate = rec.candidate
      BY <2>1 DEF Moved, Records, States
    <2>3. rec' = r
      BY <1>10, <2>1 DEF HelperUnavailable, Advance, Put
    <2>4. StepFits("settled", rec)'
      BY DEF StepFits
    <2>5. CandidateRetained'
      BY <1>10, <2>1, <2>2, <2>3, StillRetained
      DEF HelperUnavailable, Quiet, RequiresCandidate
    <2> QED BY <1>p, <1>0, <1>10, <2>1, <2>2, <2>4, <2>5, AdvancePreserves
            DEF HelperUnavailable, Quiet
  <1>11. CASE StartHelper(p)
    <2>1. lock = p /\ mem[p] = rec /\ rec \in Records /\ rec.state = "installing"
      BY <1>p, <1>11, Holding DEF StartHelper, StepFits
    <2>2. \A q \in Procs \ {p} : pc'[q] = pc[q] /\ pc[q] \in FreePcs
      BY <1>p, <1>11, <2>1, OthersAreFree DEF StartHelper, Goto, IndInv, TypeOK
    <2>3. pc' \in [Procs -> LockedPcs \union FreePcs] /\ pc'[p] = "helping"
      BY <1>p, <1>11 DEF StartHelper, Goto, IndInv, TypeOK
    <2>4. helper' \in Helpers
      BY <1>11, <2>1 DEF StartHelper, Helpers, Records
    <2>5. TypeOK'
      BY <1>11, <2>3, <2>4, WatchTyped DEF StartHelper, IndInv, TypeOK
    <2>6. (\A q \in Procs : lock = q <=> pc[q] \in LockedPcs)'
      BY <1>p, <1>11, <2>1, <2>2, <2>3, FreeNotLocked DEF StartHelper
    <2>7. HolderIsCurrent' /\ CandidateRetained'
      BY <1>11 DEF StartHelper, IndInv, HolderIsCurrent, CandidateRetained,
                   RetainedCandidateIsValid
    <2>8. (\A q \in Procs : StepFits(pc[q], rec))'
      <3> SUFFICES ASSUME NEW q \in Procs PROVE StepFits(pc[q], rec)'
        OBVIOUS
      <3>1. CASE q = p
        BY <1>11, <2>1, <2>3, <3>1 DEF StartHelper, StepFits
      <3>2. CASE q # p
        BY <2>2, <3>2 DEF FreePcs, WaitPcs, StepFits
      <3> QED BY <3>1, <3>2
    <2>9. HelperServes'
      BY <1>p, <1>11, <2>1, <2>2, <2>3
      DEF StartHelper, HelperServes, FreePcs, WaitPcs, Procs
    <2> QED BY <2>5, <2>6, <2>7, <2>8, <2>9 DEF IndInv
  <1>12. CASE SettleInstall(p)
    <2> DEFINE r == Settled(rec, helper.result)
    <2>1. lock = p /\ mem[p] = rec /\ rec \in Records /\ rec.state = "installing"
      BY <1>p, <1>12, Holding DEF SettleInstall, StepFits
    <2>2. r \in Records /\ r.candidate = rec.candidate
      BY <2>1 DEF Settled, Moved, Records, States
    <2>3. rec' = r /\ mem' = [mem EXCEPT ![p] = r] /\ UNCHANGED <<lock, ws>> /\ aged' = FALSE
      BY <1>12, <2>1 DEF SettleInstall, Advance, Put, Keep
    <2>4. \A q \in Procs \ {p} : pc'[q] = pc[q] /\ pc[q] \in FreePcs
      BY <1>p, <1>12, <2>1, OthersAreFree DEF SettleInstall, Advance, Goto, IndInv, TypeOK
    <2>5. pc' \in [Procs -> LockedPcs \union FreePcs] /\ pc'[p] = "settled"
      BY <1>p, <1>12 DEF SettleInstall, Advance, Goto, IndInv, TypeOK
    <2>6. helper' \in Helpers /\ helper'.owner = None
      BY <1>12 DEF SettleInstall, Helpers, NoHelper
    <2>7. TypeOK'
      BY <1>12, <2>2, <2>3, <2>5, <2>6, WatchTyped DEF SettleInstall, IndInv, TypeOK
    <2>8. (\A q \in Procs : lock = q <=> pc[q] \in LockedPcs)'
      BY <1>p, <2>1, <2>3, <2>4, <2>5, FreeNotLocked
    <2>9. HolderIsCurrent'
      BY <1>p, <2>1, <2>3 DEF HolderIsCurrent, IndInv, TypeOK
    <2>10. CandidateRetained'
      BY <2>1, <2>2, <2>3, StillRetained DEF RequiresCandidate
    <2>11. (\A q \in Procs : StepFits(pc[q], rec))'
      <3> SUFFICES ASSUME NEW q \in Procs PROVE StepFits(pc[q], rec)'
        OBVIOUS
      <3>1. CASE q = p
        BY <2>5, <3>1 DEF StepFits
      <3>2. CASE q # p
        BY <2>4, <3>2 DEF FreePcs, WaitPcs, StepFits
      <3> QED BY <3>1, <3>2
    <2>12. HelperServes'
      BY <2>4, <2>5, <2>6 DEF HelperServes, FreePcs, WaitPcs, Procs
    <2> QED BY <2>7, <2>8, <2>9, <2>10, <2>11, <2>12 DEF IndInv
  <1>13. CASE CloseInstall(p)
    <2> DEFINE r == [rec EXCEPT !.requested = FALSE]
    <2>1. mem[p] = rec /\ rec \in Records
      BY <1>p, <1>13, Holding DEF CloseInstall
    <2>2. r \in Records /\ r.candidate = rec.candidate /\ r.state = rec.state
      BY <2>1 DEF Records
    <2>3. rec' = r /\ aged' = FALSE
      BY <1>13, <2>1 DEF CloseInstall, Put
    <2>4. CandidateRetained'
      BY <1>13, <2>2, <2>3, StillRetained DEF CloseInstall, Quiet
    <2>5. CASE rec.state \in {"installed", "rolled-back"}
      <3>1. StepFits("sweeping", rec)'
        BY <2>2, <2>3, <2>5 DEF StepFits
      <3>2. Advance(p, r, "sweeping")
        BY <1>13, <2>1, <2>5 DEF CloseInstall, Advance
      <3> QED BY <1>p, <1>0, <1>13, <2>2, <2>4, <3>1, <3>2, AdvancePreserves
              DEF CloseInstall, Quiet
    <2>6. CASE rec.state \notin {"installed", "rolled-back"}
      BY <1>p, <1>0, <1>13, <2>1, <2>2, <2>3, <2>4, <2>6, LeavePreserves
      DEF CloseInstall, Quiet, FreePcs
    <2> QED BY <2>5, <2>6
  <1>14. CASE SweepInstalled(p)
    <2>1. mem[p] = rec /\ rec \in Records
      BY <1>p, <1>14, Holding DEF SweepInstalled
    <2>2. ws' \in [Versions -> {"absent", "partial", "valid"}] /\ CandidateRetained'
      BY <1>14, <2>1, CleanupRetains DEF SweepInstalled
    <2> QED BY <1>p, <1>0, <1>14, <2>1, <2>2, LeavePreserves DEF SweepInstalled, FreePcs
  <1>15. CASE BeginRelaunch(p)
    BY <1>p, <1>15, LoadPreserves DEF BeginRelaunch, EntryPcs, FreePcs
  <1>16. CASE SkipRelaunch(p)
    <2>1. rec' \in Records /\ CandidateRetained'
      BY <1>p, <1>16, Holding, StillRetained DEF SkipRelaunch, Quiet
    <2> QED BY <1>p, <1>0, <1>16, <2>1, LeavePreserves DEF SkipRelaunch, Quiet, FreePcs
  <1>17. CASE SpawnLauncher(p)
    <2>1. StepFits("launched", rec)' /\ CandidateRetained'
      BY <1>17, StillRetained DEF SpawnLauncher, StepFits
    <2>2. app' \in BOOLEAN
      BY <1>0, <1>17 DEF SpawnLauncher
    <2> QED BY <1>p, <1>0, <1>17, <2>1, <2>2, MovePreserves DEF SpawnLauncher
  <1>18. CASE FinishRelaunch(p)
    <2>1. rec' \in Records /\ CandidateRetained'
      BY <1>p, <1>18, Holding, StillRetained DEF FinishRelaunch, Quiet
    <2> QED BY <1>p, <1>0, <1>18, <2>1, LeavePreserves DEF FinishRelaunch, Quiet, FreePcs
  <1> QED BY <1>1, <1>2, <1>3, <1>4, <1>5, <1>6, <1>7, <1>8, <1>9, <1>10, <1>11,
             <1>12, <1>13, <1>14, <1>15, <1>16, <1>17, <1>18 DEF Install

(* check-now, of a client or of the daemon. *)
LEMMA CheckPreserves ==
  ASSUME IndInv, NEW p \in Procs, Check(p)
  PROVE  IndInv'
  <1> USE DEF LockedPcs, PreparePcs, InstallPcs
  <1>0. /\ ws \in [Versions -> {"absent", "partial", "valid"}]
        /\ app \in BOOLEAN /\ aged \in BOOLEAN
    BY DEF IndInv, TypeOK
  <1>d. Done(p) \in FreePcs
    BY DEF Done, FreePcs
  <1>1. CASE SkipCheck(p)
    <2>1. rec' \in Records /\ CandidateRetained'
      BY <1>1, Holding, StillRetained DEF SkipCheck, Quiet
    <2> QED BY <1>0, <1>d, <1>1, <2>1, LeavePreserves DEF SkipCheck, Quiet
  <1>2. CASE QueryUpstream(p)
    <2> DEFINE r == Moved(rec, "checking")
    <2>1. mem[p] = rec /\ rec \in Records
      BY <1>2, Holding DEF QueryUpstream
    <2>2. r \in Records /\ r.state = "checking"
      BY <2>1, MovedRecord DEF States
    <2>3. rec' = r
      BY <1>2, <2>1 DEF QueryUpstream, Advance, Put
    <2>4. StepFits("querying", rec)' /\ CandidateRetained'
      BY <2>2, <2>3, NothingToRetain
      DEF StepFits, RequiresCandidate
    <2> QED BY <1>0, <1>2, <2>1, <2>2, <2>4, AdvancePreserves DEF QueryUpstream, Quiet
  <1>3. CASE FinishCheck(p)
    <2>1. mem[p] = rec /\ rec \in Records
      BY <1>3, Holding DEF FinishCheck
    <2>2. /\ rec' \in Records
          /\ rec'.state \in {"update-available", "idle"}
          /\ aged' = FALSE
      BY <1>3, <2>1 DEF FinishCheck, Put, Moved, ClearCandidateFields, Records, States
    <2>3. CandidateRetained'
      BY <2>2, NothingToRetain DEF RequiresCandidate
    <2> QED BY <1>0, <1>d, <1>3, <2>2, <2>3, LeavePreserves DEF FinishCheck, Quiet
  <1>4. CASE FailCheck(p)
    <2>1. mem[p] = rec /\ rec \in Records
      BY <1>4, Holding DEF FailCheck
    <2>2. rec' \in Records /\ rec'.state = "failed" /\ aged' = FALSE
      BY <1>4, <2>1, MovedRecord DEF FailCheck, Put, States
    <2>3. CandidateRetained'
      BY <2>2, NothingToRetain DEF RequiresCandidate
    <2> QED BY <1>0, <1>d, <1>4, <2>2, <2>3, LeavePreserves DEF FailCheck, Quiet
  <1> QED BY <1>1, <1>2, <1>3, <1>4 DEF Check

(* discard-candidate and reconcile-install. *)
LEMMA ManagePreserves ==
  ASSUME IndInv, NEW p \in Procs, Manage(p)
  PROVE  IndInv'
  <1> USE DEF LockedPcs, PreparePcs, InstallPcs
  <1>0. /\ ws \in [Versions -> {"absent", "partial", "valid"}]
        /\ app \in BOOLEAN /\ aged \in BOOLEAN
    BY DEF IndInv, TypeOK
  <1>1. CASE DiscardCandidate(p)
    <2> DEFINE r == [Moved(rec, "idle") EXCEPT !.candidate = None, !.command = FALSE]
    <2>1. mem[p] = rec /\ rec \in Records
      BY <1>1, Holding DEF DiscardCandidate
    <2>2. r \in Records /\ r.state = "idle"
      BY <2>1 DEF Moved, Records, States
    <2>3. CASE mem[p].state = "installing" \/ mem[p].requested
      <3>1. UNCHANGED <<rec, aged>> /\ Leave(p, "off") /\ CandidateRetained'
        BY <1>1, <2>3, StillRetained DEF DiscardCandidate, Quiet
      <3> QED BY <1>0, <1>1, <2>1, <3>1, LeavePreserves
              DEF DiscardCandidate, Quiet, FreePcs
    <2>4. CASE ~(mem[p].state = "installing" \/ mem[p].requested)
      <3>1. Advance(p, r, "discarded") /\ rec' = r
        BY <1>1, <2>1, <2>4 DEF DiscardCandidate, Advance, Put
      <3>2. StepFits("discarded", rec)' /\ CandidateRetained'
        BY <2>2, <3>1, NothingToRetain DEF StepFits, RequiresCandidate
      <3> QED BY <1>0, <1>1, <2>2, <3>1, <3>2, AdvancePreserves
              DEF DiscardCandidate, Quiet
    <2> QED BY <2>3, <2>4
  <1>2. CASE CleanDiscarded(p)
    <2>1. mem[p] = rec /\ rec \in Records
      BY <1>2, Holding DEF CleanDiscarded
    <2>2. ws' \in [Versions -> {"absent", "partial", "valid"}] /\ CandidateRetained'
      BY <1>2, <2>1, CleanupRetains DEF CleanDiscarded
    <2> QED BY <1>0, <1>2, <2>1, <2>2, LeavePreserves DEF CleanDiscarded, FreePcs
  <1>3. CASE FindInstalled(p)
    <2>1. mem[p] = rec /\ Reconcilable(rec)
      BY <1>3, Holding DEF FindInstalled
    <2>2. StepFits("reconciled", rec)' /\ CandidateRetained'
      BY <1>3, <2>1, StillRetained DEF FindInstalled, Quiet, StepFits, Reconcilable
    <2> QED BY <1>0, <1>3, <2>2, MovePreserves DEF FindInstalled, Quiet
  <1>4. CASE RefuseReconcile(p)
    <2>1. rec' \in Records /\ CandidateRetained'
      BY <1>4, Holding, StillRetained DEF RefuseReconcile, Quiet
    <2> QED BY <1>0, <1>4, <2>1, LeavePreserves DEF RefuseReconcile, Quiet, FreePcs
  <1>5. CASE ReconcileInstall(p)
    <2>1. mem[p] = rec /\ rec \in Records
      BY <1>5, Holding DEF ReconcileInstall
    <2>2. rec' \in Records /\ rec'.state = "installed" /\ aged' = FALSE
      BY <1>5, <2>1 DEF ReconcileInstall, Put, Moved, Records, States
    <2>3. CandidateRetained'
      BY <2>2, NothingToRetain DEF RequiresCandidate
    <2> QED BY <1>0, <1>5, <2>2, <2>3, LeavePreserves
            DEF ReconcileInstall, Quiet, FreePcs
  <1> QED BY <1>1, <1>2, <1>3, <1>4, <1>5 DEF Manage

(* status and diagnose. *)
LEMMA StatusPreserves ==
  ASSUME IndInv, NEW p \in Procs,
         ReadStatus(p) \/ BeginRepair(p) \/ RepairStatus(p)
  PROVE  IndInv'
  <1> USE DEF LockedPcs, PreparePcs, InstallPcs
  <1>0. /\ ws \in [Versions -> {"absent", "partial", "valid"}]
        /\ app \in BOOLEAN /\ aged \in BOOLEAN /\ rec \in Records
    BY DEF IndInv, TypeOK
  <1>1. CASE ReadStatus(p)
    <2>1. Seen(rec) \in Records
      BY <1>0 DEF Seen, DefaultRecord, Records
    <2> QED BY <1>1, <2>1, FreeStep DEF ReadStatus, Keep, FreePcs
  <1>2. CASE BeginRepair(p)
    BY <1>2, LoadPreserves DEF BeginRepair, EntryPcs, FreePcs
  <1>3. CASE RepairStatus(p)
    <2>1. mem[p] = rec
      BY <1>3, Holding DEF RepairStatus
    <2>2. /\ rec' \in Records
          /\ RequiresCandidate(rec'.state) => RetainedCandidateIsValid(rec')
          /\ aged' \in BOOLEAN
      BY <1>0, <1>3, <2>1, RecoveredRecord
      DEF RepairStatus, Put, IndInv, CandidateRetained
    <2>3. CandidateRetained'
      BY <1>3, <2>2
      DEF RepairStatus, Quiet, CandidateRetained, RetainedCandidateIsValid
    <2> QED BY <1>0, <1>3, <2>2, <2>3, LeavePreserves DEF RepairStatus, Quiet, FreePcs
  <1> QED BY <1>1, <1>2, <1>3

(* The daemon's own steps. *)
LEMMA DaemonPreserves ==
  ASSUME IndInv, NEW d \in Daemons,
         \/ StartDaemon(d) \/ BeginStartup(d) \/ RecoverInterruptedInstall(d)
         \/ FinishStartup(d) \/ DecideCheck(d) \/ WakeUp(d)
  PROVE  IndInv'
  <1> USE DEF LockedPcs, PreparePcs, InstallPcs
  <1>p. d \in Procs
    BY DEF Procs
  <1>0. /\ ws \in [Versions -> {"absent", "partial", "valid"}]
        /\ app \in BOOLEAN /\ aged \in BOOLEAN
        /\ rec \in Records /\ mem \in [Procs -> Records]
    BY DEF IndInv, TypeOK
  <1>s. \A r \in Records : Seen(r) \in Records
    BY DEF Seen, DefaultRecord, Records, States
  <1>1. CASE StartDaemon(d)
    <2>1. pc[d] = "off" /\ mem[d] \in Records /\ mem' = [mem EXCEPT ![d] = mem[d]]
      BY <1>p, <1>0, <1>1 DEF StartDaemon
    <2> QED BY <1>p, <1>1, <2>1, FreeStep DEF StartDaemon, FreePcs
  <1>2. CASE BeginStartup(d)
    BY <1>p, <1>2, LoadPreserves DEF BeginStartup, EntryPcs, FreePcs
  <1>3. CASE RecoverInterruptedInstall(d)
    <2> DEFINE r == IF rec.state = "installing" \/ NeedsRecovery(rec)
                    THEN StartupRecord(rec) ELSE rec
    <2>1. mem[d] = rec /\ lock = d /\ mem = [mem EXCEPT ![d] = rec]
      BY <1>p, <1>3, Holding DEF RecoverInterruptedInstall
    <2>2. /\ r \in Records
          /\ RequiresCandidate(r.state) => RetainedCandidateIsValid(r)
      <3>1. CASE rec.state = "installing"
        <4>1. r = Moved(rec, "install-failed-manual-action")
          BY <3>1 DEF StartupRecord
        <4>2. RetainedCandidateIsValid(rec)
          BY <3>1 DEF IndInv, CandidateRetained, RequiresCandidate
        <4> QED BY <1>0, <4>1, <4>2, MovedRecord DEF States, RetainedCandidateIsValid
      <3>2. CASE rec.state # "installing"
        BY <1>0, <3>2, RecoveredRecord DEF StartupRecord, IndInv, CandidateRetained
      <3> QED BY <3>1, <3>2
    <2>3. rec' = r /\ mem' = [mem EXCEPT ![d] = r] /\ aged' \in BOOLEAN
      BY <1>0, <1>3, <2>1 DEF RecoverInterruptedInstall, Put, Keep
    <2>4. StepFits("startup", rec)'
      BY DEF StepFits
    <2>5. CandidateRetained'
      BY <1>3, <2>2, <2>3 DEF RecoverInterruptedInstall, Quiet, CandidateRetained,
                              RetainedCandidateIsValid
    <2> QED BY <1>p, <1>0, <1>3, <2>1, <2>2, <2>3, <2>4, <2>5, InsideStep
            DEF RecoverInterruptedInstall, Quiet
  <1>4. CASE FinishStartup(d)
    <2>1. mem[d] = rec /\ lock = d
      BY <1>p, <1>4, Holding DEF FinishStartup
    <2>2. ws' \in [Versions -> {"absent", "partial", "valid"}] /\ CandidateRetained'
      BY <1>4, <2>1, CleanupRetains DEF FinishStartup
    <2> QED BY <1>p, <1>0, <1>s, <1>4, <2>1, <2>2, LeavingStep
            DEF FinishStartup, Keep, FreePcs
  <1>5. CASE DecideCheck(d)
    <2>1. DefaultRecord \in Records
      BY DEF DefaultRecord, Records, States
    <2>2. CASE BlocksNewCandidate(mem[d].state)
      BY <1>p, <1>5, <2>1, <2>2, FreeStep DEF DecideCheck, Keep, FreePcs
    <2>3. CASE ~BlocksNewCandidate(mem[d].state)
      BY <1>p, <1>5, <2>1, <2>3, FreeStep DEF DecideCheck, Keep, FreePcs
    <2> QED BY <2>2, <2>3
  <1>6. CASE WakeUp(d)
    BY <1>p, <1>0, <1>s, <1>6, FreeStep DEF WakeUp, Keep, FreePcs
  <1> QED BY <1>1, <1>2, <1>3, <1>4, <1>5, <1>6

(* Giving up when the lock is taken. *)
LEMMA FindLockTakenPreserves ==
  ASSUME IndInv, NEW p \in Procs, FindLockTaken(p)
  PROVE  IndInv'
  <1>1. DefaultRecord \in Records
    BY DEF DefaultRecord, Records, States
  <1>2. pc[p] \in FreePcs
    BY DEF FindLockTaken, FreePcs, WaitPcs
  <1>3. CASE pc[p] = "check"
    BY <1>1, <1>2, <1>3, FreeStep DEF FindLockTaken, Keep, FreePcs
  <1>4. CASE pc[p] # "check"
    BY <1>1, <1>2, <1>4, FreeStep DEF FindLockTaken, Keep, FreePcs
  <1> QED BY <1>3, <1>4

(* The death of a process, wherever it is. *)
LEMMA CrashPreserves ==
  ASSUME IndInv, NEW p \in Procs, Crash(p)
  PROVE  IndInv'
  <1> USE DEF Crash, Goto, Keep
  <1>1. /\ pc' \in [Procs -> LockedPcs \union FreePcs]
        /\ pc'[p] = "off"
        /\ \A q \in Procs \ {p} : pc'[q] = pc[q] /\ mem'[q] = mem[q]
        /\ mem' \in [Procs -> Records]
    BY DEF IndInv, TypeOK, FreePcs, DefaultRecord, Records, States
  <1>2. helper' \in Helpers
    BY DEF IndInv, TypeOK, Helpers, NoHelper
  <1>3. TypeOK'
    BY <1>1, <1>2, WatchTyped DEF IndInv, TypeOK
  <1>4. "off" \notin LockedPcs
    BY DEF LockedPcs, PreparePcs, InstallPcs
  <1>5. (\A q \in Procs : lock = q <=> pc[q] \in LockedPcs)'
    BY <1>1, <1>4, ConstantsAssumption DEF IndInv
  <1>6. HolderIsCurrent'
    BY <1>1, ConstantsAssumption DEF IndInv, HolderIsCurrent
  <1>7. (\A q \in Procs : StepFits(pc[q], rec))'
    <2> SUFFICES ASSUME NEW q \in Procs PROVE StepFits(pc[q], rec)'
      OBVIOUS
    <2>1. CASE q = p
      BY <1>1, <2>1 DEF StepFits
    <2>2. CASE q # p
      BY <1>1, <2>2 DEF IndInv, StepFits
    <2> QED BY <2>1, <2>2
  <1>8. CandidateRetained'
    BY DEF IndInv, CandidateRetained, RetainedCandidateIsValid
  <1>9. HelperServes'
    <2>1. CASE helper.owner # p
      BY <1>1, <2>1 DEF IndInv, TypeOK, Helpers, HelperServes, Procs
    <2>2. CASE helper.owner = p
      <3>1. helper'.owner = None
        BY <2>2 DEF IndInv, TypeOK, Helpers, NoHelper
      <3>2. \A c \in Clients : pc'[c] # "helping"
        BY <1>1, <2>2 DEF IndInv, HelperServes, Procs
      <3> QED BY <3>1, <3>2 DEF HelperServes
    <2> QED BY <2>1, <2>2
  <1> QED BY <1>3, <1>5, <1>6, <1>7, <1>8, <1>9 DEF IndInv

(* The helper, the user and the clock. *)
LEMMA SurroundingsPreserve ==
  ASSUME IndInv, Surroundings
  PROVE  IndInv'
  <1> USE DEF IndInv
  <1>1. UNCHANGED <<rec, lock, pc, mem, ws>> /\ arrived' \in BOOLEAN
    BY WatchTyped
    DEF Surroundings, FinishHelper, ChangeInstalled, RunManualCommand, StartOrQuitApp, Age
  <1>2. /\ HolderIsCurrent'
        /\ CandidateRetained'
        /\ (\A q \in Procs : lock = q <=> pc[q] \in LockedPcs)'
        /\ (\A q \in Procs : StepFits(pc[q], rec))'
    BY <1>1 DEF HolderIsCurrent, CandidateRetained, RetainedCandidateIsValid, StepFits
  <1>3. TypeOK' /\ HelperServes'
    <2>1. CASE FinishHelper
      <3>1. PICK result \in {"installed", "rolled-back", "failed"} :
              helper' = IF helper.owner = None
                          THEN NoHelper ELSE [helper EXCEPT !.result = result]
        BY <2>1 DEF FinishHelper
      <3>2. helper' \in Helpers
        BY <3>1 DEF TypeOK, Helpers, NoHelper
      <3>3. TypeOK'
        BY <1>1, <2>1, <3>2 DEF FinishHelper, TypeOK
      <3>4. HelperServes'
        <4>1. CASE helper.owner = None
          <5>1. helper' = NoHelper /\ \A c \in Clients : pc[c] # "helping"
            BY <3>1, <4>1, ConstantsAssumption DEF HelperServes, Procs
          <5> QED BY <1>1, <5>1 DEF HelperServes, NoHelper
        <4>2. CASE helper.owner # None
          <5>1. /\ helper'.owner = helper.owner
                /\ helper'.candidate = helper.candidate
            BY <3>1, <4>2 DEF TypeOK, Helpers
          <5> QED BY <1>1, <5>1 DEF HelperServes
        <4> QED BY <4>1, <4>2
      <3> QED BY <3>3, <3>4
    <2>2. CASE RunManualCommand
      <3>1. helper' \in Helpers /\ helper'.owner = None
        BY <2>2 DEF RunManualCommand, TypeOK, Helpers, Records
      <3>2. \A c \in Clients : pc[c] # "helping"
        BY <2>2, ConstantsAssumption DEF RunManualCommand, HelperServes, NoHelper, Procs
      <3> QED BY <1>1, <2>2, <3>1, <3>2 DEF RunManualCommand, TypeOK, HelperServes
    <2>3. CASE ChangeInstalled
      BY <1>1, <2>3 DEF ChangeInstalled, TypeOK, HelperServes
    <2>4. CASE StartOrQuitApp
      BY <1>1, <2>4 DEF StartOrQuitApp, TypeOK, HelperServes
    <2>5. CASE Age
      BY <1>1, <2>5 DEF Age, TypeOK, HelperServes
    <2> QED BY <2>1, <2>2, <2>3, <2>4, <2>5 DEF Surroundings
  <1> QED BY <1>2, <1>3

-----------------------------------------------------------------------------
(* The theorems. *)

(* The machine's first state, whatever an older updater left behind. *)
LEMMA InitEstablishes == Init => IndInv
  <1> SUFFICES ASSUME Init PROVE IndInv
    OBVIOUS
  <1>1. /\ rec \in Records
        /\ ws \in [Versions -> {"absent", "partial", "valid"}]
        /\ rec.state \in {"idle", "failed"}
    <2>1. DefaultRecord \in Records /\ DefaultRecord.state = "idle"
      BY DEF DefaultRecord, Records, States
    <2>2. CASE rec = DefaultRecord /\ ws = [v \in Versions |-> "absent"]
      BY <2>1, <2>2
    <2>3. CASE \E v \in Versions, found \in {"absent", "partial", "valid"} :
                 /\ rec = [DefaultRecord EXCEPT !.state = "failed", !.candidate = v,
                                                !.exitWaitFailed = TRUE]
                 /\ ws = [[u \in Versions |-> "absent"] EXCEPT ![v] = found]
      <3>1. PICK v \in Versions, found \in {"absent", "partial", "valid"} :
              /\ rec = [DefaultRecord EXCEPT !.state = "failed", !.candidate = v,
                                             !.exitWaitFailed = TRUE]
              /\ ws = [[u \in Versions |-> "absent"] EXCEPT ![v] = found]
        BY <2>3
      <3>2. rec \in Records /\ rec.state = "failed"
        BY <3>1 DEF DefaultRecord, Records, States
      <3>3. ws \in [Versions -> {"absent", "partial", "valid"}]
        BY <3>1
      <3> QED BY <3>2, <3>3
    <2> QED BY <2>2, <2>3 DEF Init
  <1>t. TypeOK
    BY <1>1 DEF Init, TypeOK, DefaultRecord, Records, States, FreePcs, Helpers, NoHelper
  <1>2. CandidateRetained
    BY <1>1 DEF CandidateRetained, RequiresCandidate
  <1>3. \A p \in Procs : pc[p] = "off" /\ lock # p
    BY ConstantsAssumption DEF Init
  <1>4. (\A p \in Procs : lock = p <=> pc[p] \in LockedPcs) /\ HolderIsCurrent
    BY <1>3 DEF LockedPcs, PreparePcs, InstallPcs, HolderIsCurrent
  <1>5. \A p \in Procs : StepFits(pc[p], rec)
    BY <1>3 DEF StepFits
  <1>6. HelperServes
    BY <1>3 DEF HelperServes, Init, NoHelper, Procs
  <1> QED BY <1>t, <1>2, <1>4, <1>5, <1>6 DEF IndInv

(* Every step of every process, and of the surroundings. *)
LEMMA NextPreserves == IndInv /\ [Next]_vars => IndInv'
  <1> SUFFICES ASSUME IndInv, [Next]_vars PROVE IndInv'
    OBVIOUS
  <1>1. CASE \E p \in Clients : Start(p) \/ ClientStep(p)
    BY <1>1, StartPreserves, PreparePreserves, InstallPreserves, CheckPreserves,
       ManagePreserves, FindLockTakenPreserves DEF ClientStep, Procs
  <1>2. CASE \E p \in Pollers : PollerStep(p)
    BY <1>2, StatusPreserves, FindLockTakenPreserves DEF PollerStep, Procs
  <1>3. CASE \E d \in Daemons : DaemonStep(d)
    <2> PICK d \in Daemons : DaemonStep(d)
      BY <1>3
    <2>1. d \in Procs
      BY DEF Procs
    <2>2. CASE BeginCheck(d)
      BY <2>1, <2>2, OpenPreserves DEF BeginCheck, EntryPcs, FreePcs
    <2> QED BY <2>1, <2>2, DaemonPreserves, CheckPreserves, FindLockTakenPreserves
            DEF DaemonStep
  <1>4. CASE \E p \in Procs : Crash(p)
    BY <1>4, CrashPreserves
  <1>5. CASE Surroundings
    BY <1>5, SurroundingsPreserve
  <1>6. CASE UNCHANGED vars
    BY <1>6 DEF vars, IndInv, TypeOK, HolderIsCurrent, StepFits, CandidateRetained,
                RetainedCandidateIsValid, HelperServes
  <1> QED BY <1>1, <1>2, <1>3, <1>4, <1>5, <1>6 DEF Next

(* The invariant holds at every moment of every behaviour, for any number of
   commands, pollers, daemons and versions, with crashes at any step. *)
THEOREM Invariance == Spec => []IndInv
  BY InitEstablishes, NextPreserves, PTL DEF Spec

(* Every variable keeps its type. *)
THEOREM TypeCorrect == Spec => []TypeOK
  <1>1. IndInv => TypeOK
    BY DEF IndInv
  <1> QED BY <1>1, Invariance, PTL

(* No command ever computes on, and saves, an outdated record. *)
THEOREM NoLostUpdate == Spec => []HolderIsCurrent
  <1>1. IndInv => HolderIsCurrent
    BY DEF IndInv
  <1> QED BY <1>1, Invariance, PTL

(* A record that promises a candidate always finds it validated on disk. *)
THEOREM CandidateNeverLost == Spec => []CandidateRetained
  <1>1. IndInv => CandidateRetained
    BY DEF IndInv
  <1> QED BY <1>1, Invariance, PTL

-----------------------------------------------------------------------------
(* What one step may do to a retained candidate and to the state installed. *)

KeepsCandidate ==
    /\ RequiresCandidate(rec.state)
    /\ rec'.candidate # rec.candidate \/ ~RequiresCandidate(rec'.state)
    => \E p \in Clients :
         pc[p] \in {"discarding", "reconciled", "announcing", "helping"}

(* Somebody was told that the candidate is installed. *)
Told ==
    \E p \in Clients : \/ pc[p] = "reconciled"
                       \/ pc[p] = "helping" /\ helper.result = "installed"

VerifiesInstalled ==
    rec.state # "installed" /\ rec'.state = "installed"
      => rec.candidate # None /\ Told

Sound == KeepsCandidate /\ VerifiesInstalled

(* A step that keeps state and candidate does nothing to either. *)
LEMMA QuietRecordIsSound ==
  ASSUME rec'.state = rec.state, rec'.candidate = rec.candidate
  PROVE  Sound
  BY DEF Sound, KeepsCandidate, VerifiesInstalled

(* Recovery leaves retained candidates retained and installs nothing. *)
LEMMA RecoveryIsSound ==
  ASSUME IndInv, rec' = Recovered(rec)
  PROVE  Sound
  <1>1. rec \in Records
    BY DEF IndInv, TypeOK
  <1>2. CASE ~NeedsRecovery(rec)
    <2>1. rec' = rec
      BY <1>2 DEF Recovered
    <2> QED BY <2>1, QuietRecordIsSound
  <1>3. CASE /\ NeedsRecovery(rec)
             /\ rec.state = "ready-to-install" \/ FailedExitWait(rec)
    <2>1. rec' = [rec EXCEPT !.state = "ready-to-install", !.requested = FALSE,
                             !.command = FALSE, !.exitWaitFailed = FALSE]
      BY <1>3 DEF Recovered
    <2>2. rec'.state = "ready-to-install" /\ rec'.candidate = rec.candidate
      BY <1>1, <2>1 DEF Records
    <2> QED BY <2>2 DEF Sound, KeepsCandidate, VerifiesInstalled, RequiresCandidate
  <1>4. CASE /\ NeedsRecovery(rec)
             /\ ~(rec.state = "ready-to-install" \/ FailedExitWait(rec))
    <2>1. rec' = [rec EXCEPT !.state = "failed", !.requested = FALSE,
                             !.exitWaitFailed = FALSE]
      BY <1>4 DEF Recovered
    <2>2. rec'.state = "failed"
      BY <1>1, <2>1 DEF Records
    <2>3. ~RequiresCandidate(rec.state)
      BY <1>4 DEF NeedsRecovery, Stale, Expires, PreparationActive, RequiresCandidate
    <2> QED BY <2>2, <2>3 DEF Sound, KeepsCandidate, VerifiesInstalled
  <1> QED BY <1>2, <1>3, <1>4

(* Preparation starts from no retained candidate and installs nothing. *)
LEMMA PrepareIsSound ==
  ASSUME IndInv, NEW p \in Clients, Prepare(p)
  PROVE  Sound
  <1> USE DEF LockedPcs, PreparePcs
  <1>p. p \in Procs
    BY DEF Procs
  <1>1. CASE RefuseUpdate(p) \/ BeginPrepare(p) \/ BuildPackage(p)
             \/ Announce(p) \/ CleanRejected(p)
    BY <1>1, QuietRecordIsSound
    DEF RefuseUpdate, BeginPrepare, BuildPackage, Announce, CleanRejected
  <1>2. CASE BeginDownload(p) \/ BeginBuild(p) \/ AcceptPackage(p) \/ RetainCandidate(p)
    <2>1. ~RequiresCandidate(rec.state)
      BY <1>2, <1>p, Holding
      DEF BeginDownload, BeginBuild, AcceptPackage, RetainCandidate, StepFits,
          RequiresCandidate
    <2>2. rec'.state # "installed"
      BY <1>2, <1>p, Holding
      DEF BeginDownload, BeginBuild, AcceptPackage, RetainCandidate, Advance, Put,
          Moved, ClearCandidateFields, Records
    <2> QED BY <2>1, <2>2 DEF Sound, KeepsCandidate, VerifiesInstalled
  <1>3. CASE RejectCandidate(p)
    <2>1. rec'.state = "failed"
      BY <1>3, <1>p, Holding
      DEF RejectCandidate, Advance, Put, Moved, ClearCandidateFields, Records
    <2>2. pc[p] # "announcing" => ~RequiresCandidate(rec.state)
      BY <1>3, <1>p, Holding DEF RejectCandidate, StepFits, RequiresCandidate
    <2> QED BY <2>1, <2>2 DEF Sound, KeepsCandidate, VerifiesInstalled
  <1> QED BY <1>1, <1>2, <1>3 DEF Prepare

(* Installation keeps the candidate until the helper reports, and records
   installed only when the helper verified this candidate. *)
LEMMA InstallIsSound ==
  ASSUME IndInv, NEW p \in Clients, Install(p)
  PROVE  Sound
  <1> USE DEF LockedPcs, InstallPcs
  <1>p. p \in Procs
    BY DEF Procs
  <1>1. CASE \/ EndWait(p) \/ RefuseInstall(p) \/ DeferInstall(p) \/ StartHelper(p)
             \/ SweepInstalled(p) \/ BeginRelaunch(p) \/ SkipRelaunch(p)
             \/ SpawnLauncher(p) \/ FinishRelaunch(p)
    BY <1>1, QuietRecordIsSound
    DEF EndWait, RefuseInstall, DeferInstall, StartHelper, SweepInstalled,
        BeginRelaunch, Load, SkipRelaunch, SpawnLauncher, FinishRelaunch
  <1>2. CASE BeginCancel(p) \/ BeginInstall(p)
    BY <1>2, RecoveryIsSound DEF BeginCancel, BeginInstall, Open
  <1>3. CASE RequestInstall(p) \/ CloseInstall(p) \/ CancelInstallRequest(p)
    <2>1. mem[p] = rec /\ rec \in Records
      BY <1>3, <1>p, Holding DEF RequestInstall, CloseInstall, CancelInstallRequest
    <2>2. rec'.state = rec.state /\ rec'.candidate = rec.candidate
      BY <1>3, <2>1
      DEF RequestInstall, CloseInstall, CancelInstallRequest, Put, Moved, Records
    <2> QED BY <2>2, QuietRecordIsSound
  <1>4. CASE InstallReady(p) \/ AuthorizationDenied(p) \/ HelperUnavailable(p)
    <2>1. mem[p] = rec /\ rec \in Records
      BY <1>4, <1>p, Holding DEF InstallReady, AuthorizationDenied, HelperUnavailable
    <2>2. /\ rec'.candidate = rec.candidate
          /\ rec'.state \in {"installing", "ready-to-install",
                            "install-failed-manual-action"}
      BY <1>4, <2>1
      DEF InstallReady, AuthorizationDenied, HelperUnavailable, Advance, Put,
          Moved, Records
    <2> QED BY <2>2 DEF Sound, KeepsCandidate, VerifiesInstalled, RequiresCandidate
  <1>5. CASE SettleInstall(p)
    <2>1. /\ mem[p] = rec /\ rec \in Records
          /\ rec.state = "installing" /\ rec.candidate # None
      BY <1>5, <1>p, Holding
      DEF SettleInstall, StepFits, IndInv, CandidateRetained, RequiresCandidate,
          RetainedCandidateIsValid
    <2>2. rec' = Settled(rec, helper.result)
      BY <1>5, <2>1 DEF SettleInstall, Advance, Put
    <2>3. rec'.state = "installed" => helper.result = "installed"
      BY <2>1, <2>2 DEF Settled, Moved, Records
    <2>4. pc[p] = "helping"
      BY <1>5 DEF SettleInstall
    <2> QED BY <2>1, <2>3, <2>4 DEF Sound, KeepsCandidate, VerifiesInstalled, Told
  <1> QED BY <1>1, <1>2, <1>3, <1>4, <1>5 DEF Install

(* Checks pass by what is retained; only the user's commands end it. *)
LEMMA CheckIsSound ==
  ASSUME IndInv, NEW p \in Procs, Check(p)
  PROVE  Sound
  <1> USE DEF LockedPcs
  <1>1. CASE SkipCheck(p)
    BY <1>1, QuietRecordIsSound DEF SkipCheck
  <1>2. CASE QueryUpstream(p) \/ FinishCheck(p) \/ FailCheck(p)
    <2>1. mem[p] = rec /\ rec \in Records /\ ~RequiresCandidate(rec.state)
      BY <1>2, Holding
      DEF QueryUpstream, FinishCheck, FailCheck, StepFits, BlocksNewCandidate,
          RequiresCandidate
    <2>2. rec'.state # "installed"
      BY <1>2, <2>1
      DEF QueryUpstream, FinishCheck, FailCheck, Advance, Put, Moved,
          ClearCandidateFields, Records
    <2> QED BY <2>1, <2>2 DEF Sound, KeepsCandidate, VerifiesInstalled
  <1> QED BY <1>1, <1>2 DEF Check

(* Discarding is the user's choice; reconciling records what is installed. *)
LEMMA ManageIsSound ==
  ASSUME IndInv, NEW p \in Clients, Manage(p)
  PROVE  Sound
  <1> USE DEF LockedPcs
  <1>p. p \in Procs
    BY DEF Procs
  <1>1. CASE DiscardCandidate(p)
    <2>1. mem[p] = rec /\ rec \in Records /\ pc[p] = "discarding"
      BY <1>1, <1>p, Holding DEF DiscardCandidate
    <2>2. rec' = rec \/ rec'.state = "idle"
      BY <1>1, <2>1 DEF DiscardCandidate, Advance, Put, Moved, Records
    <2> QED BY <2>1, <2>2 DEF Sound, KeepsCandidate, VerifiesInstalled
  <1>2. CASE CleanDiscarded(p)
    BY <1>2, QuietRecordIsSound DEF CleanDiscarded
  <1>3. CASE FindInstalled(p) \/ RefuseReconcile(p)
    BY <1>3, QuietRecordIsSound DEF FindInstalled, RefuseReconcile
  <1>4. CASE ReconcileInstall(p)
    <2>1. pc[p] = "reconciled" /\ rec.candidate # None
      BY <1>4, <1>p, Holding DEF ReconcileInstall, StepFits, Reconcilable
    <2> QED BY <2>1 DEF Sound, KeepsCandidate, VerifiesInstalled, Told
  <1> QED BY <1>1, <1>2, <1>3, <1>4 DEF Manage

(* The daemon's recovery hands an interrupted installation to the user. *)
LEMMA DaemonIsSound ==
  ASSUME IndInv, NEW d \in Daemons, DaemonStep(d)
  PROVE  Sound
  <1> USE DEF LockedPcs
  <1>p. d \in Procs
    BY DEF Procs
  <1>1. CASE \/ StartDaemon(d) \/ BeginStartup(d) \/ FinishStartup(d)
             \/ DecideCheck(d) \/ WakeUp(d) \/ FindLockTaken(d)
    BY <1>1, QuietRecordIsSound
    DEF StartDaemon, BeginStartup, Load, FinishStartup, DecideCheck, WakeUp,
        FindLockTaken
  <1>2. CASE BeginCheck(d)
    BY <1>2, RecoveryIsSound DEF BeginCheck, Open
  <1>3. CASE Check(d)
    BY <1>3, <1>p, CheckIsSound
  <1>4. CASE RecoverInterruptedInstall(d)
    <2>1. mem[d] = rec /\ rec \in Records
      BY <1>4, <1>p, Holding DEF RecoverInterruptedInstall
    <2>2. CASE rec.state = "installing"
      <3>1. /\ rec'.state = "install-failed-manual-action"
            /\ rec'.candidate = rec.candidate
        BY <1>4, <2>1, <2>2, MovedRecord
        DEF RecoverInterruptedInstall, StartupRecord, Put, States
      <3> QED BY <3>1 DEF Sound, KeepsCandidate, VerifiesInstalled, RequiresCandidate
    <2>3. CASE rec.state # "installing" /\ NeedsRecovery(rec)
      BY <1>4, <2>1, <2>3, RecoveryIsSound
      DEF RecoverInterruptedInstall, StartupRecord, Put
    <2>4. CASE rec.state # "installing" /\ ~NeedsRecovery(rec)
      BY <1>4, <2>1, <2>4, QuietRecordIsSound DEF RecoverInterruptedInstall
    <2> QED BY <2>2, <2>3, <2>4
  <1> QED BY <1>1, <1>2, <1>3, <1>4 DEF DaemonStep

(* Every step keeps what is retained and records only what is installed. *)
LEMMA NextIsSound == IndInv /\ [Next]_vars => Sound
  <1> SUFFICES ASSUME IndInv, [Next]_vars PROVE Sound
    OBVIOUS
  <1>1. CASE \E p \in Clients : Start(p) \/ ClientStep(p)
    <2> PICK p \in Clients : Start(p) \/ ClientStep(p)
      BY <1>1
    <2>1. CASE Start(p)
      BY <2>1, RecoveryIsSound
      DEF Start, BeginUpdate, BeginCheck, BeginDiscard, BeginReconcile, Open
    <2>2. CASE FindLockTaken(p)
      BY <2>2, QuietRecordIsSound DEF FindLockTaken
    <2> QED BY <2>1, <2>2, PrepareIsSound, InstallIsSound, CheckIsSound, ManageIsSound
            DEF ClientStep, Procs
  <1>2. CASE \E p \in Pollers : PollerStep(p)
    <2> PICK p \in Pollers : PollerStep(p)
      BY <1>2
    <2>1. CASE ReadStatus(p) \/ BeginRepair(p) \/ FindLockTaken(p)
      BY <2>1, QuietRecordIsSound DEF ReadStatus, BeginRepair, Load, FindLockTaken
    <2>2. CASE RepairStatus(p)
      <3>1. mem[p] = rec
        BY <2>2, Holding DEF RepairStatus, LockedPcs, Procs
      <3>2. rec' = Recovered(rec) \/ rec' = rec
        BY <2>2, <3>1 DEF RepairStatus, Put
      <3> QED BY <3>2, RecoveryIsSound, QuietRecordIsSound
    <2> QED BY <2>1, <2>2 DEF PollerStep
  <1>3. CASE \E d \in Daemons : DaemonStep(d)
    BY <1>3, DaemonIsSound
  <1>4. CASE (\E p \in Procs : Crash(p)) \/ Surroundings \/ UNCHANGED vars
    BY <1>4, QuietRecordIsSound
    DEF Crash, Surroundings, FinishHelper, ChangeInstalled, RunManualCommand,
        StartOrQuitApp, Age, vars
  <1> QED BY <1>1, <1>2, <1>3, <1>4 DEF Next

(* A retained candidate ends only by its outcome or by the user. *)
THEOREM RetentionHolds == Spec => RetainedUntilUsedOrDiscarded
  <1>1. IndInv /\ [Next]_vars => KeepsCandidate
    BY NextIsSound DEF Sound
  <1>2. Spec => [][KeepsCandidate]_vars
    BY <1>1, Invariance, PTL DEF Spec
  <1>3. KeepsCandidate <=>
          (/\ RequiresCandidate(rec.state)
           /\ rec'.candidate # rec.candidate \/ ~RequiresCandidate(rec'.state)
           => \E p \in Clients :
                pc[p] \in {"discarding", "reconciled", "announcing", "helping"})
    BY DEF KeepsCandidate
  <1> QED BY <1>2, <1>3, PTL DEF RetainedUntilUsedOrDiscarded

(* The history is written by every step. *)
LEMMA NextWatches == Next => Watch
  <1>1. \A p \in Procs : Start(p) \/ Prepare(p) \/ Check(p) \/ Manage(p) => Watch
    BY DEF Start, BeginUpdate, BeginCheck, BeginDiscard, BeginReconcile, Quiet,
           Prepare, RefuseUpdate, BeginPrepare, BeginDownload, BeginBuild,
           BuildPackage, AcceptPackage, RetainCandidate, Announce, RejectCandidate,
           CleanRejected, Check, SkipCheck, QueryUpstream, FinishCheck, FailCheck,
           Manage, DiscardCandidate, CleanDiscarded, FindInstalled, RefuseReconcile,
           ReconcileInstall
  <1>2. \A p \in Procs : Install(p) => Watch
    BY DEF Install, RequestInstall, EndWait, BeginCancel, CancelInstallRequest,
           BeginInstall, RefuseInstall, DeferInstall, InstallReady,
           AuthorizationDenied, HelperUnavailable, StartHelper, SettleInstall,
           CloseInstall, SweepInstalled, BeginRelaunch, SkipRelaunch, SpawnLauncher,
           FinishRelaunch, Quiet
  <1>3. \A p \in Procs : FindLockTaken(p) \/ PollerStep(p) \/ Crash(p) => Watch
    BY DEF FindLockTaken, PollerStep, ReadStatus, BeginRepair, RepairStatus, Crash, Quiet
  <1>4. \A d \in Procs : DaemonStep(d) => Watch
    BY <1>1, <1>3
    DEF DaemonStep, StartDaemon, BeginStartup, RecoverInterruptedInstall,
        FinishStartup, DecideCheck, WakeUp, Start, Quiet
  <1>5. Surroundings => Watch
    BY DEF Surroundings, FinishHelper, ChangeInstalled, RunManualCommand,
           StartOrQuitApp, Age
  <1> QED BY <1>1, <1>2, <1>3, <1>4, <1>5 DEF Next, ClientStep, Procs

(* A step to anywhere else tells nobody anything. *)
LEMMA TellsNothing ==
  ASSUME IndInv, NEW p \in Procs, NEW l, Goto(p, l), UNCHANGED helper,
         l \notin {"reconciled", "helping"}
  PROVE  Told' => Told
  BY DEF IndInv, TypeOK, Goto, Told, Procs

(* The commands that open, prepare or check never ask. *)
LEMMA PrepareTellsNothing ==
  ASSUME IndInv, NEW p \in Procs, Start(p) \/ Prepare(p) \/ Check(p)
  PROVE  Told' => Told
  <1>1. UNCHANGED helper
    BY DEF Start, BeginUpdate, BeginCheck, BeginDiscard, BeginReconcile, Quiet,
           Prepare, RefuseUpdate, BeginPrepare, BeginDownload, BeginBuild,
           BuildPackage, AcceptPackage, RetainCandidate, Announce, RejectCandidate,
           CleanRejected, Check, SkipCheck, QueryUpstream, FinishCheck, FailCheck
  <1>2. \E l \in (LockedPcs \union FreePcs) \ {"reconciled", "helping"} : Goto(p, l)
    <2> USE DEF LockedPcs, PreparePcs, InstallPcs, FreePcs, WaitPcs
    <2>1. CASE Start(p)
      BY <2>1 DEF Start, BeginUpdate, BeginCheck, BeginDiscard, BeginReconcile, Open
    <2>2. CASE Prepare(p)
      BY <2>2 DEF Prepare, RefuseUpdate, BeginPrepare, BeginDownload, BeginBuild,
           BuildPackage, AcceptPackage, RetainCandidate, Announce, RejectCandidate,
           CleanRejected, Advance, Leave
    <2>3. CASE Check(p)
      BY <2>3 DEF Check, SkipCheck, QueryUpstream, FinishCheck, FailCheck, Advance,
                  Leave, Done
    <2> QED BY <2>1, <2>2, <2>3
  <1> QED BY <1>1, <1>2, TellsNothing

(* An installation tells only what its helper found. *)
LEMMA InstallTellsNothing ==
  ASSUME IndInv, NEW p \in Clients, Install(p)
  PROVE  Told' => Told
  <1>p. p \in Procs
    BY DEF Procs
  <1>1. CASE StartHelper(p)
    BY <1>1, <1>p DEF StartHelper, Told, Goto, IndInv, TypeOK, Helpers, Procs
  <1>2. CASE SettleInstall(p)
    BY <1>2, <1>p DEF SettleInstall, Advance, Told, Goto, IndInv, TypeOK, NoHelper, Procs
  <1>3. CASE Install(p) /\ ~StartHelper(p) /\ ~SettleInstall(p)
    <2>1. UNCHANGED helper
      BY <1>3
      DEF Install, RequestInstall, EndWait, BeginCancel, CancelInstallRequest,
          BeginInstall, RefuseInstall, DeferInstall, InstallReady,
          AuthorizationDenied, HelperUnavailable, CloseInstall, SweepInstalled,
          BeginRelaunch, SkipRelaunch, SpawnLauncher, FinishRelaunch, Quiet
    <2>2. \E l \in (LockedPcs \union FreePcs) \ {"reconciled", "helping"} : Goto(p, l)
      BY <1>3
      DEF Install, RequestInstall, EndWait, BeginCancel, CancelInstallRequest,
          BeginInstall, RefuseInstall, DeferInstall, InstallReady,
          AuthorizationDenied, HelperUnavailable, CloseInstall, SweepInstalled,
          BeginRelaunch, SkipRelaunch, SpawnLauncher, FinishRelaunch, Advance,
          Leave, Open, Load, LockedPcs, PreparePcs, InstallPcs, FreePcs, WaitPcs
    <2> QED BY <1>p, <2>1, <2>2, TellsNothing
  <1> QED BY <1>1, <1>2, <1>3

(* Who polls, loops or dies is told nothing. *)
LEMMA OthersTellNothing ==
  ASSUME IndInv, NEW p \in Procs,
         FindLockTaken(p) \/ PollerStep(p) \/ Crash(p) \/ DaemonStep(p)
  PROVE  Told' => Told
  <1>1. CASE Crash(p)
    BY <1>1 DEF Crash, Told, Goto, IndInv, TypeOK, Helpers, NoHelper, Procs
  <1>2. CASE FindLockTaken(p) \/ PollerStep(p)
    BY <1>2, TellsNothing
    DEF FindLockTaken, PollerStep, ReadStatus, BeginRepair, RepairStatus, Load, Leave, Quiet
  <1>3. CASE BeginCheck(p) \/ Check(p)
    BY <1>3, PrepareTellsNothing DEF Start
  <1>4. CASE \/ StartDaemon(p) \/ BeginStartup(p) \/ RecoverInterruptedInstall(p)
             \/ FinishStartup(p) \/ DecideCheck(p) \/ WakeUp(p)
    BY <1>4, TellsNothing
    DEF StartDaemon, BeginStartup, RecoverInterruptedInstall, FinishStartup,
        DecideCheck, WakeUp, Load, Quiet
  <1> QED BY <1>1, <1>2, <1>3, <1>4 DEF DaemonStep

(* What somebody is newly told, the package manager says at that moment. *)
LEMMA NewlyTold ==
  ASSUME IndInv, Next, ~Told, Told'
  PROVE  installed' = rec'.candidate
  <1>1. CASE \E p \in Clients : Start(p) \/ ClientStep(p)
    <2> PICK p \in Clients : Start(p) \/ ClientStep(p)
      BY <1>1
    <2>p. p \in Procs
      BY DEF Procs
    <2>1. CASE DiscardCandidate(p) \/ CleanDiscarded(p) \/ RefuseReconcile(p)
               \/ ReconcileInstall(p)
      BY <2>1, <2>p, TellsNothing
      DEF DiscardCandidate, CleanDiscarded, RefuseReconcile, ReconcileInstall,
          Advance, Leave, Quiet
    <2>2. CASE FindInstalled(p)
      BY <2>2, <2>p, Holding DEF FindInstalled, Quiet, LockedPcs
    <2> QED BY <2>p, <2>1, <2>2, PrepareTellsNothing, InstallTellsNothing,
               OthersTellNothing DEF ClientStep, Manage
  <1>2. CASE \/ \E p \in Pollers : PollerStep(p)
             \/ \E d \in Daemons : DaemonStep(d)
             \/ \E p \in Procs : Crash(p)
    BY <1>2, OthersTellNothing DEF Procs
  <1>3. CASE FinishHelper
    <2>1. PICK p \in Clients : pc[p] = "helping"
      BY <1>3 DEF FinishHelper, Told
    <2>2. helper'.result = "installed"
      BY <1>3 DEF FinishHelper, Told
    <2>3. helper.owner # None /\ helper.candidate = rec.candidate
      BY <2>1, ConstantsAssumption DEF IndInv, HelperServes, Procs
    <2>4. installed = helper.candidate
      BY <1>3, <2>2, <2>3 DEF FinishHelper, IndInv, TypeOK, Helpers
    <2> QED BY <1>3, <2>3, <2>4 DEF FinishHelper
  <1>4. CASE ChangeInstalled \/ RunManualCommand \/ StartOrQuitApp \/ Age
    BY <1>4 DEF ChangeInstalled, RunManualCommand, StartOrQuitApp, Age, Told
  <1> QED BY <1>1, <1>2, <1>3, <1>4 DEF Next, Surroundings

(* Whoever is about to record installed was told so of a version that was there. *)
ToldInv == Told => arrived

LEMMA ToldPreserved == IndInv /\ ToldInv /\ [Next]_vars => ToldInv'
  <1> SUFFICES ASSUME IndInv, ToldInv, [Next]_vars, Told' PROVE arrived'
    BY DEF ToldInv
  <1>1. CASE UNCHANGED vars
    BY <1>1 DEF vars, Told, ToldInv
  <1>2. CASE Next
    <2>1. Watching'
      BY DEF Told, Watching
    <2>2. CASE Told
      <3>1. Watching /\ arrived
        BY <2>2 DEF Told, Watching, ToldInv
      <3> QED BY <1>2, <2>1, <3>1, NextWatches DEF Watch
    <2>3. CASE ~Told
      BY <1>2, <2>1, <2>3, NewlyTold, NextWatches DEF Watch
    <2> QED BY <2>2, <2>3
  <1> QED BY <1>1, <1>2

(* The state installed is only recorded of a candidate that was really there since
   its installation or reconciliation began, whatever the package managers of
   helpers and users do before and after. *)
THEOREM InstalledVerified == Spec => InstalledIsVerified
  <1>1. Init => ToldInv
    BY DEF Init, ToldInv, Told, Procs
  <1>2. Spec => []ToldInv
    BY <1>1, ToldPreserved, Invariance, PTL DEF Spec
  <1>3. IndInv /\ ToldInv /\ [Next]_vars
          => (rec.state # "installed" /\ rec'.state = "installed"
                => rec.candidate # None /\ arrived)
    BY NextIsSound DEF Sound, VerifiesInstalled, ToldInv
  <1> QED BY <1>2, <1>3, Invariance, PTL DEF Spec, InstalledIsVerified

-----------------------------------------------------------------------------
(* Consent.  A process that waits for Factory Desktop to exit holds no lock,
   only a recorded request: the request keeps everyone else away, and no other
   process asks, cancels or recovers meanwhile, as long as the wait is shorter
   than the stale timeout.  A stopped process outlives it, which is why these
   results are about machines that do not suspend a waiting process. *)

(* From the request to the end of the install or its cancellation. *)
Waiting == WaitPcs \union {"cancelling", "entering"}

(* Steps of a preparation that has cleared the request of the last one. *)
UnrequestedPcs == {"downloading", "building", "packaging", "validating", "announcing"}

Consenting == rec.requested /\ rec.state \in {"ready-to-install", "installing"}

ConsentInv ==
    /\ \A p \in Procs : pc[p] \in Waiting =>
         /\ p \in Clients
         /\ rec.state = "ready-to-install" /\ rec.requested
         /\ pc[p] \in WaitPcs => ~aged
    /\ \A p, q \in Procs : pc[p] \in Waiting /\ pc[q] \in Waiting => p = q
    /\ \A p \in Procs : pc[p] \in UnrequestedPcs => ~rec.requested
    /\ \A p \in Procs : pc[p] = "settled" => ~Consenting

(* The body of OnlyDeadOperationsRecovered. *)
Undisturbed ==
    rec' # rec =>
      \A p \in Clients \union Daemons :
        pc[p] \in PreparePcs \union WaitPcs \union {"querying"} => pc'[p] # pc[p]

(* Only a fresh request on a ready candidate is waited on. *)
LEMMA NobodyWaits ==
  ASSUME ConsentInv, aged \/ rec.state # "ready-to-install" \/ ~rec.requested
  PROVE  \A q \in Procs : pc[q] \notin WaitPcs
  BY DEF ConsentInv, Waiting

(* The process that waits, cancels or enters is the only one. *)
LEMMA NobodyElseWaits ==
  ASSUME ConsentInv, NEW p \in Procs, pc[p] \in Waiting
  PROVE  \A q \in Procs \ {p} : pc[q] \notin WaitPcs
  BY DEF ConsentInv, Waiting

(* A step that saves nothing. *)
LEMMA KeepingStep ==
  ASSUME IndInv, ConsentInv, NEW p \in Procs, NEW l, Goto(p, l),
         UNCHANGED <<rec, aged>>,
         l \in Waiting => pc[p] \in Waiting,
         l \in WaitPcs => pc[p] \in WaitPcs,
         l \in UnrequestedPcs => ~rec.requested,
         l = "settled" => ~Consenting
  PROVE  ConsentInv' /\ Undisturbed
  <1>1. pc'[p] = l /\ \A q \in Procs \ {p} : pc'[q] = pc[q]
    BY DEF Goto, IndInv, TypeOK
  <1>2. ConsentInv'
    BY <1>1 DEF ConsentInv, Consenting
  <1> QED BY <1>2 DEF Undisturbed

(* A step that saves, while nobody else waits. *)
LEMMA SavingStep ==
  ASSUME IndInv, ConsentInv, NEW p \in Procs, NEW l, Goto(p, l),
         lock = p \/ lock = None, pc[p] # l,
         \A q \in Procs \ {p} : pc[q] \notin WaitPcs,
         l \in Waiting => /\ p \in Clients
                          /\ rec'.state = "ready-to-install" /\ rec'.requested
                          /\ ~aged',
         l \in UnrequestedPcs => ~rec'.requested,
         l = "settled" => ~Consenting'
  PROVE  ConsentInv' /\ Undisturbed
  <1>1. pc'[p] = l /\ \A q \in Procs \ {p} : pc'[q] = pc[q]
    BY DEF Goto, IndInv, TypeOK
  <1>2. \A q \in Procs \ {p} : pc[q] \in FreePcs \ WaitPcs
    BY OthersAreFree
  <1>3. \A q \in Procs \ {p} :
          /\ pc[q] \notin Waiting \union UnrequestedPcs \union {"settled"}
          /\ pc[q] \notin PreparePcs \union WaitPcs \union {"querying"}
    BY <1>2 DEF FreePcs, WaitPcs, Waiting, UnrequestedPcs, PreparePcs
  <1>4. ConsentInv'
    BY <1>1, <1>3 DEF ConsentInv
  <1>5. Undisturbed
    BY <1>1, <1>3 DEF Undisturbed, Procs
  <1> QED BY <1>4, <1>5

-----------------------------------------------------------------------------
(* The refinement mapping.  What a step does to the record decides which step
   of the lifecycle it is. *)

PreparingStates == {"downloading", "building", "validating"}
NoneStates == {"idle", "checking", "update-available", "installed", "rolled-back",
               "failed"}

SameCandidate == rec'.candidate = rec.candidate

(* One disjunct per step of the lifecycle, or per way not to take one. *)
RecordMoves ==
    \/ UNCHANGED rec
    \/ rec.state \in NoneStates /\ rec'.state \in NoneStates \union PreparingStates
    \/ rec.state \in PreparingStates /\ rec'.state \in NoneStates \union PreparingStates
    \/ /\ rec.state \in NoneStates \union PreparingStates
       /\ rec'.state = "ready-to-install"
       /\ rec'.candidate \in Versions /\ ~rec'.requested
    \/ /\ rec.state = "ready-to-install" /\ rec'.state = "ready-to-install"
       /\ SameCandidate
    \/ /\ rec.state = "ready-to-install" /\ rec'.state = "installing"
       /\ SameCandidate /\ rec.requested /\ rec'.requested
    \/ /\ rec.state = "installing" /\ rec'.state = "ready-to-install"
       /\ SameCandidate /\ ~rec'.requested
    \/ /\ rec.state \in {"installing", "install-failed-manual-action"}
       /\ rec'.state = "install-failed-manual-action"
       /\ SameCandidate
    \/ /\ rec.state \in {"installing", "install-failed-manual-action"}
       /\ rec'.state \in NoneStates
    \/ rec.state = "ready-to-install" /\ ~rec.requested /\ rec'.state \in NoneStates

(* Every such step is a step of the lifecycle, or none. *)
LEMMA MovesImplement ==
  ASSUME rec \in Records, rec' \in Records, RecordMoves
  PROVE  [Lifecycle!Next]_(Lifecycle!vars)
  <1> USE DEF Lifecycle!vars, phaseOfRecord, RequiresCandidate, NoneStates,
              PreparingStates, SameCandidate, Records
  <1>1. CASE UNCHANGED rec
    BY <1>1
  <1>2. CASE rec.state \in NoneStates /\ rec'.state \in NoneStates \union PreparingStates
    BY <1>2 DEF Lifecycle!Next, Lifecycle!Prepare
  <1>3. CASE /\ rec.state \in PreparingStates
             /\ rec'.state \in NoneStates \union PreparingStates
    BY <1>3 DEF Lifecycle!Next, Lifecycle!Abandon
  <1>4. CASE /\ rec.state \in NoneStates \union PreparingStates
             /\ rec'.state = "ready-to-install"
             /\ rec'.candidate \in Versions /\ ~rec'.requested
    BY <1>4 DEF Lifecycle!Next, Lifecycle!Retain
  <1>5. CASE /\ rec.state = "ready-to-install" /\ rec'.state = "ready-to-install"
             /\ SameCandidate
    BY <1>5 DEF Lifecycle!Next, Lifecycle!Consent
  <1>6. CASE /\ rec.state = "ready-to-install" /\ rec'.state = "installing"
             /\ SameCandidate /\ rec.requested /\ rec'.requested
    BY <1>6 DEF Lifecycle!Next, Lifecycle!Install
  <1>7. CASE /\ rec.state = "installing" /\ rec'.state = "ready-to-install"
             /\ SameCandidate /\ ~rec'.requested
    BY <1>7 DEF Lifecycle!Next, Lifecycle!Decline
  <1>8. CASE /\ rec.state \in {"installing", "install-failed-manual-action"}
             /\ rec'.state = "install-failed-manual-action"
             /\ SameCandidate
    BY <1>8 DEF Lifecycle!Next, Lifecycle!Fail
  <1>9. CASE \/ /\ rec.state \in {"installing", "install-failed-manual-action"}
                /\ rec'.state \in NoneStates
             \/ /\ rec.state = "ready-to-install" /\ ~rec.requested
                /\ rec'.state \in NoneStates
    BY <1>9 DEF Lifecycle!Next, Lifecycle!Finish
  <1> QED BY <1>1, <1>2, <1>3, <1>4, <1>5, <1>6, <1>7, <1>8, <1>9 DEF RecordMoves

-----------------------------------------------------------------------------
(* What every step must show: consent stays with the process that waits on it,
   no operation under way is disturbed, and the record moves as the lifecycle
   allows. *)
Orderly == ConsentInv' /\ Undisturbed /\ RecordMoves

(* Recovery moves a dead operation to failed, and a candidate that is kept to
   ready without a request. *)
LEMMA RecoveryMoves ==
  ASSUME rec \in Records, rec' = Recovered(rec)
  PROVE  RecordMoves
  <1>1. CASE ~NeedsRecovery(rec)
    BY <1>1 DEF Recovered, RecordMoves
  <1>2. CASE /\ NeedsRecovery(rec)
             /\ rec.state = "ready-to-install" \/ FailedExitWait(rec)
    <2>1. rec' = [rec EXCEPT !.state = "ready-to-install", !.requested = FALSE,
                             !.command = FALSE, !.exitWaitFailed = FALSE]
      BY <1>2 DEF Recovered
    <2>2. /\ rec'.state = "ready-to-install" /\ ~rec'.requested
          /\ rec'.candidate = rec.candidate
      BY <2>1 DEF Records
    <2>3. CASE rec.state = "ready-to-install"
      BY <2>2, <2>3 DEF RecordMoves, SameCandidate
    <2>4. CASE FailedExitWait(rec)
      <3>1. rec.state = "failed" /\ rec.candidate # None
        BY <1>2, <2>4 DEF FailedExitWait, NeedsRecovery, Stale, Expires,
                          PreparationActive, RetainedCandidateIsValid
      <3>2. rec'.candidate \in Versions
        BY <2>2, <3>1 DEF Records
      <3> QED BY <2>2, <3>1, <3>2 DEF RecordMoves, NoneStates
    <2> QED BY <1>2, <2>3, <2>4
  <1>3. CASE /\ NeedsRecovery(rec)
             /\ ~(rec.state = "ready-to-install" \/ FailedExitWait(rec))
    <2>1. rec' = [rec EXCEPT !.state = "failed", !.requested = FALSE,
                             !.exitWaitFailed = FALSE]
      BY <1>3 DEF Recovered
    <2>2. rec'.state = "failed"
      BY <2>1 DEF Records
    <2>3. rec.state \in NoneStates \union PreparingStates
      BY <1>3 DEF NeedsRecovery, Stale, Expires, PreparationActive, NoneStates,
                  PreparingStates
    <2> QED BY <2>2, <2>3 DEF RecordMoves, NoneStates
  <1> QED BY <1>1, <1>2, <1>3

(* What is recovered is not waited on. *)
LEMMA NobodyWaitsOnDead ==
  ASSUME ConsentInv, NeedsRecovery(rec)
  PROVE  \A q \in Procs : pc[q] \notin WaitPcs
  BY NobodyWaits DEF NeedsRecovery, Stale, FailedExitWait

(* A step that saves nothing leaves everything as it is. *)
LEMMA KeepingIsOrderly ==
  ASSUME IndInv, ConsentInv, NEW p \in Procs, NEW l, Goto(p, l),
         UNCHANGED <<rec, aged>>,
         l \notin Waiting \union UnrequestedPcs \union {"settled"}
  PROVE  Orderly
  BY KeepingStep DEF Orderly, RecordMoves, Waiting

(* Opening with recovery. *)
LEMMA OpenIsOrderly ==
  ASSUME IndInv, ConsentInv, NEW p \in Procs, NEW l \in EntryPcs, pc[p] \in FreePcs,
         Open(p, l), l \in Waiting => pc[p] \in WaitPcs
  PROVE  Orderly
  <1>1. Goto(p, l) /\ lock = None /\ rec' = Recovered(rec) /\ rec \in Records
    BY DEF Open, IndInv, TypeOK
  <1>2. RecordMoves
    BY <1>1, RecoveryMoves
  <1>3. l \notin UnrequestedPcs \union {"settled"} \union WaitPcs /\ pc[p] # l
    BY EntryStepFits, FreeNotLocked
    DEF EntryPcs, UnrequestedPcs, WaitPcs
  <1>4. CASE ~NeedsRecovery(rec)
    <2>1. UNCHANGED <<rec, aged>>
      BY <1>4 DEF Open, Recovered, IndInv, TypeOK
    <2> QED BY <1>1, <1>2, <1>3, <2>1, KeepingStep DEF Orderly, Waiting
  <1>5. CASE NeedsRecovery(rec)
    <2>1. \A q \in Procs : pc[q] \notin WaitPcs
      BY <1>5, NobodyWaitsOnDead
    <2> QED BY <1>1, <1>2, <1>3, <2>1, SavingStep DEF Orderly
  <1> QED BY <1>4, <1>5

(* What clients start. *)
LEMMA StartIsOrderly ==
  ASSUME IndInv, ConsentInv, NEW p \in Procs, Start(p)
  PROVE  Orderly
  <1> USE OpenIsOrderly DEF EntryPcs, FreePcs, Waiting, WaitPcs
  <1>1. CASE BeginUpdate(p)
    BY <1>1 DEF BeginUpdate
  <1>2. CASE BeginCheck(p)
    BY <1>2 DEF BeginCheck
  <1>3. CASE BeginDiscard(p)
    BY <1>3 DEF BeginDiscard
  <1>4. CASE BeginReconcile(p)
    BY <1>4 DEF BeginReconcile
  <1> QED BY <1>1, <1>2, <1>3, <1>4 DEF Start

(* Preparation: nothing is requested while it runs, so nobody waits. *)
LEMMA PrepareIsOrderly ==
  ASSUME IndInv, ConsentInv, NEW p \in Procs, Prepare(p)
  PROVE  Orderly
  <1> USE DEF LockedPcs, PreparePcs, InstallPcs
  <1>1. CASE RefuseUpdate(p) \/ BeginPrepare(p) \/ Announce(p) \/ CleanRejected(p)
    BY <1>1, KeepingIsOrderly
    DEF RefuseUpdate, BeginPrepare, Announce, CleanRejected, Leave, Waiting, WaitPcs,
        UnrequestedPcs
  <1>2. CASE BuildPackage(p)
    <2>1. ~rec.requested /\ Goto(p, "packaging") /\ UNCHANGED <<rec, aged>>
      BY <1>2 DEF BuildPackage, ConsentInv, UnrequestedPcs
    <2> QED BY <2>1, KeepingStep DEF Orderly, RecordMoves, Waiting, WaitPcs
  <1>3. CASE BeginDownload(p)
    <2>1. /\ lock = p /\ rec \in Records /\ rec.state = "update-available"
          /\ rec' = Moved(ClearCandidateFields(rec), "downloading")
          /\ pc[p] = "preparing" /\ Goto(p, "downloading")
      BY <1>3, Holding DEF BeginDownload, Advance, Put, StepFits
    <2>2. rec'.state = "downloading" /\ ~rec'.requested
      BY <2>1 DEF Moved, ClearCandidateFields, Records
    <2>3. RecordMoves
      BY <2>1, <2>2 DEF RecordMoves, NoneStates, PreparingStates
    <2>4. \A q \in Procs : pc[q] \notin WaitPcs
      BY <2>1, NobodyWaits
    <2> QED BY <2>1, <2>2, <2>3, <2>4, SavingStep
            DEF Orderly, Waiting, WaitPcs
  <1>4. CASE BeginBuild(p) \/ AcceptPackage(p)
    <2> PICK s \in {"building", "validating"} :
               /\ rec' = Moved(mem[p], s) /\ Goto(p, s)
               /\ pc[p] \in {"downloading", "packaging"}
      BY <1>4 DEF BeginBuild, AcceptPackage, Advance, Put
    <2>1. /\ lock = p /\ mem[p] = rec /\ rec \in Records
          /\ rec.state \in PreparingStates
      BY Holding DEF StepFits, PreparingStates
    <2>2. ~rec.requested
      BY DEF ConsentInv, UnrequestedPcs
    <2>3. rec'.state = s /\ ~rec'.requested
      BY <2>1, <2>2 DEF Moved, Records
    <2>4. RecordMoves
      BY <2>1, <2>3 DEF RecordMoves, PreparingStates
    <2>5. \A q \in Procs : pc[q] \notin WaitPcs
      BY <2>2, NobodyWaits
    <2> QED BY <2>1, <2>3, <2>4, <2>5, SavingStep DEF Orderly, Waiting, WaitPcs
  <1>5. CASE RetainCandidate(p)
    <2>1. /\ lock = p /\ rec \in Records
          /\ rec.state \in PreparingStates /\ rec.available # None
          /\ rec' = [Moved(rec, "ready-to-install") EXCEPT
                       !.candidate = rec.available, !.available = None]
          /\ pc[p] = "validating" /\ Goto(p, "announcing")
      BY <1>5, Holding DEF RetainCandidate, Advance, Put, StepFits, PreparingStates
    <2>2. ~rec.requested
      BY <2>1 DEF ConsentInv, UnrequestedPcs
    <2>3. /\ rec'.state = "ready-to-install" /\ rec'.candidate \in Versions
          /\ ~rec'.requested
      BY <2>1, <2>2 DEF Moved, Records
    <2>4. RecordMoves
      BY <2>1, <2>3 DEF RecordMoves
    <2>5. \A q \in Procs : pc[q] \notin WaitPcs
      BY <2>2, NobodyWaits
    <2> QED BY <2>1, <2>3, <2>4, <2>5, SavingStep DEF Orderly, Waiting, WaitPcs
  <1>6. CASE RejectCandidate(p)
    <2>1. /\ lock = p /\ rec \in Records /\ mem[p] = rec
          /\ pc[p] \in PreparePcs /\ Goto(p, "rejecting")
      BY <1>6, Holding DEF RejectCandidate, Advance
    <2>2. rec'.state = "failed"
      BY <1>6, <2>1 DEF RejectCandidate, Advance, Put, Moved, ClearCandidateFields,
                        Records
    <2>3. rec.state = "update-available" \/ ~rec.requested
      BY <2>1, Holding DEF StepFits, ConsentInv, UnrequestedPcs
    <2>4. RecordMoves
      BY <2>1, <2>2, <2>3 DEF RecordMoves, NoneStates, PreparingStates, Records, States
    <2>5. \A q \in Procs : pc[q] \notin WaitPcs
      BY <2>3, NobodyWaits
    <2> QED BY <2>1, <2>4, <2>5, SavingStep
            DEF Orderly, Waiting, WaitPcs, UnrequestedPcs
  <1> QED BY <1>1, <1>2, <1>3, <1>4, <1>5, <1>6 DEF Prepare

(* Checks: a ready candidate is passed by, so no request is touched. *)
LEMMA CheckIsOrderly ==
  ASSUME IndInv, ConsentInv, NEW p \in Procs, Check(p)
  PROVE  Orderly
  <1> USE DEF LockedPcs
  <1>1. CASE SkipCheck(p)
    BY <1>1, KeepingIsOrderly
    DEF SkipCheck, Leave, Done, Waiting, WaitPcs, UnrequestedPcs
  <1>2. CASE QueryUpstream(p) \/ FinishCheck(p) \/ FailCheck(p)
    <2>1. /\ lock = p /\ mem[p] = rec /\ rec \in Records
          /\ rec.state \in NoneStates \union PreparingStates
      BY <1>2, Holding
      DEF QueryUpstream, FinishCheck, FailCheck, StepFits, BlocksNewCandidate,
          RequiresCandidate, PreparationActive, NoneStates, PreparingStates, Records,
          States
    <2>2. rec'.state \in NoneStates
      BY <1>2, <2>1
      DEF QueryUpstream, FinishCheck, FailCheck, Advance, Put, Moved,
          ClearCandidateFields, Records, NoneStates
    <2>3. PICK l \in {"querying", "off", "sleeping"} : Goto(p, l) /\ l # pc[p]
      BY <1>2 DEF QueryUpstream, FinishCheck, FailCheck, Advance, Leave, Done
    <2>4. RecordMoves
      BY <2>1, <2>2 DEF RecordMoves
    <2>5. \A q \in Procs : pc[q] \notin WaitPcs
      BY <2>1, NobodyWaits DEF NoneStates, PreparingStates
    <2> QED BY <2>1, <2>3, <2>4, <2>5, SavingStep
            DEF Orderly, Waiting, WaitPcs, UnrequestedPcs
  <1> QED BY <1>1, <1>2 DEF Check

(* Discarding and reconciling act only on what nobody asked to install. *)
LEMMA ManageIsOrderly ==
  ASSUME IndInv, ConsentInv, NEW p \in Clients, Manage(p)
  PROVE  Orderly
  <1> USE DEF LockedPcs
  <1>p. p \in Procs
    BY DEF Procs
  <1>1. CASE CleanDiscarded(p)
    BY <1>1, <1>p, KeepingIsOrderly
    DEF CleanDiscarded, Leave, Waiting, WaitPcs, UnrequestedPcs
  <1>2. CASE DiscardCandidate(p)
    <2>1. lock = p /\ mem[p] = rec /\ rec \in Records
      BY <1>2, <1>p, Holding DEF DiscardCandidate
    <2>2. CASE rec.state = "installing" \/ rec.requested
      BY <1>2, <1>p, <2>1, <2>2, KeepingIsOrderly
      DEF DiscardCandidate, Leave, Waiting, WaitPcs, UnrequestedPcs
    <2>3. CASE ~(rec.state = "installing" \/ rec.requested)
      <3>1. /\ Goto(p, "discarded") /\ pc[p] = "discarding"
            /\ rec' = [Moved(rec, "idle") EXCEPT !.candidate = None, !.command = FALSE]
        BY <1>2, <2>1, <2>3 DEF DiscardCandidate, Advance, Put
      <3>2. rec'.state = "idle"
        BY <2>1, <3>1 DEF Moved, Records
      <3>3. RecordMoves
        BY <2>1, <2>3, <3>2 DEF RecordMoves, NoneStates, PreparingStates, Records, States
      <3>4. \A q \in Procs : pc[q] \notin WaitPcs
        BY <2>3, NobodyWaits
      <3> QED BY <1>p, <2>1, <3>1, <3>3, <3>4, SavingStep
              DEF Orderly, Waiting, WaitPcs, UnrequestedPcs
    <2> QED BY <2>2, <2>3
  <1>3. CASE FindInstalled(p) \/ RefuseReconcile(p)
    BY <1>3, <1>p, KeepingIsOrderly
    DEF FindInstalled, RefuseReconcile, Leave, Waiting, WaitPcs, UnrequestedPcs
  <1>4. CASE ReconcileInstall(p)
    <2>1. /\ lock = p /\ mem[p] = rec /\ rec \in Records
          /\ Goto(p, "off") /\ pc[p] = "reconciled" /\ Reconcilable(rec)
      BY <1>4, <1>p, Holding DEF ReconcileInstall, Leave, StepFits
    <2>2. rec' = [Moved(rec, "installed") EXCEPT !.command = FALSE, !.requested = FALSE]
      BY <1>4, <2>1 DEF ReconcileInstall, Put
    <2>3. RecordMoves
      BY <2>1, <2>2 DEF RecordMoves, NoneStates, Moved, Records, Reconcilable
    <2>4. \A q \in Procs : pc[q] \notin WaitPcs
      BY <2>1, NobodyWaits DEF Reconcilable
    <2> QED BY <1>p, <2>1, <2>3, <2>4, SavingStep
            DEF Orderly, Waiting, WaitPcs, UnrequestedPcs
  <1> QED BY <1>1, <1>2, <1>3, <1>4 DEF Manage

(* Consent, exit wait and installation: an installation begins only for the one
   process that waited on its own request. *)
LEMMA InstallIsOrderly ==
  ASSUME IndInv, ConsentInv, NEW p \in Clients, Install(p)
  PROVE  Orderly
  <1> USE DEF LockedPcs, InstallPcs
  <1>p. p \in Procs
    BY DEF Procs
  <1>1. CASE \/ RefuseInstall(p) \/ DeferInstall(p) \/ StartHelper(p)
             \/ SweepInstalled(p) \/ BeginRelaunch(p) \/ SkipRelaunch(p)
             \/ SpawnLauncher(p) \/ FinishRelaunch(p)
    BY <1>1, <1>p, KeepingIsOrderly
    DEF RefuseInstall, DeferInstall, StartHelper, SweepInstalled, BeginRelaunch,
        Load, SkipRelaunch, SpawnLauncher, FinishRelaunch, Leave, Waiting, WaitPcs,
        UnrequestedPcs
  <1>2. CASE EndWait(p)
    <2>1. PICK l \in {"timed-out", "exited"} : Goto(p, l)
      BY <1>2 DEF EndWait
    <2>2. pc[p] \in WaitPcs /\ UNCHANGED <<rec, aged>>
      BY <1>2 DEF EndWait, WaitPcs
    <2> QED BY <1>p, <2>1, <2>2, KeepingStep
            DEF Orderly, RecordMoves, Waiting, UnrequestedPcs
  <1>3. CASE BeginCancel(p)
    BY <1>3, <1>p, OpenIsOrderly DEF BeginCancel, EntryPcs, FreePcs, WaitPcs
  <1>4. CASE BeginInstall(p)
    BY <1>4, <1>p, OpenIsOrderly DEF BeginInstall, EntryPcs, FreePcs, WaitPcs
  <1>5. CASE RequestInstall(p)
    <2>1. /\ lock = p /\ rec \in Records
          /\ rec.state = "ready-to-install" /\ ~rec.requested
          /\ rec' = [rec EXCEPT !.requested = TRUE] /\ ~aged'
          /\ pc[p] = "updating" /\ Goto(p, "waiting")
      BY <1>5, <1>p, Holding DEF RequestInstall, UpdateRefused, Put, Leave
    <2>2. /\ rec'.state = "ready-to-install" /\ rec'.requested
          /\ rec'.candidate = rec.candidate
      BY <2>1 DEF Records
    <2>3. RecordMoves
      BY <2>1, <2>2 DEF RecordMoves, SameCandidate
    <2>4. \A q \in Procs : pc[q] \notin WaitPcs
      BY <2>1, NobodyWaits
    <2> QED BY <1>p, <2>1, <2>2, <2>3, <2>4, SavingStep DEF Orderly, UnrequestedPcs
  <1>6. CASE CancelInstallRequest(p)
    <2>1. /\ lock = p /\ mem[p] = rec /\ rec \in Records
          /\ pc[p] = "cancelling" /\ Goto(p, "off")
      BY <1>6, <1>p, Holding DEF CancelInstallRequest, Leave
    <2>2. rec.state = "ready-to-install" /\ rec.requested
      BY <1>p, <2>1 DEF ConsentInv, Waiting
    <2>3. rec'.state = "ready-to-install" /\ rec'.candidate = rec.candidate
      BY <1>6, <2>1, <2>2 DEF CancelInstallRequest, Put, Moved, Records
    <2>4. RecordMoves
      BY <2>2, <2>3 DEF RecordMoves, SameCandidate
    <2>5. \A q \in Procs \ {p} : pc[q] \notin WaitPcs
      BY <1>p, <2>1, NobodyElseWaits DEF Waiting
    <2> QED BY <1>p, <2>1, <2>4, <2>5, SavingStep
            DEF Orderly, Waiting, WaitPcs, UnrequestedPcs
  <1>7. CASE InstallReady(p)
    <2>1. /\ lock = p /\ rec \in Records
          /\ rec' = Moved(rec, "installing")
          /\ pc[p] = "entering" /\ Goto(p, "installing")
      BY <1>7, <1>p, Holding DEF InstallReady, Advance, Put
    <2>2. rec.state = "ready-to-install" /\ rec.requested
      BY <1>p, <2>1 DEF ConsentInv, Waiting
    <2>3. /\ rec'.state = "installing" /\ rec'.requested
          /\ rec'.candidate = rec.candidate
      BY <2>1, <2>2 DEF Moved, Records
    <2>4. RecordMoves
      BY <2>2, <2>3 DEF RecordMoves, SameCandidate
    <2>5. \A q \in Procs \ {p} : pc[q] \notin WaitPcs
      BY <1>p, <2>1, NobodyElseWaits DEF Waiting
    <2> QED BY <1>p, <2>1, <2>4, <2>5, SavingStep
            DEF Orderly, Waiting, WaitPcs, UnrequestedPcs
  <1>8. CASE AuthorizationDenied(p) \/ HelperUnavailable(p) \/ SettleInstall(p)
    <2>1. /\ lock = p /\ mem[p] = rec /\ rec \in Records
          /\ rec.state = "installing"
          /\ pc[p] # "settled" /\ Goto(p, "settled")
      BY <1>8, <1>p, Holding
      DEF AuthorizationDenied, HelperUnavailable, SettleInstall, StepFits, Advance
    <2>2. \/ /\ rec'.state = "ready-to-install" /\ ~rec'.requested
             /\ rec'.candidate = rec.candidate
          \/ /\ rec'.state = "install-failed-manual-action"
             /\ rec'.candidate = rec.candidate
          \/ rec'.state \in {"installed", "rolled-back"}
      BY <1>8, <2>1
      DEF AuthorizationDenied, HelperUnavailable, SettleInstall, Settled, Advance,
          Put, Moved, Records
    <2>3. RecordMoves
      BY <2>1, <2>2 DEF RecordMoves, SameCandidate, NoneStates
    <2>4. \A q \in Procs : pc[q] \notin WaitPcs
      BY <2>1, NobodyWaits
    <2> QED BY <1>p, <2>1, <2>2, <2>3, <2>4, SavingStep
            DEF Orderly, Consenting, Waiting, WaitPcs, UnrequestedPcs
  <1>9. CASE CloseInstall(p)
    <2>1. /\ lock = p /\ mem[p] = rec /\ rec \in Records /\ pc[p] = "settled"
          /\ rec' = [rec EXCEPT !.requested = FALSE]
      BY <1>9, <1>p, Holding DEF CloseInstall, Put
    <2>2. PICK l \in {"sweeping", "relaunching"} : Goto(p, l)
      BY <1>9 DEF CloseInstall, Leave
    <2>3. ~Consenting
      BY <1>p, <2>1 DEF ConsentInv
    <2>4. rec'.state = rec.state /\ rec'.candidate = rec.candidate
      BY <2>1 DEF Records
    <2>5. rec.state = "installing" => rec' = rec
      BY <2>1, <2>3 DEF Consenting, Records
    <2>6. RecordMoves
      BY <2>1, <2>4, <2>5
      DEF RecordMoves, SameCandidate, NoneStates, PreparingStates, Records, States
    <2>7. \A q \in Procs : pc[q] \notin WaitPcs
      BY <2>3, NobodyWaits DEF Consenting
    <2> QED BY <1>p, <2>1, <2>2, <2>6, <2>7, SavingStep
            DEF Orderly, Waiting, WaitPcs, UnrequestedPcs
  <1> QED BY <1>1, <1>2, <1>3, <1>4, <1>5, <1>6, <1>7, <1>8, <1>9 DEF Install

(* status repairs what nobody waits on; its read is no save. *)
LEMMA PollerIsOrderly ==
  ASSUME IndInv, ConsentInv, NEW p \in Pollers, PollerStep(p)
  PROVE  Orderly
  <1> USE DEF LockedPcs
  <1>p. p \in Procs
    BY DEF Procs
  <1>1. CASE ReadStatus(p) \/ BeginRepair(p) \/ FindLockTaken(p)
    BY <1>1, <1>p, KeepingIsOrderly
    DEF ReadStatus, BeginRepair, Load, FindLockTaken, Waiting, WaitPcs, UnrequestedPcs
  <1>2. CASE RepairStatus(p)
    <2>1. /\ lock = p /\ mem[p] = rec /\ rec \in Records
          /\ pc[p] = "repairing" /\ Goto(p, "off")
      BY <1>2, <1>p, Holding DEF RepairStatus, Leave
    <2>2. CASE NeedsRecovery(rec)
      <3>1. RecordMoves
        BY <1>2, <2>1, <2>2, RecoveryMoves DEF RepairStatus, Put
      <3> QED BY <1>p, <2>1, <2>2, <3>1, NobodyWaitsOnDead, SavingStep
              DEF Orderly, Waiting, WaitPcs, UnrequestedPcs
    <2>3. CASE ~NeedsRecovery(rec)
      BY <1>2, <1>p, <2>1, <2>3, KeepingIsOrderly
      DEF RepairStatus, Waiting, WaitPcs, UnrequestedPcs
    <2> QED BY <2>2, <2>3
  <1> QED BY <1>1, <1>2 DEF PollerStep

(* A daemon that starts finds the installation of a process that is gone. *)
LEMMA DaemonIsOrderly ==
  ASSUME IndInv, ConsentInv, NEW d \in Daemons, DaemonStep(d)
  PROVE  Orderly
  <1> USE DEF LockedPcs
  <1>p. d \in Procs
    BY DEF Procs
  <1>1. CASE \/ StartDaemon(d) \/ BeginStartup(d) \/ FinishStartup(d)
             \/ DecideCheck(d) \/ WakeUp(d) \/ FindLockTaken(d)
    BY <1>1, <1>p, KeepingIsOrderly
    DEF StartDaemon, BeginStartup, Load, FinishStartup, DecideCheck, WakeUp,
        FindLockTaken, Waiting, WaitPcs, UnrequestedPcs
  <1>2. CASE BeginCheck(d)
    BY <1>2, <1>p, OpenIsOrderly DEF BeginCheck, EntryPcs, FreePcs, Waiting, WaitPcs
  <1>3. CASE Check(d)
    BY <1>3, <1>p, CheckIsOrderly
  <1>4. CASE RecoverInterruptedInstall(d)
    <2>1. /\ lock = d /\ mem[d] = rec /\ rec \in Records
          /\ pc[d] = "recovering" /\ Goto(d, "startup")
      BY <1>4, <1>p, Holding DEF RecoverInterruptedInstall
    <2>2. CASE rec.state = "installing"
      <3>1. rec' = Moved(rec, "install-failed-manual-action")
        BY <1>4, <2>1, <2>2 DEF RecoverInterruptedInstall, StartupRecord, Put
      <3>2. RecordMoves
        BY <2>1, <2>2, <3>1 DEF RecordMoves, SameCandidate, Moved, Records
      <3>3. \A q \in Procs : pc[q] \notin WaitPcs
        BY <2>2, NobodyWaits
      <3> QED BY <1>p, <2>1, <3>2, <3>3, SavingStep
              DEF Orderly, Waiting, WaitPcs, UnrequestedPcs
    <2>3. CASE rec.state # "installing" /\ NeedsRecovery(rec)
      <3>1. RecordMoves
        BY <1>4, <2>1, <2>3, RecoveryMoves
        DEF RecoverInterruptedInstall, StartupRecord, Put
      <3> QED BY <1>p, <2>1, <2>3, <3>1, NobodyWaitsOnDead, SavingStep
              DEF Orderly, Waiting, WaitPcs, UnrequestedPcs
    <2>4. CASE rec.state # "installing" /\ ~NeedsRecovery(rec)
      BY <1>4, <1>p, <2>1, <2>4, KeepingIsOrderly
      DEF RecoverInterruptedInstall, Waiting, WaitPcs, UnrequestedPcs
    <2> QED BY <2>2, <2>3, <2>4
  <1> QED BY <1>1, <1>2, <1>3, <1>4 DEF DaemonStep

(* Nothing ages while a process waits that cannot be stopped. *)
LEMMA SurroundingsAreOrderly ==
  ASSUME IndInv, ConsentInv, ~Suspends, Surroundings
  PROVE  Orderly
  <1>1. UNCHANGED <<rec, pc>>
    BY DEF Surroundings, FinishHelper, ChangeInstalled, RunManualCommand, StartOrQuitApp, Age
  <1>2. CASE Age
    <2>1. \A q \in Procs : pc[q] \notin WaitPcs
      BY <1>2 DEF Age, ConsentInv, Waiting
    <2> QED BY <1>1, <2>1 DEF Orderly, ConsentInv, Consenting, Undisturbed, RecordMoves
  <1>3. CASE FinishHelper \/ ChangeInstalled \/ RunManualCommand \/ StartOrQuitApp
    <2>1. UNCHANGED aged
      BY <1>3 DEF FinishHelper, ChangeInstalled, RunManualCommand, StartOrQuitApp
    <2> QED BY <1>1, <2>1 DEF Orderly, ConsentInv, Consenting, Undisturbed, RecordMoves
  <1> QED BY <1>2, <1>3 DEF Surroundings

(* At first nothing is under way. *)
LEMMA InitialState == Init => rec.state \in {"idle", "failed"}
  <1>1. ASSUME Init
        PROVE  \/ rec = DefaultRecord
               \/ \E v \in Versions : rec = [DefaultRecord EXCEPT !.state = "failed",
                                              !.candidate = v, !.exitWaitFailed = TRUE]
    BY <1>1, Zenon DEF Init
  <1>2. ASSUME NEW v
        PROVE  [DefaultRecord EXCEPT !.state = "failed", !.candidate = v,
                                     !.exitWaitFailed = TRUE].state = "failed"
    BY DEF DefaultRecord
  <1>3. DefaultRecord.state = "idle"
    BY DEF DefaultRecord
  <1> QED BY <1>1, <1>2, <1>3, Zenon

(* At first nobody waits. *)
LEMMA InitConsented == Init => ConsentInv
  BY DEF Init, ConsentInv, Waiting, WaitPcs, UnrequestedPcs

LEMMA NextIsOrderly ==
  ASSUME ~Suspends, IndInv, ConsentInv, [Next]_vars
  PROVE  Orderly
  <1>1. CASE \E p \in Clients : Start(p) \/ ClientStep(p)
    <2> PICK p \in Clients : Start(p) \/ ClientStep(p)
      BY <1>1
    <2>1. CASE FindLockTaken(p)
      BY <2>1, KeepingIsOrderly
      DEF FindLockTaken, Waiting, WaitPcs, UnrequestedPcs, Procs
    <2> QED BY <2>1, StartIsOrderly, PrepareIsOrderly, InstallIsOrderly,
               CheckIsOrderly, ManageIsOrderly DEF ClientStep, Procs
  <1>2. CASE \E p \in Pollers : PollerStep(p)
    BY <1>2, PollerIsOrderly
  <1>3. CASE \E d \in Daemons : DaemonStep(d)
    BY <1>3, DaemonIsOrderly
  <1>4. CASE \E p \in Procs : Crash(p)
    BY <1>4, KeepingIsOrderly DEF Crash, Waiting, WaitPcs, UnrequestedPcs
  <1>5. CASE Surroundings
    BY <1>5, SurroundingsAreOrderly
  <1>6. CASE UNCHANGED vars
    BY <1>6 DEF vars, Orderly, ConsentInv, Consenting, Undisturbed, RecordMoves
  <1> QED BY <1>1, <1>2, <1>3, <1>4, <1>5, <1>6 DEF Next

(* As long as no waiting process is stopped past the stale timeout, there is one
   waiting process at a time, and what it waits on is a fresh request. *)
THEOREM ConsentInvariance ==
  ASSUME ~Suspends
  PROVE  Spec => []ConsentInv
  <1>1. IndInv /\ ConsentInv /\ [Next]_vars => ConsentInv'
    BY NextIsOrderly DEF Orderly
  <1> QED BY <1>1, InitConsented, Invariance, PTL DEF Spec

(* Then an installation begins only under a recorded request. *)
THEOREM InstallationConsented ==
  ASSUME ~Suspends
  PROVE  Spec => InstallConsented
  <1> DEFINE consented ==
        rec.state # "installing" /\ rec'.state = "installing" => rec.requested
  <1>1. IndInv /\ ConsentInv /\ [Next]_vars => consented
    BY NextIsOrderly DEF Orderly, RecordMoves, NoneStates, PreparingStates
  <1>2. Spec => [][consented]_vars
    BY <1>1, Invariance, ConsentInvariance, PTL DEF Spec
  <1> QED BY <1>2 DEF InstallConsented

(* Then nobody, recovery included, changes the record under a process that
   prepares, queries or waits: not its state, and not the request it waits on. *)
THEOREM RecoversOnlyDead ==
  ASSUME ~Suspends
  PROVE  Spec => OnlyDeadOperationsRecovered
  <1>1. IndInv /\ ConsentInv /\ [Next]_vars => Undisturbed
    BY NextIsOrderly DEF Orderly
  <1>2. Spec => [][Undisturbed]_vars
    BY <1>1, Invariance, ConsentInvariance, PTL DEF Spec
  <1> QED BY <1>2 DEF OnlyDeadOperationsRecovered, Undisturbed

(* Then the processes, with their crashes, recoveries and contention for the
   lock, implement the lifecycle of a candidate, step by step. *)
THEOREM LifecycleImplemented ==
  ASSUME ~Suspends
  PROVE  Spec => ImplementsLifecycle
  <1>1. Init => Lifecycle!Init
    BY InitialState DEF Lifecycle!Init, phaseOfRecord, RequiresCandidate
  <1>2. IndInv /\ ConsentInv /\ IndInv' /\ [Next]_vars
          => [Lifecycle!Next]_(Lifecycle!vars)
    <2> SUFFICES ASSUME IndInv, ConsentInv, IndInv', [Next]_vars
                 PROVE  [Lifecycle!Next]_(Lifecycle!vars)
      OBVIOUS
    <2>1. rec \in Records /\ rec' \in Records
      BY DEF IndInv, TypeOK
    <2>2. RecordMoves
      BY NextIsOrderly DEF Orderly
    <2> QED BY <2>1, <2>2, MovesImplement
  <1>3. Spec => [][Lifecycle!Next]_(Lifecycle!vars)
    BY <1>2, Invariance, ConsentInvariance, PTL DEF Spec
  <1>4. Spec => Lifecycle!Init
    BY <1>1 DEF Spec
  <1> QED BY <1>3, <1>4 DEF ImplementsLifecycle, Lifecycle!Spec

-----------------------------------------------------------------------------
(* The record as the bridge reads it.  Beside consent three more facts are
   carried: a preparation starts without a request, an installation is entered
   with one, and the two stretches of an update that save twice know what they
   saved last. *)
SettledStates == {"ready-to-install", "install-failed-manual-action", "installed",
                  "rolled-back"}

ReaderFits(l) ==
    /\ l = "preparing" => ~rec.requested
    /\ l = "announcing" => rec.state = "ready-to-install"
    /\ l = "settled" => rec.state \in SettledStates

ReaderInv ==
    /\ rec.state = "installing" => rec.requested
    /\ \A p \in Procs : ReaderFits(pc[p])

(* One disjunct per step of UpdaterRecord, or per way not to take one. *)
ReaderMoves ==
    \/ rec'.state = rec.state /\ rec'.requested = rec.requested
    \/ /\ rec.state \in {"update-available"} \union PreparingStates /\ ~rec.requested
       /\ rec'.state \in PreparingStates /\ ~rec'.requested
    \/ /\ rec.state \in {"update-available", "ready-to-install"} \union PreparingStates
       /\ ~rec.requested
       /\ rec'.state = "failed" /\ ~rec'.requested
    \/ /\ rec.state \in PreparingStates /\ ~rec.requested
       /\ rec'.state = "ready-to-install" /\ ~rec'.requested
    \/ rec.state = "ready-to-install" /\ rec'.state = "ready-to-install"
    \/ /\ rec.state = "ready-to-install" /\ rec.requested
       /\ rec'.state = "installing" /\ rec'.requested
    \/ /\ rec.state = "installing" /\ rec.requested
       /\ rec'.state = "ready-to-install" /\ ~rec'.requested
    \/ /\ rec.state = "installing" /\ rec.requested
       /\ rec'.state \in SettledStates \ {"ready-to-install"} /\ rec'.requested
    \/ /\ rec.state \in SettledStates \ {"ready-to-install"}
       /\ rec'.state = rec.state /\ ~rec'.requested
    \/ /\ rec.state \in {"idle", "update-available", "installed", "rolled-back", "failed"}
       /\ rec'.state = "checking" /\ rec'.requested = rec.requested
    \/ /\ rec.state = "checking"
       /\ rec'.state \in {"idle", "update-available"} /\ ~rec'.requested
    \/ /\ rec.state = "checking" /\ rec'.state = "failed"
       /\ rec'.requested = rec.requested
    \/ /\ rec.state \in {"checking"} \union PreparingStates
       /\ rec'.state = "failed" /\ ~rec'.requested
    \/ /\ rec.state = "install-failed-manual-action"
       /\ rec'.state = "installed" /\ ~rec'.requested

(* Every such step is one of the steps a reader knows, or none to it. *)
LEMMA MovesRead ==
  ASSUME rec \in Records, rec' \in Records, ReaderMoves
  PROVE  Reader!Next \/ UNCHANGED View
  <1> USE DEF View, PreparingStates, SettledStates, Records, Reader!Record
  <1>1. CASE rec'.state = rec.state /\ rec'.requested = rec.requested
    BY <1>1
  <1>2. CASE /\ rec.state \in {"update-available"} \union PreparingStates
             /\ ~rec.requested
             /\ rec'.state \in PreparingStates /\ ~rec'.requested
    BY <1>2 DEF Reader!Next, Reader!Prepare
  <1>3. CASE /\ rec.state \in {"update-available", "ready-to-install"}
                                 \union PreparingStates
             /\ ~rec.requested
             /\ rec'.state = "failed" /\ ~rec'.requested
    BY <1>3 DEF Reader!Next, Reader!Reject
  <1>4. CASE /\ rec.state \in PreparingStates /\ ~rec.requested
             /\ rec'.state = "ready-to-install" /\ ~rec'.requested
    BY <1>4 DEF Reader!Next, Reader!Retain
  <1>5. CASE rec.state = "ready-to-install" /\ rec'.state = "ready-to-install"
    BY <1>5 DEF Reader!Next, Reader!Request, Reader!Cancel
  <1>6. CASE /\ rec.state = "ready-to-install" /\ rec.requested
             /\ rec'.state = "installing" /\ rec'.requested
    BY <1>6 DEF Reader!Next, Reader!Install
  <1>7. CASE /\ rec.state = "installing" /\ rec.requested
             /\ rec'.state = "ready-to-install" /\ ~rec'.requested
    BY <1>7 DEF Reader!Next, Reader!Deny
  <1>8. CASE /\ rec.state = "installing" /\ rec.requested
             /\ rec'.state \in SettledStates \ {"ready-to-install"} /\ rec'.requested
    BY <1>8 DEF Reader!Next, Reader!Settle
  <1>9. CASE /\ rec.state \in SettledStates \ {"ready-to-install"}
             /\ rec'.state = rec.state /\ ~rec'.requested
    BY <1>9 DEF Reader!Next, Reader!Close
  <1>10. CASE /\ rec.state \in {"idle", "update-available", "installed",
                                "rolled-back", "failed"}
              /\ rec'.state = "checking" /\ rec'.requested = rec.requested
    BY <1>10 DEF Reader!Next, Reader!Query
  <1>11. CASE /\ rec.state = "checking"
              /\ rec'.state \in {"idle", "update-available"} /\ ~rec'.requested
    BY <1>11 DEF Reader!Next, Reader!Answer
  <1>12. CASE /\ rec.state = "checking" /\ rec'.state = "failed"
              /\ rec'.requested = rec.requested
    BY <1>12 DEF Reader!Next, Reader!FailCheck
  <1>13. CASE /\ rec.state \in {"checking"} \union PreparingStates
              /\ rec'.state = "failed" /\ ~rec'.requested
    BY <1>13 DEF Reader!Next, Reader!RecoverStale
  <1>14. CASE /\ rec.state = "install-failed-manual-action"
              /\ rec'.state = "installed" /\ ~rec'.requested
    BY <1>14 DEF Reader!Next, Reader!Reconcile
  <1> QED BY <1>1, <1>2, <1>3, <1>4, <1>5, <1>6, <1>7, <1>8, <1>9, <1>10, <1>11,
             <1>12, <1>13, <1>14 DEF ReaderMoves

(* What every step must show. *)
Readable == ReaderInv' /\ (ReaderMoves \/ Discards \/ rec.exitWaitFailed)

(* A step that saves nothing. *)
LEMMA KeepingIsReadable ==
  ASSUME IndInv, ReaderInv, NEW p \in Procs, NEW l, Goto(p, l), UNCHANGED rec,
         ReaderFits(l)
  PROVE  Readable
  <1>1. \A q \in Procs : pc'[q] = l \/ pc'[q] = pc[q]
    BY DEF Goto, IndInv, TypeOK
  <1> QED BY <1>1 DEF ReaderInv, ReaderFits, Readable, ReaderMoves

(* A step that saves, while it holds the lock or takes it. *)
LEMMA SavingIsReadable ==
  ASSUME IndInv, ReaderInv, NEW p \in Procs, NEW l, Goto(p, l),
         lock = p \/ lock = None,
         rec'.state = "installing" => rec'.requested,
         ReaderFits(l)',
         ReaderMoves \/ Discards \/ rec.exitWaitFailed
  PROVE  Readable
  <1>1. pc'[p] = l /\ \A q \in Procs \ {p} : pc'[q] = pc[q]
    BY DEF Goto, IndInv, TypeOK
  <1>2. \A q \in Procs \ {p} : pc[q] \in FreePcs
    BY OthersAreFree
  <1>3. \A q \in Procs \ {p} : pc[q] \notin {"preparing", "announcing", "settled"}
    BY <1>2 DEF FreePcs, WaitPcs
  <1> QED BY <1>1, <1>3 DEF ReaderInv, ReaderFits, Readable

(* Recovery fails what was under way, and takes a request back. *)
LEMMA RecoveryIsRead ==
  ASSUME rec \in Records, rec' = Recovered(rec), NeedsRecovery(rec)
  PROVE  /\ rec'.state \in {"ready-to-install", "failed"}
         /\ ReaderMoves \/ rec.exitWaitFailed
  <1>1. CASE FailedExitWait(rec)
    <2>1. rec' = [rec EXCEPT !.state = "ready-to-install", !.requested = FALSE,
                             !.command = FALSE, !.exitWaitFailed = FALSE]
      BY <1>1 DEF Recovered
    <2>2. rec'.state = "ready-to-install"
      BY <2>1 DEF Records
    <2> QED BY <1>1, <2>2 DEF FailedExitWait
  <1>2. CASE ~FailedExitWait(rec) /\ rec.state = "ready-to-install"
    <2>1. rec' = [rec EXCEPT !.state = "ready-to-install", !.requested = FALSE,
                             !.command = FALSE, !.exitWaitFailed = FALSE]
      BY <1>2 DEF Recovered
    <2>2. rec'.state = "ready-to-install"
      BY <2>1 DEF Records
    <2> QED BY <1>2, <2>2 DEF ReaderMoves
  <1>3. CASE ~FailedExitWait(rec) /\ rec.state # "ready-to-install"
    <2>1. rec' = [rec EXCEPT !.state = "failed", !.requested = FALSE,
                             !.exitWaitFailed = FALSE]
      BY <1>3 DEF Recovered
    <2>2. rec'.state = "failed" /\ ~rec'.requested
      BY <2>1 DEF Records
    <2>3. rec.state \in {"checking"} \union PreparingStates
      BY <1>3 DEF NeedsRecovery, Stale, Expires, PreparationActive, PreparingStates
    <2> QED BY <2>2, <2>3 DEF ReaderMoves
  <1> QED BY <1>1, <1>2, <1>3

(* Opening with recovery. *)
LEMMA OpenIsReadable ==
  ASSUME IndInv, ReaderInv, NEW p \in Procs, NEW l \in EntryPcs, Open(p, l)
  PROVE  Readable
  <1>1. Goto(p, l) /\ lock = None /\ rec' = Recovered(rec) /\ rec \in Records
    BY DEF Open, IndInv, TypeOK
  <1>2. l \notin {"preparing", "announcing", "settled"}
    BY DEF EntryPcs
  <1>3. CASE ~NeedsRecovery(rec)
    <2>1. UNCHANGED rec
      BY <1>1, <1>3 DEF Recovered
    <2> QED BY <1>1, <1>2, <2>1, KeepingIsReadable DEF ReaderFits
  <1>4. CASE NeedsRecovery(rec)
    BY <1>1, <1>2, <1>4, RecoveryIsRead, SavingIsReadable DEF ReaderFits
  <1> QED BY <1>3, <1>4

(* What clients start. *)
LEMMA StartIsReadable ==
  ASSUME IndInv, ReaderInv, NEW p \in Procs, Start(p)
  PROVE  Readable
  BY OpenIsReadable
  DEF Start, BeginUpdate, BeginCheck, BeginDiscard, BeginReconcile, EntryPcs

(* Preparation: no request stands while it runs. *)
LEMMA PrepareIsReadable ==
  ASSUME IndInv, ConsentInv, ReaderInv, NEW p \in Procs, Prepare(p)
  PROVE  Readable
  <1> USE DEF LockedPcs, PreparePcs, InstallPcs
  <1>1. CASE RefuseUpdate(p) \/ Announce(p) \/ CleanRejected(p) \/ BuildPackage(p)
    BY <1>1, KeepingIsReadable
    DEF RefuseUpdate, Announce, CleanRejected, BuildPackage, Leave, ReaderFits
  <1>2. CASE BeginPrepare(p)
    BY <1>2, Holding, KeepingIsReadable DEF BeginPrepare, UpdateRefused, ReaderFits
  <1>3. CASE BeginDownload(p)
    <2>1. /\ lock = p /\ rec \in Records /\ rec.state = "update-available"
          /\ rec' = Moved(ClearCandidateFields(rec), "downloading")
          /\ pc[p] = "preparing" /\ Goto(p, "downloading")
      BY <1>3, Holding DEF BeginDownload, Advance, Put, StepFits
    <2>2. rec'.state = "downloading" /\ ~rec'.requested
      BY <2>1 DEF Moved, ClearCandidateFields, Records
    <2>3. ReaderMoves
      BY <2>1, <2>2 DEF ReaderMoves, PreparingStates, ReaderInv, ReaderFits
    <2> QED BY <2>1, <2>2, <2>3, SavingIsReadable DEF ReaderFits
  <1>4. CASE BeginBuild(p) \/ AcceptPackage(p)
    <2> PICK s \in {"building", "validating"} :
               /\ rec' = Moved(mem[p], s) /\ Goto(p, s)
               /\ pc[p] \in {"downloading", "packaging"}
      BY <1>4 DEF BeginBuild, AcceptPackage, Advance, Put
    <2>1. /\ lock = p /\ mem[p] = rec /\ rec \in Records
          /\ rec.state \in PreparingStates
      BY Holding DEF StepFits, PreparingStates
    <2>2. rec'.state = s /\ ~rec.requested /\ ~rec'.requested
      BY <2>1 DEF ConsentInv, UnrequestedPcs, Moved, Records
    <2>3. ReaderMoves
      BY <2>1, <2>2 DEF ReaderMoves, PreparingStates
    <2> QED BY <2>1, <2>2, <2>3, SavingIsReadable DEF ReaderFits
  <1>5. CASE RetainCandidate(p)
    <2>1. /\ lock = p /\ rec \in Records
          /\ rec.state \in PreparingStates
          /\ rec' = [Moved(rec, "ready-to-install") EXCEPT
                       !.candidate = rec.available, !.available = None]
          /\ pc[p] = "validating" /\ Goto(p, "announcing")
      BY <1>5, Holding DEF RetainCandidate, Advance, Put, StepFits, PreparingStates
    <2>2. ~rec.requested /\ rec'.state = "ready-to-install" /\ ~rec'.requested
      BY <2>1 DEF ConsentInv, UnrequestedPcs, Moved, Records
    <2>3. ReaderMoves
      BY <2>1, <2>2 DEF ReaderMoves
    <2> QED BY <2>1, <2>2, <2>3, SavingIsReadable DEF ReaderFits
  <1>6. CASE RejectCandidate(p)
    <2>1. /\ lock = p /\ rec \in Records /\ mem[p] = rec
          /\ pc[p] \in PreparePcs /\ Goto(p, "rejecting")
      BY <1>6, Holding DEF RejectCandidate, Advance
    <2>2. ~rec.requested
      BY <2>1 DEF ReaderInv, ReaderFits, ConsentInv, UnrequestedPcs
    <2>3. rec'.state = "failed" /\ ~rec'.requested
      BY <1>6, <2>1, <2>2 DEF RejectCandidate, Advance, Put, Moved, ClearCandidateFields,
                        Records
    <2>4. rec.state \in {"update-available", "ready-to-install"} \union PreparingStates
      BY <2>1, Holding DEF StepFits, ReaderInv, ReaderFits, PreparingStates
    <2>5. ReaderMoves
      BY <2>2, <2>3, <2>4 DEF ReaderMoves
    <2> QED BY <2>1, <2>3, <2>5, SavingIsReadable DEF ReaderFits
  <1> QED BY <1>1, <1>2, <1>3, <1>4, <1>5, <1>6 DEF Prepare

(* Checks: only an answer takes back what a dead update left. *)
LEMMA CheckIsReadable ==
  ASSUME IndInv, ReaderInv, NEW p \in Procs, Check(p)
  PROVE  Readable
  <1> USE DEF LockedPcs
  <1>1. CASE SkipCheck(p)
    BY <1>1, KeepingIsReadable DEF SkipCheck, Leave, Done, ReaderFits
  <1>2. CASE QueryUpstream(p)
    <2>1. /\ lock = p /\ rec \in Records /\ rec' = Moved(rec, "checking")
          /\ ~BlocksNewCandidate(rec.state) /\ Goto(p, "querying")
      BY <1>2, Holding DEF QueryUpstream, Advance, Put
    <2>2. rec'.state = "checking" /\ rec'.requested = rec.requested
      BY <2>1 DEF Moved, Records
    <2>3. rec.state \in {"idle", "update-available", "installed", "rolled-back", "failed"}
      BY <2>1 DEF BlocksNewCandidate, RequiresCandidate, PreparationActive, Records, States
    <2>4. ReaderMoves
      BY <2>2, <2>3 DEF ReaderMoves
    <2> QED BY <2>1, <2>2, <2>4, SavingIsReadable DEF ReaderFits
  <1>3. CASE FinishCheck(p) \/ FailCheck(p)
    <2>1. /\ lock = p /\ mem[p] = rec /\ rec \in Records /\ rec.state = "checking"
          /\ Goto(p, Done(p))
      BY <1>3, Holding DEF FinishCheck, FailCheck, StepFits, Leave
    <2>2. \/ rec'.state \in {"idle", "update-available"} /\ ~rec'.requested
          \/ rec'.state = "failed" /\ rec'.requested = rec.requested
      BY <1>3, <2>1 DEF FinishCheck, FailCheck, Put, Moved, ClearCandidateFields, Records
    <2>3. ReaderMoves
      BY <2>1, <2>2 DEF ReaderMoves
    <2> QED BY <2>1, <2>2, <2>3, SavingIsReadable DEF ReaderFits, Done
  <1> QED BY <1>1, <1>2, <1>3 DEF Check

(* Discarding is the step no reader expects; reconciling needs a manual action. *)
LEMMA ManageIsReadable ==
  ASSUME IndInv, ReaderInv, NEW p \in Clients, Manage(p)
  PROVE  Readable
  <1> USE DEF LockedPcs
  <1>p. p \in Procs
    BY DEF Procs
  <1>1. CASE CleanDiscarded(p)
    BY <1>1, <1>p, KeepingIsReadable DEF CleanDiscarded, Leave, ReaderFits
  <1>2. CASE DiscardCandidate(p)
    <2>1. lock = p /\ mem[p] = rec /\ rec \in Records
      BY <1>2, <1>p, Holding DEF DiscardCandidate
    <2>2. PICK l \in {"off", "discarded"} : Goto(p, l)
      BY <1>2 DEF DiscardCandidate, Advance, Leave
    <2>3. rec'.state = "installing" => rec'.requested
      <3>1. CASE UNCHANGED rec
        BY <3>1 DEF ReaderInv
      <3>2. CASE ~UNCHANGED rec
        <4>1. rec' = [Moved(rec, "idle") EXCEPT !.candidate = None, !.command = FALSE]
          BY <1>2, <2>1, <3>2 DEF DiscardCandidate, Advance, Put
        <4> QED BY <2>1, <4>1 DEF Moved, Records
      <3> QED BY <3>1, <3>2
    <2> QED BY <1>2, <1>p, <2>1, <2>2, <2>3, SavingIsReadable DEF Discards, ReaderFits
  <1>3. CASE FindInstalled(p) \/ RefuseReconcile(p)
    BY <1>3, <1>p, KeepingIsReadable DEF FindInstalled, RefuseReconcile, Leave, ReaderFits
  <1>4. CASE ReconcileInstall(p)
    <2>1. /\ lock = p /\ mem[p] = rec /\ rec \in Records /\ Goto(p, "off")
          /\ rec.state = "install-failed-manual-action"
      BY <1>4, <1>p, Holding DEF ReconcileInstall, Leave, StepFits, Reconcilable
    <2>2. rec' = [Moved(rec, "installed") EXCEPT !.command = FALSE, !.requested = FALSE]
      BY <1>4, <2>1 DEF ReconcileInstall, Put
    <2>3. rec'.state = "installed" /\ ~rec'.requested
      BY <2>1, <2>2 DEF Moved, Records
    <2>4. ReaderMoves
      BY <2>1, <2>3 DEF ReaderMoves
    <2> QED BY <1>p, <2>1, <2>3, <2>4, SavingIsReadable DEF ReaderFits
  <1> QED BY <1>1, <1>2, <1>3, <1>4 DEF Manage

(* Consent, exit wait and installation: the request stands until the outcome is
   saved, then it is taken back. *)
LEMMA InstallIsReadable ==
  ASSUME IndInv, ConsentInv, ReaderInv, NEW p \in Clients, Install(p)
  PROVE  Readable
  <1> USE DEF LockedPcs, InstallPcs
  <1>p. p \in Procs
    BY DEF Procs
  <1>1. CASE \/ RefuseInstall(p) \/ DeferInstall(p) \/ StartHelper(p)
             \/ SweepInstalled(p) \/ BeginRelaunch(p) \/ SkipRelaunch(p)
             \/ SpawnLauncher(p) \/ FinishRelaunch(p)
    BY <1>1, <1>p, KeepingIsReadable
    DEF RefuseInstall, DeferInstall, StartHelper, SweepInstalled, BeginRelaunch,
        Load, SkipRelaunch, SpawnLauncher, FinishRelaunch, Leave, ReaderFits
  <1>2. CASE EndWait(p)
    <2>1. PICK l \in {"timed-out", "exited"} : Goto(p, l)
      BY <1>2 DEF EndWait
    <2> QED BY <1>2, <1>p, <2>1, KeepingIsReadable DEF EndWait, ReaderFits
  <1>3. CASE BeginCancel(p) \/ BeginInstall(p)
    BY <1>3, <1>p, OpenIsReadable DEF BeginCancel, BeginInstall, EntryPcs
  <1>4. CASE RequestInstall(p)
    <2>1. /\ lock = p /\ rec \in Records
          /\ rec.state = "ready-to-install"
          /\ rec' = [rec EXCEPT !.requested = TRUE]
          /\ pc[p] = "updating" /\ Goto(p, "waiting")
      BY <1>4, <1>p, Holding DEF RequestInstall, Put, Leave
    <2>2. rec'.state = "ready-to-install"
      BY <2>1 DEF Records
    <2>3. ReaderMoves
      BY <2>1, <2>2 DEF ReaderMoves
    <2> QED BY <1>p, <2>1, <2>2, <2>3, SavingIsReadable DEF ReaderFits
  <1>5. CASE CancelInstallRequest(p)
    <2>1. /\ lock = p /\ mem[p] = rec /\ rec \in Records
          /\ pc[p] = "cancelling" /\ Goto(p, "off")
      BY <1>5, <1>p, Holding DEF CancelInstallRequest, Leave
    <2>2. rec.state = "ready-to-install"
      BY <1>p, <2>1 DEF ConsentInv, Waiting
    <2>3. rec'.state = "ready-to-install"
      BY <1>5, <2>1, <2>2 DEF CancelInstallRequest, Put, Moved, Records
    <2>4. ReaderMoves
      BY <2>2, <2>3 DEF ReaderMoves
    <2> QED BY <1>p, <2>1, <2>3, <2>4, SavingIsReadable DEF ReaderFits
  <1>6. CASE InstallReady(p)
    <2>1. /\ lock = p /\ rec \in Records
          /\ rec' = Moved(rec, "installing")
          /\ pc[p] = "entering" /\ Goto(p, "installing")
      BY <1>6, <1>p, Holding DEF InstallReady, Advance, Put
    <2>2. rec.state = "ready-to-install" /\ rec.requested
      BY <1>p, <2>1 DEF ConsentInv, Waiting
    <2>3. rec'.state = "installing" /\ rec'.requested
      BY <2>1, <2>2 DEF Moved, Records
    <2>4. ReaderMoves
      BY <2>2, <2>3 DEF ReaderMoves
    <2> QED BY <1>p, <2>1, <2>3, <2>4, SavingIsReadable DEF ReaderFits
  <1>7. CASE AuthorizationDenied(p) \/ HelperUnavailable(p) \/ SettleInstall(p)
    <2>1. /\ lock = p /\ mem[p] = rec /\ rec \in Records
          /\ rec.state = "installing" /\ Goto(p, "settled")
      BY <1>7, <1>p, Holding
      DEF AuthorizationDenied, HelperUnavailable, SettleInstall, StepFits, Advance
    <2>2. rec.requested
      BY <2>1 DEF ReaderInv
    <2>3. \/ rec'.state = "ready-to-install" /\ ~rec'.requested
          \/ rec'.state \in SettledStates \ {"ready-to-install"} /\ rec'.requested
      BY <1>7, <2>1, <2>2
      DEF AuthorizationDenied, HelperUnavailable, SettleInstall, Settled, Advance,
          Put, Moved, Records, SettledStates
    <2>4. ReaderMoves
      BY <2>1, <2>2, <2>3 DEF ReaderMoves
    <2>5. rec'.state \in SettledStates
      BY <2>3 DEF SettledStates
    <2> QED BY <1>p, <2>1, <2>4, <2>5, SavingIsReadable
            DEF ReaderFits, SettledStates
  <1>8. CASE CloseInstall(p)
    <2>1. /\ lock = p /\ rec \in Records /\ pc[p] = "settled"
          /\ rec' = [rec EXCEPT !.requested = FALSE]
      BY <1>8, <1>p, Holding DEF CloseInstall, Put
    <2>2. PICK l \in {"sweeping", "relaunching"} : Goto(p, l)
      BY <1>8 DEF CloseInstall, Leave
    <2>3. rec.state \in SettledStates
      BY <1>p, <2>1 DEF ReaderInv, ReaderFits
    <2>4. rec'.state = rec.state /\ ~rec'.requested
      BY <2>1 DEF Records
    <2>5. ReaderMoves
      BY <2>3, <2>4 DEF ReaderMoves
    <2> QED BY <1>p, <2>1, <2>2, <2>3, <2>4, <2>5, SavingIsReadable
            DEF ReaderFits, SettledStates
  <1> QED BY <1>1, <1>2, <1>3, <1>4, <1>5, <1>6, <1>7, <1>8 DEF Install

(* status: a repair is a recovery like any other. *)
LEMMA PollerIsReadable ==
  ASSUME IndInv, ReaderInv, NEW p \in Pollers, PollerStep(p)
  PROVE  Readable
  <1> USE DEF LockedPcs
  <1>p. p \in Procs
    BY DEF Procs
  <1>1. CASE ReadStatus(p) \/ BeginRepair(p) \/ FindLockTaken(p)
    BY <1>1, <1>p, KeepingIsReadable
    DEF ReadStatus, BeginRepair, Load, FindLockTaken, ReaderFits
  <1>2. CASE RepairStatus(p)
    <2>1. /\ lock = p /\ mem[p] = rec /\ rec \in Records
          /\ pc[p] = "repairing" /\ Goto(p, "off")
      BY <1>2, <1>p, Holding DEF RepairStatus, Leave
    <2>2. CASE NeedsRecovery(rec)
      <3>1. rec' = Recovered(rec)
        BY <1>2, <2>1, <2>2 DEF RepairStatus, Put
      <3> QED BY <1>p, <2>1, <2>2, <3>1, RecoveryIsRead, SavingIsReadable DEF ReaderFits
    <2>3. CASE ~NeedsRecovery(rec)
      BY <1>2, <1>p, <2>1, <2>3, KeepingIsReadable DEF RepairStatus, ReaderFits
    <2> QED BY <2>2, <2>3
  <1> QED BY <1>1, <1>2 DEF PollerStep

(* A daemon that starts asks for manual action on an interrupted installation,
   and leaves the request on it. *)
LEMMA DaemonIsReadable ==
  ASSUME IndInv, ReaderInv, NEW d \in Daemons, DaemonStep(d)
  PROVE  Readable
  <1> USE DEF LockedPcs
  <1>p. d \in Procs
    BY DEF Procs
  <1>1. CASE \/ StartDaemon(d) \/ BeginStartup(d) \/ FinishStartup(d)
             \/ DecideCheck(d) \/ WakeUp(d) \/ FindLockTaken(d)
    BY <1>1, <1>p, KeepingIsReadable
    DEF StartDaemon, BeginStartup, Load, FinishStartup, DecideCheck, WakeUp,
        FindLockTaken, ReaderFits
  <1>2. CASE BeginCheck(d)
    BY <1>2, <1>p, OpenIsReadable DEF BeginCheck, EntryPcs
  <1>3. CASE Check(d)
    BY <1>3, <1>p, CheckIsReadable
  <1>4. CASE RecoverInterruptedInstall(d)
    <2>1. /\ lock = d /\ mem[d] = rec /\ rec \in Records
          /\ pc[d] = "recovering" /\ Goto(d, "startup")
      BY <1>4, <1>p, Holding DEF RecoverInterruptedInstall
    <2>2. CASE rec.state = "installing"
      <3>1. rec' = Moved(rec, "install-failed-manual-action") /\ rec.requested
        BY <1>4, <2>1, <2>2 DEF RecoverInterruptedInstall, StartupRecord, Put, ReaderInv
      <3>2. rec'.state = "install-failed-manual-action" /\ rec'.requested
        BY <2>1, <3>1 DEF Moved, Records
      <3>3. ReaderMoves
        BY <2>2, <3>1, <3>2 DEF ReaderMoves, SettledStates
      <3> QED BY <1>p, <2>1, <3>2, <3>3, SavingIsReadable DEF ReaderFits
    <2>3. CASE rec.state # "installing" /\ NeedsRecovery(rec)
      <3>1. rec' = Recovered(rec)
        BY <1>4, <2>1, <2>3 DEF RecoverInterruptedInstall, StartupRecord, Put
      <3> QED BY <1>p, <2>1, <2>3, <3>1, RecoveryIsRead, SavingIsReadable DEF ReaderFits
    <2>4. CASE rec.state # "installing" /\ ~NeedsRecovery(rec)
      BY <1>4, <1>p, <2>1, <2>4, KeepingIsReadable
      DEF RecoverInterruptedInstall, ReaderFits
    <2> QED BY <2>2, <2>3, <2>4
  <1> QED BY <1>1, <1>2, <1>3, <1>4 DEF DaemonStep

(* At first no process is anywhere, and nothing is being installed. *)
LEMMA InitReadable == Init => ReaderInv
  <1>1. Init => \A p \in Procs : pc[p] = "off"
    BY DEF Init
  <1> QED BY <1>1, InitialState DEF ReaderInv, ReaderFits

LEMMA NextIsReadable ==
  ASSUME IndInv, ConsentInv, ReaderInv, [Next]_vars
  PROVE  Readable
  <1>1. CASE \E p \in Clients : Start(p) \/ ClientStep(p)
    <2> PICK p \in Clients : Start(p) \/ ClientStep(p)
      BY <1>1
    <2>1. CASE FindLockTaken(p)
      BY <2>1, KeepingIsReadable DEF FindLockTaken, ReaderFits, Procs
    <2> QED BY <2>1, StartIsReadable, PrepareIsReadable, InstallIsReadable,
               CheckIsReadable, ManageIsReadable DEF ClientStep, Procs
  <1>2. CASE \E p \in Pollers : PollerStep(p)
    BY <1>2, PollerIsReadable
  <1>3. CASE \E d \in Daemons : DaemonStep(d)
    BY <1>3, DaemonIsReadable
  <1>4. CASE \E p \in Procs : Crash(p)
    BY <1>4, KeepingIsReadable DEF Crash, ReaderFits
  <1>5. CASE Surroundings \/ UNCHANGED vars
    <2>1. UNCHANGED <<rec, pc>>
      BY <1>5 DEF Surroundings, FinishHelper, ChangeInstalled, RunManualCommand,
                  StartOrQuitApp, Age, vars
    <2> QED BY <2>1 DEF Readable, ReaderInv, ReaderFits, ReaderMoves
  <1> QED BY <1>1, <1>2, <1>3, <1>4, <1>5 DEF Next

(* Then the record takes, to who reads it, only the steps UpdateBridge takes its
   updater's from: what the bridge expects of the updater, the updater does. *)
THEOREM RecordReadAsExpected ==
  ASSUME ~Suspends
  PROVE  Spec => RecordAsRead
  <1> DEFINE expected == rec' # rec => Reader!Next \/ Discards \/ rec.exitWaitFailed
  <1>1. IndInv /\ ConsentInv /\ ReaderInv /\ [Next]_vars => ReaderInv'
    BY NextIsReadable DEF Readable
  <1>2. IndInv /\ ConsentInv /\ ReaderInv /\ IndInv' /\ [Next]_vars => [expected]_View
    <2> SUFFICES ASSUME IndInv, ConsentInv, ReaderInv, IndInv', [Next]_vars
                 PROVE  [expected]_View
      OBVIOUS
    <2>1. rec \in Records /\ rec' \in Records
      BY DEF IndInv, TypeOK
    <2>2. ReaderMoves \/ Discards \/ rec.exitWaitFailed
      BY NextIsReadable DEF Readable
    <2> QED BY <2>1, <2>2, MovesRead
  <1>3. Spec => [][expected]_View
    BY <1>1, <1>2, InitReadable, Invariance, ConsentInvariance, PTL DEF Spec
  <1> QED BY <1>3 DEF RecordAsRead
=============================================================================
