------------------------- MODULE ApplicationBuildProofs -------------------------
(***************************************************************************)
(* What holds from the engine to the inspected package, for every bundle,  *)
(* any number of engine runs and any package formats: an application that  *)
(* is packaged holds the archive its report was written for.               *)
(***************************************************************************)
EXTENDS ApplicationBuild, PatchEngineProofs

AppOrNone == Apps \cup {Absent}

\* An accepted report is about a bundle with all patches, also when it was
\* copied; the staged archive may be another.
ReportGood(rep) == rep # Absent /\ rep.accepted => Good(rep.bundle)

BuildInv ==
    /\ app \in AppOrNone
    /\ packages \in [Formats -> AppOrNone]
    /\ inspected \subseteq Formats
    /\ altered \in BOOLEAN
    /\ At("done") => archive # Absent
    /\ app # Absent => ReportGood(app.report)
    /\ \A f \in Formats : packages[f] # Absent => Good(packages[f].archive)
    /\ \A f \in inspected : packages[f] # Absent

WholeInv == EngineInv /\ AppliedInv /\ BuildInv

LEMMA StartBuild == BuildInit => WholeInv
  <1> SUFFICES ASSUME BuildInit PROVE BuildInv
    BY StartEngine, StartApplied DEF BuildInit, WholeInv
  <1>1. run.pc = "idle"
    BY DEF BuildInit, Init
  <1> QED
    BY <1>1 DEF BuildInit, BuildInv, AppOrNone, At

\* What is staged of an archive that is there.
LEMMA StagedTyped ==
    ASSUME TypeOK, archive # Absent, NEW rep,
           rep = Absent \/ rep \in [accepted : BOOLEAN, bundle : Bundle]
    PROVE  Staged(rep) \in Apps /\ Staged(rep).report = rep
  BY DEF TypeOK, Staged, Apps

LEMMA EngineMoves ==
    ASSUME WholeInv, Next, UNCHANGED buildVars
    PROVE  WholeInv'
  <1>1. EngineInv' /\ AppliedInv'
    BY EngineAppliedStep DEF WholeInv
  <1>2. (At("done") => archive # Absent)'
    <2>1. TypeOK /\ Moving
      BY DEF WholeInv, EngineInv
    <2>2. CASE WriteReport
      BY <2>1, <2>2 DEF WriteReport, Moving, At, disk
    <2>3. CASE ~WriteReport
      <3>1. run \in Runs /\ run.no \in 0..MaxRuns
        BY <2>1, RunTyped DEF Runs
      <3>2. ASSUME Begin \/ ApplyNext \/ CheckBundle \/ Rebuild PROVE run'.pc # "done"
        <4>1. CASE Begin
          BY <4>1 DEF Begin, End
        <4>2. CASE ApplyNext
          BY <4>2 DEF ApplyNext, Accept, Reject, End
        <4>3. CASE CheckBundle
          <5>1. Goto("rebuild") \/ Goto("report") \/ Reject
            BY <4>3 DEF CheckBundle
          <5> QED
            BY <2>1, <5>1, GotoRun DEF Reject, End, Steps
        <4>4. CASE Rebuild
          <5>1. Goto("moveArchive") \/ End(run.no, "failed")
            BY <4>4 DEF Rebuild
          <5> QED
            BY <2>1, <5>1, GotoRun DEF End, Steps
        <4> QED
          BY <3>2, <4>1, <4>2, <4>3, <4>4
      <3>3. ASSUME \/ MoveArchive \/ MoveCompanion \/ PlaceArchive \/ PlaceCompanion
                   \/ RemoveArchive \/ RemoveCompanion
            PROVE  run'.pc # "done"
        <4>1. \E pc \in Steps : Goto(pc)
          BY <3>3 DEF MoveArchive, MoveCompanion, PlaceArchive, PlaceCompanion, RemoveArchive,
             RemoveCompanion, Steps
        <4> QED
          BY <2>1, <4>1, GotoRun DEF Steps
      <3>4. ASSUME \/ Catch \/ UndoArchive \/ UndoCompanion \/ ReturnArchive \/ ReturnCompanion
                   \/ Fail \/ Die
            PROVE  run'.pc # "done"
        <4>1. (\E pc \in Steps : Goto(pc)) \/ End(run.no, "failed") \/ End(run.no, "dead")
          BY <3>4 DEF Catch, UndoArchive, UndoCompanion, ReturnArchive, ReturnCompanion, Fail,
             Die, Steps
        <4> QED
          BY <2>1, <4>1, GotoRun DEF End, Steps
      <3> QED
        BY <2>3, <3>2, <3>3, <3>4 DEF Next, At
    <2> QED
      BY <2>2, <2>3
  <1> QED
    BY <1>1, <1>2 DEF WholeInv, BuildInv, buildVars

LEMMA EngineRests ==
    ASSUME WholeInv, UNCHANGED vars
    PROVE  (EngineInv /\ AppliedInv)' /\ (At("done") => archive # Absent)'
  BY EngineAppliedStep DEF WholeInv, BuildInv, vars, At

LEMMA StagesHold ==
    ASSUME WholeInv, Stage \/ StageHooked
    PROVE  WholeInv'
  <1>0. TypeOK /\ BuildInv /\ AppliedInv
    BY DEF WholeInv, EngineInv
  <1>1. UNCHANGED <<vars, packages, inspected, altered>>
    BY DEF Stage, StageHooked
  <1>2. PICK rep : /\ rep = Absent \/ rep = report
                   /\ app' = Staged(rep) /\ archive # Absent
    BY <1>0 DEF Stage, StageHooked, BuildInv
  <1>3. rep = Absent \/ rep \in [accepted : BOOLEAN, bundle : Bundle]
    BY <1>0, <1>2 DEF TypeOK
  <1>4. app' \in Apps /\ app'.report = rep
    BY <1>0, <1>2, <1>3, StagedTyped
  <1>5. ReportGood(rep)
    BY <1>0, <1>2 DEF ReportGood, AppliedInv
  <1> QED
    BY <1>0, <1>1, <1>4, <1>5, EngineRests DEF WholeInv, BuildInv, AppOrNone, ReportGood

LEMMA PackagingHolds ==
    ASSUME WholeInv, NEW f \in Formats, Package(f) \/ Inspect(f)
    PROVE  WholeInv'
  <1>0. BuildInv
    BY DEF WholeInv
  <1>1. CASE Package(f)
    <2>1. /\ app # Absent /\ AcceptedReport(app)
          /\ packages' = [packages EXCEPT ![f] = app]
          /\ inspected' = inspected \ {f}
          /\ UNCHANGED <<vars, app, altered>>
      BY <1>1 DEF Package
    <2>2. Good(app.archive)
      BY <1>0, <2>1 DEF BuildInv, ReportGood, AcceptedReport
    <2>3. /\ packages' \in [Formats -> AppOrNone] /\ packages'[f] = app
          /\ \A g \in Formats : g # f => packages'[g] = packages[g]
      BY <1>0, <2>1 DEF BuildInv
    <2>4. \A g \in Formats : packages'[g] # Absent => Good(packages'[g].archive)
      BY <1>0, <2>2, <2>3 DEF BuildInv
    <2>5. \A g \in inspected' : packages'[g] # Absent
      BY <1>0, <2>1, <2>3 DEF BuildInv
    <2> QED
      BY <1>0, <2>1, <2>3, <2>4, <2>5, EngineRests DEF WholeInv, BuildInv
  <1>2. CASE Inspect(f)
    <2>1. /\ packages[f] # Absent /\ inspected' = inspected \cup {f}
          /\ UNCHANGED <<vars, app, packages, altered>>
      BY <1>2 DEF Inspect
    <2> QED
      BY <1>0, <2>1, EngineRests DEF WholeInv, BuildInv
  <1> QED
    BY <1>1, <1>2

LEMMA AlterHolds ==
    ASSUME WholeInv, NEW b \in Strays, Alter(b)
    PROVE  WholeInv'
  <1>0. BuildInv
    BY DEF WholeInv
  <1>1. /\ app # Absent /\ altered' = TRUE
        /\ UNCHANGED <<vars, packages, inspected>>
        /\ \/ app' = [app EXCEPT !.archive = b]
           \/ app' = [app EXCEPT !.archive = b, !.info.archive = b]
    BY DEF Alter
  <1>2. app \in Apps /\ b \in Bundle
    BY <1>0, <1>1, BuildConstants DEF BuildInv, AppOrNone
  <1>3. app' \in Apps /\ app'.report = app.report
    BY <1>1, <1>2 DEF Apps
  <1> QED
    BY <1>0, <1>1, <1>3, EngineRests DEF WholeInv, BuildInv, AppOrNone, ReportGood

LEMMA BuildStep == WholeInv /\ [BuildNext]_<<vars, buildVars>> => WholeInv'
  <1> SUFFICES ASSUME WholeInv, [BuildNext]_<<vars, buildVars>> PROVE WholeInv'
    OBVIOUS
  <1>1. CASE BuildNext
    BY <1>1, EngineMoves, StagesHold, PackagingHolds, AlterHolds DEF BuildNext
  <1>2. CASE UNCHANGED <<vars, buildVars>>
    BY <1>2, EngineRests DEF WholeInv, BuildInv, buildVars
  <1> QED
    BY <1>1, <1>2

\* The inductive invariant of the whole: an accepted report is about a bundle
\* with all patches wherever it was copied to, and a package holds an archive
\* that is its report's (package-deb.js, package-rpm.js, package-appimage.js).
THEOREM BuildInvariance == BuildSpec => []WholeInv
  <1> QED
    BY StartBuild, BuildStep, PTL DEF BuildSpec

\* Every variable keeps its type, for any archives that come to lie in a
\* staged application.
THEOREM BuildTypes == BuildSpec => []BuildTypeOK
  <1>1. WholeInv => BuildTypeOK
    BY DEF WholeInv, EngineInv, BuildInv, BuildTypeOK, AppOrNone
  <1> QED
    BY <1>1, BuildInvariance, PTL

\* Every package that passed the inspection holds an archive with all patches,
\* though the staged application may have been altered in between.
THEOREM InspectedPatched == BuildSpec => []InspectedIsPatched
  <1>1. WholeInv => InspectedIsPatched
    <2> SUFFICES ASSUME WholeInv, NEW f \in inspected
                 PROVE  /\ \A i \in DOMAIN Descriptors : Valid(Descriptors[i], packages[f].archive)
                        /\ PackagedDaemonMode(packages[f].archive)
                        /\ Parses(packages[f].archive, packages[f].archive)
      BY DEF InspectedIsPatched
    <2>1. Good(packages[f].archive)
      BY DEF WholeInv, BuildInv
    <2>2. DOMAIN Descriptors = 1..7
      BY DEF Descriptors
    <2> QED
      BY <2>1, <2>2 DEF Good, InPlace
  <1> QED
    BY <1>1, BuildInvariance, PTL

\* What the engine promises it also promises while its archive is staged,
\* packaged and inspected.
THEOREM EngineWithinBuild ==
    BuildSpec => [](EndsPaired /\ NothingIsLost /\ AcceptedIsValid)
  <1>1. WholeInv => EndsPaired /\ NothingIsLost /\ AcceptedIsValid
    BY LenDescriptors DEF WholeInv, EngineInv, Settled, EndsPaired, Ended, Undoing,
       AppliedInv, AcceptedIsValid, Good, InPlace, Descriptors
  <1> QED
    BY <1>1, BuildInvariance, PTL
=============================================================================
