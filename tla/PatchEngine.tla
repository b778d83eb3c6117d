----------------------------- MODULE PatchEngine -----------------------------
(***************************************************************************)
(* A run of the patch engine on an application archive                     *)
(* (src/patcher/src/engine.js, asar-io.js, javascript-syntax.js): the      *)
(* patches are applied in order to the files in memory, each validated     *)
(* right after it, the whole checked, and the archive replaced together    *)
(* with its companion tree of unpacked files, which names the archive it   *)
(* belongs to.  An operation on files may fail and the process may die at  *)
(* any step; the engine may be run again on what is there.                 *)
(***************************************************************************)
EXTENDS PatchDescriptors

CONSTANTS
    Bundles,     \* the bundles an archive may hold at first
    MaxRuns,     \* bound: runs on one archive, each a process with a pid
    Absent       \* no file, no report

Bundle == Seq(Seq(Shapes))

ASSUME EngineConstants ==
    /\ Bundles \subseteq Bundle
    /\ MaxRuns \in Nat
    /\ Absent \notin Bundle

VARIABLES
    archive,         \* the bundle in app.asar
    companion,       \* the archive app.asar.unpacked belongs to
    aside,           \* aside[r]: the original the run r moved away
    asideCompanion,  \* and its companion tree
    run,             \* the engine's state
    report,          \* patch-report.json
    faults,          \* the steps that failed, "death" for a death
    site             \* the archive has unpacked entries; the packaging is valid

vars == <<archive, companion, aside, asideCompanion, run, report, faults, site>>
disk == <<archive, companion, aside, asideCompanion>>

Ended == {"idle", "done", "failed", "dead"}
Steps == {"apply", "check", "rebuild", "moveArchive", "moveCompanion", "placeArchive",
          "placeCompanion", "removeArchive", "removeCompanion", "report",
          "undoArchive", "undoCompanion", "returnArchive", "returnCompanion"}
\* The steps inside the try, and those of the handler that restores the original.
Restoring == {"placeArchive", "placeCompanion", "removeArchive", "removeCompanion"}
Undoing == {"undoArchive", "undoCompanion", "returnArchive", "returnCompanion"}

At(pc) == run.pc = pc
Goto(pc) == run' = [run EXCEPT !.pc = pc]
End(no, pc) == run' = [no |-> no, pc |-> pc, next |-> 1, original |-> <<>>, work |-> <<>>,
                       patched |-> FALSE]

Init ==
    /\ site \in [unpacked : BOOLEAN, packaging : BOOLEAN]
    /\ archive \in Bundles
    /\ companion = IF site.unpacked THEN archive ELSE Absent
    /\ aside = [r \in 1..MaxRuns |-> Absent]
    /\ asideCompanion = [r \in 1..MaxRuns |-> Absent]
    /\ run = [no |-> 0, pc |-> "idle", next |-> 1, original |-> <<>>, work |-> <<>>, patched |-> FALSE]
    /\ report = Absent
    /\ faults = {}

-----------------------------------------------------------------------------
(***************************************************************************)
(* In memory.  The run ends with a report when a patch does not match, or  *)
(* its validator does not pass, and nothing is written to the archive.     *)
(***************************************************************************)
Begin ==
    /\ run.pc \in Ended
    /\ run.no < MaxRuns
    /\ IF archive = Absent \/ archive = <<>>
       THEN End(run.no + 1, "failed")
       ELSE run' = [no |-> run.no + 1, pc |-> "apply", next |-> 1, original |-> archive,
                    work |-> archive, patched |-> FALSE]
    /\ UNCHANGED <<disk, report, faults, site>>

Reject ==
    /\ report' = [accepted |-> FALSE, bundle |-> run.original]
    /\ End(run.no, "failed")

Accept(files, patched) ==
    run' = [no |-> run.no, pc |-> IF run.next = Len(Descriptors) THEN "check" ELSE "apply",
            next |-> run.next + 1, original |-> run.original, work |-> files,
            patched |-> run.patched \/ patched]

\* Variant: a patch that matched is not validated.
ApplyUnchecked ==
    LET outcome == Apply(Descriptors[run.next], run.work) IN
    /\ At("apply")
    /\ IF outcome.matched
       THEN Accept(outcome.files, outcome.patched) /\ UNCHANGED report
       ELSE Reject
    /\ UNCHANGED <<disk, faults, site>>

ApplyNext ==
    LET d == Descriptors[run.next]
        outcome == Apply(d, run.work) IN
    /\ At("apply")
    /\ IF (outcome.matched \/ outcome.already) /\ Valid(d, outcome.files)
       THEN Accept(outcome.files, outcome.patched) /\ UNCHANGED report
       ELSE Reject
    /\ UNCHANGED <<disk, faults, site>>

CheckBundle ==
    /\ At("check")
    /\ IF PackagedDaemonMode(run.work) /\ site.packaging /\ Parses(run.original, run.work)
       THEN Goto(IF run.patched THEN "rebuild" ELSE "report") /\ UNCHANGED report
       ELSE Reject
    /\ UNCHANGED <<disk, faults, site>>

-----------------------------------------------------------------------------
(***************************************************************************)
(* On disk.  The archive is rebuilt elsewhere, the original and its        *)
(* companion are moved aside, the rebuilt ones put in their place and the  *)
(* originals removed.                                                      *)
(***************************************************************************)
Rebuild ==
    /\ At("rebuild")
    /\ IF site.unpacked /\ companion = Absent THEN End(run.no, "failed") ELSE Goto("moveArchive")
    /\ UNCHANGED <<disk, report, faults, site>>

\* Variant: the original is removed and not moved.
MoveNothing ==
    /\ At("moveArchive")
    /\ archive' = Absent
    /\ Goto("moveCompanion")
    /\ UNCHANGED <<aside, companion, asideCompanion, report, faults, site>>

MoveArchive ==
    /\ At("moveArchive")
    /\ aside' = [aside EXCEPT ![run.no] = archive]
    /\ archive' = Absent
    /\ Goto("moveCompanion")
    /\ UNCHANGED <<companion, asideCompanion, report, faults, site>>

MoveCompanion ==
    /\ At("moveCompanion")
    /\ asideCompanion' = [asideCompanion EXCEPT ![run.no] = companion]
    /\ companion' = Absent
    /\ Goto("placeArchive")
    /\ UNCHANGED <<archive, aside, report, faults, site>>

PlaceArchive ==
    /\ At("placeArchive")
    /\ archive' = run.work
    /\ Goto("placeCompanion")
    /\ UNCHANGED <<companion, aside, asideCompanion, report, faults, site>>

PlaceCompanion ==
    /\ At("placeCompanion")
    /\ companion' = IF site.unpacked THEN run.work ELSE companion
    /\ Goto("removeArchive")
    /\ UNCHANGED <<archive, aside, asideCompanion, report, faults, site>>

RemoveArchive ==
    /\ At("removeArchive")
    /\ aside' = [aside EXCEPT ![run.no] = Absent]
    /\ Goto("removeCompanion")
    /\ UNCHANGED <<archive, companion, asideCompanion, report, faults, site>>

RemoveCompanion ==
    /\ At("removeCompanion")
    /\ asideCompanion' = [asideCompanion EXCEPT ![run.no] = Absent]
    /\ Goto("report")
    /\ UNCHANGED <<archive, companion, aside, report, faults, site>>

WriteReport ==
    /\ At("report")
    /\ report' = [accepted |-> TRUE, bundle |-> archive]
    /\ End(run.no, "done")
    /\ UNCHANGED <<disk, faults, site>>

-----------------------------------------------------------------------------
(***************************************************************************)
(* Failures.  Inside the try an error leads to the handler: what was put   *)
(* in place is removed and the originals are moved back, the companion     *)
(* after the archive; an archive that is no longer there makes the handler *)
(* itself fail.  Outside the try, and in the handler, an error ends the    *)
(* run and leaves the files as they are.  At most one step fails, or the   *)
(* process dies, and one of the handler's that the error leads to.         *)
(***************************************************************************)
MayFail == faults = {} \/ run.pc \in Undoing

Catch ==
    /\ run.pc \in Restoring /\ MayFail
    /\ faults' = faults \cup {run.pc}
    /\ Goto("undoArchive")
    /\ UNCHANGED <<disk, report, site>>

UndoArchive ==
    /\ At("undoArchive")
    /\ archive' = Absent
    /\ Goto("undoCompanion")
    /\ UNCHANGED <<companion, aside, asideCompanion, report, faults, site>>

UndoCompanion ==
    /\ At("undoCompanion")
    /\ companion' = Absent
    /\ Goto("returnArchive")
    /\ UNCHANGED <<archive, aside, asideCompanion, report, faults, site>>

\* Variant: the handler forgets the companion.
ReturnArchiveOnly ==
    /\ At("returnArchive")
    /\ archive' = aside[run.no]
    /\ aside' = [aside EXCEPT ![run.no] = Absent]
    /\ End(run.no, "failed")
    /\ UNCHANGED <<companion, asideCompanion, report, faults, site>>

ReturnArchive ==
    /\ At("returnArchive")
    /\ archive' = aside[run.no]
    /\ aside' = [aside EXCEPT ![run.no] = Absent]
    /\ IF aside[run.no] = Absent THEN End(run.no, "failed") ELSE Goto("returnCompanion")
    /\ UNCHANGED <<companion, asideCompanion, report, faults, site>>

ReturnCompanion ==
    /\ At("returnCompanion")
    /\ companion' = asideCompanion[run.no]
    /\ asideCompanion' = [asideCompanion EXCEPT ![run.no] = Absent]
    /\ End(run.no, "failed")
    /\ UNCHANGED <<archive, aside, report, faults, site>>

Fail ==
    /\ run.pc \in Steps \ Restoring /\ MayFail
    /\ faults' = faults \cup {run.pc}
    /\ End(run.no, "failed")
    /\ UNCHANGED <<disk, report, site>>

Die ==
    /\ run.pc \in Steps /\ MayFail
    /\ faults' = faults \cup {"death"}
    /\ End(run.no, "dead")
    /\ UNCHANGED <<disk, report, site>>

Next ==
    \/ Begin \/ ApplyNext \/ CheckBundle
    \/ Rebuild \/ MoveArchive \/ MoveCompanion \/ PlaceArchive \/ PlaceCompanion
    \/ RemoveArchive \/ RemoveCompanion \/ WriteReport
    \/ Catch \/ UndoArchive \/ UndoCompanion \/ ReturnArchive \/ ReturnCompanion
    \/ Fail \/ Die

Spec == Init /\ [][Next]_vars

-----------------------------------------------------------------------------
TypeOK ==
    /\ archive \in Bundle \cup {Absent} /\ companion \in Bundle \cup {Absent}
    /\ aside \in [1..MaxRuns -> Bundle \cup {Absent}]
    /\ asideCompanion \in [1..MaxRuns -> Bundle \cup {Absent}]
    /\ run \in [no : 0..MaxRuns, pc : Ended \cup Steps, next : 1..(Len(Descriptors) + 1),
                original : Bundle, work : Bundle, patched : BOOLEAN]
    /\ report = Absent \/ report \in [accepted : BOOLEAN, bundle : Bundle]
    /\ faults \subseteq Steps \cup {"death"}
    /\ site \in [unpacked : BOOLEAN, packaging : BOOLEAN]

\* Each patch is validated right after it is applied, and later patches go on
\* changing the files: when a run succeeds every validator still passes, all
\* together, on the archive that was written (engine.js:134).
AcceptedIsValid ==
    At("done") => /\ \A i \in DOMAIN Descriptors : Valid(Descriptors[i], archive)
                  /\ PackagedDaemonMode(archive)
                  /\ Parses(archive, archive)

\* Patching what was patched changes nothing: each patch then finds itself
\* already applied (docs/patching.md:48).
AcceptedIsStable ==
    At("done") => \A i \in DOMAIN Descriptors :
                     LET outcome == Apply(Descriptors[i], archive) IN
                     outcome.already /\ ~outcome.patched /\ outcome.files = archive

\* An archive with the companion tree it needs.
Paired(b, c) == b # Absent /\ (site.unpacked => c = b)

\* A run that has ended, well or not, leaves an archive with its own companion
\* tree, the original's or the patched one's and never a mixture.  The steps
\* the code has no answer to are excepted: a death, the original's companion
\* that cannot be moved aside (asar-io.js:83) or removed (asar-io.js:89), and a
\* second error, inside the handler (asar-io.js:91-94).
Unanswered == {"death", "moveCompanion", "removeCompanion"} \cup Undoing

EndsPaired ==
    run.pc \in Ended /\ faults \cap Unanswered = {} => Paired(archive, companion)

\* At every moment, also after a death at any step and in later runs, a whole
\* archive with its companion tree can be put together from the files on disk;
\* only removing the original's companion may fail in a way that loses both.
NothingIsLost ==
    "removeCompanion" \notin faults =>
        \/ Paired(archive, companion)
        \/ \E r \in 1..MaxRuns : \/ Paired(aside[r], companion)
                                 \/ Paired(aside[r], asideCompanion[r])
                                 \/ Paired(archive, asideCompanion[r])
=============================================================================
