-------------------------- MODULE ApplicationBuild --------------------------
(***************************************************************************)
(* From a patched archive to an inspected package: build-app.js and        *)
(* runtime.js stage the archive with its companion, the patch report and   *)
(* the build-info, package-deb/rpm/appimage.js package the staged app, and *)
(* inspect-package.js opens the package again.  Each step is a program of  *)
(* its own for the updater, which runs them one after the other            *)
(* (src/updater/src/builder.rs); what lies on disk between them is checked *)
(* against the hashes the report and the build-info carry.                 *)
(*                                                                         *)
(* A hash is the value it is taken of.                                     *)
(***************************************************************************)
EXTENDS PatchEngine

CONSTANTS
    Formats,     \* package formats
    Strays       \* other archives that may come to lie in a staged app

ASSUME BuildConstants == Strays \subseteq Bundle

VARIABLES
    app,         \* the staged application, or Absent
    packages,    \* packages[f]: the application in the package, or Absent
    inspected,   \* the formats whose package passed the inspection
    altered      \* the staged application was altered: happens once

buildVars == <<app, packages, inspected, altered>>

BuildInit ==
    /\ Init
    /\ app = Absent
    /\ packages = [f \in Formats |-> Absent]
    /\ inspected = {}
    /\ altered = FALSE

-----------------------------------------------------------------------------
\* The archive is copied with the companion that lies next to it, if any; the
\* build-info takes its hashes from the copy and from the report.  What was
\* staged before is replaced.
Staged(rep) ==
    [archive |-> archive, companion |-> companion, report |-> rep,
     info |-> [archive |-> archive, report |-> rep]]

\* buildApp with the engine: only after a run that succeeded.
Stage ==
    /\ At("done")
    /\ app' = Staged(report)
    /\ UNCHANGED <<vars, packages, inspected, altered>>

\* buildApp with an archive that is said to be patched: the engine is not run,
\* and there is no report.
StageHooked ==
    /\ run.pc \in Ended /\ archive # Absent
    /\ app' = Staged(Absent)
    /\ UNCHANGED <<vars, packages, inspected, altered>>

\* Variant: the hash of the archive is not compared with the report's.
AcceptedByReport(a) ==
    a.report # Absent /\ a.report.accepted

AcceptedReport(a) ==
    a.report # Absent /\ a.report.accepted /\ a.report.bundle = a.archive

\* The files with a marker parse, and there are some.
AppParses(a) == Parses(a.archive, a.archive)

\* An earlier package of the format is replaced; an app that is not accepted
\* leaves it in place.
Package(f) ==
    /\ app # Absent
    /\ AcceptedReport(app) /\ AppParses(app)
    /\ packages' = [packages EXCEPT ![f] = app]
    /\ inspected' = inspected \ {f}
    /\ UNCHANGED <<vars, app, altered>>

Inspect(f) ==
    /\ packages[f] # Absent
    /\ f \notin inspected
    /\ LET a == packages[f] IN
       /\ AppParses(a) /\ AcceptedReport(a)
       /\ a.info.report = a.report
       /\ a.info.archive = a.archive
    /\ inspected' = inspected \cup {f}
    /\ UNCHANGED <<vars, app, packages, altered>>

\* Between two programs the staged archive is replaced, or the application
\* built again with other results under the same report.
Alter(b) ==
    /\ app # Absent /\ ~altered
    /\ \/ app' = [app EXCEPT !.archive = b]
       \/ app' = [app EXCEPT !.archive = b, !.info.archive = b]
    /\ altered' = TRUE
    /\ UNCHANGED <<vars, packages, inspected>>

BuildNext ==
    \/ Next /\ UNCHANGED buildVars
    \/ Stage \/ StageHooked
    \/ \E f \in Formats : Package(f) \/ Inspect(f)
    \/ \E b \in Strays : Alter(b)

BuildSpec == BuildInit /\ [][BuildNext]_<<vars, buildVars>>

-----------------------------------------------------------------------------
Apps == [archive : Bundle, companion : Bundle \cup {Absent},
         report : [accepted : BOOLEAN, bundle : Bundle] \cup {Absent},
         info : [archive : Bundle,
                 report : [accepted : BOOLEAN, bundle : Bundle] \cup {Absent}]]

BuildTypeOK ==
    /\ TypeOK
    /\ app = Absent \/ app \in Apps
    /\ \A f \in Formats : packages[f] = Absent \/ packages[f] \in Apps
    /\ inspected \subseteq Formats
    /\ altered \in BOOLEAN

\* Every package that passed the inspection holds an archive that satisfies
\* all validators, whatever became of the staged application in between and
\* whoever patched the archive (package-deb.js:55, inspect-package.js:47).
InspectedIsPatched ==
    \A f \in inspected :
        LET b == packages[f].archive IN
        /\ \A i \in DOMAIN Descriptors : Valid(Descriptors[i], b)
        /\ PackagedDaemonMode(b)
        /\ Parses(b, b)
=============================================================================
