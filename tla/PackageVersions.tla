--------------------------- MODULE PackageVersions ---------------------------
(* The versions one host sees: what upstream names, what the repository has  *)
(* recorded as accepted, which package is installed, and what the updater    *)
(* offers, prepares and installs over it.  UpdateManager and                 *)
(* PrivilegedInstall have the control of these commands in full, with        *)
(* versions that are numbers; here their steps are single and the versions   *)
(* are what the code compares.                                               *)
EXTENDS VersionOrder

CONSTANTS Revisions,  \* N of linux.N, of the packages the releases publish
          First       \* the version accepted and installed at the start

ASSUME HostAssumption ==
    /\ Revisions \subseteq Nat \ {0}
    /\ First \in Version /\ Plain(First)

VARIABLES
    upstream,   \* the version the metadata endpoint names
    accepted,   \* release/accepted-upstream.json
    format,     \* the host's package manager
    package,    \* the version text it reports of the installed package
    contents,   \* the Factory version that package was built from
    state,      \* StateRecord.state
    available,  \* StateRecord.available_version
    candidate,  \* StateRecord.version, the prepared package
    good,       \* the newest package in the known-good store
    approved,   \* the candidate an unconsumed approval names
    applying,   \* the validated candidate a helper is about to install
    current,    \* the installed package is the one the last check compared
    compared    \* the installed package is the one that helper compared

vars == <<upstream, accepted, format, package, contents, state, available,
          candidate, good, approved, applying, current, compared>>

record == <<state, available, candidate>>
host == <<format, package, contents, good, current>>
approval == <<approved, applying, compared>>

Formats == {"deb", "rpm"}
States == {"idle", "update-available", "ready-to-install", "installed",
           "rolled-back", "install-failed-manual-action", "failed"}

(* The states of blocks_new_candidate in which no command is at work *)
Blocking == {"ready-to-install", "install-failed-manual-action"}

TypeOK ==
    /\ upstream \in Version /\ accepted \in Version
    /\ format \in Formats
    /\ package \in Text
    /\ contents \in Version
    /\ state \in States
    /\ available \in Version \union {None}
    /\ candidate \in Version \union {None}
    /\ good \in Version \union {None}
    /\ approved \in Version \union {None}
    /\ applying \in Version \union {None}
    /\ current \in BOOLEAN
    /\ compared \in BOOLEAN

-----------------------------------------------------------------------------
(* Upstream and the repository *)

ReleaseUpstream(v) ==
    /\ upstream' = v
    /\ UNCHANGED <<accepted, record, host, approval>>

(* A run of release.yml that built every format publishes v and records it,
   unless that would regress; runs may end in any order. *)
Publish(v) ==
    /\ RpmBuilds(v)
    /\ ~Before(v, accepted)
    /\ accepted' = v
    /\ UNCHANGED <<upstream, record, host, approval>>

-----------------------------------------------------------------------------
(* The host *)

(* The package manager holds the package of v with revision k. *)
Holds(v, k) ==
    /\ package' = PackageVersion(format, v, k)
    /\ contents' = v
    /\ format' = format

(* A package manager outside the root lock: the user installs a package of a
   release, of any age, or one built here, or the one a killed helper started
   goes on. *)
InstallOutside(v, k) ==
    /\ (format = "rpm" \/ k # None) => RpmBuilds(v)
    /\ Holds(v, k)
    /\ current' = FALSE
    /\ compared' = FALSE
    /\ UNCHANGED <<upstream, accepted, record, good, approved, applying>>

(* install-approved-package holds the root lock from its check to its end. *)
RootLockFree == applying = None

(* check_now; a version given to it on the command line is one that upstream
   could name.  The reported version may be one the updater cannot read. *)
CheckNow ==
    /\ state \notin Blocking
    /\ LET installed == FactoryVersion(format, package)
       IN  \/ /\ installed = None
              /\ state' = "failed"
              /\ UNCHANGED <<available, candidate, current>>
           \/ /\ installed # None
              /\ ~IsNewerVersion(upstream, installed)
              /\ state' = "idle" /\ available' = None /\ candidate' = None
              /\ UNCHANGED current
           \/ /\ installed # None
              /\ IsNewerVersion(upstream, installed)
              /\ state' = "update-available"
              /\ available' = upstream /\ candidate' = None
              /\ current' = TRUE
    /\ UNCHANGED <<upstream, accepted, format, package, contents, good, approval>>

(* The metadata cannot be read. *)
FailCheck ==
    /\ state \notin Blocking
    /\ state' = "failed"
    /\ UNCHANGED <<upstream, accepted, available, candidate, host, approval>>

(* prepare_candidate builds what was available at the check, without a
   wrapper revision. *)
Prepare ==
    /\ state = "update-available"
    /\ \/ /\ format = "rpm" => RpmBuilds(available)
          /\ state' = "ready-to-install"
          /\ candidate' = available /\ available' = None
       \/ /\ state' = "failed" /\ candidate' = None
          /\ UNCHANGED available
    /\ UNCHANGED <<upstream, accepted, host, approval>>

(* install-deb or install-rpm: the package manager reports the version of the
   candidate, and the package becomes known-good. *)
Install ==
    /\ state = "ready-to-install"
    /\ RootLockFree
    /\ Holds(candidate, None)
    /\ good' = candidate
    /\ state' = "installed"
    /\ UNCHANGED <<upstream, accepted, available, candidate, approval, current>>

(* The package manager or the verification fails: the known-good package is
   installed instead, or that fails too, or there is none.  A package that
   failed may still be the one that is reported.  A helper that finds the root
   lock taken fails before it installs anything. *)
FailInstall ==
    /\ state = "ready-to-install"
    /\ \/ /\ good # None /\ RootLockFree
          /\ Holds(good, None)
          /\ state' \in {"rolled-back", "install-failed-manual-action"}
       \/ /\ \/ RootLockFree /\ Holds(candidate, None)
             \/ UNCHANGED <<format, package, contents>>
          /\ state' = "install-failed-manual-action"
    /\ current' = FALSE
    /\ UNCHANGED <<upstream, accepted, available, candidate, good, approval>>

(* The user runs manualCommand, the same helper, which may roll back. *)
InstallByHand ==
    /\ state = "install-failed-manual-action"
    /\ RootLockFree
    /\ \/ Holds(candidate, None) /\ good' = candidate
       \/ good # None /\ Holds(good, None) /\ good' = good
    /\ current' = FALSE
    /\ UNCHANGED <<upstream, accepted, record, approval>>

(* reconcile-install compares the texts, the revision included. *)
Reconcile ==
    /\ state = "install-failed-manual-action"
    /\ package = PackageVersion("deb", candidate, None)
    /\ state' = "installed"
    /\ UNCHANGED <<upstream, accepted, available, candidate, host, approval>>

Discard ==
    /\ state' = "idle" /\ candidate' = None
    /\ UNCHANGED <<upstream, accepted, available, host, approval>>

Approve ==
    /\ state = "ready-to-install"
    /\ RootLockFree
    /\ approved' = candidate
    /\ UNCHANGED <<upstream, accepted, record, host, applying, compared>>

(* install-approved-package compares with what is installed and consumes the
   approval ... *)
CheckApproved ==
    /\ approved # None
    /\ RootLockFree
    /\ IsStrictUpgrade(package, approved)
    /\ applying' = approved
    /\ approved' = None
    /\ compared' = TRUE
    /\ UNCHANGED <<upstream, accepted, record, host>>

(* ... and installs, or fails or dies. *)
InstallApproved ==
    /\ applying # None
    /\ \/ Holds(applying, None) /\ current' = FALSE
       \/ UNCHANGED <<format, package, contents, current>>
    /\ applying' = None
    /\ compared' = FALSE
    /\ UNCHANGED <<upstream, accepted, record, good, approved>>

ExpireApproval ==
    /\ approved # None
    /\ approved' = None
    /\ UNCHANGED <<upstream, accepted, record, host, applying, compared>>

-----------------------------------------------------------------------------
Init ==
    /\ upstream = First /\ accepted = First
    /\ format \in Formats
    /\ contents = First
    /\ \E k \in Revisions : package = PackageVersion(format, First, k)
    /\ state = "idle"
    /\ available = None /\ candidate = None
    /\ good = None /\ approved = None /\ applying = None
    /\ current = FALSE /\ compared = FALSE

Next ==
    \/ \E v \in Version : ReleaseUpstream(v) \/ Publish(v)
    \/ \E v \in Version, k \in Revisions \union {None} : InstallOutside(v, k)
    \/ CheckNow \/ FailCheck \/ Prepare
    \/ Install \/ FailInstall \/ InstallByHand \/ Reconcile \/ Discard
    \/ Approve \/ CheckApproved \/ InstallApproved \/ ExpireApproval

Spec == Init /\ [][Next]_vars

-----------------------------------------------------------------------------
(* Whatever package is installed, of a release or built here, the updater
   reads the Factory version it was built from, prereleases included
   (package_manager.rs:52).  The exception is a local Debian package whose
   Factory version itself ends in a number: it looks like a revision. *)
InstalledIsRead ==
    FactoryVersion(format, package) = contents
      \/ /\ format = "deb"
         /\ contents.suffix \in DOMAIN NumberOf
         /\ package = PackageVersion(format, contents, None)

(* In whatever order runs end, the record only moves forward in the order in
   which upstream releases versions (release-process.md:77).  compareVersions
   orders rc.10 before rc.9; that no prerelease is ever recorded is due to the
   RPM, which every release must build (package-rpm.js:16). *)
RecordFollowsReleases == [][~SemVerBefore(accepted', accepted)]_vars

(* From the check over the preparation to the installation, upstream moving
   meanwhile, an update replaces the application by a later version, and so
   does an approved installation, from its own comparison on: as long as nobody
   replaced the package since the comparison, which neither repeats
   (main.rs:393, approval.rs:387). *)
UpdatesMoveForward ==
    [][/\ contents' # contents
       /\ \/ current /\ state' = "installed" /\ state # "installed"
          \/ compared /\ applying # None /\ applying' = None
       => SemVerBefore(contents, contents')]_vars
=============================================================================
