---------------------------- MODULE VersionOrder ----------------------------
(* How the parts of the system read and compare versions: the release record *)
(* (record-accepted-version.js), the package builders (release-identity.js,  *)
(* package-rpm.js), the updater (main.rs, package_manager.rs) and the        *)
(* approval store (approval.rs).                                             *)
(*                                                                           *)
(* A Factory version is three numbers and, after a dash, a suffix; numbers   *)
(* are written without leading zeros, suffixes have no further dash and no   *)
(* build metadata.  The version text of an installed package may end in one  *)
(* more dash and a number, the wrapper revision.                             *)
EXTENDS Naturals

CONSTANTS
    Cores,      \* the numbers of versions, triples
    Suffixes,   \* what may follow the dash of a Factory version
    NoSuffix,   \* a version without one
    TextRank,   \* the place of each suffix in the order of localeCompare
    SemRank,    \* its place in the order in which upstream releases them
    NumberOf,   \* the value of each suffix that consists of digits only
    None        \* no revision, no version

ASSUME VersionAssumption ==
    /\ Cores \subseteq Nat \X Nat \X Nat
    /\ NoSuffix \notin Suffixes
    /\ TextRank \in [Suffixes -> Nat]
    /\ SemRank \in [Suffixes -> Nat]
    /\ NumberOf \in [DOMAIN NumberOf -> Nat]
    /\ DOMAIN NumberOf \subseteq Suffixes
    /\ None \notin Nat

Version == [core : Cores, suffix : Suffixes \union {NoSuffix}]
Text == [core : Cores, suffix : Suffixes \union {NoSuffix},
         revision : Nat \union {None}]

ASSUME NoneIsNoVersion == None \notin Version

Plain(v) == v.suffix = NoSuffix

CoreBefore(x, y) ==
    \/ x[1] < y[1]
    \/ x[1] = y[1] /\ x[2] < y[2]
    \/ x[1] = y[1] /\ x[2] = y[2] /\ x[3] < y[3]

(* compareVersions(v, w) < 0: equal numbers are ordered by the text of the
   suffix, and a version without one comes last. *)
Before(v, w) ==
    \/ CoreBefore(v.core, w.core)
    \/ /\ v.core = w.core
       /\ ~Plain(v)
       /\ Plain(w) \/ TextRank[v.suffix] < TextRank[w.suffix]

(* The order in which upstream releases versions: semantic versioning. *)
SemVerBefore(v, w) ==
    \/ CoreBefore(v.core, w.core)
    \/ /\ v.core = w.core
       /\ ~Plain(v)
       /\ Plain(w) \/ SemRank[v.suffix] < SemRank[w.suffix]

(* Variant: any other version counts as an update. *)
IsOtherVersion(candidate, installed) == installed.core # candidate.core

(* is_newer_version: the numbers alone *)
IsNewerVersion(candidate, installed) == CoreBefore(installed.core, candidate.core)

(* is_strict_upgrade reads the whole text as three numbers: a suffix or a
   revision on either side is an error. *)
IsStrictUpgrade(installed, candidate) ==
    /\ Plain(installed) /\ installed.revision = None
    /\ Plain(candidate)
    /\ CoreBefore(installed.core, candidate.core)

(* Variant: the RPM drops the suffix. *)
RpmBuildsAny(v) == v \in Version

(* rpmVersion: no RPM is built of a version with a suffix *)
RpmBuilds(v) == Plain(v)

(* The version dpkg-query and rpm report of the package of v with revision k:
   releaseIdentity appends the revision for Debian, where a suffix of digits
   cannot be told from one; an RPM has it in its Release. *)
PackageVersion(format, v, k) ==
    IF format = "rpm"
      THEN [core |-> v.core, suffix |-> v.suffix, revision |-> None]
    ELSE IF k = None /\ v.suffix \in DOMAIN NumberOf
      THEN [core |-> v.core, suffix |-> NoSuffix, revision |-> NumberOf[v.suffix]]
    ELSE [core |-> v.core, suffix |-> v.suffix, revision |-> k]

(* Variant: everything after the first dash goes. *)
NumbersOnly(format, text) == [core |-> text.core, suffix |-> NoSuffix]

(* factory_version_from_package_version: the last dash-separated part goes if
   it consists of digits, and must not begin with 0 then; None stands for the
   error. *)
FactoryVersion(format, text) ==
    IF format = "rpm"
      THEN IF Plain(text) /\ text.revision = None
             THEN [core |-> text.core, suffix |-> NoSuffix]
             ELSE None
    ELSE IF text.revision = 0
      THEN None
    ELSE [core |-> text.core, suffix |-> text.suffix]
=============================================================================
