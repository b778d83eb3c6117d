------------------------ MODULE PackageVersionsProofs ------------------------
(***************************************************************************)
(* Proofs about PackageVersions and the order of versions, for every set   *)
(* of numbers, suffixes and revisions, and every order localeCompare may   *)
(* give the suffixes.                                                      *)
(***************************************************************************)
EXTENDS PackageVersions, TLAPS

-----------------------------------------------------------------------------
(* The order of versions. *)

LEMMA CoreOrder ==
  ASSUME NEW x \in Cores, NEW y \in Cores, NEW z \in Cores
  PROVE  /\ ~CoreBefore(x, x)
         /\ CoreBefore(x, y) => ~CoreBefore(y, x)
         /\ CoreBefore(x, y) /\ CoreBefore(y, z) => CoreBefore(x, z)
         /\ x = y \/ CoreBefore(x, y) \/ CoreBefore(y, x)
  <1>1. /\ x \in Nat \X Nat \X Nat
        /\ y \in Nat \X Nat \X Nat
        /\ z \in Nat \X Nat \X Nat
    BY VersionAssumption
  <1>2. x = y <=> x[1] = y[1] /\ x[2] = y[2] /\ x[3] = y[3]
    BY <1>1
  <1>3. /\ x[1] \in Nat /\ x[2] \in Nat /\ x[3] \in Nat
        /\ y[1] \in Nat /\ y[2] \in Nat /\ y[3] \in Nat
        /\ z[1] \in Nat /\ z[2] \in Nat /\ z[3] \in Nat
    BY <1>1
  <1> QED
    BY <1>2, <1>3 DEF CoreBefore

(* compareVersions is a strict order of Factory versions, which the other
   specifications take versions to have; it is total when localeCompare tells
   the suffixes apart. *)
THEOREM BeforeIsOrder ==
  ASSUME NEW u \in Version, NEW v \in Version, NEW w \in Version
  PROVE  /\ ~(Before(u, v) /\ Before(v, u))
         /\ Before(u, v) /\ Before(v, w) => Before(u, w)
         /\ (\A s, t \in Suffixes : TextRank[s] = TextRank[t] => s = t)
              => u = v \/ Before(u, v) \/ Before(v, u)
  <1>1. /\ u.core \in Cores /\ v.core \in Cores /\ w.core \in Cores
    BY DEF Version
  <1>2. /\ u.suffix \in Suffixes \union {NoSuffix}
        /\ v.suffix \in Suffixes \union {NoSuffix}
        /\ w.suffix \in Suffixes \union {NoSuffix}
    BY DEF Version
  <1>3. /\ ~Plain(u) => u.suffix \in Suffixes /\ TextRank[u.suffix] \in Nat
        /\ ~Plain(v) => v.suffix \in Suffixes /\ TextRank[v.suffix] \in Nat
        /\ ~Plain(w) => w.suffix \in Suffixes /\ TextRank[w.suffix] \in Nat
    BY <1>2, VersionAssumption DEF Plain
  <1>4. u.core = v.core /\ u.suffix = v.suffix => u = v
    BY DEF Version
  <1>5. ~(Before(u, v) /\ Before(v, u))
    BY <1>1, <1>3, CoreOrder DEF Before
  <1>6. ASSUME Before(u, v), Before(v, w) PROVE Before(u, w)
    <2>1. CASE CoreBefore(u.core, v.core) \/ CoreBefore(v.core, w.core)
      <3>1. CoreBefore(u.core, w.core)
        BY <1>1, <1>6, <2>1, CoreOrder DEF Before
      <3> QED
        BY <3>1 DEF Before
    <2>2. CASE ~CoreBefore(u.core, v.core) /\ ~CoreBefore(v.core, w.core)
      <3>1. u.core = w.core /\ ~Plain(u) /\ ~Plain(v)
        BY <1>6, <2>2 DEF Before
      <3>2. Plain(w) \/ TextRank[u.suffix] < TextRank[w.suffix]
        BY <1>3, <1>6, <2>2, <3>1 DEF Before
      <3> QED
        BY <3>1, <3>2 DEF Before
    <2> QED
      BY <2>1, <2>2
  <1>7. ASSUME \A s, t \in Suffixes : TextRank[s] = TextRank[t] => s = t
        PROVE  u = v \/ Before(u, v) \/ Before(v, u)
    <2>1. CASE u.core # v.core
      BY <1>1, <2>1, CoreOrder DEF Before
    <2>2. CASE u.core = v.core /\ ~Plain(u) /\ ~Plain(v)
      <3>1. TextRank[u.suffix] = TextRank[v.suffix] => u = v
        BY <1>3, <1>4, <1>7, <2>2
      <3> QED
        BY <1>3, <2>2, <3>1 DEF Before
    <2>3. CASE u.core = v.core /\ (Plain(u) \/ Plain(v))
      BY <1>4, <2>3 DEF Before, Plain
    <2> QED
      BY <2>1, <2>2, <2>3
  <1> QED
    BY <1>5, <1>6, <1>7

(* What the updater takes for newer is later in every order of versions. *)
LEMMA NewerIsLater ==
  ASSUME NEW v \in Version, NEW w \in Version, CoreBefore(v.core, w.core)
  PROVE  SemVerBefore(v, w) /\ Before(v, w)
  BY DEF SemVerBefore, Before

-----------------------------------------------------------------------------
(* Package versions. *)

LEMMA PackageVersionTyped ==
  ASSUME NEW f \in Formats, NEW v \in Version, NEW k \in Nat \union {None}
  PROVE  PackageVersion(f, v, k) \in Text /\ PackageVersion(f, v, k).core = v.core
  <1>1. /\ v.core \in Cores /\ v.suffix \in Suffixes \union {NoSuffix}
    BY DEF Version
  <1>2. v.suffix \in DOMAIN NumberOf => NumberOf[v.suffix] \in Nat
    BY VersionAssumption
  <1> QED
    BY <1>1, <1>2 DEF PackageVersion, Text

LEMMA FactoryVersionTyped ==
  ASSUME NEW f \in Formats, NEW t \in Text, FactoryVersion(f, t) # None
  PROVE  FactoryVersion(f, t) \in Version /\ FactoryVersion(f, t).core = t.core
  BY DEF FactoryVersion, Text, Version

(* A package reads as the version it was built from. *)
LEMMA PackageReadsBack ==
  ASSUME NEW f \in Formats, NEW v \in Version, NEW k \in (Nat \ {0}) \union {None},
         f = "rpm" => Plain(v),
         f = "deb" /\ k = None => v.suffix \notin DOMAIN NumberOf
  PROVE  FactoryVersion(f, PackageVersion(f, v, k)) = v
  <1>1. v = [core |-> v.core, suffix |-> v.suffix]
    BY DEF Version
  <1>2. CASE f = "rpm"
    BY <1>1, <1>2 DEF PackageVersion, FactoryVersion, Plain
  <1>3. CASE f = "deb"
    <2>1. PackageVersion(f, v, k) =
            [core |-> v.core, suffix |-> v.suffix, revision |-> k]
      BY <1>3 DEF PackageVersion
    <2>2. k # 0
      BY VersionAssumption
    <2> QED
      BY <1>1, <1>3, <2>1, <2>2 DEF FactoryVersion
  <1> QED
    BY <1>2, <1>3 DEF Formats

-----------------------------------------------------------------------------
(* The host. *)

(* The installed package is one of a release or one built here. *)
Built ==
    /\ \E k \in Revisions \union {None} : package = PackageVersion(format, contents, k)
    /\ format = "rpm" => Plain(contents)

(* Every version the record relies on is there, and could be built. *)
Prepared ==
    /\ state = "update-available" => available # None
    /\ state \in Blocking => candidate # None
    /\ format = "rpm" =>
         \A v \in {candidate, good, approved, applying} : v # None => Plain(v)

(* What the last check offered, and what an approval installs, is an update of
   what it was compared with. *)
OfferIsLater ==
    /\ current /\ state = "update-available" => CoreBefore(contents.core, available.core)
    /\ current /\ state = "ready-to-install" => CoreBefore(contents.core, candidate.core)
    /\ compared /\ applying # None => CoreBefore(contents.core, applying.core)

HostInv == TypeOK /\ Built /\ Prepared /\ OfferIsLater /\ Plain(accepted)

LEMMA Revised == None \in Nat \union {None} /\ Revisions \subseteq Nat \ {0}
  BY HostAssumption

LEMMA HoldsTyped ==
  ASSUME TypeOK, NEW v \in Version, NEW k \in Nat \union {None}, Holds(v, k)
  PROVE  package' \in Text /\ contents' \in Version /\ format' \in Formats
  <1>1. format \in Formats
    BY DEF TypeOK
  <1> QED
    BY <1>1, PackageVersionTyped DEF Holds

LEMMA HoldsBuilt ==
  ASSUME NEW v \in Version, NEW k \in Revisions \union {None}, Holds(v, k),
         format = "rpm" => Plain(v)
  PROVE  Built'
  BY DEF Holds, Built

LEMMA HostInitially == Init => HostInv
  <1> SUFFICES ASSUME Init PROVE HostInv
    OBVIOUS
  <1>1. PICK k \in Revisions : package = PackageVersion(format, First, k)
    BY DEF Init
  <1>2. First \in Version /\ Plain(First)
    BY HostAssumption
  <1>3. format \in Formats
    BY DEF Init
  <1>4. package \in Text
    BY <1>1, <1>2, <1>3, Revised, PackageVersionTyped
  <1>5. TypeOK
    BY <1>2, <1>4 DEF Init, TypeOK, States
  <1>6. Built
    BY <1>1, <1>2 DEF Init, Built
  <1>7. Prepared /\ OfferIsLater /\ Plain(accepted)
    BY <1>2 DEF Init, Prepared, OfferIsLater, Blocking
  <1> QED
    BY <1>5, <1>6, <1>7 DEF HostInv

(* Commands that leave the package. *)
LEMMA PackageStays ==
  ASSUME HostInv, UNCHANGED <<format, package, contents>>, TypeOK', Prepared',
         OfferIsLater', Plain(accepted)'
  PROVE  HostInv'
  <1>1. Built'
    BY DEF HostInv, Built
  <1> QED
    BY <1>1 DEF HostInv

LEMMA HostPreserved == ASSUME HostInv, [Next]_vars PROVE HostInv'
  <1> USE DEF record, host, approval
  <1>1. ASSUME NEW v \in Version, ReleaseUpstream(v) PROVE HostInv'
    <2>1. TypeOK'
      BY <1>1 DEF HostInv, TypeOK, ReleaseUpstream
    <2>2. Prepared' /\ OfferIsLater' /\ Plain(accepted)'
      BY <1>1 DEF HostInv, Prepared, OfferIsLater, ReleaseUpstream
    <2> QED
      BY <1>1, <2>1, <2>2, PackageStays DEF ReleaseUpstream
  <1>2. ASSUME NEW v \in Version, Publish(v) PROVE HostInv'
    <2>1. TypeOK'
      BY <1>2 DEF HostInv, TypeOK, Publish
    <2>2. Prepared' /\ OfferIsLater' /\ Plain(accepted)'
      BY <1>2 DEF HostInv, Prepared, OfferIsLater, Publish, RpmBuilds
    <2> QED
      BY <1>2, <2>1, <2>2, PackageStays DEF Publish
  <1>3. ASSUME NEW v \in Version, NEW k \in Revisions \union {None}, InstallOutside(v, k)
        PROVE  HostInv'
    <2>1. Holds(v, k) /\ (format = "rpm" => Plain(v)) /\ current' = FALSE
      BY <1>3 DEF InstallOutside, RpmBuilds
    <2>2. TypeOK'
      BY <1>3, <2>1, Revised, HoldsTyped DEF HostInv, TypeOK, InstallOutside
    <2>3. Built'
      BY <2>1, HoldsBuilt
    <2>4. Prepared' /\ OfferIsLater' /\ Plain(accepted)'
      BY <1>3, <2>1 DEF HostInv, Prepared, OfferIsLater, InstallOutside, Holds
    <2> QED
      BY <2>2, <2>3, <2>4 DEF HostInv
  <1>4. CASE CheckNow
    <2> DEFINE installed == FactoryVersion(format, package)
    <2>1. /\ format \in Formats /\ package \in Text /\ upstream \in Version
          /\ contents \in Version
      BY DEF HostInv, TypeOK
    <2>2. installed # None => installed.core = contents.core
      <3>1. PICK k \in Revisions \union {None} : package = PackageVersion(format, contents, k)
        BY DEF HostInv, Built
      <3>2. package.core = contents.core
        BY <2>1, <3>1, Revised, PackageVersionTyped
      <3> QED
        BY <2>1, <3>2, FactoryVersionTyped
    <2>3. upstream # None
      BY <2>1, NoneIsNoVersion
    <2>4. CASE installed = None
      <3>1. /\ state' = "failed"
            /\ UNCHANGED <<upstream, accepted, format, package, contents, good,
                           approval, available, candidate, current>>
        BY <1>4, <2>4 DEF CheckNow
      <3>2. TypeOK' /\ Prepared' /\ OfferIsLater' /\ Plain(accepted)'
        BY <3>1 DEF HostInv, TypeOK, Prepared, OfferIsLater, States, Blocking
      <3> QED
        BY <3>1, <3>2, PackageStays
    <2>5. CASE installed # None /\ ~IsNewerVersion(upstream, installed)
      <3>1. /\ state' = "idle" /\ available' = None /\ candidate' = None
            /\ UNCHANGED <<upstream, accepted, format, package, contents, good,
                           approval, current>>
        BY <1>4, <2>5 DEF CheckNow
      <3>2. TypeOK' /\ Prepared' /\ OfferIsLater' /\ Plain(accepted)'
        BY <3>1 DEF HostInv, TypeOK, Prepared, OfferIsLater, States, Blocking
      <3> QED
        BY <3>1, <3>2, PackageStays
    <2>6. CASE installed # None /\ IsNewerVersion(upstream, installed)
      <3>1. /\ state' = "update-available" /\ available' = upstream
            /\ candidate' = None /\ current' = TRUE
            /\ UNCHANGED <<upstream, accepted, format, package, contents, good, approval>>
        BY <1>4, <2>6 DEF CheckNow
      <3>2. CoreBefore(contents.core, upstream.core)
        BY <2>2, <2>6 DEF IsNewerVersion
      <3>3. TypeOK'
        BY <2>1, <3>1 DEF HostInv, TypeOK, States
      <3>4. Prepared'
        BY <2>3, <3>1 DEF HostInv, Prepared, Blocking
      <3>5. OfferIsLater' /\ Plain(accepted)'
        BY <3>1, <3>2 DEF HostInv, OfferIsLater
      <3> QED
        BY <3>1, <3>3, <3>4, <3>5, PackageStays
    <2> QED
      BY <2>4, <2>5, <2>6
  <1>5. CASE FailCheck
    <2>1. TypeOK' /\ Prepared' /\ OfferIsLater' /\ Plain(accepted)'
      BY <1>5 DEF HostInv, TypeOK, Prepared, OfferIsLater, States, Blocking, FailCheck
    <2> QED
      BY <1>5, <2>1, PackageStays DEF FailCheck
  <1>6. CASE Prepare
    <2>1. available # None /\ available \in Version
      BY <1>6 DEF HostInv, Prepared, TypeOK, Prepare
    <2>2. TypeOK'
      BY <1>6, <2>1 DEF HostInv, TypeOK, States, Prepare
    <2>3. Prepared'
      BY <1>6, <2>1 DEF HostInv, Prepared, Blocking, Prepare, RpmBuilds
    <2>4. OfferIsLater' /\ Plain(accepted)'
      BY <1>6, <2>1 DEF HostInv, OfferIsLater, Prepare
    <2> QED
      BY <1>6, <2>2, <2>3, <2>4, PackageStays DEF Prepare
  <1>7. CASE Install \/ FailInstall \/ InstallByHand
    <2>1. /\ UNCHANGED <<upstream, accepted, available, candidate, approval>>
          /\ state \in Blocking
          /\ state' \in {"installed", "rolled-back", "install-failed-manual-action"}
          /\ good' = good \/ good' = candidate
          /\ current' = FALSE \/ (current' = current /\ state' = "installed")
      <3>1. CASE Install
        BY <3>1 DEF Install, Blocking
      <3>2. CASE FailInstall
        BY <3>2 DEF FailInstall, Blocking
      <3>3. CASE InstallByHand
        BY <3>3 DEF InstallByHand, Blocking
      <3> QED
        BY <1>7, <3>1, <3>2, <3>3
    <2>2. \/ UNCHANGED <<format, package, contents>>
          \/ Holds(candidate, None)
          \/ good # None /\ Holds(good, None)
      BY <1>7 DEF Install, FailInstall, InstallByHand
    <2>3. /\ candidate # None /\ candidate \in Version
          /\ format = "rpm" => Plain(candidate)
      BY <2>1 DEF HostInv, Prepared, TypeOK
    <2>4. /\ good \in Version \union {None}
          /\ good # None /\ format = "rpm" => Plain(good)
      BY DEF HostInv, Prepared, TypeOK
    <2>5. format' = format
      BY <2>2 DEF Holds
    <2>9. applying = None \/ UNCHANGED <<format, package, contents>>
      BY <1>7 DEF Install, FailInstall, InstallByHand, RootLockFree
    <2>6. TypeOK'
      <3>1. package' \in Text /\ contents' \in Version
        BY <2>2, <2>3, <2>4, Revised, HoldsTyped DEF HostInv, TypeOK
      <3> QED
        BY <2>1, <2>3, <2>4, <2>5, <3>1 DEF HostInv, TypeOK, States
    <2>7. Built'
      <3>1. CASE UNCHANGED <<format, package, contents>>
        BY <3>1 DEF HostInv, Built
      <3> QED
        BY <2>2, <2>3, <2>4, <3>1, HoldsBuilt
    <2>8. Prepared' /\ OfferIsLater' /\ Plain(accepted)'
      BY <2>1, <2>3, <2>4, <2>5, <2>9 DEF HostInv, Prepared, OfferIsLater, Blocking
    <2> QED
      BY <2>6, <2>7, <2>8 DEF HostInv
  <1>8. CASE Reconcile \/ Discard
    <2>1. TypeOK' /\ Prepared' /\ OfferIsLater' /\ Plain(accepted)'
      BY <1>8 DEF HostInv, TypeOK, Prepared, OfferIsLater, States, Blocking,
        Reconcile, Discard
    <2> QED
      BY <1>8, <2>1, PackageStays DEF Reconcile, Discard
  <1>9. CASE Approve \/ ExpireApproval
    <2>1. TypeOK' /\ Prepared' /\ OfferIsLater' /\ Plain(accepted)'
      BY <1>9 DEF HostInv, TypeOK, Prepared, OfferIsLater, Approve, ExpireApproval
    <2> QED
      BY <1>9, <2>1, PackageStays DEF Approve, ExpireApproval
  <1>10. CASE InstallApproved
    <2>1. /\ applying # None /\ applying' = None /\ compared' = FALSE
          /\ UNCHANGED <<upstream, accepted, state, available, candidate, good, approved>>
      BY <1>10 DEF InstallApproved
    <2>2. applying \in Version /\ (format = "rpm" => Plain(applying))
      BY <2>1 DEF HostInv, TypeOK, Prepared
    <2>3. CASE UNCHANGED <<format, package, contents, current>>
      <3>1. TypeOK' /\ Prepared' /\ OfferIsLater' /\ Plain(accepted)'
        BY <2>1, <2>3 DEF HostInv, TypeOK, Prepared, OfferIsLater
      <3> QED
        BY <2>3, <3>1, PackageStays
    <2>4. CASE Holds(applying, None) /\ current' = FALSE
      <3>1. TypeOK'
        BY <2>1, <2>2, <2>4, Revised, HoldsTyped DEF HostInv, TypeOK
      <3>2. Built'
        BY <2>2, <2>4, HoldsBuilt
      <3>3. Prepared' /\ OfferIsLater' /\ Plain(accepted)'
        BY <2>1, <2>4 DEF HostInv, Prepared, OfferIsLater, Holds
      <3> QED
        BY <3>1, <3>2, <3>3 DEF HostInv
    <2> QED
      BY <1>10, <2>3, <2>4 DEF InstallApproved
  <1>12. CASE CheckApproved
    <2>1. /\ approved # None /\ approved' = None /\ applying' = approved /\ compared' = TRUE
          /\ UNCHANGED <<upstream, accepted, state, available, candidate, format, package,
                         contents, good, current>>
      BY <1>12 DEF CheckApproved
    <2>2. CoreBefore(contents.core, approved.core)
      <3>1. PICK k \in Revisions \union {None} : package = PackageVersion(format, contents, k)
        BY DEF HostInv, Built
      <3>2. format \in Formats /\ contents \in Version
        BY DEF HostInv, TypeOK
      <3>3. package.core = contents.core
        BY <3>1, <3>2, Revised, PackageVersionTyped
      <3> QED
        BY <1>12, <3>3 DEF CheckApproved, IsStrictUpgrade
    <2>3. TypeOK'
      BY <2>1 DEF HostInv, TypeOK
    <2>4. Prepared' /\ OfferIsLater' /\ Plain(accepted)'
      BY <2>1, <2>2 DEF HostInv, Prepared, OfferIsLater
    <2> QED
      BY <2>1, <2>3, <2>4, PackageStays
  <1>11. CASE UNCHANGED vars
    BY <1>11 DEF vars, HostInv, TypeOK, Built, Prepared, OfferIsLater
  <1> QED
    BY <1>1, <1>2, <1>3, <1>4, <1>5, <1>6, <1>7, <1>8, <1>9, <1>10, <1>11, <1>12
    DEF Next

LEMMA HostInvariance == Spec => []HostInv
  BY HostInitially, HostPreserved, PTL DEF Spec

(* The record, the package and the approvals keep to the values the code gives
   them, whatever versions there are. *)
THEOREM HostTypes == Spec => []TypeOK
  <1>1. HostInv => TypeOK
    BY DEF HostInv
  <1> QED
    BY <1>1, HostInvariance, PTL

(* Prereleases, wrapper revisions and package managers notwithstanding, the
   updater reads from the package manager the version that was built
   (package_manager.rs:52). *)
THEOREM InstalledReads == Spec => []InstalledIsRead
  <1>1. ASSUME HostInv PROVE InstalledIsRead
    <2>1. PICK k \in Revisions \union {None} : package = PackageVersion(format, contents, k)
      BY <1>1 DEF HostInv, Built
    <2>2. /\ format \in Formats /\ contents \in Version
          /\ format = "rpm" => Plain(contents)
      BY <1>1 DEF HostInv, TypeOK, Built
    <2>3. k \in (Nat \ {0}) \union {None}
      BY Revised
    <2>4. CASE format = "deb" /\ k = None /\ contents.suffix \in DOMAIN NumberOf
      BY <2>1, <2>4 DEF InstalledIsRead
    <2>5. CASE ~(format = "deb" /\ k = None /\ contents.suffix \in DOMAIN NumberOf)
      <3>1. FactoryVersion(format, PackageVersion(format, contents, k)) = contents
        BY <2>2, <2>3, <2>5, PackageReadsBack
      <3> QED
        BY <2>1, <3>1 DEF InstalledIsRead
    <2> QED
      BY <2>4, <2>5
  <1> QED
    BY <1>1, HostInvariance, PTL

(* The record moves forward in the order of the releases, although the suffixes
   may be ordered in any way by compareVersions: none is ever recorded. *)
THEOREM RecordMovesForward == Spec => RecordFollowsReleases
  <1>1. ASSUME HostInv, [Next]_vars PROVE [~SemVerBefore(accepted', accepted)]_vars
    <2> SUFFICES ASSUME Next PROVE ~SemVerBefore(accepted', accepted)
      BY <1>1
    <2>1. accepted \in Version /\ Plain(accepted) /\ accepted.core \in Cores
      BY <1>1 DEF HostInv, TypeOK, Version
    <2>2. CASE accepted' = accepted
      BY <2>1, <2>2, CoreOrder DEF SemVerBefore
    <2>3. CASE \E v \in Version : Publish(v)
      <3>1. PICK v \in Version : Publish(v)
        BY <2>3
      <3>2. Plain(v) /\ ~Before(v, accepted) /\ accepted' = v
        BY <3>1 DEF Publish, RpmBuilds
      <3> QED
        BY <3>2 DEF Before, SemVerBefore
    <2>4. accepted' = accepted \/ \E v \in Version : Publish(v)
      BY DEF Next, ReleaseUpstream, InstallOutside, CheckNow, FailCheck, Prepare, Install,
        FailInstall, InstallByHand, Reconcile, Discard, Approve, CheckApproved,
        InstallApproved, ExpireApproval
    <2> QED
      BY <2>2, <2>3, <2>4
  <1> QED
    BY <1>1, HostInvariance, PTL DEF Spec, RecordFollowsReleases

(* An update offered by a check that saw the installed package, and an approved
   package that was compared with it, only ever take the application forward
   (main.rs:393, approval.rs:387). *)
THEOREM OnlyForward == Spec => UpdatesMoveForward
  <1> DEFINE Forward == contents' # contents
                          /\ (\/ current /\ state' = "installed" /\ state # "installed"
                              \/ compared /\ applying # None /\ applying' = None)
                        => SemVerBefore(contents, contents')
  <1>1. ASSUME HostInv, [Next]_vars PROVE [Forward]_vars
    <2> SUFFICES ASSUME Next PROVE Forward
      BY <1>1
    <2>1. contents \in Version
      BY <1>1 DEF HostInv, TypeOK
    <2>2. CASE Install
      <3>1. /\ state = "ready-to-install" /\ contents' = candidate
            /\ applying = None
        BY <2>2 DEF Install, Holds, RootLockFree
      <3>2. candidate \in Version
        BY <1>1, <3>1 DEF HostInv, TypeOK, Prepared, Blocking
      <3>3. current => CoreBefore(contents.core, candidate.core)
        BY <1>1, <3>1 DEF HostInv, OfferIsLater
      <3> QED
        BY <2>1, <3>1, <3>2, <3>3, NewerIsLater
    <2>3. CASE InstallApproved
      <3>1. /\ applying # None /\ state' = state
            /\ contents' = applying \/ contents' = contents
        BY <2>3 DEF InstallApproved, Holds, record
      <3>2. applying \in Version
        BY <1>1, <3>1 DEF HostInv, TypeOK
      <3>3. compared => CoreBefore(contents.core, applying.core)
        BY <1>1, <3>1 DEF HostInv, OfferIsLater
      <3> QED
        BY <2>1, <3>1, <3>2, <3>3, NewerIsLater
    <2>4. CASE ~Install /\ ~InstallApproved
      <3>1. \/ contents' = contents
            \/ state' = state /\ applying' = applying
            \/ state' # "installed" /\ applying' = applying
        BY <2>4 DEF Next, ReleaseUpstream, Publish, InstallOutside, CheckNow, FailCheck,
          Prepare, FailInstall, InstallByHand, Reconcile, Discard, Approve, CheckApproved,
          ExpireApproval, record, host, approval
      <3> QED
        BY <3>1
    <2> QED
      BY <2>2, <2>3, <2>4
  <1> QED
    BY <1>1, HostInvariance, PTL DEF Spec, UpdatesMoveForward
=============================================================================
