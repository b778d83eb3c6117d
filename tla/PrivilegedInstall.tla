-------------------------- MODULE PrivilegedInstall --------------------------
(***************************************************************************)
(* The root helper of the update manager (src/updater/src/install.rs,      *)
(* rollback.rs, approval.rs and the privileged commands of main.rs):       *)
(* install-deb/install-rpm, rollback, approve-candidate and                *)
(* install-approved-package.                                               *)
(*                                                                         *)
(* Helpers are root processes serialised by a non-blocking lock.  They     *)
(* share a content-addressed package cache, the known-good packages with   *)
(* their index, the approval records and the machine's package manager.    *)
(* A helper may fail or die between any two steps; what is on disk stays.  *)
(* The lock keeps out other helpers only: the user's own apt or dpkg, and  *)
(* the package manager that a killed helper leaves running, change what is *)
(* installed at any moment.                                                *)
(*                                                                         *)
(* Abstractions.  A package stands for its candidate id, version, format   *)
(* and SHA-256; a file under a package's name has the right content        *)
(* ("good"), another one ("bad"), or is absent.  Times are abstracted:     *)
(* the index is ordered by retained_at, and an approval is fresh or not.   *)
(* Partial files are removed or ignored by every reader and are left out.  *)
(***************************************************************************)
EXTENDS Naturals, Sequences, SequencesExt

CONSTANTS
    Procs,          \* root processes
    Packages,       \* packages, named by their SHA-256
    Approvals,      \* approval ids, drawn at random: never drawn twice
    VersionOf,      \* the Factory version of each package
    None,           \* an absent value
    Limit,          \* known-good packages kept
    ClockJumps,     \* TRUE: the clock may be set back between installations
    Crashes         \* TRUE: processes may die at any step

ASSUME PrivilegedAssumption ==
    /\ VersionOf \in [Packages -> Nat]
    /\ None \notin Procs \union Packages \union Approvals \union Nat
    /\ Limit \in Nat \ {0}
    /\ ClockJumps \in BOOLEAN
    /\ Crashes \in BOOLEAN

VARIABLES
    lock,       \* the process holding the root lock, or None
    pc,         \* where each process is
    job,        \* what each process works on
    source,     \* packages in the users' workspaces
    cache,      \* packages in the root cache
    files,      \* packages in the known-good directory
    index,      \* the known-good index, newest first
    active,     \* approval records by id
    consumed,   \* ids of consumed records
    installed,  \* the version the package manager reports, or None
    report,     \* what each process reported when it ended
    verified,   \* history: packages installed and verified by install-*
    used,       \* history: installations begun under each approval
    disturbed   \* history: processes since whose command began another
                \* package manager has changed what is installed

vars == <<lock, pc, job, source, cache, files, index, active, consumed,
          installed, report, verified, used, disturbed>>

history == <<verified, used>>
stores == <<source, cache, files, index, active, consumed, history>>

Contents == {"absent", "good", "bad"}
Versions == {VersionOf[k] : k \in Packages}
Commands == {"install", "rollback", "approve", "approved"}

Jobs == [command : Commands \union {None},
         package : Packages \union {None},
         approval : Approvals \union {None},
         stale : SUBSET Packages]

NoJob == [command |-> None, package |-> None, approval |-> None, stale |-> {}]

(* An approval record; complete is FALSE while it is being written. *)
Records == [package : Packages, complete : BOOLEAN, fresh : BOOLEAN]

ASSUME RecordAssumption == None \notin Records

BusyPcs == {"copying", "inspecting", "installing", "verifying", "retaining",
            "indexing", "pruning", "rolling-back", "restoring", "restored",
            "recording", "writing", "consuming", "approved", "applied"}

TypeOK ==
    /\ lock \in Procs \union {None}
    /\ pc \in [Procs -> BusyPcs \union {"off"}]
    /\ job \in [Procs -> Jobs]
    /\ source \in [Packages -> Contents]
    /\ cache \in [Packages -> Contents]
    /\ files \subseteq Packages
    /\ index \in Seq(Packages) /\ Len(index) <= Limit
    /\ active \in [Approvals -> Records \union {None}]
    /\ consumed \subseteq Approvals
    /\ installed \in Versions \union {None}
    /\ report \in [Procs -> {"none", "Installed", "RolledBack", "failed", "Approved"}]
    /\ verified \subseteq Packages
    /\ used \in [Approvals -> Nat]
    /\ disturbed \subseteq Procs

-----------------------------------------------------------------------------
(* Steps shared by the commands. *)

Goto(p, l) == pc' = [pc EXCEPT ![p] = l]

(* Take the free lock and start on a job. *)
Begin(p, j, l) ==
    /\ pc[p] = "off"
    /\ lock = None
    /\ lock' = p
    /\ job' = [job EXCEPT ![p] = j]
    /\ report' = [report EXCEPT ![p] = "none"]
    /\ Goto(p, l)
    /\ UNCHANGED disturbed

(* Go on inside the critical section. *)
Advance(p, from, to) ==
    /\ pc[p] = from
    /\ Goto(p, to)
    /\ UNCHANGED <<lock, report, disturbed>>

(* Print the outcome, end, and drop the lock. *)
Report(p, outcome) ==
    /\ report' = [report EXCEPT ![p] = outcome]
    /\ lock' = None
    /\ job' = [job EXCEPT ![p] = NoJob]
    /\ Goto(p, "off")
    /\ disturbed' = disturbed \ {p}

(* dpkg -i or rpm -Uvh: whatever the exit code, the old or the new version
   may be there afterwards, or none. *)
ManagerRuns(k) == installed' \in {installed, VersionOf[k], None}

-----------------------------------------------------------------------------
(* install-deb, install-rpm *)

(* The manifest is loaded and the candidate validated in the workspace. *)
BeginInstall(p, k) ==
    /\ source[k] = "good"
    /\ Begin(p, [NoJob EXCEPT !.command = "install", !.package = k], "copying")
    /\ UNCHANGED <<stores, installed>>

(* The workspace may have changed since; a cached package is kept as it is. *)
CopyToRootCache(p) ==
    LET k == job[p].package IN
    /\ Advance(p, "copying", "inspecting")
    /\ source[k] # "absent" \/ cache[k] # "absent"
    /\ cache' = [cache EXCEPT ![k] = IF @ = "absent" THEN source[k] ELSE @]
    /\ UNCHANGED <<job, source, files, index, active, consumed, installed, history>>

(* Variant: what was copied is not validated again. *)
InspectWithoutHash(p) ==
    /\ \/ job[p].command = "install" /\ Advance(p, "inspecting", "installing")
       \/ job[p].command = "approve" /\ Advance(p, "inspecting", "recording")
    /\ UNCHANGED <<job, stores, installed>>

InspectCached(p) ==
    /\ pc[p] = "inspecting"
    /\ cache[job[p].package] = "good"
    /\ \/ job[p].command = "install" /\ Advance(p, "inspecting", "installing")
       \/ job[p].command = "approve" /\ Advance(p, "inspecting", "recording")
    /\ UNCHANGED <<job, stores, installed>>

InstallPackage(p) ==
    /\ \/ Advance(p, "installing", "verifying")
       \/ Advance(p, "installing", "rolling-back")
    /\ ManagerRuns(job[p].package)
    /\ UNCHANGED <<job, stores>>

(* Variant: the exit code of the package manager is believed. *)
TrustExitCode(p) ==
    /\ Advance(p, "verifying", "retaining")
    /\ verified' = IF installed = VersionOf[job[p].package]
                     THEN verified \union {job[p].package} ELSE verified
    /\ UNCHANGED <<job, source, cache, files, index, active, consumed, installed, used>>

VerifyInstalled(p) ==
    /\ Advance(p, "verifying", "retaining")
    /\ installed = VersionOf[job[p].package]
    /\ verified' = verified \union {job[p].package}
    /\ UNCHANGED <<job, source, cache, files, index, active, consumed, installed, used>>

(* Another version is there, or the query failed. *)
VerifyFails(p) ==
    /\ Advance(p, "verifying", "rolling-back")
    /\ UNCHANGED <<job, stores, installed>>

(* retain: the package is copied next to the others ... *)
RetainFile(p) ==
    /\ Advance(p, "retaining", "indexing")
    /\ cache[job[p].package] = "good"
    /\ files' = files \union {job[p].package}
    /\ UNCHANGED <<job, source, cache, index, active, consumed, installed, history>>

(* list: it fails when an indexed package is missing. *)
IndexIsReadable == \A i \in DOMAIN index : index[i] \in files

(* The other entries: the index names no package twice. *)
Without(k) ==
    IF \E i \in DOMAIN index : index[i] = k
    THEN RemoveAt(index, CHOOSE i \in DOMAIN index : index[i] = k)
    ELSE index

(* ... it enters the index at the place its time gives it ... *)
Ranked(k, i) == InsertAt(Without(k), i, k)

Places(k) == IF ClockJumps THEN 1 .. Len(Without(k)) + 1 ELSE {1}

(* Variant: the new entry is not counted. *)
KeptAndOne(s) == SubSeq(s, 1, IF Len(s) < Limit + 1 THEN Len(s) ELSE Limit + 1)

Kept(s) == SubSeq(s, 1, IF Len(s) < Limit THEN Len(s) ELSE Limit)

(* Variant: the dropped packages are removed before the index is written. *)
PruneFirst(p) ==
    /\ pc[p] = "indexing"
    /\ IndexIsReadable
    /\ \/ /\ job[p].stale = {}
          /\ job' = [job EXCEPT ![p].stale =
                       ToSet(Ranked(job[p].package, 1)) \ ToSet(Kept(Ranked(job[p].package, 1)))]
          /\ files' = files \ job'[p].stale
          /\ Advance(p, "indexing", "indexing")
          /\ UNCHANGED index
       \/ /\ index' = Kept(Ranked(job[p].package, 1))
          /\ Advance(p, "indexing", "pruning")
          /\ UNCHANGED <<job, files>>
    /\ UNCHANGED <<source, cache, active, consumed, installed, history>>

(* Variant: the new entry is ranked last. *)
WriteIndexOldestFirst(p) ==
    /\ pc[p] = "indexing"
    /\ IndexIsReadable
    /\ LET s == Append(Without(job[p].package), job[p].package) IN
         /\ index' = Kept(s)
         /\ job' = [job EXCEPT ![p].stale = ToSet(s) \ ToSet(Kept(s))]
    /\ Advance(p, "indexing", "pruning")
    /\ UNCHANGED <<source, cache, files, active, consumed, installed, history>>

WriteIndex(p) ==
    /\ pc[p] = "indexing"
    /\ IndexIsReadable
    /\ \E i \in Places(job[p].package) :
         LET s == Ranked(job[p].package, i) IN
         /\ index' = Kept(s)
         /\ job' = [job EXCEPT ![p].stale = ToSet(s) \ ToSet(Kept(s))]
    /\ Advance(p, "indexing", "pruning")
    /\ UNCHANGED <<source, cache, files, active, consumed, installed, history>>

(* ... and the files the index dropped are removed, as far as that works. *)
PruneFiles(p) ==
    /\ pc[p] = "pruning"
    /\ \E gone \in SUBSET job[p].stale : files' = files \ gone
    /\ Report(p, "Installed")
    /\ UNCHANGED <<source, cache, index, active, consumed, installed, history>>

-----------------------------------------------------------------------------
(* rollback, after a failed installation or as a command *)

BeginRollback(p) ==
    /\ Begin(p, [NoJob EXCEPT !.command = "rollback"], "rolling-back")
    /\ UNCHANGED <<stores, installed>>

(* latest *)
ChooseLatest(p) ==
    /\ index # <<>>
    /\ IndexIsReadable
    /\ Advance(p, "rolling-back", "restoring")
    /\ job' = [job EXCEPT ![p].package = index[1]]
    /\ UNCHANGED <<stores, installed>>

RestorePackage(p) ==
    /\ Advance(p, "restoring", "restored")
    /\ ManagerRuns(job[p].package)
    /\ UNCHANGED <<job, stores>>

(* Variant: the restored version is not queried. *)
ReportRestoredBlindly(p) ==
    /\ pc[p] = "restored"
    /\ Report(p, "RolledBack")
    /\ UNCHANGED <<source, cache, files, index, active, consumed, installed, verified, used>>

ReportRestored(p) ==
    /\ pc[p] = "restored"
    /\ installed = VersionOf[job[p].package]
    /\ Report(p, "RolledBack")
    /\ UNCHANGED <<source, cache, files, index, active, consumed, installed, verified, used>>

-----------------------------------------------------------------------------
(* approve-candidate *)

BeginApprove(p, k) ==
    /\ source[k] = "good"
    /\ Begin(p, [NoJob EXCEPT !.command = "approve", !.package = k], "copying")
    /\ UNCHANGED <<stores, installed>>

(* The record is created under its name and written in place. *)
CreateRecord(p, a) ==
    /\ active[a] = None
    /\ a \notin consumed
    /\ Advance(p, "recording", "writing")
    /\ job' = [job EXCEPT ![p].approval = a]
    /\ active' = [active EXCEPT ![a] =
                    [package |-> job[p].package, complete |-> FALSE, fresh |-> TRUE]]
    /\ UNCHANGED <<source, cache, files, index, consumed, installed, history>>

WriteRecord(p) ==
    /\ pc[p] = "writing"
    /\ active' = [active EXCEPT ![job[p].approval].complete = TRUE]
    /\ Report(p, "Approved")
    /\ UNCHANGED <<source, cache, files, index, consumed, installed, history>>

-----------------------------------------------------------------------------
(* install-approved-package *)

(* validate_record *)
RecordIsValid(a) ==
    /\ active[a] # None
    /\ active[a].complete /\ active[a].fresh
    /\ cache[active[a].package] = "good"
    /\ installed # None /\ VersionOf[active[a].package] > installed

(* Variant: the helper does not take the lock. *)
BeginApprovedWithoutLock(p, a) ==
    /\ RecordIsValid(a)
    /\ a \notin consumed
    /\ pc[p] = "off"
    /\ job' = [job EXCEPT ![p] = [NoJob EXCEPT !.command = "approved", !.approval = a,
                                              !.package = active[a].package]]
    /\ Goto(p, "consuming")
    /\ UNCHANGED <<stores, installed, lock, report, disturbed>>

BeginApproved(p, a) ==
    /\ RecordIsValid(a)
    /\ a \notin consumed
    /\ Begin(p, [NoJob EXCEPT !.command = "approved", !.approval = a,
                              !.package = active[a].package], "consuming")
    /\ UNCHANGED <<stores, installed>>

(* Variant: the record is left where it is. *)
ConsumeWithoutMove(p) ==
    /\ Advance(p, "consuming", "approved")
    /\ UNCHANGED <<job, stores, installed>>

ConsumeApproval(p) ==
    /\ Advance(p, "consuming", "approved")
    /\ active' = [active EXCEPT ![job[p].approval] = None]
    /\ consumed' = consumed \union {job[p].approval}
    /\ UNCHANGED <<job, source, cache, files, index, installed, history>>

InstallApproved(p) ==
    /\ Advance(p, "approved", "applied")
    /\ ManagerRuns(job[p].package)
    /\ used' = [used EXCEPT ![job[p].approval] = @ + 1]
    /\ UNCHANGED <<job, source, cache, files, index, active, consumed, verified>>

ReportApproved(p) ==
    /\ pc[p] = "applied"
    /\ installed = VersionOf[job[p].package]
    /\ Report(p, "Installed")
    /\ UNCHANGED <<source, cache, files, index, active, consumed, installed, verified, used>>

-----------------------------------------------------------------------------
(* Any other end: a check that fails, an error of the system, a package
   manager that failed.  The exit status is an error. *)
Fail(p) ==
    /\ pc[p] # "off"
    /\ Report(p, "failed")
    /\ UNCHANGED <<stores, installed>>

(* The helper dies.  A package manager it runs is its child and goes on,
   without the lock: OtherManager is what that one does from now on. *)
Crash(p) ==
    /\ Crashes
    /\ pc[p] # "off"
    /\ Report(p, "failed")
    /\ used' = IF pc[p] = "approved"
                 THEN [used EXCEPT ![job[p].approval] = @ + 1] ELSE used
    /\ UNCHANGED <<source, cache, files, index, active, consumed, installed, verified>>

(* A package manager no living helper waits for, at any step of its work: the
   user's own, or one that outlived the helper that started it. *)
OtherManager ==
    /\ \E v \in (Versions \union {None}) \ {installed} : installed' = v
    /\ disturbed' = {p \in Procs : pc[p] # "off"}
    /\ UNCHANGED <<lock, pc, job, source, cache, files, index, active, consumed,
                   report, history>>

(* A user's update builds, rebuilds or removes a workspace. *)
ChangeWorkspace(k) ==
    /\ \E c \in Contents \ {source[k]} : source' = [source EXCEPT ![k] = c]
    /\ UNCHANGED <<lock, pc, job, cache, files, index, active, consumed,
                   installed, report, history, disturbed>>

(* The expiry of a record passes. *)
Expire(a) ==
    /\ active[a] # None
    /\ active[a].fresh
    /\ active' = [active EXCEPT ![a].fresh = FALSE]
    /\ UNCHANGED <<lock, pc, job, source, cache, files, index, consumed,
                   installed, report, history, disturbed>>

-----------------------------------------------------------------------------
Init ==
    /\ lock = None
    /\ pc = [p \in Procs |-> "off"]
    /\ job = [p \in Procs |-> NoJob]
    /\ source = [k \in Packages |-> "absent"]
    /\ cache = [k \in Packages |-> "absent"]
    /\ files = {}
    /\ index = <<>>
    /\ active = [a \in Approvals |-> None]
    /\ consumed = {}
    /\ installed \in Versions
    /\ report = [p \in Procs |-> "none"]
    /\ verified = {}
    /\ used = [a \in Approvals |-> 0]
    /\ disturbed = {}

Install(p) ==
    \/ \E k \in Packages : BeginInstall(p, k)
    \/ CopyToRootCache(p) \/ InspectCached(p) \/ InstallPackage(p)
    \/ VerifyInstalled(p) \/ VerifyFails(p)
    \/ RetainFile(p) \/ WriteIndex(p) \/ PruneFiles(p)

Rollback(p) ==
    BeginRollback(p) \/ ChooseLatest(p) \/ RestorePackage(p) \/ ReportRestored(p)

Approve(p) ==
    \/ \E k \in Packages : BeginApprove(p, k)
    \/ \E a \in Approvals : CreateRecord(p, a)
    \/ WriteRecord(p)

Approved(p) ==
    \/ \E a \in Approvals : BeginApproved(p, a)
    \/ ConsumeApproval(p) \/ InstallApproved(p) \/ ReportApproved(p)

Next ==
    \/ \E p \in Procs : \/ Install(p) \/ Rollback(p) \/ Approve(p) \/ Approved(p)
                        \/ Fail(p) \/ Crash(p)
    \/ \E k \in Packages : ChangeWorkspace(k)
    \/ \E a \in Approvals : Expire(a)
    \/ OtherManager

Spec == Init /\ [][Next]_vars

-----------------------------------------------------------------------------
(* Safety. *)

(* What the package manager is given to install is the package that was hashed
   and inspected, though users change their workspaces and helpers share the
   cache. *)
OnlyValidatedInstalled ==
    \A p \in Procs : pc[p] \in {"installing", "consuming", "approved"}
                       => cache[job[p].package] = "good"

(* Every indexed known-good package is on disk, whatever helper died while it
   retained one: a dangling entry would fail every later rollback and
   retention. *)
RollbackIsServed == \A i \in DOMAIN index : index[i] \in files

(* What rollback can restore was once installed and found installed. *)
KnownGoodIsVerified == \A i \in DOMAIN index : index[i] \in verified

(* A helper that reports an installed or restored package reports what the
   package manager says, unless another package manager changed that while the
   helper worked; and what it restored was once found installed.  What the
   user-level updater records rests on it. *)
ReportIsTrue ==
    [][\A p \in Procs :
         pc[p] # "off" /\ report'[p] \in {"Installed", "RolledBack"}
         => /\ p \notin disturbed => installed' = VersionOf[job[p].package]
            /\ report'[p] = "Installed" /\ pc[p] = "pruning" => job[p].package \in verified
            /\ report'[p] = "RolledBack" => job[p].package \in verified]_vars

(* An approval starts one installation, though helpers die and ids are tried
   again. *)
ApprovalUsedOnce == \A a \in Approvals : used[a] <= 1

(* An approved installation replaces an older version: what other helpers do,
   and where they die, cannot make the comparison of the versions stale before
   the package manager runs.  Only a package manager outside the lock can. *)
ApprovedOnlyUpgrades ==
    [][\A p \in Procs :
         pc[p] = "approved" /\ pc'[p] = "applied" /\ p \notin disturbed
         => installed # None /\ VersionOf[job[p].package] > installed]_vars

(* An installation reported as Installed can be rolled back to later. *)
InstalledIsRetained ==
    [][\A p \in Procs :
         pc[p] = "pruning" /\ report'[p] = "Installed"
         => \E i \in DOMAIN index : index[i] = job[p].package /\ index[i] \in files']_vars
=============================================================================
