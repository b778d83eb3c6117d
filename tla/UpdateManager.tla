---------------------------- MODULE UpdateManager ----------------------------
(***************************************************************************)
(* The user-level update manager of Factory Desktop for Linux              *)
(* (src/updater/src/main.rs, state.rs, daemon.rs, cleanup.rs).             *)
(*                                                                         *)
(* Every command is an operating-system process.  They share one persisted *)
(* record (state.json), one non-blocking advisory lock (state.lock), the   *)
(* candidate workspaces, and the package installed on the machine.  A      *)
(* process may die between any two steps; the kernel then drops its lock   *)
(* and the record keeps the last value saved.  One action is one critical  *)
(* step of a command: what happens up to the next save, lock operation or  *)
(* blocking call.                                                          *)
(*                                                                         *)
(* Abstractions.  A candidate is identified by the version it was built    *)
(* from (candidate_id, version, package_path, package_sha256 and           *)
(* candidate_manifest are set and cleared together).  Wall-clock time is   *)
(* one bit, aged: the saved record is at least STALE_OPERATION_TIMEOUT     *)
(* old.  Notifications and diagnostic texts are left out, except the two   *)
(* legacy messages recovery looks for (exitWaitFailed).  A failing save    *)
(* ends a command like a crash does, or takes its error branch.  What the  *)
(* package manager reports may change at any moment: the helper replaces   *)
(* packages on its way to an outcome, and users run apt or dnf themselves. *)
(***************************************************************************)
EXTENDS Naturals

CONSTANTS
    Clients,    \* command-line and bridge invocations: update, check-now, ...
    Pollers,    \* invocations of status and diagnose
    Daemons,    \* invocations of daemon and service
    Versions,   \* versions of Factory Desktop, ordered
    None,       \* an absent value (Rust's None)
    Crashes,    \* TRUE: processes may die at any step
    Suspends    \* TRUE: a waiting process may be stopped past the stale timeout

Procs == Clients \union Pollers \union Daemons

ASSUME ConstantsAssumption ==
    /\ Versions \subseteq Nat
    /\ None \notin Versions \union Procs
    /\ Clients \intersect Pollers = {}
    /\ Clients \intersect Daemons = {}
    /\ Pollers \intersect Daemons = {}
    /\ Crashes \in BOOLEAN
    /\ Suspends \in BOOLEAN

States == {"idle", "checking", "update-available", "downloading", "building",
           "validating", "ready-to-install", "installing", "installed",
           "install-failed-manual-action", "rolled-back", "failed"}

Records == [state : States,
            available : Versions \union {None},
            candidate : Versions \union {None},
            requested : BOOLEAN,
            command : BOOLEAN,
            exitWaitFailed : BOOLEAN]

DefaultRecord == [state |-> "idle", available |-> None, candidate |-> None,
                  requested |-> FALSE, command |-> FALSE,
                  exitWaitFailed |-> FALSE]

Helpers == [owner : Clients \union {None},
            candidate : Versions \union {None},
            result : {"none", "running", "installed", "rolled-back", "failed"}]

NoHelper == [owner |-> None, candidate |-> None, result |-> "none"]

VARIABLES
    rec,        \* state.json
    aged,       \* rec.updated_at is at least 30 minutes in the past
    lock,       \* the process holding state.lock, or None
    pc,         \* where each process is
    mem,        \* the record each process has loaded
    ws,         \* per version: the candidate workspace on disk
    helper,     \* the root helper started through pkexec or by the user
    installed,  \* the version the package manager reports, or None
    app,        \* Factory Desktop is running
    arrived     \* history: the candidate was installed at some moment since
                \* the helper was started or the reconciliation has begun

vars == <<rec, aged, lock, pc, mem, ws, helper, installed, app, arrived>>

(* Steps at which a process holds state.lock, by command. *)
PreparePcs == {"preparing", "downloading", "building", "packaging",
               "validating", "announcing"}
InstallPcs == {"entering", "installing", "helping", "settled", "sweeping"}
LockedPcs == PreparePcs \union InstallPcs \union
             {"updating", "rejecting", "cancelling", "launching", "launched",
              "deciding", "querying", "discarding", "discarded",
              "reconciling", "reconciled", "repairing", "recovering", "startup"}

(* Steps between the critical sections of a command. *)
WaitPcs == {"waiting", "timed-out", "exited"}
FreePcs == WaitPcs \union {"off", "relaunching", "reading", "starting",
                           "looping", "check", "sleeping"}

TypeOK ==
    /\ rec \in Records
    /\ aged \in BOOLEAN
    /\ lock \in Procs \union {None}
    /\ pc \in [Procs -> LockedPcs \union FreePcs]
    /\ mem \in [Procs -> Records]
    /\ ws \in [Versions -> {"absent", "partial", "valid"}]
    /\ helper \in Helpers
    /\ installed \in Versions \union {None}
    /\ app \in BOOLEAN
    /\ arrived \in BOOLEAN

-----------------------------------------------------------------------------
(* Classification of records. *)

PreparationActive(s) == s \in {"checking", "downloading", "building", "validating"}

(* Variant: a check may start although a candidate is ready. *)
BlocksUnlessReady(s) ==
    PreparationActive(s) \/ s \in {"installing", "install-failed-manual-action"}

RequiresCandidate(s) ==
    s \in {"ready-to-install", "installing", "install-failed-manual-action"}

BlocksNewCandidate(s) == PreparationActive(s) \/ RequiresCandidate(s)

(* Variants of Expires that forget one kind of operation. *)
ExpiresNotChecking(r) ==
    \/ r.state \in {"downloading", "building", "validating"}
    \/ r.state = "ready-to-install" /\ r.requested

ExpiresNotRequests(r) == PreparationActive(r.state)

(* An operation whose record must not stay as it is for ever. *)
Expires(r) ==
    \/ PreparationActive(r.state)
    \/ r.state = "ready-to-install" /\ r.requested

(* Variant: an operation is stale however fresh its record. *)
StaleAtOnce(r) == Expires(r)

Stale(r) == aged /\ Expires(r)

RetainedCandidateIsValid(r) ==
    r.candidate # None /\ ws[r.candidate] = "valid"

(* Failed with one of the two messages of older updaters. *)
FailedExitWait(r) == r.state = "failed" /\ r.exitWaitFailed

NeedsRecovery(r) ==
    Stale(r) \/ (FailedExitWait(r) /\ RetainedCandidateIsValid(r))

(* recover_interrupted_operation *)
Recovered(r) ==
    CASE ~NeedsRecovery(r) -> r
      [] NeedsRecovery(r) /\ (r.state = "ready-to-install" \/ FailedExitWait(r)) ->
            [r EXCEPT !.state = "ready-to-install", !.requested = FALSE,
                      !.command = FALSE, !.exitWaitFailed = FALSE]
      [] OTHER ->
            [r EXCEPT !.state = "failed", !.requested = FALSE,
                      !.exitWaitFailed = FALSE]

(* transition: the new state under a fresh message *)
Moved(r, s) == [r EXCEPT !.state = s, !.exitWaitFailed = FALSE]

ClearCandidateFields(r) ==
    [r EXCEPT !.candidate = None, !.requested = FALSE, !.command = FALSE]

-----------------------------------------------------------------------------
(* Steps shared by the commands. *)

(* Save a record with a fresh updated_at. *)
Put(r) == rec' = r /\ aged' = FALSE

Goto(p, l) == pc' = [pc EXCEPT ![p] = l]

Keep(p, r) == mem' = [mem EXCEPT ![p] = r]

(* Save and go on inside the critical section. *)
Advance(p, r, l) == Put(r) /\ Keep(p, r) /\ Goto(p, l) /\ UNCHANGED lock

(* Drop the lock and forget the loaded record. *)
Leave(p, l) == lock' = None /\ Keep(p, DefaultRecord) /\ Goto(p, l)

(* Take the free lock and load the record. *)
Load(p, l) ==
    /\ lock = None
    /\ lock' = p
    /\ Keep(p, rec)
    /\ Goto(p, l)
    /\ UNCHANGED <<rec, aged>>

(* with_locked_user_state: load, and save the recovered record if any. *)
Open(p, l) ==
    /\ lock = None
    /\ lock' = p
    /\ rec' = Recovered(rec)
    /\ aged' = (aged /\ ~NeedsRecovery(rec))
    /\ Keep(p, Recovered(rec))
    /\ Goto(p, l)

(* Variant: only a ready candidate is kept. *)
CleanupKeepsReadyOnly(r) ==
    ws' = [v \in Versions |->
             IF r.state = "ready-to-install" /\ v = r.candidate THEN ws[v] ELSE "absent"]

(* Leftovers of other candidates are removed, and of this one in a state
   that does not need it. *)
Cleanup(r) ==
    ws' = [v \in Versions |->
             IF RequiresCandidate(r.state) /\ v = r.candidate THEN ws[v] ELSE "absent"]

(* Somebody is about to learn whether the candidate is installed. *)
Watching == \E p \in Clients : pc[p] \in {"reconciling", "reconciled", "helping"}

(* What every step does to the history. *)
Watch == arrived' = (Watching' /\ (installed' = rec'.candidate \/ (Watching /\ arrived)))

Quiet == UNCHANGED <<ws, helper, installed, app>> /\ Watch

(* Where a process goes when its command ends: the daemon goes on to sleep. *)
Done(p) == IF p \in Daemons THEN "sleeping" ELSE "off"

-----------------------------------------------------------------------------
(* update: preparation of a candidate *)

BeginUpdate(p) == pc[p] = "off" /\ Open(p, "updating") /\ Quiet

UpdateRefused(r) ==
    \/ r.requested
    \/ PreparationActive(r.state)
    \/ r.state = "update-available" /\ r.available = None
    \/ r.state \notin {"update-available", "ready-to-install"}

RefuseUpdate(p) ==
    /\ pc[p] = "updating"
    /\ UpdateRefused(mem[p])
    /\ Leave(p, "off")
    /\ UNCHANGED <<rec, aged>> /\ Quiet

(* The fields are cleared in memory only; the old workspaces go. *)
BeginPrepare(p) ==
    /\ pc[p] = "updating"
    /\ ~UpdateRefused(mem[p])
    /\ mem[p].state = "update-available"
    /\ Cleanup(mem[p])
    /\ Goto(p, "preparing")
    /\ UNCHANGED <<rec, aged, lock, mem, helper, installed, app>> /\ Watch

BeginDownload(p) ==
    /\ pc[p] = "preparing"
    /\ Advance(p, Moved(ClearCandidateFields(mem[p]), "downloading"), "downloading")
    /\ Quiet

(* The DMG is there, from the accepted cache or the network. *)
BeginBuild(p) ==
    /\ pc[p] = "downloading"
    /\ ws' = [ws EXCEPT ![mem[p].available] = "absent"]
    /\ Advance(p, Moved(mem[p], "building"), "building")
    /\ UNCHANGED <<helper, installed, app>> /\ Watch

BuildPackage(p) ==
    /\ pc[p] = "building"
    /\ ws' = [ws EXCEPT ![mem[p].available] = "partial"]
    /\ Goto(p, "packaging")
    /\ UNCHANGED <<rec, aged, lock, mem, helper, installed, app>> /\ Watch

(* The inspector accepted the package and the manifest is written. *)
AcceptPackage(p) ==
    /\ pc[p] = "packaging"
    /\ ws' = [ws EXCEPT ![mem[p].available] = "valid"]
    /\ Advance(p, Moved(mem[p], "validating"), "validating")
    /\ UNCHANGED <<helper, installed, app>> /\ Watch

RetainCandidate(p) ==
    /\ pc[p] = "validating"
    /\ Advance(p, [Moved(mem[p], "ready-to-install") EXCEPT
                     !.candidate = mem[p].available, !.available = None],
               "announcing")
    /\ Quiet

(* notify_once saved its key and sent the notification. *)
Announce(p) ==
    /\ pc[p] = "announcing"
    /\ Goto(p, "updating")
    /\ UNCHANGED <<rec, aged, lock, mem>> /\ Quiet

(* Any error of the preparation, the last save included. *)
RejectCandidate(p) ==
    /\ pc[p] \in PreparePcs
    /\ Advance(p, Moved(IF pc[p] = "preparing" THEN ClearCandidateFields(mem[p])
                                               ELSE mem[p], "failed"), "rejecting")
    /\ Quiet

CleanRejected(p) ==
    /\ pc[p] = "rejecting"
    /\ Cleanup(mem[p])
    /\ Leave(p, "off")
    /\ UNCHANGED <<rec, aged, helper, installed, app>> /\ Watch

(* update: consent, exit wait, installation, relaunch *)

RequestInstall(p) ==
    /\ pc[p] = "updating"
    /\ ~UpdateRefused(mem[p])
    /\ mem[p].state = "ready-to-install"
    /\ Put([mem[p] EXCEPT !.requested = TRUE])
    /\ Leave(p, "waiting")
    /\ Quiet

(* Variant: the wait has no timeout. *)
EndWaitOnExitOnly(p) ==
    /\ pc[p] = "waiting"
    /\ ~app
    /\ Goto(p, "exited")
    /\ UNCHANGED <<rec, aged, lock, mem>> /\ Quiet

(* wait_for_factory_exit: the poll loop ends one way or the other. *)
EndWait(p) ==
    /\ pc[p] = "waiting"
    /\ Goto(p, IF app THEN "timed-out" ELSE "exited")
    /\ UNCHANGED <<rec, aged, lock, mem>> /\ Quiet

BeginCancel(p) == pc[p] = "timed-out" /\ Open(p, "cancelling") /\ Quiet

CancelInstallRequest(p) ==
    /\ pc[p] = "cancelling"
    /\ IF mem[p].state = "ready-to-install" /\ mem[p].requested
         THEN Put([Moved(mem[p], "ready-to-install") EXCEPT !.requested = FALSE])
         ELSE UNCHANGED <<rec, aged>>
    /\ Leave(p, "off")
    /\ Quiet

BeginInstall(p) == pc[p] = "exited" /\ Open(p, "entering") /\ Quiet

RefuseInstall(p) ==
    /\ pc[p] = "entering"
    /\ ~ /\ mem[p].state = "ready-to-install"
         /\ app \/ RetainedCandidateIsValid(mem[p])
    /\ Leave(p, "off")
    /\ UNCHANGED <<rec, aged>> /\ Quiet

(* Factory was started again: success is reported, the request stays. *)
DeferInstall(p) ==
    /\ pc[p] = "entering"
    /\ mem[p].state = "ready-to-install"
    /\ app
    /\ Leave(p, "relaunching")
    /\ UNCHANGED <<rec, aged>> /\ Quiet

InstallReady(p) ==
    /\ pc[p] = "entering"
    /\ mem[p].state = "ready-to-install"
    /\ ~app
    /\ RetainedCandidateIsValid(mem[p])
    /\ Advance(p, Moved(mem[p], "installing"), "installing")
    /\ Quiet

AuthorizationDenied(p) ==
    /\ pc[p] = "installing"
    /\ Advance(p, [Moved(mem[p], "ready-to-install") EXCEPT
                     !.requested = FALSE, !.command = FALSE], "settled")
    /\ Quiet

(* polkit is unavailable, or the helper finds the root lock taken. *)
HelperUnavailable(p) ==
    /\ pc[p] = "installing"
    /\ Advance(p, [Moved(mem[p], "install-failed-manual-action") EXCEPT
                     !.command = TRUE], "settled")
    /\ Quiet

StartHelper(p) ==
    /\ pc[p] = "installing"
    /\ helper = NoHelper
    /\ helper' = [owner |-> p, candidate |-> mem[p].candidate, result |-> "running"]
    /\ Goto(p, "helping")
    /\ UNCHANGED <<rec, aged, lock, mem, ws, installed, app>> /\ Watch

Settled(r, result) ==
    CASE result = "installed" -> [Moved(r, "installed") EXCEPT !.command = FALSE]
      [] result = "rolled-back" -> [Moved(r, "rolled-back") EXCEPT !.command = FALSE]
      [] OTHER -> [Moved(r, "install-failed-manual-action") EXCEPT !.command = TRUE]

SettleInstall(p) ==
    /\ pc[p] = "helping"
    /\ helper.result # "running"
    /\ Advance(p, Settled(mem[p], helper.result), "settled")
    /\ helper' = NoHelper
    /\ UNCHANGED <<ws, installed, app>> /\ Watch

CloseInstall(p) ==
    /\ pc[p] = "settled"
    /\ Put([mem[p] EXCEPT !.requested = FALSE])
    /\ IF mem[p].state \in {"installed", "rolled-back"}
         THEN /\ Keep(p, [mem[p] EXCEPT !.requested = FALSE])
              /\ Goto(p, "sweeping")
              /\ UNCHANGED lock
         ELSE Leave(p, "relaunching")
    /\ Quiet

SweepInstalled(p) ==
    /\ pc[p] = "sweeping"
    /\ Cleanup(mem[p])
    /\ Leave(p, "relaunching")
    /\ UNCHANGED <<rec, aged, helper, installed, app>> /\ Watch

BeginRelaunch(p) == pc[p] = "relaunching" /\ Load(p, "launching") /\ Quiet

Relaunches(r) ==
    \/ r.state \in {"installed", "rolled-back"}
    \/ r.state = "ready-to-install" /\ installed # None

SkipRelaunch(p) ==
    /\ pc[p] = "launching"
    /\ ~Relaunches(mem[p])
    /\ Leave(p, "off")
    /\ UNCHANGED <<rec, aged>> /\ Quiet

(* The launcher is spawned, or the attempt fails. *)
SpawnLauncher(p) ==
    /\ pc[p] = "launching"
    /\ Relaunches(mem[p])
    /\ app' \in {app, TRUE}
    /\ Goto(p, "launched")
    /\ UNCHANGED <<rec, aged, lock, mem, ws, helper, installed>> /\ Watch

FinishRelaunch(p) ==
    /\ pc[p] = "launched"
    /\ Leave(p, "off")
    /\ UNCHANGED <<rec, aged>> /\ Quiet

-----------------------------------------------------------------------------
(* check-now, of a client or of the daemon's loop *)

BeginCheck(p) ==
    /\ pc[p] = IF p \in Daemons THEN "check" ELSE "off"
    /\ Open(p, "deciding")
    /\ Quiet

SkipCheck(p) ==
    /\ pc[p] = "deciding"
    /\ BlocksNewCandidate(mem[p].state)
    /\ Leave(p, Done(p))
    /\ UNCHANGED <<rec, aged>> /\ Quiet

QueryUpstream(p) ==
    /\ pc[p] = "deciding"
    /\ ~BlocksNewCandidate(mem[p].state)
    /\ Advance(p, Moved(mem[p], "checking"), "querying")
    /\ Quiet

(* Variant: an answer leaves the fields of the last candidate. *)
FinishCheckOnly(p) ==
    /\ pc[p] = "querying"
    /\ installed # None
    /\ \E v \in Versions :
         Put([Moved(mem[p], IF v > installed THEN "update-available" ELSE "idle")
              EXCEPT !.available = IF v > installed THEN v ELSE None])
    /\ Leave(p, Done(p))
    /\ Quiet

(* The metadata of upstream, or the supplied version, is any version. *)
FinishCheck(p) ==
    /\ pc[p] = "querying"
    /\ installed # None
    /\ \E v \in Versions :
         Put([Moved(ClearCandidateFields(mem[p]),
                    IF v > installed THEN "update-available" ELSE "idle")
              EXCEPT !.available = IF v > installed THEN v ELSE None])
    /\ Leave(p, Done(p))
    /\ Quiet

FailCheck(p) ==
    /\ pc[p] = "querying"
    /\ Put(Moved(mem[p], "failed"))
    /\ Leave(p, Done(p))
    /\ Quiet

-----------------------------------------------------------------------------
(* discard-candidate and reconcile-install *)

BeginDiscard(p) == pc[p] = "off" /\ Open(p, "discarding") /\ Quiet

DiscardCandidate(p) ==
    /\ pc[p] = "discarding"
    /\ IF mem[p].state = "installing" \/ mem[p].requested
         THEN Leave(p, "off") /\ UNCHANGED <<rec, aged>>
         ELSE Advance(p, [Moved(mem[p], "idle") EXCEPT
                            !.candidate = None, !.command = FALSE], "discarded")
    /\ Quiet

CleanDiscarded(p) ==
    /\ pc[p] = "discarded"
    /\ Cleanup(mem[p])
    /\ Leave(p, "off")
    /\ UNCHANGED <<rec, aged, helper, installed, app>> /\ Watch

BeginReconcile(p) == pc[p] = "off" /\ Open(p, "reconciling") /\ Quiet

Reconcilable(r) == r.state = "install-failed-manual-action" /\ r.candidate # None

(* Variant: any installed version will do. *)
FindAnyInstalled(p) ==
    /\ pc[p] = "reconciling"
    /\ Reconcilable(mem[p]) /\ installed # None
    /\ Goto(p, "reconciled")
    /\ UNCHANGED <<rec, aged, lock, mem>> /\ Quiet

(* The package manager reports the version of the candidate. *)
FindInstalled(p) ==
    /\ pc[p] = "reconciling"
    /\ Reconcilable(mem[p]) /\ installed = mem[p].candidate
    /\ Goto(p, "reconciled")
    /\ UNCHANGED <<rec, aged, lock, mem>> /\ Quiet

RefuseReconcile(p) ==
    /\ pc[p] = "reconciling"
    /\ ~(Reconcilable(mem[p]) /\ installed = mem[p].candidate)
    /\ Leave(p, "off")
    /\ UNCHANGED <<rec, aged>> /\ Quiet

ReconcileInstall(p) ==
    /\ pc[p] = "reconciled"
    /\ Put([Moved(mem[p], "installed") EXCEPT !.command = FALSE, !.requested = FALSE])
    /\ Leave(p, "off")
    /\ Quiet

-----------------------------------------------------------------------------
(* status and diagnose: the record is read without the lock first *)

(* All a process keeps of a record it has no lock for. *)
Seen(r) == [DefaultRecord EXCEPT !.state = r.state]

(* Variant: the record read before the lock is kept. *)
BeginRepairWithoutReload(p) ==
    /\ pc[p] = "reading"
    /\ lock = None
    /\ lock' = p
    /\ Goto(p, "repairing")
    /\ UNCHANGED <<rec, aged, mem>> /\ Quiet

ReadStatus(p) ==
    /\ pc[p] = "off"
    /\ rec.state = "failed" \/ Stale(rec)
    /\ Keep(p, Seen(rec))
    /\ Goto(p, "reading")
    /\ UNCHANGED <<rec, aged, lock>> /\ Quiet

BeginRepair(p) == pc[p] = "reading" /\ Load(p, "repairing") /\ Quiet

RepairStatus(p) ==
    /\ pc[p] = "repairing"
    /\ IF NeedsRecovery(mem[p]) THEN Put(Recovered(mem[p])) ELSE UNCHANGED <<rec, aged>>
    /\ Leave(p, "off")
    /\ Quiet

-----------------------------------------------------------------------------
(* daemon *)

(* daemon.lock admits one daemon; it is held as long as the process lives. *)
StartDaemon(d) ==
    /\ \A e \in Daemons : pc[e] = "off"
    /\ Goto(d, "starting")
    /\ UNCHANGED <<rec, aged, lock, mem>> /\ Quiet

(* Variant: a state name no reader knows. *)
StartupRecordUnknownState(r) ==
    IF r.state = "installing" THEN Moved(r, "install-failed") ELSE Recovered(r)

BeginStartup(d) == pc[d] = "starting" /\ Load(d, "recovering") /\ Quiet

StartupRecord(r) ==
    IF r.state = "installing" THEN Moved(r, "install-failed-manual-action")
                              ELSE Recovered(r)

RecoverInterruptedInstall(d) ==
    /\ pc[d] = "recovering"
    /\ IF mem[d].state = "installing" \/ NeedsRecovery(mem[d])
         THEN Put(StartupRecord(mem[d])) /\ Keep(d, StartupRecord(mem[d]))
         ELSE UNCHANGED <<rec, aged, mem>>
    /\ Goto(d, "startup")
    /\ UNCHANGED lock /\ Quiet

FinishStartup(d) ==
    /\ pc[d] = "startup"
    /\ Cleanup(mem[d])
    /\ lock' = None
    /\ Keep(d, Seen(mem[d]))
    /\ Goto(d, "looping")
    /\ UNCHANGED <<rec, aged, helper, installed, app>> /\ Watch

(* The loop decides on the state it read, not on the one on disk. *)
DecideCheck(d) ==
    /\ pc[d] = "looping"
    /\ Keep(d, DefaultRecord)
    /\ Goto(d, IF BlocksNewCandidate(mem[d].state) THEN "sleeping" ELSE "check")
    /\ UNCHANGED <<rec, aged, lock>> /\ Quiet

WakeUp(d) ==
    /\ pc[d] = "sleeping"
    /\ Keep(d, Seen(rec))
    /\ Goto(d, "looping")
    /\ UNCHANGED <<rec, aged, lock>> /\ Quiet

-----------------------------------------------------------------------------
(* The lock is never waited for: a command that finds it taken ends with an
   error, whatever it had done before. *)
FindLockTaken(p) ==
    /\ lock # None
    /\ pc[p] \in {"timed-out", "exited", "relaunching", "reading", "starting", "check"}
    /\ Keep(p, DefaultRecord)
    /\ Goto(p, IF pc[p] = "check" THEN "sleeping" ELSE "off")
    /\ UNCHANGED <<rec, aged, lock>> /\ Quiet

(* The process dies.  A helper it started goes on as an orphan. *)
Crash(p) ==
    /\ Crashes
    /\ pc[p] # "off"
    /\ Goto(p, "off")
    /\ Keep(p, DefaultRecord)
    /\ lock' = IF lock = p THEN None ELSE lock
    /\ helper' = CASE helper.owner # p -> helper
                   [] helper.owner = p /\ helper.result = "running" ->
                        [helper EXCEPT !.owner = None]
                   [] OTHER -> NoHelper
    /\ UNCHANGED <<rec, aged, ws, installed, app>> /\ Watch

-----------------------------------------------------------------------------
(* The surroundings: the root helper, the user, the clock. *)

(* install_validated as its caller sees it.  The outcome is decided by what the
   package manager reported when it was asked: the exact version of the
   candidate, the version of a known-good package, or anything else. *)
FinishHelper ==
    /\ helper.result = "running"
    /\ \E result \in {"installed", "rolled-back", "failed"} :
         /\ result = "installed" => installed = helper.candidate
         /\ result = "rolled-back" => installed # None
         /\ helper' = IF helper.owner = None THEN NoHelper
                                             ELSE [helper EXCEPT !.result = result]
    /\ UNCHANGED <<rec, aged, lock, pc, mem, ws, installed, app>> /\ Watch

(* A package manager replaces or removes the package: that of a helper on its
   way, of one that was killed, or the user's own, which knows no lock of ours. *)
ChangeInstalled ==
    /\ installed' \in (Versions \union {None}) \ {installed}
    /\ UNCHANGED <<rec, aged, lock, pc, mem, ws, helper, app>> /\ Watch

(* The user runs the manual command in a terminal. *)
RunManualCommand ==
    /\ rec.state = "install-failed-manual-action"
    /\ rec.command
    /\ helper = NoHelper
    /\ helper' = [owner |-> None, candidate |-> rec.candidate, result |-> "running"]
    /\ UNCHANGED <<rec, aged, lock, pc, mem, ws, installed, app>> /\ Watch

StartOrQuitApp ==
    /\ app' = ~app
    /\ UNCHANGED <<rec, aged, lock, pc, mem, ws, helper, installed>> /\ Watch

(* Thirty minutes pass since the last save.  The exit wait itself lasts two
   minutes: only a process stopped meanwhile sees it expire. *)
Age ==
    /\ Expires(rec)
    /\ ~aged
    /\ Suspends \/ \A c \in Clients : pc[c] \notin WaitPcs
    /\ aged' = TRUE
    /\ UNCHANGED <<rec, lock, pc, mem, ws, helper, installed, app>> /\ Watch

-----------------------------------------------------------------------------
Init ==
    /\ \/ rec = DefaultRecord /\ ws = [v \in Versions |-> "absent"]
       \/ \E v \in Versions, found \in {"absent", "partial", "valid"} :
            /\ rec = [DefaultRecord EXCEPT !.state = "failed", !.candidate = v,
                                           !.exitWaitFailed = TRUE]
            /\ ws = [[u \in Versions |-> "absent"] EXCEPT ![v] = found]
    /\ aged = FALSE
    /\ lock = None
    /\ pc = [p \in Procs |-> "off"]
    /\ mem = [p \in Procs |-> DefaultRecord]
    /\ helper = NoHelper
    /\ installed \in Versions
    /\ app \in BOOLEAN
    /\ arrived = FALSE

(* What a client starts, and how what it started goes on. *)
Start(p) ==
    BeginUpdate(p) \/ BeginCheck(p) \/ BeginDiscard(p) \/ BeginReconcile(p)

Prepare(p) ==
    \/ RefuseUpdate(p) \/ BeginPrepare(p) \/ BeginDownload(p) \/ BeginBuild(p)
    \/ BuildPackage(p) \/ AcceptPackage(p) \/ RetainCandidate(p) \/ Announce(p)
    \/ RejectCandidate(p) \/ CleanRejected(p)

Install(p) ==
    \/ RequestInstall(p) \/ EndWait(p) \/ BeginCancel(p) \/ CancelInstallRequest(p)
    \/ BeginInstall(p) \/ RefuseInstall(p) \/ DeferInstall(p) \/ InstallReady(p)
    \/ AuthorizationDenied(p) \/ HelperUnavailable(p) \/ StartHelper(p)
    \/ SettleInstall(p) \/ CloseInstall(p) \/ SweepInstalled(p)
    \/ BeginRelaunch(p) \/ SkipRelaunch(p) \/ SpawnLauncher(p) \/ FinishRelaunch(p)

Check(p) == SkipCheck(p) \/ QueryUpstream(p) \/ FinishCheck(p) \/ FailCheck(p)

Manage(p) ==
    \/ DiscardCandidate(p) \/ CleanDiscarded(p)
    \/ FindInstalled(p) \/ RefuseReconcile(p) \/ ReconcileInstall(p)

ClientStep(p) ==
    Prepare(p) \/ Install(p) \/ Check(p) \/ Manage(p) \/ FindLockTaken(p)

PollerStep(p) ==
    ReadStatus(p) \/ BeginRepair(p) \/ RepairStatus(p) \/ FindLockTaken(p)

DaemonStep(d) ==
    \/ StartDaemon(d) \/ BeginStartup(d) \/ RecoverInterruptedInstall(d)
    \/ FinishStartup(d) \/ DecideCheck(d) \/ WakeUp(d)
    \/ BeginCheck(d) \/ Check(d) \/ FindLockTaken(d)

Surroundings ==
    FinishHelper \/ ChangeInstalled \/ RunManualCommand \/ StartOrQuitApp \/ Age

Next ==
    \/ \E p \in Clients : Start(p) \/ ClientStep(p)
    \/ \E p \in Pollers : PollerStep(p)
    \/ \E d \in Daemons : DaemonStep(d)
    \/ \E p \in Procs : Crash(p)
    \/ Surroundings

Spec == Init /\ [][Next]_vars

(* A running process goes on; the bridge polls status and systemd restarts the
   daemon, and not every poll or start of theirs dies; the helper ends and
   time passes.  Nothing is assumed of what users start and of the app. *)
Fairness ==
    /\ \A p \in Clients : WF_vars(ClientStep(p))
    /\ \A p \in Pollers : /\ WF_vars(PollerStep(p))
                           /\ SF_vars(BeginRepair(p))
                           /\ SF_vars(RepairStatus(p))
    /\ \A d \in Daemons : /\ WF_vars(DaemonStep(d))
                           /\ SF_vars(BeginStartup(d))
                           /\ SF_vars(RecoverInterruptedInstall(d))
    /\ WF_vars(FinishHelper)
    /\ WF_vars(Age)

FairSpec == Spec /\ Fairness
-----------------------------------------------------------------------------
(* Safety. *)

(* No lost update: the record a command computes on, and saves over state.json,
   is the one on disk.  The lock is dropped and taken again several times in
   one update, and status reads the record before it takes the lock. *)
HolderIsCurrent == \A p \in Procs : lock = p => mem[p] = rec

(* A record that promises a candidate (ready, installing, manual action) names
   one whose validated workspace is on disk, whatever process died or cleaned
   up at any step. *)
CandidateRetained ==
    RequiresCandidate(rec.state) => RetainedCandidateIsValid(rec)

(* What a process relies on at step l about the record it holds. *)
StepFits(l, r) ==
    /\ l = "preparing" => r.state = "update-available" /\ r.available # None
    /\ l \in {"downloading", "building", "packaging", "validating"} =>
         r.state \in {"downloading", "building", "validating"} /\ r.available # None
    /\ l = "validating" => ws[r.available] = "valid"
    /\ l = "querying" => r.state = "checking"
    /\ l \in {"installing", "helping"} => r.state = "installing"
    /\ l = "rejecting" => r.state = "failed"
    /\ l = "reconciled" => Reconcilable(r)
    /\ l = "discarded" => r.state = "idle"
    /\ l = "sweeping" => r.state \in {"installed", "rolled-back"}

(* The helper an update waits for is its own and works on its candidate. *)
HelperServes ==
    /\ helper.owner # None => pc[helper.owner] = "helping"
    /\ \A p \in Clients : pc[p] = "helping" =>
         /\ helper.owner = p
         /\ helper.candidate = rec.candidate

(* The inductive invariant: a process is at a locked step exactly when it holds
   the lock, then it works on the current record, and that record says what
   the step relies on. *)
IndInv ==
    /\ TypeOK
    /\ \A p \in Procs : lock = p <=> pc[p] \in LockedPcs
    /\ HolderIsCurrent
    /\ \A p \in Procs : StepFits(pc[p], rec)
    /\ CandidateRetained
    /\ HelperServes

(* A retained candidate is given up or replaced only by the user who discards
   it or reconciles, by the outcome of its installation, or when announcing it
   fails: no check, recovery, daemon restart or later update does. *)
RetainedUntilUsedOrDiscarded ==
    [][/\ RequiresCandidate(rec.state)
       /\ rec'.candidate # rec.candidate \/ ~RequiresCandidate(rec'.state)
       => \E p \in Clients :
            pc[p] \in {"discarding", "reconciled", "announcing", "helping"}]_vars

(* installed is only ever recorded of a candidate that was really installed, by
   its exact version, at a moment since the helper was started or the
   reconciliation has begun: not one that was there before, nor one that a
   helper only tried.  It need not be there any more when the record is saved. *)
InstalledIsVerified ==
    [][rec.state # "installed" /\ rec'.state = "installed"
         => rec.candidate # None /\ arrived]_vars

(* An installation begins only under a recorded request: consent that was
   withdrawn by a timeout or a recovery is not used. *)
InstallConsented ==
    [][rec.state # "installing" /\ rec'.state = "installing" => rec.requested]_vars

(* Recovery, and whatever else saves the record, leaves a living operation alone:
   while a process prepares, queries or waits for the application to exit, the
   record is changed by nobody else; neither its state moves nor is the request
   it waits on cleared. *)
OnlyDeadOperationsRecovered ==
    [][rec' # rec =>
         \A p \in Clients \union Daemons :
           pc[p] \in PreparePcs \union WaitPcs \union {"querying"} => pc'[p] # pc[p]]_vars

(* Liveness. *)

(* An operation that prepares or checks does not show as active for ever, even
   when its process died. *)
PreparationResolves == PreparationActive(rec.state) ~> ~PreparationActive(rec.state)

(* An install request does not stay on a ready candidate for ever. *)
RequestResolves ==
    (rec.state = "ready-to-install" /\ rec.requested)
      ~> ~(rec.state = "ready-to-install" /\ rec.requested)

(* Every command ends: neither the exit wait, the locks nor the helper can hold
   one for ever. *)
CommandsEnd == \A c \in Clients : pc[c] # "off" ~> pc[c] = "off"

-----------------------------------------------------------------------------
(* The life of a candidate, seen through the record. *)
phaseOfRecord ==
    CASE rec.state \in {"downloading", "building", "validating"} -> "preparing"
      [] rec.state = "ready-to-install" -> "retained"
      [] rec.state = "installing" -> "installing"
      [] rec.state = "install-failed-manual-action" -> "manual"
      [] OTHER -> "none"

Lifecycle == INSTANCE UpdateLifecycle WITH
    phase <- phaseOfRecord,
    candidate <- IF RequiresCandidate(rec.state) THEN rec.candidate ELSE None,
    consent <- rec.requested /\ rec.state \in {"ready-to-install", "installing"}

(* Every behaviour of the processes is a behaviour of the lifecycle: across
   crashes, recoveries and contention a candidate is installed by consent, and
   what is retained stays the same candidate. *)
ImplementsLifecycle == Lifecycle!Spec

(* The record as the status command shows it to the bridge. *)
View == [state |-> CASE rec.state \in {"downloading", "building", "validating"} -> "preparing"
                     [] rec.state = "rolled-back" -> "installed"
                     [] OTHER -> rec.state,
         requested |-> rec.requested]

Reader == INSTANCE UpdaterRecord WITH rec <- View

Discards == \E p \in Clients : DiscardCandidate(p)

(* What the bridge expects of its updater, the updater does: whoever works on the
   record, dies in between or repairs it, a reader sees only the steps UpdateBridge
   is built on.  The request in particular stands from consent to outcome, and one
   that a dead update left behind is gone when the next update is offered. *)
RecordAsRead ==
    [][rec' # rec => Reader!Next \/ Discards \/ rec.exitWaitFailed]_View

-----------------------------------------------------------------------------
(* What the documents say and the code does not do. *)

(* While the daemon's loop keeps running, an interrupted installation does not
   stay "installing" for ever. *)
InstallationResolves ==
    (\A d \in Daemons : []<>(pc[d] = "looping"))
      => (rec.state = "installing" ~> rec.state # "installing")
=============================================================================
