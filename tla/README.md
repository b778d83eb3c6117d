# TLA+ models of Factory Desktop for Linux

Factory Desktop for Linux repackages an upstream macOS application. It downloads
a DMG, extracts and patches the application, builds Debian, RPM and AppImage
packages, inspects them, and publishes them. On the user's machine an updater
repeats this for each new version and installs the result.

This directory holds TLA+ modules that model the parts of that system where
processes, crashes and delays meet, TLC configurations that check them on small
instances, and proofs that TLAPS checks for every value of the constants. Every
definition is a reading of the source. `PROJECT.json` names the lines each one
stands for (`map`), the runs, for every property a plausible bug that breaks it
(`mutants`), the hazards the properties are aimed at, the disagreements found
(`findings`) and the theorems.

## 1. The system

### Components

| part | source | state it keeps | operations |
| --- | --- | --- | --- |
| update commands | `updater/src/main.rs`, `state.rs`, `cleanup.rs` | `state.json`, candidate workspaces | `update`, `check-now`, `discard-candidate`, `reconcile-install`, `status`, `diagnose` |
| daemon | `main.rs`, `daemon.rs` | none of its own | startup recovery, cleanup, a check when due |
| locks | `locks.rs` | advisory file locks: `state.lock`, the daemon's, the root helper's | acquire (never waits), drop, release by the kernel at death |
| acquisition | `cache.rs`, `download.rs`, `upstream.rs` | content-addressed DMGs, index of accepted versions | look up, download, publish, record |
| builder | `builder.rs` | a workspace per candidate | extract, patch, build and inspect, in a child process with limits |
| root helper | `install.rs`, `rollback.rs`, `package_manager.rs` | root package cache, known-good packages and index, the installed package | `install-deb`, `install-rpm`, `rollback` |
| approvals | `approval.rs` | active and consumed approval records | `approve-candidate`, `install-approved-package` |
| update bridge | `packaging/linux/update-bridge.cjs` | flags in the memory of Factory Desktop | `updates:getState`, `updates:checkNow`, `updates:install`, startup sync |
| patcher | `patcher/src` | the ASAR archive and its companion tree | apply and validate every descriptor, replace the archive |
| build and package scripts | `scripts/` | files in a work directory | extract, build, package, inspect |
| release automation | `scripts/upstream-watch.js`, `auto-release.js`, `release-*.js`, `record-accepted-version.js`, `.github/workflows` | releases, `release/accepted-upstream.json` on main | watch, probe, plan, dispatch, build, publish, record |
| versions | `release-identity.js`, `record-accepted-version.js`, `package_manager.rs`, `main.rs`, `approval.rs` | the accepted version, the installed package's | compose a package version, read it back, compare |

### How they interact

* The **bridge** runs in the application's one JavaScript thread. It starts
  `factory-update-manager status`, `check-now` and `update --pid PID` as child
  processes, and learns of their effects only by polling `status`. When the
  package is ready it asks the application to quit, because `update` waits for
  the process with that pid to end.
* **Update commands**, pollers and the **daemon** are processes that share
  `state.json` under `state.lock`. The lock is dropped during the exit wait and
  between the steps of `update`. `status` reads without the lock and takes it
  only to repair a stale record.
* `update` starts the **root helper** through `pkexec` and reads its outcome.
  The helper may outlive the `update` that started it.
* **Approvals** are written by one root helper and used by another one later.
* The probe of the watch, a release build, a build with a pinned DMG and the
  updater share one **cache directory** by the names of its files alone.
* Extraction, **patcher**, packaging and inspection are programs that run one
  after the other and find each other's results on disk.
* The **watch** starts the **release workflow** with a version and a wrapper
  revision, and learns of its result only from the tags that exist and from the
  record on main. Maintainers start the same workflow by hand.

### What is hard about it

Several processes work on one record between critical sections; any of them may
die, be suspended, or find the lock taken; recovery has to tell a dead operation
from a slow one by the age of the record alone. The bridge's tasks share flags
across every `await`, with answers that come late or not at all. The root helper
performs multi-step file operations that a death may cut at any point. Release
runs of different versions overlap and write one file. The cache directory has
no lock at all: its index is read and written back, its Electron archive
downloaded in place. Seven patches change the same files in turn, each with its
own rule for what it has done before; the archive and the tree next to it are
then exchanged by four renames; and what was checked by one program is a file
that the next one trusts. Versions are compared in four places by four rules.
What each part has to keep true is listed with the modules below; every single
hazard, at its line, is in `PROJECT.json`.

## 2. The modules

| module | what it is | lines of the source it reads |
| --- | --- | --- |
| `UpdateManager` | commands, daemon, recovery, workspaces | `main.rs`, `state.rs`, `daemon.rs`, `cleanup.rs` |
| `UpdateLifecycle` | abstract specification: the life of a candidate | what `UpdateManager` implements |
| `UpdaterRecord` | the updater's record as a reader of `status` sees it: between `UpdateManager` and `UpdateBridge` | `main.rs`, `daemon.rs` |
| `UpdateManagerProofs` | theorems about `UpdateManager` | |
| `PrivilegedInstall` | root helpers, known-good store, approvals | `install.rs`, `rollback.rs`, `approval.rs`, `main.rs` |
| `PrivilegedInstallProofs` | theorems about `PrivilegedInstall` | |
| `UpdateBridge` | tasks and flags of the bridge, against an updater | `update-bridge.cjs` |
| `UpdateBridgeProofs` | theorems about `UpdateBridge` | |
| `ReleasePipeline` | watch, release runs, record | `scripts/*.js`, two workflows |
| `ReleasePipelineProofs` | theorems about `ReleasePipeline` | |
| `DmgCache` | the processes that share one cache directory | `dmg.js`, `upstream-watch.js`, `runtime.js`, `extract-dmg.js`, `cache.rs` |
| `DmgCacheProofs` | theorems about `DmgCache` | |
| `PatchDescriptors` | the seven patches and their validators, as operators | `patches.js`, `validators.js`, `javascript-syntax.js` |
| `PatchEngine` | a run of the engine on an archive, in memory and on disk | `engine.js`, `asar-io.js` |
| `PatchEngineProofs` | theorems about `PatchEngine` | |
| `ApplicationBuild` | staging, packaging and inspection on top of `PatchEngine` | `build-app.js`, `package-deb.js`, `inspect-package.js`, `builder.rs` |
| `ApplicationBuildProofs` | theorems about `ApplicationBuild` | |
| `VersionOrder` | how versions are composed, read and compared, as operators | `release-identity.js`, `record-accepted-version.js`, `package_manager.rs`, `main.rs`, `approval.rs` |
| `PackageVersions` | the versions one host sees, from upstream to the installed package | the same, and `install.rs` |
| `PackageVersionsProofs` | theorems about both | |
| `MC*` | constants for TLC | |

Definitions called *Variant* in a comment are the mutants: none of them is part
of a specification.

### `UpdateManager`

State: `rec` is `state.json`; `aged` says that it is older than
`STALE_OPERATION_TIMEOUT`; `lock` is the holder of `state.lock`; `pc` and `mem`
are each process's position and the record it has loaded; `ws` is the workspace
of each candidate; `helper` is the root helper; `installed` is what the package
manager reports; `app` says whether Factory Desktop runs. `arrived` is a history
variable: the candidate was installed at some moment since somebody set out to
learn whether it is.

Actions: one per stretch of a command between two saves, lock operations or
blocking calls. `update` is `BeginUpdate`, then the preparation (`BeginPrepare`
to `Announce`, or `RejectCandidate` and `CleanRejected`), the request and the
exit wait without the lock (`RequestInstall`, `EndWait`, `CancelInstallRequest`),
the installation (`InstallReady` to `SweepInstalled`) and the relaunch.
`check-now` and the daemon's check are `BeginCheck` to `FinishCheck`. `Open` is
`with_locked_user_state`: it takes the lock, loads the record and recovers it
(`Recovered`, `recover_interrupted_operation`) in one critical section, as every
command does. `Crash` ends any process between two steps; the kernel drops its
lock. A save that fails ends a command as its error path does.
`reconcile-install` is the query (`FindInstalled`, `RefuseReconcile`) and the save
(`ReconcileInstall`), and `FinishHelper` decides the outcome of a helper by what
the package manager reports when it is asked. What it reports is changed by
`ChangeInstalled` at any moment: that is the helper on its way through
installation and rollback, the package manager a killed helper leaves running,
and the user's own. So an installed version may be gone by the time it is saved,
and `InstalledIsVerified` says what the code can promise: it was there, since the
helper was started or the reconciliation began.

Abstractions: a candidate is named by its version; a time is young or old;
texts, notifications and configuration are left out. The two messages of older
updaters that recovery still recognises are one flag of the record, and `Init`
includes such records.

`UpdateLifecycle` says the same without processes: a candidate is prepared,
retained, installed under consent, and ends used, discarded or in the user's
hands. `ImplementsLifecycle` is the refinement; the mapping is read off the
record alone (`phaseOfRecord`).

`UpdaterRecord` is the other view of the same module: state and request as the
`status` command shows them (`View`), with the stages of a preparation taken
together. `UpdateManager` takes its steps (`RecordAsRead`), and `UpdateBridge` is
built on them.

### `PrivilegedInstall`

State: the root lock; per process a position and a job; the packages in users'
workspaces (`source`), in the root cache (`cache`), in the known-good directory
(`files`) and its `index`; the approval records, `active` and `consumed`;
`installed`; and what each helper reported. `verified`, `used` and `disturbed`
are history variables. Files under a content-addressed name are good, bad or absent: users
may rewrite a workspace between its validation and the copy.

Actions follow `install_validated` (copy, inspect, install, verify, retain,
index, prune), `rollback_once`, `ApprovalStore::approve` and
`install_approved`; `Fail` is an error path and `Crash` a death, at any step. The
root lock is the helper's, and its package manager is a child that a death leaves
at work: `OtherManager` is that child, or a user's own `apt` or `dpkg`, which
changes `installed` at any moment without the lock. `disturbed` are the helpers at
work while it did.

### `UpdateBridge`

State: the bridge's flags under their names, the one timer, and per task its
position, the answer it waits for and its index; on the other side a small
updater: its record, where the update process is, and whether a check runs.
A task is a call of the renderer or a tick of the startup sync. One action is
what a task does between two awaits. `ReadStatus` is the moment the status
helper reads the record; the answer is used in a later action, after whatever
happened in between. `LoseStatus` is a call that fails or times out.

What the updater's steps do to the record is not said here but in
`UpdaterRecord`, which `UpdateManager` is shown to keep to (`RecordAsRead`); this
module adds when they happen, and where the update process is. So the outcome of
an installation is one save (`EndInstall`) and the end of its request another
(`CloseInstall`): an update that dies in between leaves an installed record with
a request, until a check answers. Left out are a discard, and the repair of a
failure recorded by an older updater. `owed` is a history variable: clicks less
quits.

### `ReleasePipeline`

State: the version the upstream endpoint names; the record on main (`accepted`)
and main's newest commit (`head`, the number of commits, so that ancestry is
`<=`); the published `releases`; the `watch`; and slots for runs of
`release.yml`. A run's step is its position in the two jobs. `CheckOut` and
`RefuseSource` are "Resolve exact source commit"; `AcceptBuild` stands for
`buildRelease` and both verifications of the bundle; `Publish` is
`gh release create`; `ReadAccepted` and `PutAccepted` are the record, whose `PUT`
names the content it replaces. Any step may fail.

External, and modelled by what the workflows rely on: a concurrency group runs
one run at a time and keeps only the newest waiting one; `gh release create`
fails if the tag exists; the contents API refuses a `PUT` with an old sha.
Dispatches by hand are made from main, as `docs/release-process.md` asks.

### `DmgCache`

State: what lies in the directory, `blob[d]` (the content of the file named by
digest `d`), `index` (version to digest), `temp` (the temporary indexes, named
by pids), `zip` (the Electron archive: absent, whole, damaged, or the process
that truncated it last); and per process a `job`: the kind of program, its step,
the version it wants, the digest it holds and the copy of the index it read.

One action per step between two accesses to the directory: `LookUp`, `Fetch`,
`Publish` (or `HashPinned` and `CopyPinned`), `ValidateDmg` (the hash),
`ExtractDmg` (the reads of whatever has the name by then, and the acceptance of
the embedded version), `Patch`, `CheckZip` to `Assemble`, `ReadIndex` and
`RenameIndex`. The four kinds of programs differ in where they begin, what they
require and when they record, and these differences are the guards; `KindsOf` says
which of them a process may be. `Abort` ends
a process at any step. A partial download has a name of its own and is deleted
by whoever made it, so it is a part of `Fetch`; that the response is not bound
to the version which was asked for is the choice of `d` there.

`Damage`, `Evict` and the host's answers are external, and so is that somebody
starts an update (`Asked`) whose download is the right one (`Answered`). Two
history variables say that something happened from which the code does not
recover by itself (section 4): `marred`, that a death left a half-written archive
or a temporary index, and `spoiled`, the digests whose file had another content.

### `PatchDescriptors`, `PatchEngine`, `ApplicationBuild`

A bundle is a sequence of files and a file a sequence of *shapes*, in order: a
shape stands for the text one regular expression matches. `PatchDescriptors` has
each patch as an operator from bundles to outcomes (matched, patched, already,
and the files with the changes applied) and each validator as a predicate.
What decides a patch is kept: the order in which it tries its forms, which file
and which occurrence it takes first, its early return on a marker, the counts it
insists on. Variable names and distances in the text are not, and a handler of the
native updater is one shape: what an earlier patch put inside a handler body,
which the native updater's patch deletes with it (`patches.js:353`), cannot be
expressed.

`PatchEngine` runs them. State: `archive`, `companion` (the archive that the
unpacked tree belongs to), what each run moved `aside`, the engine's own `run`
with its files in memory, the `report`, and which `faults` happened. `ApplyNext`
is one round of the loop (apply, apply the changes, validate), `CheckBundle`
everything after it, and then one action for each operation on files of
`replaceFilesAtomic`. `Catch` leads to its handler, whose four operations are
`UndoArchive` to `ReturnCompanion`; `Fail` is an error in the handler or where there
is none; `Die` a death, in the handler too. Another run begins on what the last one
left.

`ApplicationBuild` extends it by `app` (the staged archive with its companion,
report and build-info), `packages` and `inspected`. `Stage`, `StageHooked`,
`Package` and `Inspect` are programs of their own; `Alter` is what may happen to
the files between two of them. A hash is the value it is taken of.

### `VersionOrder`, `PackageVersions`

A version is its three numbers and a suffix; the version text of an installed
package may have a wrapper revision besides. `PackageVersion` is what
`releaseIdentity` gives a package and `FactoryVersion` what the updater makes of
it when it reads it back. Four operators compare: `Before` (the release record),
`IsNewerVersion` (`check-now`), `IsStrictUpgrade` (approvals), and the equality of
texts in `reconcile-install`. `SemVerBefore` is the reference: the order in which
upstream releases. How `localeCompare` orders suffixes is a constant, any
injective ranking or none.

`PackageVersions` is one host. The steps of the record and of the helper are
those of `UpdateManager` and `PrivilegedInstall` with everything but the versions
left out: a command is one step, but for an approved installation, which is its
comparison (`CheckApproved`) and its installation (`InstallApproved`), and `Publish`
is a run of `release.yml` that built every format. `InstallOutside` is a package
manager that takes no lock. `current` and `compared` are history variables: the
package is still the one the last check, or that helper, compared. Left out are numbers with leading zeros, build
metadata, and suffixes with several dashes.

## 3. The runs

`CHECK_DEADLOCK` is on in every run but `ab_build`, where the system really
stops: the runs of the engine are used up and every package is inspected.

| run | asks | bounds |
| --- | --- | --- |
| `um_lifecycle` | is the inductive invariant invariant, does the record of whoever holds the lock match the disk, does a retained candidate survive every command and the daemon's recovery, cleanup and check, is `installed` recorded only when true, do the processes implement the lifecycle, are only dead operations recovered, is only consented work installed, and does a reader of the record see what the bridge expects | 1 client, 1 poller, 1 daemon, 2 versions, crashes |
| `um_liveness` | do operations, requests and commands end | 2 clients, 1 poller, 1 version, crashes, suspensions, fairness |
| `pi_helpers` | are only validated packages installed, rollbacks served, approvals used once, reports true | 2 helpers (symmetric), 2 packages, 1 approval, 1 known-good package kept, crashes |
| `br_session` | is a click worth one quit, and is a working update followed | 1 call and 1 tick overlapping, 1 delay, 1 failing status call, contention, deaths |
| `br_liveness` | does a waiting update get its quit, does a declined quit release the button | as above, without failing calls and contention, fairness |
| `rp_pipeline` | is what is recorded published, is the record monotonic, is the latest version released | 3 versions, 2 runs, 1 intervention by hand, fairness |
| `dc_cache` | does the index name only accepted DMGs, are files what their names say, is a wanted version indexed again and again | 2 processes, of 3 kinds each, 2 versions, a DMG of each (one of them accepted), 1 disturbance, fairness |
| `ab_build` | is an accepted archive valid as a whole and left alone by a second run, are archive and companion kept together, is only a patched archive packaged | 2 runs of the engine, 1 error or death, 1 more inside the handler of the first, 1 alteration, bundles as below |
| `pv_host` | does the updater read back what was built, does the record follow the order of the releases, do updates only go forward | 2 triples of numbers, 4 suffixes (two that look like revisions, two whose texts are in the other order), 2 revisions, both package managers |
| `um_late_waiter`, `um_stuck_installing`, `br_lost_quit` | one sentence of the documents each, and the code violates it | see the findings |

Why the bounds are enough to be interesting:

* Commands interfere through the record, the lock and the workspaces. Two
  processes that change the record and one that reads it without the lock give
  every pair of overlapping critical sections, and after the first crash a
  third party that recovers. Clients run any sequence of commands without a
  bound on its length. Two versions tell the retained candidate from the
  available one. `um_lifecycle` has no suspension because a suspended waiter
  violates `InstallConsented` (`um_late_waiter`); `um_liveness` has them, and two
  clients whose commands overlap (one discards what the other waits to install).
  What several clients do to safety is left to the proofs, which hold for any
  number of them, suspended or not.
* Two helpers, one of which may be dead half-way, are all that the root lock
  lets interfere. With two packages and `Limit` 1 every installation drops the
  other package, so retention is always at its limit (the code keeps 2, which
  takes a third package to reach; the steps are the same). `ClockJumps` is off:
  with a clock that is set back the package just installed may be the one dropped, and
  `InstalledIsRetained` does not hold.
* A call and a tick are the two kinds of tasks; both kinds use the same code
  after the await, so that the overlaps of two of a kind are overlaps of these.
  `Retries` 1 has an index before and one after the last delay. Deaths and contention are off only
  where a violation is meant to need neither.
* Two runs of `release.yml` may be in different groups and record at once; three
  versions let upstream move on while the second is being released. One
  intervention is a dispatch of any version, revision and ref, a commit on main,
  or a withdrawn version.
* In `dc_cache` a process may start again under its pid after each run, so two
  processes give the overlaps of two programs, after any history. Both may build
  from a pinned DMG or update; one may be the watch and the other a release build,
  which differ from those in what they require and record, so that only two
  watches and two release builds do not overlap (`KindsOf`; the proofs take any).
  A DMG that is
  wanted and fits, and another one of another version that does not, are the
  answers that differ. One disturbance is a death, an evicted or damaged file,
  or a pinned file rewritten under the copy.
* In `pi_helpers` and `um_lifecycle` a package manager outside the lock changes
  the version at any moment and any number of times.
* In `ab_build` a main file consists of nine sections, each as upstream writes
  it today or in one of the other forms the matchers and validators tell apart:
  older forms, guarded or already patched ones, missing, doubled or in another
  order. One section deviates at a time, and at most one more file lies before
  or after the main one (what a patch finds first depends on it). Two sections
  do not deviate together, because a patch looks at one section; the rules that
  look at all of them (markers, first file) are met by the other file. Two runs
  give the run over its own result and the run over what a death left.
* In `pv_host` the two triples differ in the middle, as 9 and 10 do, so that an
  order of texts would show; that `CoreBefore` is an order for all of them is
  proved. Versions are chosen anew at every
  step, so nothing bounds the history but the number of versions.

### Properties

`UpdateManager`: `IndInv`, `HolderIsCurrent` (no lost update), `CandidateRetained`
(a promised candidate is on disk), `RetainedUntilUsedOrDiscarded`,
`InstalledIsVerified`, `InstallConsented`, `OnlyDeadOperationsRecovered`,
`ImplementsLifecycle`, `RecordAsRead`, and for liveness `PreparationResolves`, `RequestResolves`,
`CommandsEnd`. `PrivilegedInstall`: `OnlyValidatedInstalled`, `RollbackIsServed`
(the index never names a missing file), `KnownGoodIsVerified`, `ReportIsTrue`,
`ApprovalUsedOnce`, `ApprovedOnlyUpgrades`, `InstalledIsRetained`.
`UpdateBridge`: `QuitOncePerUpdate`, `PollerFollows`, `WaitingUpdateQuits`,
`CancelledQuitReleases`. `ReleasePipeline`: `AcceptedIsPublished`,
`AcceptedNeverRegresses`, `LatestIsReleased`. `DmgCache`: `IndexedIsAccepted`,
`BlobsAreWhole`, `Recovers`. `PatchEngine`: `AcceptedIsValid` (the validators
pass one at a time, and all at once at the end), `AcceptedIsStable`,
`EndsPaired`, `NothingIsLost`. `ApplicationBuild`: `InspectedIsPatched`.
`PackageVersions`: `InstalledIsRead`, `RecordFollowsReleases`,
`UpdatesMoveForward`. Each is stated in words above its definition.
The types of `ReleasePipeline`, `PackageVersions` and `ApplicationBuild` are left
to the proofs (`PipelineTypes`, `HostTypes`, `BuildTypes`); those of `UpdateManager` are part of `IndInv`.

### Fairness

* `UpdateManager`: a process that runs goes on (weak); the daemon is restarted by
  systemd and `status` is polled by the bridge, and not every one of them dies
  (strong fairness of their recovery step, since the lock may be taken and a
  process may die each time); the helper ends; time passes. Nothing is assumed
  of what users start, of the application's exit, or of which branch a step
  takes.
* `UpdateBridge`: status calls end within their timeout, timers fire, and an
  update runs, ends, and is recovered when it died. A check may take for ever, and
  the user owes nothing: a dialog may stay open.
* `ReleasePipeline`: the watch is scheduled daily, a run that started ends. What
  may fail does not fail at every attempt: strong fairness of the accepted
  probe, the plan, the dispatch, the checkout, the accepted build and the
  publication. The step that records has no such fairness, and
  `LatestIsReleased` asks for the release, not for the record.
* `DmgCache`: a process that runs goes on (weak), and that is all. Nobody has to
  start one: the daemon only checks metadata, and a DMG is downloaded when a user
  runs `update` or a schedule the watch. `Recovers` therefore takes as hypotheses
  that updates to the version are run again and again and that not all of their
  downloads are wrong, and claims that the code then gets it indexed.

## 4. What the code does that the documents do not say

The findings of `PROJECT.json` are the three violation runs. Other things met
while modelling that no run is spent on:

**Updater and helpers**

* Startup recovery of an interrupted installation sets
  `install-failed-manual-action` but keeps `install_requested`, and has no manual
  command to offer; `discard-candidate` then refuses because "installation is
  active" although nothing is.
* `relaunch_verified_install` also starts the application from
  `ready-to-install`; relaunch, and the cancellation after a timed-out wait, fail
  for good if the lock happens to be taken (`main.rs:203`, `:277`).
* The application may be started between the check for running processes and
  the replacement of its files.
* A clock that is set back makes `updated_at` lie in the future: the record is
  not stale until the clock has caught up (`daemon.rs:32`).
* If retention fails after a verified installation, a later rollback restores
  the package before that one. A rollback installs the newest package the helper
  itself verified, which may be older than the one the failed update replaced,
  when the user had installed that one (`install.rs:186`; `PackageVersions` has
  the step).
* `installed` may be recorded of a package that is not installed any more: between
  the query and the save of `reconcile-install` (`main.rs:314`, `:318`), and between
  a helper's verification and its caller's save, a package manager outside the lock
  may replace it. Reconciliation may also see a candidate that a helper still at
  work is about to roll back.
* An approved installation may be a downgrade: a user's package manager, or that of
  a helper which was killed, may install a newer version between the comparison
  (`approval.rs:387`) and the installation (`approval.rs:305`).
  `ApprovedOnlyUpgrades` excepts it by `disturbed`, `UpdatesMoveForward` by
  `compared`.
* A package copied while its workspace was rewritten stays in the root cache under
  its name and makes every later installation of it fail ("root package cache
  collision", `install.rs:98`).
* `install-approved-package` refuses every upgrade over a Debian package of a
  release: `is_strict_upgrade` reads the version text of the installed package as
  three numbers, and that text ends in the wrapper revision (`0.139.0-1`), which
  is an error (`approval.rs:522`). `check-now` takes the revision off first
  (`package_manager.rs:45`). In `PackageVersions`, `InstallApproved` is then never
  enabled before an update of another kind has replaced the package.
* `is_newer_version` compares the three numbers alone (`main.rs:426`): a host that
  was updated to a prerelease, which a metadata answer may name
  (`tests/transport.rs:33`), is told that it is up to date when the release
  itself is out, while `compareVersions` orders the release after it.
* An offer is carried out over whatever is installed by then: a newer package the
  user installed since the check is replaced by the older offer (`main.rs:393`).
  Only approvals compare again; `UpdatesMoveForward` excepts it by `current`.
* `update` does not take the after-exit lock that `docs/update-manager.md` names.

**Bridge**

* An update that is refused leaves `update-available`, which clears nothing: the
  flag `updateOperationRequested` then makes every click a no-op until the
  application is started again (`update-bridge.cjs:325`).
* `docs/update-manager.md:56` describes retries that back off; the startup sync
  queues each of them from index 0, so they come every 250 ms
  (`update-bridge.cjs:431`, `:464`).
* The error dialog may be shown by a renderer's poll between two ticks of the
  startup sync, while retries are still scheduled (`update-bridge.cjs:350`).

**Releases**

* A release that is published but not recorded stays unrecorded: the next watch
  finds its tag and ends. One version can be published under two revisions when
  a run is started by hand while the watch's is under way (`auto-release.js:23`).
* Version suffixes are compared with `localeCompare`, which sorts `-rc.10`
  before `-rc.9` (`upstream-watch.js:25`). The record is safe from it for another
  reason: a release builds an RPM, and no RPM is built of a version with a suffix
  (`package-rpm.js:16`), so prereleases are never accepted. A release that left
  the RPM out would make `RecordFollowsReleases` false; the mutant does that.
* A local Debian package whose Factory version ends in a dash and a number is
  read without it, as if that were a revision (`package_manager.rs:59`).

**Cache directory**

* What `marred` stands for: a temporary index left by a dead script makes every
  record of a later script with the same pid fail (`upstream-watch.js:76`); a
  half-written Electron archive is unpacked by every later build and removed by
  none (`runtime.js:99`).
* What `spoiled` stands for: a DMG with other content than its name is an error at
  every lookup and never replaced (`upstream-watch.js:67`, `cache.rs:137`); a
  pinned file rewritten between hash and copy is stored under the first hash
  (`dmg.js:263`), also over a file that is being extracted. The extraction hashes
  the file once and then reads it by its name (`extract-dmg.js:69`, `:71`, `:82-90`),
  so that a version may be accepted, and indexed, on the contents of another DMG.
  `IndexedIsAccepted` excepts the digests whose own file this happened to, and no
  others.
* Two writers of the index lose an entry of one of them
  (`upstream-watch.js:73`); the next lookup that misses restores it.
* A collision found while a download is published throws in an asynchronous
  callback that nothing catches (`dmg.js:207`).
* A release build indexes a DMG also when the patches no longer fit it, and
  fails afterwards (`release-build.js:82`): `IndexedIsAccepted` can say that an
  entry has the right version, and not that the patches fit.
* An extraction that fails is ignored when the file it was to produce exists
  (`extract-dmg.js:53`).

**Patcher**

* The patch of the auto-updater returns early when any file has its marker, so a
  second file with calls stays as it is (`patches.js:245`), and a bundle whose
  only calls are ones it does not guard fails closed. One guarded push satisfies
  the validator of the listener (`validators.js:26`). The validator of the
  native updater wants `checkNow` to be the last handler.
* The rebuilt archive is made under the temporary directory and renamed into
  place (`asar-io.js:85`): across file systems the rename fails, and every build
  is rolled back.
* The companion is moved aside outside the `try` (`asar-io.js:83`): when that
  fails no archive is left at its path. When the original's companion cannot be
  removed (`asar-io.js:89`), the handler finds no original archive to move back and
  both are lost; that is the one fault `NothingIsLost` excepts. When an operation
  of the handler fails (`asar-io.js:91-94`), the files stay as they are by then, the
  original in its place or aside. `EndsPaired` excepts these three kinds of errors.
* After a death between placing the archive and placing its companion a second
  run finds everything patched and succeeds without the companion. A report that
  cannot be written leaves the patched archive in place and the run failed.

## 5. What is proved

9059 obligations, in eight modules, with no assumption but the named ones on
the constants (`ConstantsAssumption`, `PrivilegedAssumption`, `RecordAssumption`,
`BridgeAssumption`, `PipelineAssumption`, `CacheConstants`, `KindsAssumption`,
`EngineConstants`,
`BuildConstants`, `VersionAssumption`, `NoneIsNoVersion`, `HostAssumption`).

**`UpdateManagerProofs`** (`Invariance`, `TypeCorrect`, `NoLostUpdate`,
`CandidateNeverLost`, `RetentionHolds`, `InstalledVerified`; `ConsentInvariance`,
`InstallationConsented`, `RecoversOnlyDead`, `LifecycleImplemented`,
`RecordReadAsExpected`), for any numbers of
clients, pollers, daemons and versions. Neither `HolderIsCurrent` nor
`CandidateRetained` is inductive: a process that saves at a locked step must be
the holder, and what it saves must fit the step it is at. `IndInv` adds that a
process is at a locked step exactly when it holds the lock, what each step
relies on about the record (`StepFits`), and that the helper an update waits for
works on its candidate (`HelperServes`). The lemmas treat the kinds of step
(opening, advancing, moving, leaving, free) once; every action is then one or
two of these. The action properties follow from `IndInv` and one look at the
actions that change the record. That `installed` is true when it is recorded
(`InstalledVerified`) needs `arrived` at the two steps between the answer and the
save: it stays whatever package managers do in between.

The other five need more, because a process that waits for Factory Desktop to
exit holds no lock: all that protects it is the request it recorded. `ConsentInv`
adds that whoever waits, cancels or enters the installation is alone in doing so,
is an update command, and finds a ready candidate with a request that is not yet
stale; that a preparation works without a request; and that an installation which
ended no longer reads as one that is wanted. Nobody else can then be let in
(`UpdateRefused`), discard or recover. That holds only while a wait is shorter
than the stale timeout, so these five assume `~Suspends` in their statements; run
`um_late_waiter` shows that the first of the properties is false without it. Every
action is shown to be `Orderly`: it keeps `ConsentInv`, touches no operation that is
under way (`Undisturbed`: neither its state nor its request, the record is changed
by nobody else), and moves the record in one of the ten ways of
`RecordMoves`. Each of these ways is a step of `UpdateLifecycle` or none
(`MovesImplement`), which is the refinement.

For `RecordReadAsExpected` a second look at the same steps says more of the
request: every step is `Readable`. `ReaderInv` adds that an installation under way
has its request, that a preparation begins without one, and what the update saved
last where it saves twice (`ReaderFits`). `ReaderMoves` are the fourteen ways in
which the record moves; `MovesRead` finds the step of `UpdaterRecord` for each.
The property excepts the step of a discard, and the steps from a failure that an
older updater recorded, which `UpdateBridge` does not have.

**`PrivilegedInstallProofs`** (`HelperTypes`, `RollbackServed`,
`KnownGoodVerified`, `OnlyValidated`, `ApprovalOnce`, `OnlyUpgrades`,
`ReportTrue`, `InstalledRetained`), for any numbers of helpers, packages,
approvals and any limit of known-good packages. `HelperInv` adds that only the
holder of the root lock is past its beginning (`Exclusive`), that records keep
apart (`Distinct`, `Unspent`), and per step what the helper `Knows` of its
package and of the index it works on. All hold with clocks that jump but
`InstalledRetained`, which assumes `~ClockJumps` in its statement, and with other
package managers at work at any moment. What a helper knows of the installed
version it only knows while it is not `disturbed`, so `OnlyUpgrades` and the
version in `ReportTrue` are claims about the others; that no other helper, dead or
alive, disturbs one is what they say.

**`UpdateBridgeProofs`** (`BridgeTypes`, `OneQuitPerClick`, `WorkIsFollowed`),
for any number of calls, ticks, delays and outages. `QuitInv` adds that an armed
operation that has not asked to quit is one a click still stands for. For
`WorkIsFollowed`, `FollowInv` adds that, while an armed update is under way, the
timer is set or a tick is at a step that carries the poll on (`Followed`); that needs which record fits each step
of the update (`RecordFits`), that a request on a record which still
offers something is that of a ready candidate (`Offered`), that an answer which offers an update has not been
overtaken by its installation (`OffersHold`), and which tasks hold an answer at
all (`TasksFit`).

**`ReleasePipelineProofs`** (`PipelineInvariance`, `PipelineTypes`,
`AcceptedWasPublished`, `AcceptedMonotonic`), for any numbers of runs, versions and interventions.
`PipelineInv` adds that a run past its publication finds its release
(`RunsHavePublished`), that a run about to write holds a version no older than
what it read (`RecordsAdvance`), and that some release has the highest revision
(`HasHighest`): without the last, the maximum that names the next revision need
not exist and nothing could be said of its type.

**`DmgCacheProofs`** (`CacheTypes`, `IndexIsSound`, `FilesAreWhole`), for any
numbers of processes, versions, DMGs and disturbances. A writer replaces the
whole index by what it read before, so soundness of the index needs soundness of
every copy held in memory, and of the digest each process past its acceptance
is about to record (`JobSound`); that digest is sound because the file that was
read has the content of its name, unless it is `spoiled`. Wholeness is
inductive with the types: a file is only ever created with the content its name
was computed from, but for the pinned copy, which makes its digest `spoiled`.

**`PatchEngineProofs`** (`EngineTypes`, `RunsEndPaired`, `NothingLost`,
`EarlierStays`, `AcceptedValid`, `AcceptedStable`), for any
bundles and any number of runs. `EngineInv` adds where the original is at each
step of the exchange (`Moving`), that a companion next to an archive is that
archive's (`Consistent`), that a run which has not begun to move files, or
has placed them all, finds them paired (`Settled`), and that a run in the handler
still has all it needs to restore the original (`Undoable`). That every patch maps
bundles to bundles is proved patch by patch.

That the patches compose rests on one notion: a patch is `InPlace` in a bundle
when its validator passes and applying it again changes nothing. A patch that
matched and validates is in place (`JustApplied`), and what is in place stays so
under every later patch (`EarlierStays`). For four of the seven each reads only
shapes that the others do not touch (`Reads`, `OthersKeep`); the others write
into the same places, and the argument is about what exactly is inserted where:
a shape that occurs once still does after the splice (`Once`, `SplicedOnce`).
`AppliedInv` then says that a run has every patch before its next one in place in
its working copy, and that an accepted report speaks of a bundle with all of them.

**`ApplicationBuildProofs`** (`BuildTypes`, `InspectedPatched`,
`EngineWithinBuild`), for any bundles, formats and stray archives. The build runs
the engine and stages what it left; a death or a copy by hand may stage an archive
that its report was not written for. `BuildInv` says that an accepted report is
about a fully patched bundle wherever it lies, and that a package holds the very
bundle its report is about: the packaging compares the hash, and without that check
(a mutant) the second part fails at once.

**`PackageVersionsProofs`** (`BeforeIsOrder`, `HostTypes`, `InstalledReads`,
`RecordMovesForward`, `OnlyForward`), for any versions, suffixes and revisions.
`BeforeIsOrder` is what the other modules assume when their versions are numbers:
`compareVersions` is a strict order, total if `localeCompare` tells suffixes
apart. `HostInv` adds that the installed text is the one a builder gave to what
is installed (`Built`), that what is offered, prepared or approved can be built
for this host (`Prepared`), that an offer for the package the last check compared
is later than it (`OfferIsLater`), as is what a helper is about to install under
an approval while nobody replaced what it compared, and that the accepted version has no suffix.

**Only model-checked:** liveness, which is out of the prover's reach, as is
everything with `ENABLED`: `PreparationResolves`, `RequestResolves`,
`CommandsEnd`, `WaitingUpdateQuits`, `CancelledQuitReleases`, `LatestIsReleased`
and `Recovers`. Every safety and action property of the passing runs is proved.

## 6. What is not modelled

Notification texts and their deduplication, diagnostics, the sandbox and time
limits of the builder, icon conversion, the fixed payload, metadata and
maintainer scripts of the packages, package archive checks, file ownership and
modes, the launcher, release checks and summaries: sequential checks of data, formatting, or code that changes nothing
another part reads. Of the patches, the names of variables and the distances
within a pattern; of the cache, the partial files, whose names are never shared.
`PROJECT.json` lists every part with its reason. Liveness under clocks that jump
is left out: time is one bit that only grows older between two saves.

## 7. Plan

Done, the record and its recovery first because everything else rests on them:
`UpdateManager` with `UpdateLifecycle` and its proofs; `PrivilegedInstall` and
its proofs; `UpdateBridge` and its proofs; `ReleasePipeline` and its proofs;
`DmgCache` and its proofs; `PatchDescriptors`, `PatchEngine`, `ApplicationBuild`
and their proofs; `VersionOrder`, `PackageVersions` and their proofs.

Left:

1. `UpdateSystem`: `UpdateBridge` composed with `UpdateManager` itself. That the
   record takes the steps the bridge expects is proved (`RecordReadAsExpected`);
   when the bridge's `update` takes them, and that at most one update works at a
   time, is still said by `UpdateBridge` alone.
