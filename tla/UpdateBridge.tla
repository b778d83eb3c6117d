----------------------------- MODULE UpdateBridge -----------------------------
(***************************************************************************)
(* The update bridge inside Factory Desktop                                *)
(* (src/packaging/linux/update-bridge.cjs).                                *)
(*                                                                         *)
(* One JavaScript thread runs the renderer's calls (getState, checkNow,    *)
(* install), the startup sync's ticks and their timer.  A call is a task;  *)
(* tasks overlap wherever one awaits the status helper or a dialog, and    *)
(* share the bridge's flags.  The helper reads the updater's record; its   *)
(* answer is handed to the task later.  One action is what a task does     *)
(* between two awaits, or one step of the updater or of the user.          *)
(*                                                                         *)
(* Abstractions.  downloading, building and validating are "preparing",    *)
(* installed and rolled-back are "installed": the bridge treats them       *)
(* alike.  updateOperationRequested and relaunchArmed are set and cleared  *)
(* together and are one flag, armed.  A dialog finds a window.  Delays are *)
(* left out but for the index that chooses them; the updater's exit wait   *)
(* outlasts the interval between two polls.                                *)
(***************************************************************************)
EXTENDS Integers

CONSTANTS
    Calls,      \* calls of the renderer that may be in progress together
    Ticks,      \* ticks of the startup sync that may be in progress together
    Retries,    \* the number of STARTUP_SYNC_DELAYS_MS
    Outages,    \* status calls that may fail or time out in a session
    Contention, \* TRUE: other commands check and may hold the updater's lock
    Deaths,     \* TRUE: updater processes may die
    None        \* an absent value

Tasks == Calls \union Ticks

ASSUME BridgeAssumption ==
    /\ Retries \in Nat \ {0}
    /\ Outages \in Nat
    /\ Contention \in BOOLEAN
    /\ Deaths \in BOOLEAN
    /\ Calls \intersect Ticks = {}
    /\ None \notin Nat \union Tasks

VARIABLES
    rec,            \* the updater's record: its state and installRequested
    update,         \* where the update process of this installation is
    newer,          \* upstream has a version newer than the installed one
    checks,         \* a check-now was spawned and has not begun
    observed,       \* a poll read the request since the last click
    app,            \* Factory Desktop runs
    quitting,       \* app.quit was called and the user has not answered
    armed,          \* updateOperationRequested, relaunchArmed
    exitRequested,
    checkRequested, \* startupCheckRequested
    syncActive,     \* startupSyncActive
    previous,       \* previousTransition, when it was a failure
    timer,          \* the index the pending timer was queued with, or None
    pc,             \* where each task is
    snap,           \* the answer of the status helper a task awaits, or None
    idx,            \* the index of each tick
    outages,        \* status calls that failed in this session
    owed            \* history: quits the user's clicks still stand for

session == <<armed, exitRequested, checkRequested, syncActive, previous, timer,
             pc, snap, idx, outages, owed>>
world == <<rec, update, newer, checks, observed, app, quitting>>
vars == <<world, session>>

States == {"idle", "checking", "update-available", "preparing", "ready-to-install",
           "installing", "installed", "install-failed-manual-action", "failed",
           "update-manager-unavailable"}

ActiveUpdateStates == {"checking", "preparing", "installing"}
UserOperationStartStates == {"update-available", "ready-to-install"}
StartupTerminalStates == States \ ActiveUpdateStates
OutcomeStates == {"failed", "install-failed-manual-action", "installed"}

Record(s, r) == [state |-> s, requested |-> r]
Records == [state : States \ {"update-manager-unavailable"}, requested : BOOLEAN]

(* What the bridge makes of an answer; fault tells the bridge's own failure
   from the record's, which have different messages. *)
Snapshot(r) == [state |-> r.state, requested |-> r.requested, fault |-> FALSE]
Failed == [state |-> "failed", requested |-> FALSE, fault |-> TRUE]
Unavailable ==
    [state |-> "update-manager-unavailable", requested |-> FALSE, fault |-> FALSE]
Snapshots == [state : States, requested : BOOLEAN, fault : BOOLEAN]

TaskPcs == {"off", "polling", "asking", "retrying", "checking", "installing", "advising"}

(* Every index past the last delay means the same interval. *)
Indexes == 0 .. Retries + 1

TypeOK ==
    /\ rec \in Records
    /\ update \in {"none", "starting", "preparing", "announced", "waiting", "installing",
                  "settled"}
    /\ newer \in BOOLEAN /\ checks \in BOOLEAN /\ observed \in BOOLEAN
    /\ app \in BOOLEAN /\ quitting \in BOOLEAN
    /\ armed \in BOOLEAN /\ exitRequested \in BOOLEAN
    /\ checkRequested \in BOOLEAN /\ syncActive \in BOOLEAN
    /\ previous \in Snapshots \union {None}
    /\ timer \in Indexes \union {None}
    /\ pc \in [Tasks -> TaskPcs]
    /\ snap \in [Tasks -> Snapshots \union {None}]
    /\ idx \in [Tasks -> Indexes]
    /\ outages \in 0 .. Outages
    /\ owed \in Int

-----------------------------------------------------------------------------
(* The status helper. *)

(* helperExists, run and parseStatus: the record is read ... *)
ReadStatus(t) ==
    /\ pc[t] \in {"polling", "retrying", "checking", "installing"}
    /\ snap[t] = None
    /\ snap' = [snap EXCEPT ![t] = Snapshot(rec)]
    /\ observed' = (observed \/ (rec.requested /\ pc[t] = "polling"))
    /\ UNCHANGED <<rec, update, newer, checks, app, quitting, armed, exitRequested,
                   checkRequested, syncActive, previous, timer, pc, idx, outages,
                   owed>>

(* ... or the helper is absent, fails, times out or prints something else. *)
LoseStatus(t) ==
    /\ pc[t] \in {"polling", "retrying", "checking", "installing"}
    /\ snap[t] = None
    /\ outages < Outages
    /\ outages' = outages + 1
    /\ \E s \in {Failed, Unavailable} : snap' = [snap EXCEPT ![t] = s]
    /\ UNCHANGED <<world, armed, exitRequested, checkRequested, syncActive, previous,
                   timer, pc, idx, owed>>

(* Variant: a declined quit does not end the operation. *)
ReleasedByOutcome(s) ==
    armed /\ ~s.requested /\ s.state \in OutcomeStates

(* getState: the operation of this session is over. *)
Released(s) ==
    /\ armed
    /\ ~s.requested
    /\ \/ exitRequested /\ s.state = "ready-to-install"
       \/ s.state \in OutcomeStates

Arms(s) == armed /\ ~Released(s)
Exits(s) == exitRequested /\ ~Released(s)

(* Variant: an armed operation makes no difference. *)
TerminalThoughArmed(state, a) == state \in StartupTerminalStates

(* startupSyncTerminal *)
Terminal(state, a) ==
    /\ state \in StartupTerminalStates
    /\ ~(a /\ state \in UserOperationStartStates)

(* Variant: the index is not clamped to the delays. *)
QueuedUnclamped(pending, i) == IF pending # None THEN pending ELSE i

(* queueStartupSync: the pending timer stays. *)
Queued(pending, i) ==
    IF pending # None THEN pending ELSE IF i > Retries THEN Retries + 1 ELSE i

(* checkNow, once the status is known. *)
MaySpawnCheck(s) ==
    /\ ~Arms(s)
    /\ s.state \notin ActiveUpdateStates
    /\ s.state \notin {"ready-to-install", "install-failed-manual-action",
                       "update-manager-unavailable"}

CheckedState(s) == IF MaySpawnCheck(s) THEN "checking" ELSE s.state

(* A task's end; a tick also clears startupSyncActive. *)
End(t) ==
    /\ pc' = [pc EXCEPT ![t] = "off"]
    /\ snap' = [snap EXCEPT ![t] = None]
    /\ idx' = [idx EXCEPT ![t] = 0]
    /\ syncActive' = IF t \in Ticks THEN FALSE ELSE syncActive

(* A task's next await of the helper or of a dialog. *)
Await(t, l) ==
    /\ pc' = [pc EXCEPT ![t] = l]
    /\ snap' = [snap EXCEPT ![t] = None]
    /\ UNCHANGED <<idx, syncActive>>

(* Variant: only an active state is followed. *)
FollowsActive(t, state) ==
    \/ state = "failed" /\ idx[t] <= Retries
    \/ state \in ActiveUpdateStates

(* The last part of startupSyncTick: is another tick queued? *)
Follows(t, state) ==
    \/ state = "failed" /\ idx[t] <= Retries
    \/ state \in ActiveUpdateStates
    \/ armed' /\ ~Terminal(state, armed')

FinishTick(t, state, pending) ==
    /\ timer' = IF Follows(t, state) THEN Queued(pending, idx[t] + 1) ELSE pending
    /\ End(t)

(* A failure is checked again, the first idle record is checked once, anything
   else ends the tick. *)
TickGoesOn(t, state, pending) ==
    \/ /\ state = "failed" /\ idx[t] <= Retries
       /\ checkRequested' = FALSE
       /\ timer' = pending
       /\ Await(t, "checking")
    \/ /\ state = "idle" /\ ~checkRequested
       /\ checkRequested' = TRUE
       /\ timer' = pending
       /\ Await(t, "checking")
    \/ /\ ~(state = "failed" /\ idx[t] <= Retries)
       /\ ~(state = "idle" /\ ~checkRequested)
       /\ FinishTick(t, state, pending)
       /\ UNCHANGED checkRequested

(* dispatch("getState") has its state: a call ends, a tick goes on. *)
PollReturns(t, state, pending) ==
    \/ t \in Ticks /\ TickGoesOn(t, state, pending)
    \/ /\ t \in Calls
       /\ End(t)
       /\ timer' = pending
       /\ UNCHANGED checkRequested

(* Hand the status to the task, and release the operation if it is over. *)
Resume(t, from) ==
    /\ pc[t] = from
    /\ snap[t] # None
    /\ armed' = Arms(snap[t])

-----------------------------------------------------------------------------
(* pollOnce *)

IsNews(s) == s.state = "failed" /\ s # previous /\ ~Arms(s) /\ ~syncActive

(* Variant: every poll that finds the request asks. *)
AsksAgain(s) == Arms(s) /\ s.state = "ready-to-install" /\ s.requested

AsksToQuit(s) ==
    Arms(s) /\ ~Exits(s) /\ s.state = "ready-to-install" /\ s.requested

Noted(s) == IF s.state = "failed" THEN s ELSE None

ShowFailure(t) ==
    /\ Resume(t, "polling")
    /\ IsNews(snap[t])
    /\ previous' = Noted(snap[t])
    /\ exitRequested' = Exits(snap[t])
    /\ Await(t, "asking")
    /\ UNCHANGED <<world, checkRequested, timer, outages, owed>>

RequestQuit(t) ==
    /\ Resume(t, "polling")
    /\ AsksToQuit(snap[t])
    /\ exitRequested' = TRUE
    /\ quitting' = TRUE
    /\ owed' = owed - 1
    /\ previous' = Noted(snap[t])
    /\ PollReturns(t, snap[t].state, timer)
    /\ UNCHANGED <<rec, update, newer, checks, observed, app, outages>>

ResumePoll(t) ==
    /\ Resume(t, "polling")
    /\ ~IsNews(snap[t]) /\ ~AsksToQuit(snap[t])
    /\ exitRequested' = Exits(snap[t])
    /\ previous' = Noted(snap[t])
    /\ PollReturns(t, snap[t].state, timer)
    /\ UNCHANGED <<world, outages, owed>>

DismissFailure(t) ==
    /\ pc[t] = "asking"
    /\ armed' = armed
    /\ PollReturns(t, "failed", timer)
    /\ UNCHANGED <<world, exitRequested, previous, outages, owed>>

RetryFailure(t) ==
    /\ pc[t] = "asking"
    /\ Await(t, "retrying")
    /\ UNCHANGED <<world, armed, exitRequested, checkRequested, previous, timer,
                   outages, owed>>

-----------------------------------------------------------------------------
(* checkNow, from the dialog, from the renderer or from a tick. *)

SpawnCheck(s) == checks' = (checks \/ MaySpawnCheck(s))

(* The callers of checkNow queue a tick unless its result is terminal. *)
CheckQueues(s) ==
    IF Terminal(CheckedState(s), Arms(s)) THEN timer ELSE Queued(timer, 0)

ResumeRetry(t) ==
    /\ Resume(t, "retrying")
    /\ exitRequested' = Exits(snap[t])
    /\ SpawnCheck(snap[t])
    /\ PollReturns(t, CheckedState(snap[t]), CheckQueues(snap[t]))
    /\ UNCHANGED <<rec, update, newer, observed, app, quitting, previous, outages, owed>>

ResumeCheck(t) ==
    /\ Resume(t, "checking")
    /\ exitRequested' = Exits(snap[t])
    /\ SpawnCheck(snap[t])
    /\ \/ t \in Ticks /\ FinishTick(t, CheckedState(snap[t]), CheckQueues(snap[t]))
       \/ t \in Calls /\ End(t) /\ timer' = CheckQueues(snap[t])
    /\ UNCHANGED <<rec, update, newer, observed, app, quitting, checkRequested, previous,
                   outages, owed>>

-----------------------------------------------------------------------------
(* install *)

AdviseManually(t) ==
    /\ Resume(t, "installing")
    /\ snap[t].state = "install-failed-manual-action"
    /\ exitRequested' = Exits(snap[t])
    /\ Await(t, "advising")
    /\ UNCHANGED <<world, checkRequested, previous, timer, outages, owed>>

EndAdvice(t) ==
    /\ pc[t] = "advising"
    /\ End(t)
    /\ UNCHANGED <<world, armed, exitRequested, checkRequested, previous, timer,
                   outages, owed>>

MayStartUpdate(s) ==
    s.state \in UserOperationStartStates /\ ~s.requested /\ ~Arms(s)

(* A second process beside a live one is refused and leaves no trace. *)
StartUpdate(t) ==
    /\ pc[t] = "installing"
    /\ snap[t] # None
    /\ MayStartUpdate(snap[t])
    /\ update' = IF update = "none" THEN "starting" ELSE update
    /\ armed' = TRUE
    /\ exitRequested' = Exits(snap[t])
    /\ timer' = Queued(timer, 0)
    /\ owed' = 1
    /\ observed' = FALSE
    /\ End(t)
    /\ UNCHANGED <<rec, newer, checks, app, quitting, checkRequested, previous,
                   outages>>

(* An operation is under way, or none can be started: the UI follows it. *)
FollowUpdate(t) ==
    /\ Resume(t, "installing")
    /\ ~MayStartUpdate(snap[t])
    /\ snap[t].state # "install-failed-manual-action"
    /\ exitRequested' = Exits(snap[t])
    /\ timer' = IF snap[t].state \in ActiveUpdateStates \union UserOperationStartStates
                  THEN Queued(timer, 0) ELSE timer
    /\ End(t)
    /\ UNCHANGED <<world, checkRequested, previous, outages, owed>>

-----------------------------------------------------------------------------
(* Calls, the timer and the life of the application. *)

BeginCall(c) ==
    /\ app
    /\ pc[c] = "off"
    /\ \E l \in {"polling", "checking", "installing"} : pc' = [pc EXCEPT ![c] = l]
    /\ UNCHANGED <<world, armed, exitRequested, checkRequested, syncActive, previous,
                   timer, snap, idx, outages, owed>>

FireTimer(t) ==
    /\ timer # None
    /\ pc[t] = "off"
    /\ pc' = [pc EXCEPT ![t] = "polling"]
    /\ idx' = [idx EXCEPT ![t] = timer]
    /\ timer' = None
    /\ syncActive' = TRUE
    /\ UNCHANGED <<world, armed, exitRequested, checkRequested, previous, snap,
                   outages, owed>>

(* createBridge, and startBackgroundSync when the application is up. *)
NewSession(startUp) ==
    /\ armed' = FALSE /\ exitRequested' = FALSE /\ checkRequested' = FALSE
    /\ previous' = None /\ timer' = None
    /\ snap' = [t \in Tasks |-> None]
    /\ idx' = [t \in Tasks |-> 0]
    /\ outages' = 0 /\ owed' = 0
    /\ \/ /\ startUp
          /\ syncActive' = TRUE
          /\ \E first \in Ticks :
               pc' = [t \in Tasks |-> IF t = first THEN "polling" ELSE "off"]
       \/ ~startUp /\ syncActive' = FALSE /\ pc' = [t \in Tasks |-> "off"]

AppStarts ==
    /\ ~app
    /\ app' = TRUE
    /\ NewSession(TRUE)
    /\ UNCHANGED <<rec, update, newer, checks, observed, quitting>>

(* The user quits, or confirms the quit the bridge asked for ... *)
AppExits ==
    /\ app
    /\ app' = FALSE
    /\ quitting' = FALSE
    /\ NewSession(FALSE)
    /\ UNCHANGED <<rec, update, newer, checks, observed>>

(* ... or declines it in Factory's close confirmation. *)
CancelQuit ==
    /\ quitting
    /\ quitting' = FALSE
    /\ UNCHANGED <<rec, update, newer, checks, observed, app, session>>

-----------------------------------------------------------------------------
(* The updater's processes, as the bridge sees them (src/updater).  What they do
   to the record is UpdaterRecord's; when they do it is said here. *)

Updater == INSTANCE UpdaterRecord

UpdateRuns(from, to) ==
    /\ update = from
    /\ update' = to
    /\ newer' = (newer /\ (rec.state = "installed" \/ rec'.state # "installed"))
    /\ UNCHANGED <<checks, app, quitting, session>>

BeginUpdate ==
    \/ /\ Updater!Prepare
       /\ UpdateRuns("starting", "preparing")
       /\ UNCHANGED observed
    \/ /\ Updater!Request
       /\ UpdateRuns("starting", "waiting")
       /\ observed' = FALSE

(* Also when the process cannot be started: its error event is ignored. *)
RefuseUpdate ==
    /\ Contention \/ rec.requested \/ rec.state \notin UserOperationStartStates
    /\ UNCHANGED <<rec, observed>>
    /\ UpdateRuns("starting", "none")

(* Steps of the updater that take minutes: meanwhile the bridge is given every
   answer that was read before them ... *)
Prompt == \A t \in Tasks : snap[t] \in {None, Snapshot(rec), Failed, Unavailable}

(* ... and the exit wait, and the age of a dead one, last for several polls. *)
Polling == timer # None \/ \E t \in Ticks : pc[t] # "off"

EndPreparation ==
    /\ Prompt
    /\ Updater!Retain
    /\ UpdateRuns("preparing", "announced")
    /\ UNCHANGED observed

(* The preparation fails before it has saved anything, on the way, or while the
   user is told of the candidate. *)
RejectCandidate ==
    /\ Updater!Reject
    /\ \/ rec.state = "update-available" /\ UpdateRuns("starting", "none")
       \/ Prompt /\ UpdateRuns("preparing", "none")
       \/ UpdateRuns("announced", "none")
    /\ UNCHANGED observed

RequestInstall ==
    /\ Updater!Request
    /\ UpdateRuns("announced", "waiting")
    /\ observed' = FALSE

EndWait ==
    /\ app
    /\ Prompt /\ (observed \/ ~Polling)
    /\ Updater!Cancel \/ (Contention /\ UNCHANGED rec)
    /\ UpdateRuns("waiting", "none")
    /\ UNCHANGED observed

Install ==
    /\ ~app
    /\ Updater!Install
    /\ UpdateRuns("waiting", "installing")
    /\ UNCHANGED observed

EndInstall ==
    /\ \/ Updater!Deny /\ UpdateRuns("installing", "none")
       \/ Updater!Settle /\ UpdateRuns("installing", "settled")
    /\ UNCHANGED observed

CloseInstall ==
    /\ Updater!Close
    /\ UpdateRuns("settled", "none")
    /\ UNCHANGED observed

UpdateDies ==
    /\ Deaths
    /\ update # "none"
    /\ UNCHANGED <<rec, observed>>
    /\ UpdateRuns(update, "none")

(* A status poll or the daemon repairs what a dead update left behind. *)
RecoverDead ==
    /\ Prompt
    /\ rec.state # "checking"
    /\ rec.state = "ready-to-install" => observed \/ ~Polling
    /\ Updater!RecoverStale \/ Updater!RecoverInstall
    /\ UpdateRuns("none", "none")
    /\ UNCHANGED observed

(* The user has run the manual command and says so. *)
Reconcile ==
    /\ Contention
    /\ update # "settled"
    /\ Updater!Reconcile
    /\ newer' = FALSE
    /\ UNCHANGED <<update, checks, observed, app, quitting, session>>

CheckRuns(spawned) ==
    /\ checks' = spawned
    /\ UNCHANGED <<update, newer, observed, app, quitting, session>>

MayCheck ==
    /\ rec.state \in {"idle", "update-available", "installed", "failed"}
    /\ update \notin {"preparing", "announced", "settled"}

(* The spawned check-now, or the daemon's. *)
BeginCheck ==
    /\ MayCheck
    /\ Updater!Query
    /\ (checks /\ CheckRuns(FALSE)) \/ (Contention /\ CheckRuns(checks))

RefuseCheck ==
    /\ checks
    /\ Contention \/ ~MayCheck
    /\ CheckRuns(FALSE)
    /\ UNCHANGED rec

(* The check ends, or dies and is recovered. *)
EndCheck ==
    /\ \/ Updater!Answer(IF newer THEN "update-available" ELSE "idle")
       \/ Updater!FailCheck
       \/ rec.state = "checking" /\ Updater!RecoverStale
    /\ CheckRuns(checks)

Publish ==
    /\ ~newer
    /\ newer' = TRUE
    /\ UNCHANGED <<rec, update, checks, observed, app, quitting, session>>

-----------------------------------------------------------------------------
Init ==
    /\ \/ rec \in {Record(s, FALSE) : s \in {"idle", "update-available",
                                             "ready-to-install", "installed", "failed",
                                             "install-failed-manual-action"}}
       \/ rec \in {Record(s, TRUE) : s \in {"installed", "install-failed-manual-action"}}
    /\ newer = (rec.state \in UserOperationStartStates)
    /\ update = "none" /\ checks = FALSE /\ observed = FALSE
    /\ app = FALSE /\ quitting = FALSE
    /\ armed = FALSE /\ exitRequested = FALSE /\ checkRequested = FALSE
    /\ syncActive = FALSE /\ previous = None /\ timer = None
    /\ pc = [t \in Tasks |-> "off"]
    /\ snap = [t \in Tasks |-> None]
    /\ idx = [t \in Tasks |-> 0]
    /\ outages = 0 /\ owed = 0

TaskStep(t) ==
    \/ ReadStatus(t) \/ LoseStatus(t)
    \/ ShowFailure(t) \/ RequestQuit(t) \/ ResumePoll(t)
    \/ ResumeRetry(t) \/ ResumeCheck(t)
    \/ AdviseManually(t) \/ StartUpdate(t) \/ FollowUpdate(t)

UserStep ==
    \/ \E t \in Tasks : DismissFailure(t) \/ RetryFailure(t) \/ EndAdvice(t)
    \/ \E c \in Calls : BeginCall(c)
    \/ AppStarts \/ AppExits \/ CancelQuit

UpdateStep ==
    \/ BeginUpdate \/ RefuseUpdate \/ EndPreparation \/ RejectCandidate
    \/ RequestInstall \/ EndWait \/ Install \/ EndInstall \/ CloseInstall

CheckStep == BeginCheck \/ RefuseCheck \/ EndCheck \/ Publish

Next ==
    \/ \E t \in Tasks : TaskStep(t)
    \/ \E t \in Ticks : FireTimer(t)
    \/ UserStep
    \/ UpdateStep \/ CheckStep \/ UpdateDies \/ RecoverDead \/ Reconcile

Spec == Init /\ [][Next]_vars

(* Status calls end within HELPER_TIMEOUT_MS, timers fire, and an
   update runs, ends, and is recovered when dead.  A check may take for ever, and
   the user owes nothing: a dialog may stay open. *)
Fairness ==
    /\ \A t \in Tasks : WF_vars(TaskStep(t))
    /\ WF_vars(\E t \in Ticks : FireTimer(t))
    /\ WF_vars(UpdateStep)
    /\ WF_vars(RecoverDead)

FairSpec == Spec /\ Fairness

-----------------------------------------------------------------------------
(* Safety. *)

(* A click stands for at most one quit: whatever polls overlap, however stale
   their answers are, and however often the user declines to close, the bridge
   does not ask again before the next click. *)
QuitOncePerUpdate == owed >= 0

(* While an update of this session works, the bridge keeps polling: otherwise
   nothing would ask to quit when the package is ready. *)
PollerFollows ==
    app /\ armed /\ outages = 0 /\ update \in {"preparing", "announced", "waiting"}
      => Polling

(* Liveness. *)

(* A prepared update that waits for the exit gets its quit. *)
WaitingUpdateQuits ==
    app /\ armed /\ update = "waiting" ~> exitRequested \/ ~app

(* src/docs/update-manager.md:26 "After preparation succeeds, the state becomes
   `ready-to-install`. The updater sets `installRequested=true`, then the bridge
   requests one controlled Electron quit.": a preparation of this session fails or
   gets its quit, also when every status call was answered until the candidate was
   being built and one fails during the build. *)
Preparing == app /\ update = "preparing"

PreparedUpdateQuits ==
    (Preparing /\ armed /\ outages = 0) /\ <>(Preparing /\ outages > 0)
      ~> exitRequested \/ ~app \/ rec.state = "failed"

(* A quit that was declined, or left unanswered, does not keep the user from
   asking for the update again for ever. *)
CancelledQuitReleases == exitRequested ~> ~exitRequested
=============================================================================
