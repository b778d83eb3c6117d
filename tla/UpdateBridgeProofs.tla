-------------------------- MODULE UpdateBridgeProofs --------------------------
(***************************************************************************)
(* Proofs about UpdateBridge, for every number of overlapping calls and    *)
(* ticks, every number of failing status calls, and an updater that does   *)
(* whatever its actions allow.                                             *)
(***************************************************************************)
EXTENDS UpdateBridge, TLAPS

(* QuitOncePerUpdate is not inductive: nothing in it says that an operation
   which may still ask to quit is one a click stands for. *)
QuitInv ==
    /\ owed \in Int
    /\ armed \in BOOLEAN
    /\ exitRequested \in BOOLEAN
    /\ owed >= 0
    /\ armed /\ ~exitRequested => owed >= 1
    /\ exitRequested => armed

(* A step that leaves the operation alone. *)
LEMMA QuitKept ==
  ASSUME QuitInv, UNCHANGED <<armed, exitRequested, owed>>
  PROVE  QuitInv'
  BY DEF QuitInv

(* A step that hands over an answer, late or not: releasing the operation
   clears both flags. *)
LEMMA QuitGiven ==
  ASSUME QuitInv, NEW s, armed' = Arms(s), exitRequested' = Exits(s), UNCHANGED owed
  PROVE  QuitInv'
  <1>1. CASE Released(s)
    <2>1. armed' = FALSE /\ exitRequested' = FALSE
      BY <1>1 DEF Arms, Exits
    <2> QED BY <2>1 DEF QuitInv
  <1>2. CASE ~Released(s)
    <2>1. armed' = armed /\ exitRequested' = exitRequested
      BY <1>2 DEF Arms, Exits, QuitInv
    <2> QED BY <2>1 DEF QuitInv
  <1> QED BY <1>1, <1>2

(* A quit spends what its click stands for. *)
LEMMA QuitSpent ==
  ASSUME QuitInv, NEW t \in Tasks, RequestQuit(t)
  PROVE  QuitInv'
  <1>1. Arms(snap[t]) /\ ~Exits(snap[t])
    BY DEF RequestQuit, AsksToQuit
  <1>2. armed /\ ~exitRequested
    BY <1>1 DEF Arms, Exits
  <1>3. owed >= 1
    BY <1>2 DEF QuitInv
  <1>4. armed' = TRUE /\ exitRequested' = TRUE /\ owed' = owed - 1
    BY <1>1 DEF RequestQuit, Resume, Arms
  <1> QED BY <1>3, <1>4 DEF QuitInv

(* Every step of a task keeps the invariant. *)
LEMMA QuitTask ==
  ASSUME QuitInv, NEW t \in Tasks, TaskStep(t)
  PROVE  QuitInv'
  <1>1. CASE ReadStatus(t)
    BY <1>1, QuitKept DEF ReadStatus
  <1>2. CASE LoseStatus(t)
    BY <1>2, QuitKept DEF LoseStatus
  <1>3. CASE ShowFailure(t)
    BY <1>3, QuitGiven DEF ShowFailure, Resume
  <1>4. CASE RequestQuit(t)
    BY <1>4, QuitSpent
  <1>5. CASE ResumePoll(t)
    BY <1>5, QuitGiven DEF ResumePoll, Resume
  <1>6. CASE ResumeRetry(t)
    BY <1>6, QuitGiven DEF ResumeRetry, Resume
  <1>7. CASE ResumeCheck(t)
    BY <1>7, QuitGiven DEF ResumeCheck, Resume
  <1>8. CASE AdviseManually(t)
    BY <1>8, QuitGiven DEF AdviseManually, Resume
  <1>9. CASE StartUpdate(t)
    <2>1. armed' = TRUE /\ owed' = 1 /\ exitRequested' = Exits(snap[t])
      BY <1>9 DEF StartUpdate
    <2>2. Exits(snap[t]) \in BOOLEAN
      BY DEF Exits
    <2> QED BY <2>1, <2>2 DEF QuitInv
  <1>10. CASE FollowUpdate(t)
    BY <1>10, QuitGiven DEF FollowUpdate, Resume
  <1> QED
    BY <1>1, <1>2, <1>3, <1>4, <1>5, <1>6, <1>7, <1>8, <1>9, <1>10 DEF TaskStep

(* So does everything the user does: a new session owes nothing. *)
LEMMA QuitUser ==
  ASSUME QuitInv, UserStep
  PROVE  QuitInv'
  <1>1. ASSUME NEW t \in Tasks, DismissFailure(t) \/ RetryFailure(t) \/ EndAdvice(t)
        PROVE  QuitInv'
    BY <1>1, QuitKept DEF DismissFailure, RetryFailure, EndAdvice
  <1>2. ASSUME NEW c \in Calls, BeginCall(c)
        PROVE  QuitInv'
    BY <1>2, QuitKept DEF BeginCall
  <1>3. CASE AppStarts \/ AppExits
    <2>1. ~armed' /\ armed' \in BOOLEAN /\ ~exitRequested' /\ exitRequested' \in BOOLEAN
      BY <1>3 DEF AppStarts, AppExits, NewSession
    <2>2. owed' = 0
      BY <1>3 DEF AppStarts, AppExits, NewSession
    <2> QED BY <2>1, <2>2 DEF QuitInv
  <1>4. CASE CancelQuit
    BY <1>4, QuitKept DEF CancelQuit, session
  <1> QED BY <1>1, <1>2, <1>3, <1>4 DEF UserStep

(* The updater and the timer leave the session's flags alone. *)
LEMMA QuitUpdater ==
  ASSUME QuitInv,
         \/ UpdateStep \/ CheckStep \/ UpdateDies \/ RecoverDead \/ Reconcile
         \/ \E t \in Ticks : FireTimer(t)
  PROVE  QuitInv'
  <1>1. CASE UpdateStep
    BY <1>1, QuitKept DEF UpdateStep, BeginUpdate, RefuseUpdate, EndPreparation,
       RejectCandidate, RequestInstall, EndWait, Install, EndInstall, CloseInstall,
       UpdateRuns, session
  <1>2. CASE CheckStep
    BY <1>2, QuitKept DEF CheckStep, BeginCheck, RefuseCheck, EndCheck, Publish,
       CheckRuns, session
  <1>3. CASE UpdateDies \/ RecoverDead \/ Reconcile
    BY <1>3, QuitKept DEF UpdateDies, RecoverDead, Reconcile, UpdateRuns, session
  <1>4. CASE \E t \in Ticks : FireTimer(t)
    BY <1>4, QuitKept DEF FireTimer
  <1> QED BY <1>1, <1>2, <1>3, <1>4

(* The bridge asks for at most one quit per click on Update: createBridge's
   flags, cleared and set by overlapping tasks with answers of any age, never
   ask for a second one. *)
THEOREM OneQuitPerClick == Spec => []QuitOncePerUpdate
  <1>1. Init => QuitInv
    <2> SUFFICES ASSUME Init PROVE QuitInv
      OBVIOUS
    <2>1. ~armed /\ armed \in BOOLEAN /\ ~exitRequested /\ exitRequested \in BOOLEAN
      BY DEF Init
    <2>2. owed = 0
      BY DEF Init
    <2> QED BY <2>1, <2>2 DEF QuitInv
  <1>2. QuitInv /\ [Next]_vars => QuitInv'
    <2> SUFFICES ASSUME QuitInv, [Next]_vars PROVE QuitInv'
      OBVIOUS
    <2>1. CASE UNCHANGED vars
      BY <2>1, QuitKept DEF vars, session
    <2>2. CASE Next
      BY <2>2, QuitTask, QuitUser, QuitUpdater DEF Next
    <2> QED BY <2>1, <2>2
  <1>3. QuitInv => QuitOncePerUpdate
    BY DEF QuitInv, QuitOncePerUpdate
  <1> QED BY <1>1, <1>2, <1>3, PTL DEF Spec
-----------------------------------------------------------------------------
(***************************************************************************)
(* An update that works is polled.  What the bridge knows may be older     *)
(* than the record, and several ticks may be in progress: the invariant    *)
(* says which tick, or the timer, is sure to lead to another poll, and what *)
(* a record, or an answer read from it, can be while an operation of this  *)
(* session is under way.                                                   *)
(***************************************************************************)

(* The record fits the step of the update that works on it. *)
RecordFits ==
    /\ rec.requested => rec.state \notin {"idle", "update-available", "preparing"}
    /\ update = "preparing" => rec.state = "preparing"
    /\ update \in {"announced", "waiting"} => rec.state = "ready-to-install"
    /\ update = "installing" => rec.state = "installing"
    /\ update = "settled"
         => rec.state \in {"installed", "install-failed-manual-action"} /\ rec.requested
    /\ rec.state \in {"update-available", "preparing", "ready-to-install", "installing"}
         => newer

(* An update is there to be had, and no installation of it has begun; a request
   that another one left behind is gone. *)
Offered ==
    /\ newer
    /\ rec.state \notin {"idle", "installing", "install-failed-manual-action"}
    /\ rec.requested => rec.state = "ready-to-install"

(* An answer that offers an update was not overtaken by its installation, nor
   by a check that finds nothing; nor was the click on it. *)
OffersHold ==
    \/ Offered
    \/ /\ \A t \in Tasks : snap[t] # None => snap[t].state \notin UserOperationStartStates
       /\ ~(app /\ armed /\ update = "starting")

(* Only a task that awaits the helper has an answer; without the application
   there are no tasks. *)
TasksFit ==
    /\ \A t \in Tasks : pc[t] \in {"off", "asking", "advising"} => snap[t] = None
    /\ ~app => timer = None /\ \A t \in Tasks : pc[t] = "off"

(* With this answer a tick queues another one, or the operation is over. *)
Good(s) ==
    \/ s.state \in ActiveUpdateStates \union UserOperationStartStates
    \/ s.state \in OutcomeStates /\ ~s.requested

Carries(t) ==
    /\ pc[t] \in {"polling", "retrying", "checking"}
    /\ snap[t] = None \/ Good(snap[t])

(* The operation of this session is under way. *)
Owing ==
    /\ app /\ armed /\ outages = 0
    /\ update \in {"starting", "preparing", "announced", "waiting"}

Followed == Owing => timer # None \/ \E t \in Ticks : Carries(t)

FollowInv ==
    /\ TypeOK /\ RecordFits /\ OffersHold /\ TasksFit /\ Followed
-----------------------------------------------------------------------------
(* Types. *)

LEMMA AnswersTyped ==
  ASSUME TypeOK
  PROVE  Snapshot(rec) \in Snapshots /\ Failed \in Snapshots /\ Unavailable \in Snapshots
  BY DEF TypeOK, Records, Snapshot, Failed, Unavailable, Snapshots, States

LEMMA NoneIsNoIndex == None \notin Nat /\ 0 \in Indexes /\ Indexes \subseteq Nat
  BY BridgeAssumption DEF Indexes

LEMMA QueuedTyped ==
  ASSUME NEW pending \in Indexes \union {None}, NEW i \in Nat
  PROVE  Queued(pending, i) \in Indexes /\ Queued(pending, i) # None
  BY NoneIsNoIndex, BridgeAssumption DEF Queued, Indexes

TasksTyped ==
    /\ pc \in [Tasks -> TaskPcs]
    /\ snap \in [Tasks -> Snapshots \union {None}]
    /\ idx \in [Tasks -> Indexes]
    /\ syncActive \in BOOLEAN

LEMMA EndTyped ==
  ASSUME TypeOK, NEW t \in Tasks, End(t)
  PROVE  TasksTyped'
  BY NoneIsNoIndex DEF End, TypeOK, TasksTyped, TaskPcs

LEMMA AwaitTyped ==
  ASSUME TypeOK, NEW t \in Tasks, NEW l \in TaskPcs, Await(t, l)
  PROVE  TasksTyped'
  BY DEF Await, TypeOK, TasksTyped

LEMMA FinishTyped ==
  ASSUME TypeOK, NEW t \in Tasks, NEW state, NEW pending \in Indexes \union {None},
         FinishTick(t, state, pending)
  PROVE  TasksTyped' /\ timer' \in Indexes \union {None}
  <1>0. idx[t] \in Indexes
    BY DEF TypeOK
  <1>1. idx[t] + 1 \in Nat
    BY <1>0, BridgeAssumption DEF Indexes
  <1>2. Queued(pending, idx[t] + 1) \in Indexes
    BY <1>1, QueuedTyped
  <1> QED
    BY <1>2, EndTyped DEF FinishTick

LEMMA PollTyped ==
  ASSUME TypeOK, NEW t \in Tasks, NEW state, NEW pending \in Indexes \union {None},
         PollReturns(t, state, pending)
  PROVE  TasksTyped' /\ timer' \in Indexes \union {None} /\ checkRequested' \in BOOLEAN
  <1>0. "checking" \in TaskPcs /\ checkRequested \in BOOLEAN
    BY DEF TaskPcs, TypeOK
  <1>1. CASE t \in Ticks /\ TickGoesOn(t, state, pending)
    BY <1>0, <1>1, AwaitTyped, FinishTyped DEF TickGoesOn
  <1>2. CASE t \in Calls /\ End(t) /\ timer' = pending /\ UNCHANGED checkRequested
    BY <1>0, <1>2, EndTyped
  <1> QED
    BY <1>1, <1>2 DEF PollReturns

LEMMA CheckQueuesTyped ==
  ASSUME TypeOK, NEW s
  PROVE  CheckQueues(s) \in Indexes \union {None}
  BY QueuedTyped DEF CheckQueues, TypeOK

(* The parts of TypeOK, one for each side of the bridge. *)
WorldTyped ==
    /\ rec \in Records
    /\ update \in {"none", "starting", "preparing", "announced", "waiting", "installing",
                  "settled"}
    /\ newer \in BOOLEAN /\ checks \in BOOLEAN /\ observed \in BOOLEAN
    /\ app \in BOOLEAN /\ quitting \in BOOLEAN

FlagsTyped ==
    /\ armed \in BOOLEAN /\ exitRequested \in BOOLEAN /\ checkRequested \in BOOLEAN
    /\ previous \in Snapshots \union {None}
    /\ timer \in Indexes \union {None}
    /\ outages \in 0 .. Outages /\ owed \in Int

LEMMA TypesInParts ==
    /\ TypeOK <=> WorldTyped /\ FlagsTyped /\ TasksTyped
    /\ TypeOK' <=> WorldTyped' /\ FlagsTyped' /\ TasksTyped'
  BY DEF TypeOK, WorldTyped, FlagsTyped, TasksTyped

LEMMA AnswersAreFlags ==
  ASSUME TypeOK, NEW s
  PROVE  /\ Arms(s) \in BOOLEAN /\ Exits(s) \in BOOLEAN
         /\ \A t \in Tasks : snap[t] # None => Noted(snap[t]) \in Snapshots \union {None}
         /\ (checks \/ MaySpawnCheck(s)) \in BOOLEAN
  BY DEF TypeOK, Arms, Exits, Noted

LEMMA TaskTypes ==
  ASSUME TypeOK, NEW t \in Tasks, TaskStep(t)
  PROVE  TypeOK'
  <1> DEFINE s == snap[t]
  <1>a. WorldTyped /\ FlagsTyped /\ TasksTyped
    BY TypesInParts
  <1>b. Arms(s) \in BOOLEAN /\ Exits(s) \in BOOLEAN /\ (checks \/ MaySpawnCheck(s)) \in BOOLEAN
        /\ (s # None => Noted(s) \in Snapshots \union {None})
    BY AnswersAreFlags
  <1>c. timer \in Indexes \union {None} /\ CheckQueues(s) \in Indexes \union {None}
        /\ Queued(timer, 0) \in Indexes
    BY <1>a, CheckQueuesTyped, QueuedTyped DEF FlagsTyped
  <1>1. CASE ReadStatus(t)
    <2>1. snap' \in [Tasks -> Snapshots \union {None}]
      BY <1>1, <1>a, AnswersTyped DEF ReadStatus, TasksTyped
    <2>2. (observed \/ (rec.requested /\ pc[t] = "polling")) \in BOOLEAN
      OBVIOUS
    <2>3. observed' \in BOOLEAN
      BY <1>1, <2>2 DEF ReadStatus
    <2> QED
      BY <1>1, <1>a, <2>1, <2>3, TypesInParts DEF ReadStatus, WorldTyped, FlagsTyped, TasksTyped
  <1>2. CASE LoseStatus(t)
    <2>1. snap' \in [Tasks -> Snapshots \union {None}]
      BY <1>2, <1>a, AnswersTyped DEF LoseStatus, TasksTyped
    <2>2. outages' \in 0 .. Outages
      BY <1>2, <1>a, BridgeAssumption DEF LoseStatus, FlagsTyped
    <2> QED
      BY <1>2, <1>a, <2>1, <2>2, TypesInParts
         DEF LoseStatus, world, WorldTyped, FlagsTyped, TasksTyped
  <1>3. CASE ShowFailure(t)
    <2>1. TasksTyped'
      BY <1>3, AwaitTyped DEF ShowFailure, TaskPcs
    <2> QED
      BY <1>3, <1>a, <1>b, <2>1, TypesInParts
         DEF ShowFailure, Resume, world, WorldTyped, FlagsTyped
  <1>4. CASE RequestQuit(t)
    <2>1. TasksTyped' /\ timer' \in Indexes \union {None} /\ checkRequested' \in BOOLEAN
      BY <1>4, <1>c, PollTyped DEF RequestQuit
    <2>2. owed' \in Int
      BY <1>4, <1>a DEF RequestQuit, FlagsTyped
    <2> QED
      BY <1>4, <1>a, <1>b, <2>1, <2>2, TypesInParts
         DEF RequestQuit, Resume, WorldTyped, FlagsTyped
  <1>5. CASE ResumePoll(t)
    <2>1. TasksTyped' /\ timer' \in Indexes \union {None} /\ checkRequested' \in BOOLEAN
      BY <1>5, <1>c, PollTyped DEF ResumePoll
    <2> QED
      BY <1>5, <1>a, <1>b, <2>1, TypesInParts
         DEF ResumePoll, Resume, world, WorldTyped, FlagsTyped
  <1>6. CASE ResumeRetry(t)
    <2>1. TasksTyped' /\ timer' \in Indexes \union {None} /\ checkRequested' \in BOOLEAN
      BY <1>6, <1>c, PollTyped DEF ResumeRetry
    <2> QED
      BY <1>6, <1>a, <1>b, <2>1, TypesInParts
         DEF ResumeRetry, Resume, SpawnCheck, WorldTyped, FlagsTyped
  <1>7. CASE ResumeCheck(t)
    <2>1. TasksTyped' /\ timer' \in Indexes \union {None}
      BY <1>7, <1>c, FinishTyped, EndTyped DEF ResumeCheck
    <2> QED
      BY <1>7, <1>a, <1>b, <2>1, TypesInParts
         DEF ResumeCheck, Resume, SpawnCheck, WorldTyped, FlagsTyped
  <1>8. CASE AdviseManually(t)
    <2>1. TasksTyped'
      BY <1>8, AwaitTyped DEF AdviseManually, TaskPcs
    <2> QED
      BY <1>8, <1>a, <1>b, <2>1, TypesInParts
         DEF AdviseManually, Resume, world, WorldTyped, FlagsTyped
  <1>9. CASE StartUpdate(t)
    <2>1. TasksTyped'
      BY <1>9, EndTyped DEF StartUpdate
    <2>2. armed' \in BOOLEAN /\ observed' \in BOOLEAN
      BY <1>9 DEF StartUpdate
    <2>3. FlagsTyped'
      BY <1>9, <1>a, <1>b, <1>c, <2>2 DEF StartUpdate, FlagsTyped
    <2>4. WorldTyped'
      BY <1>9, <1>a, <2>2 DEF StartUpdate, WorldTyped
    <2> QED
      BY <2>1, <2>3, <2>4, TypesInParts
  <1>10. CASE FollowUpdate(t)
    <2>1. TasksTyped'
      BY <1>10, EndTyped DEF FollowUpdate
    <2>2. timer' \in Indexes \union {None}
      BY <1>10, <1>c DEF FollowUpdate
    <2> QED
      BY <1>10, <1>a, <1>b, <2>1, <2>2, TypesInParts
         DEF FollowUpdate, Resume, world, WorldTyped, FlagsTyped
  <1> QED
    BY <1>1, <1>2, <1>3, <1>4, <1>5, <1>6, <1>7, <1>8, <1>9, <1>10 DEF TaskStep

LEMMA SessionTypes ==
  ASSUME TypeOK, NEW b \in BOOLEAN, NewSession(b)
  PROVE  FlagsTyped' /\ TasksTyped'
  <1>0. armed' \in BOOLEAN /\ exitRequested' \in BOOLEAN /\ checkRequested' \in BOOLEAN
    BY DEF NewSession
  <1>1. FlagsTyped'
    BY <1>0, BridgeAssumption DEF NewSession, FlagsTyped
  <1>2. TasksTyped'
    BY NoneIsNoIndex DEF NewSession, TasksTyped, TaskPcs
  <1> QED BY <1>1, <1>2

LEMMA UserTypes ==
  ASSUME TypeOK, \/ UserStep
                 \/ \E t \in Ticks : FireTimer(t)
  PROVE  TypeOK'
  <1>a. WorldTyped /\ FlagsTyped /\ TasksTyped
    BY TypesInParts
  <1>1. ASSUME NEW t \in Tasks, DismissFailure(t) PROVE TypeOK'
    <2>1. TasksTyped' /\ timer' \in Indexes \union {None} /\ checkRequested' \in BOOLEAN
      BY <1>1, <1>a, PollTyped DEF DismissFailure, FlagsTyped
    <2> QED
      BY <1>1, <1>a, <2>1, TypesInParts DEF DismissFailure, world, WorldTyped, FlagsTyped
  <1>2. ASSUME NEW t \in Tasks, RetryFailure(t) PROVE TypeOK'
    <2>1. TasksTyped'
      BY <1>2, AwaitTyped DEF RetryFailure, TaskPcs
    <2> QED
      BY <1>2, <1>a, <2>1, TypesInParts DEF RetryFailure, world, WorldTyped, FlagsTyped
  <1>3. ASSUME NEW t \in Tasks, EndAdvice(t) PROVE TypeOK'
    <2>1. TasksTyped'
      BY <1>3, EndTyped DEF EndAdvice
    <2> QED
      BY <1>3, <1>a, <2>1, TypesInParts DEF EndAdvice, world, WorldTyped, FlagsTyped
  <1>4. ASSUME NEW c \in Calls, BeginCall(c) PROVE TypeOK'
    BY <1>4, <1>a, TypesInParts
       DEF BeginCall, world, WorldTyped, FlagsTyped, TasksTyped, TaskPcs
  <1>5. CASE AppStarts \/ AppExits
    BY <1>5, <1>a, SessionTypes, TypesInParts DEF AppStarts, AppExits, WorldTyped
  <1>6. CASE CancelQuit
    BY <1>6, <1>a, TypesInParts
       DEF CancelQuit, session, WorldTyped, FlagsTyped, TasksTyped
  <1>7. ASSUME NEW t \in Ticks, FireTimer(t) PROVE TypeOK'
    <2>1. timer \in Indexes /\ t \in Tasks
      BY <1>7, <1>a DEF FireTimer, FlagsTyped, Tasks
    <2> QED
      BY <1>7, <1>a, <2>1, TypesInParts
         DEF FireTimer, world, WorldTyped, FlagsTyped, TasksTyped, TaskPcs
  <1> QED
    BY <1>1, <1>2, <1>3, <1>4, <1>5, <1>6, <1>7 DEF UserStep

LEMMA RecordTyped ==
  ASSUME NEW s \in States \ {"update-manager-unavailable"}, NEW r \in BOOLEAN
  PROVE  Record(s, r) \in Records
  BY DEF Record, Records

(* Whatever the updater does to the record, it stays one. *)
LEMMA UpdaterSaves ==
  ASSUME rec \in Records, Updater!Next
  PROVE  rec' \in Records
  <1>1. rec.state \in States \ {"update-manager-unavailable"} /\ rec.requested \in BOOLEAN
    BY DEF Records
  <1>2. PICK s \in States \ {"update-manager-unavailable"}, q \in BOOLEAN : rec' = Record(s, q)
    BY <1>1 DEF Updater!Next, Updater!Prepare, Updater!Reject, Updater!Retain, Updater!Request,
       Updater!Cancel, Updater!Install, Updater!Deny, Updater!Settle, Updater!Close,
       Updater!Query, Updater!Answer, Updater!FailCheck, Updater!RecoverStale,
       Updater!RecoverInstall, Updater!Reconcile, Updater!Record, Record, States
  <1> QED BY <1>2, RecordTyped

(* The bridge expects nothing else of it. *)
LEMMA UpdaterOnly ==
  ASSUME UpdateStep \/ CheckStep \/ UpdateDies \/ RecoverDead \/ Reconcile
  PROVE  Updater!Next \/ UNCHANGED rec
  <1>1. CASE BeginUpdate \/ EndPreparation \/ RejectCandidate \/ RequestInstall
    BY <1>1 DEF BeginUpdate, EndPreparation, RejectCandidate, RequestInstall, Updater!Next
  <1>2. CASE EndWait \/ Install \/ EndInstall \/ CloseInstall
    BY <1>2 DEF EndWait, Install, EndInstall, CloseInstall, Updater!Next
  <1>3. CASE BeginCheck \/ EndCheck
    <2>1. Updater!Answer(IF newer THEN "update-available" ELSE "idle") => Updater!Next
      BY DEF Updater!Next
    <2> QED
      BY <1>3, <2>1 DEF BeginCheck, EndCheck, Updater!Next
  <1>4. CASE RecoverDead \/ Reconcile
    BY <1>4 DEF RecoverDead, Reconcile, Updater!Next
  <1>5. CASE RefuseUpdate \/ UpdateDies \/ RefuseCheck \/ Publish
    BY <1>5 DEF RefuseUpdate, UpdateDies, RefuseCheck, Publish
  <1> QED
    BY <1>1, <1>2, <1>3, <1>4, <1>5 DEF UpdateStep, CheckStep

LEMMA UpdaterTypes ==
  ASSUME TypeOK, UpdateStep \/ CheckStep \/ UpdateDies \/ RecoverDead \/ Reconcile
  PROVE  TypeOK'
  <1>a. WorldTyped /\ FlagsTyped /\ TasksTyped
    BY TypesInParts
  <1>b. rec' \in Records
    BY <1>a, UpdaterSaves, UpdaterOnly DEF WorldTyped
  <1>c. ASSUME NEW from, UpdateRuns(from, update'), observed' \in BOOLEAN,
               update' \in {"none", "preparing", "announced", "waiting", "installing", "settled"}
        PROVE  session' = session /\ WorldTyped'
    BY <1>a, <1>b, <1>c DEF UpdateRuns, WorldTyped
  <1>d. ASSUME NEW spawned \in BOOLEAN, CheckRuns(spawned)
        PROVE  session' = session /\ WorldTyped'
    BY <1>a, <1>b, <1>d DEF CheckRuns, WorldTyped
  <1>e. checks \in BOOLEAN /\ observed \in BOOLEAN
    BY <1>a DEF WorldTyped
  <1>f. session' = session /\ WorldTyped'
    <2>1. CASE BeginUpdate \/ RefuseUpdate \/ EndPreparation
      BY <1>c, <1>e, <2>1 DEF BeginUpdate, RefuseUpdate, EndPreparation, UpdateRuns
    <2>2. CASE RejectCandidate \/ RequestInstall
      BY <1>c, <1>e, <2>2 DEF RejectCandidate, RequestInstall, UpdateRuns
    <2>3. CASE EndWait \/ Install \/ EndInstall \/ CloseInstall
      BY <1>c, <1>e, <2>3 DEF EndWait, Install, EndInstall, CloseInstall, UpdateRuns
    <2>4. CASE BeginCheck \/ RefuseCheck \/ EndCheck
      BY <1>d, <1>e, <2>4 DEF BeginCheck, RefuseCheck, EndCheck
    <2>5. CASE Publish \/ Reconcile
      BY <1>a, <1>b, <2>5 DEF Publish, Reconcile, WorldTyped
    <2>6. CASE UpdateDies \/ RecoverDead
      BY <1>c, <1>e, <2>6 DEF UpdateDies, RecoverDead, UpdateRuns
    <2> QED
      BY <2>1, <2>2, <2>3, <2>4, <2>5, <2>6 DEF UpdateStep, CheckStep
  <1>g. FlagsTyped' /\ TasksTyped'
    BY <1>a, <1>f DEF session, FlagsTyped, TasksTyped
  <1> QED
    BY <1>f, <1>g, TypesInParts

LEMMA BridgeTypePreserved == ASSUME TypeOK, [Next]_vars PROVE TypeOK'
  <1>1. CASE UNCHANGED vars
    BY <1>1 DEF vars, world, session, TypeOK
  <1>2. CASE Next
    BY <1>2, TaskTypes, UserTypes, UpdaterTypes DEF Next
  <1> QED BY <1>1, <1>2

LEMMA BridgeTypedInitially == Init => TypeOK
  <1> SUFFICES ASSUME Init PROVE TypeOK
    OBVIOUS
  <1>1. rec \in Records
    BY RecordTyped DEF Init, States
  <1>2. newer \in BOOLEAN
    BY DEF Init
  <1>3. 0 \in 0 .. Outages /\ 0 \in Int
    BY BridgeAssumption
  <1> QED
    BY <1>1, <1>2, <1>3, NoneIsNoIndex DEF Init, TypeOK, TaskPcs

(* Every variable of the bridge keeps its type; in particular the index of the
   next tick never runs past the last delay (update-bridge.cjs:429). *)
THEOREM BridgeTypes == Spec => []TypeOK
  <1> QED
    BY BridgeTypedInitially, BridgeTypePreserved, PTL DEF Spec
-----------------------------------------------------------------------------
(* What a task does with its answer: it ends, or awaits something else. *)

Stepped(t) ==
    \E l \in TaskPcs : /\ pc' = [pc EXCEPT ![t] = l]
                       /\ snap' = [snap EXCEPT ![t] = None]

LEMMA StepsOn ==
  ASSUME NEW t, NEW state, NEW pending,
         \/ End(t) \/ (\E l \in TaskPcs : Await(t, l))
         \/ FinishTick(t, state, pending) \/ PollReturns(t, state, pending)
  PROVE  Stepped(t)
  <1>1. "off" \in TaskPcs /\ "checking" \in TaskPcs
    BY DEF TaskPcs
  <1>2. CASE End(t)
    BY <1>1, <1>2 DEF End, Stepped
  <1>3. CASE \E l \in TaskPcs : Await(t, l)
    BY <1>3 DEF Await, Stepped
  <1>4. CASE FinishTick(t, state, pending)
    BY <1>1, <1>4 DEF FinishTick, End, Stepped
  <1>5. CASE PollReturns(t, state, pending)
    BY <1>1, <1>5 DEF PollReturns, TickGoesOn, FinishTick, End, Await, Stepped
  <1> QED
    BY <1>2, <1>3, <1>4, <1>5

LEMMA TaskSteps ==
  ASSUME NEW t \in Tasks,
         \/ TaskStep(t) /\ ~ReadStatus(t) /\ ~LoseStatus(t)
         \/ DismissFailure(t) \/ RetryFailure(t) \/ EndAdvice(t)
  PROVE  Stepped(t) /\ pc[t] # "off" /\ UNCHANGED app
  <1>0. "asking" \in TaskPcs /\ "advising" \in TaskPcs /\ "retrying" \in TaskPcs
    BY DEF TaskPcs
  <1>1. CASE ShowFailure(t) \/ AdviseManually(t) \/ RetryFailure(t)
    BY <1>0, <1>1, StepsOn DEF ShowFailure, AdviseManually, RetryFailure, Resume, world
  <1>2. CASE RequestQuit(t) \/ ResumePoll(t) \/ ResumeRetry(t) \/ DismissFailure(t)
    BY <1>2, StepsOn DEF RequestQuit, ResumePoll, ResumeRetry, DismissFailure, Resume, world
  <1>3. CASE ResumeCheck(t)
    BY <1>3, StepsOn DEF ResumeCheck, Resume
  <1>4. CASE StartUpdate(t) \/ FollowUpdate(t) \/ EndAdvice(t)
    BY <1>4, StepsOn DEF StartUpdate, FollowUpdate, EndAdvice, Resume, world
  <1> QED
    BY <1>1, <1>2, <1>3, <1>4 DEF TaskStep

(* The flags and the record after a step of a task. *)
LEMMA TaskLeaves ==
  ASSUME NEW t \in Tasks,
         \/ TaskStep(t) /\ ~StartUpdate(t)
         \/ DismissFailure(t) \/ RetryFailure(t) \/ EndAdvice(t)
  PROVE  UNCHANGED <<rec, newer, update, app>> /\ (armed' => armed)
  <1>1. CASE ReadStatus(t) \/ LoseStatus(t)
    BY <1>1 DEF ReadStatus, LoseStatus, world
  <1>2. CASE ShowFailure(t) \/ RequestQuit(t) \/ ResumePoll(t)
    BY <1>2 DEF ShowFailure, RequestQuit, ResumePoll, Resume, Arms, world
  <1>3. CASE ResumeRetry(t) \/ ResumeCheck(t)
    BY <1>3 DEF ResumeRetry, ResumeCheck, Resume, Arms
  <1>4. CASE AdviseManually(t) \/ FollowUpdate(t)
    BY <1>4 DEF AdviseManually, FollowUpdate, Resume, Arms, world
  <1>5. CASE DismissFailure(t) \/ RetryFailure(t) \/ EndAdvice(t)
    BY <1>5 DEF DismissFailure, RetryFailure, EndAdvice, world
  <1> QED
    BY <1>1, <1>2, <1>3, <1>4, <1>5 DEF TaskStep

-----------------------------------------------------------------------------
(* RecordFits, TasksFit and OffersHold. *)

LEMMA RecordKept ==
  ASSUME RecordFits, UNCHANGED <<rec, newer>>, update' \in {update, "starting"}
  PROVE  RecordFits'
  BY DEF RecordFits

LEMMA UpdaterFits ==
  ASSUME TypeOK, RecordFits,
         UpdateStep \/ CheckStep \/ UpdateDies \/ RecoverDead \/ Reconcile
  PROVE  RecordFits'
  <1>0. newer \in BOOLEAN /\ rec.requested \in BOOLEAN
    BY DEF TypeOK, Records
  <1>a. ASSUME NEW from, NEW to, UpdateRuns(from, to)
        PROVE  /\ update = from /\ update' = to
               /\ newer /\ rec'.state # "installed" => newer'
    BY <1>a DEF UpdateRuns
  <1> USE <1>0, <1>a DEF RecordFits, Updater!Record
  <1>1. CASE BeginUpdate
    BY <1>1 DEF BeginUpdate, Updater!Prepare, Updater!Request
  <1>2. CASE EndPreparation
    BY <1>2 DEF EndPreparation, Updater!Retain
  <1>3. CASE RejectCandidate
    BY <1>3 DEF RejectCandidate, Updater!Reject
  <1>4. CASE RequestInstall
    BY <1>4 DEF RequestInstall, Updater!Request
  <1>5. CASE EndWait
    BY <1>5 DEF EndWait, Updater!Cancel
  <1>6. CASE Install
    BY <1>6 DEF Install, Updater!Install
  <1>7. CASE EndInstall
    BY <1>7 DEF EndInstall, Updater!Deny, Updater!Settle
  <1>8. CASE CloseInstall
    BY <1>8 DEF CloseInstall, Updater!Close
  <1>9. CASE RefuseUpdate \/ UpdateDies
    BY <1>9 DEF RefuseUpdate, UpdateDies
  <1>10. CASE RecoverDead
    BY <1>10 DEF RecoverDead, Updater!RecoverStale, Updater!Cancel, Updater!RecoverInstall
  <1>11. CASE Reconcile
    BY <1>11 DEF Reconcile, Updater!Reconcile
  <1>12. CASE BeginCheck \/ RefuseCheck
    BY <1>12 DEF BeginCheck, RefuseCheck, MayCheck, CheckRuns, Updater!Query
  <1>13. CASE EndCheck
    BY <1>13 DEF EndCheck, CheckRuns, Updater!Answer, Updater!FailCheck,
       Updater!RecoverStale, Updater!Cancel
  <1>14. CASE Publish
    BY <1>14 DEF Publish
  <1> QED
    BY <1>1, <1>2, <1>3, <1>4, <1>5, <1>6, <1>7, <1>8, <1>9, <1>10, <1>11, <1>12, <1>13,
       <1>14 DEF UpdateStep, CheckStep

LEMMA SteppedFits ==
  ASSUME TypeOK, TasksFit, NEW t \in Tasks, Stepped(t), pc[t] # "off", UNCHANGED app
  PROVE  TasksFit'
  <1>1. app'
    BY DEF TasksFit
  <1>2. ASSUME NEW u \in Tasks, pc'[u] \in {"off", "asking", "advising"}
        PROVE  snap'[u] = None
    BY <1>2 DEF Stepped, TasksFit, TypeOK
  <1> QED
    BY <1>1, <1>2 DEF TasksFit

LEMMA TasksFitKept ==
  ASSUME TypeOK, TasksFit, Next
  PROVE  TasksFit'
  <1>1. ASSUME NEW t \in Tasks, ReadStatus(t) \/ LoseStatus(t) PROVE TasksFit'
    <2>1. /\ pc' = pc /\ app' = app /\ timer' = timer
          /\ pc[t] \in {"polling", "retrying", "checking", "installing"}
          /\ \A u \in Tasks : u # t => snap'[u] = snap[u]
      BY <1>1 DEF ReadStatus, LoseStatus, world, TypeOK
    <2> QED
      BY <2>1 DEF TasksFit
  <1>2. ASSUME NEW t \in Tasks,
               \/ TaskStep(t) /\ ~ReadStatus(t) /\ ~LoseStatus(t)
               \/ DismissFailure(t) \/ RetryFailure(t) \/ EndAdvice(t)
        PROVE  TasksFit'
    BY <1>2, TaskSteps, SteppedFits
  <1>3. ASSUME NEW c \in Calls, BeginCall(c) PROVE TasksFit'
    BY <1>3 DEF BeginCall, world, TasksFit, TypeOK
  <1>4. ASSUME NEW t \in Ticks, FireTimer(t) PROVE TasksFit'
    <2>1. app
      BY <1>4 DEF FireTimer, TasksFit
    <2> QED
      BY <1>4, <2>1 DEF FireTimer, world, TasksFit, TypeOK
  <1>5. CASE AppStarts
    BY <1>5 DEF AppStarts, NewSession, TasksFit
  <1>6. CASE AppExits
    BY <1>6 DEF AppExits, NewSession, TasksFit
  <1>7. CASE UNCHANGED <<session, app>>
    BY <1>7 DEF session, TasksFit
  <1>8. CASE CancelQuit \/ UpdateStep \/ CheckStep \/ UpdateDies \/ RecoverDead \/ Reconcile
    <2>1. CASE CancelQuit \/ UpdateDies \/ RecoverDead \/ Reconcile
      BY <1>7, <2>1 DEF CancelQuit, UpdateDies, RecoverDead, Reconcile, UpdateRuns
    <2>2. CASE UpdateStep
      BY <1>7, <2>2 DEF UpdateStep, BeginUpdate, RefuseUpdate, EndPreparation,
         RejectCandidate, RequestInstall, EndWait, Install, EndInstall, CloseInstall,
         UpdateRuns
    <2>3. CASE CheckStep
      BY <1>7, <2>3 DEF CheckStep, BeginCheck, RefuseCheck, EndCheck, Publish, CheckRuns
    <2> QED BY <1>8, <2>1, <2>2, <2>3
  <1> QED
    BY <1>1, <1>2, <1>3, <1>4, <1>5, <1>6, <1>8 DEF Next, UserStep

LEMMA OffersKept ==
  ASSUME OffersHold, UNCHANGED <<rec, newer>>,
         app' /\ armed' /\ update' = "starting"
           => (app /\ armed /\ update = "starting") \/ Offered,
         \A u \in Tasks : snap'[u] \in {None, snap[u]}
  PROVE  OffersHold'
  BY DEF OffersHold, Offered

LEMMA OffersOfTasks ==
  ASSUME TypeOK, RecordFits, OffersHold, NEW t \in Tasks,
         TaskStep(t) \/ DismissFailure(t) \/ RetryFailure(t) \/ EndAdvice(t)
  PROVE  OffersHold'
  <1>1. CASE ReadStatus(t)
    <2>1. Snapshot(rec).state \in UserOperationStartStates => Offered
      BY DEF Snapshot, UserOperationStartStates, RecordFits, Offered
    <2>2. /\ UNCHANGED <<rec, newer, update, app, armed>>
          /\ \A u \in Tasks : snap'[u] = IF u = t THEN Snapshot(rec) ELSE snap[u]
      BY <1>1 DEF ReadStatus, TypeOK
    <2> QED
      BY <2>1, <2>2 DEF OffersHold, Offered
  <1>2. CASE LoseStatus(t)
    <2>1. \A s \in {Failed, Unavailable} : s.state \notin UserOperationStartStates
      BY DEF Failed, Unavailable, UserOperationStartStates
    <2>2. /\ UNCHANGED <<rec, newer, update, app, armed>>
          /\ \A u \in Tasks : snap'[u] = snap[u] \/ snap'[u] \in {Failed, Unavailable}
      BY <1>2 DEF LoseStatus, world, TypeOK
    <2> QED
      BY <2>1, <2>2 DEF OffersHold, Offered
  <1>3. CASE ~ReadStatus(t) /\ ~LoseStatus(t)
    <2>1. \A u \in Tasks : snap'[u] \in {None, snap[u]}
      BY <1>3, TaskSteps DEF Stepped, TypeOK
    <2>2. CASE StartUpdate(t)
      <3>1. Offered
        BY <2>2 DEF StartUpdate, MayStartUpdate, OffersHold
      <3>2. UNCHANGED <<rec, newer>>
        BY <2>2 DEF StartUpdate
      <3> QED
        BY <2>1, <3>1, <3>2, OffersKept
    <2>3. CASE ~StartUpdate(t)
      <3>1. UNCHANGED <<rec, newer, update, app>> /\ (armed' => armed)
        BY <2>3, TaskLeaves
      <3> QED
        BY <2>1, <3>1, OffersKept
    <2> QED BY <2>2, <2>3
  <1> QED BY <1>1, <1>2, <1>3

LEMMA OffersOfUser ==
  ASSUME TypeOK, OffersHold, TasksFit,
         \/ \E c \in Calls : BeginCall(c)
         \/ \E t \in Ticks : FireTimer(t)
         \/ AppStarts \/ AppExits \/ CancelQuit
  PROVE  OffersHold'
  <1>1. CASE \/ \E c \in Calls : BeginCall(c)
             \/ \E t \in Ticks : FireTimer(t)
             \/ CancelQuit
    <2>1. UNCHANGED <<rec, newer, update, app, armed, snap>>
      BY <1>1 DEF BeginCall, FireTimer, CancelQuit, world, session
    <2> QED
      BY <2>1 DEF OffersHold, Offered
  <1>2. CASE AppStarts \/ AppExits
    <2>1. UNCHANGED <<rec, newer>> /\ ~armed' /\ \A u \in Tasks : snap'[u] = None
      BY <1>2 DEF AppStarts, AppExits, NewSession
    <2> QED
      BY <2>1, OffersKept
  <1> QED BY <1>1, <1>2

(* What the updater does ends an offer only with an installation, and that one
   begins while the application is not there to have seen it. *)
LEMMA OffersOfUpdater ==
  ASSUME TypeOK, RecordFits, OffersHold, TasksFit,
         UpdateStep \/ CheckStep \/ UpdateDies \/ RecoverDead \/ Reconcile
  PROVE  OffersHold'
  <1>a. ASSUME UNCHANGED <<app, armed, snap>>, update' \in {update} \/ update' # "starting",
               Offered => Offered'
        PROVE  OffersHold'
    BY <1>a DEF OffersHold
  <1>1. CASE UpdateStep \/ UpdateDies \/ RecoverDead
    <2>1. UNCHANGED <<app, armed, snap>> /\ update' # "starting"
      BY <1>1 DEF UpdateStep, BeginUpdate, RefuseUpdate, EndPreparation, RejectCandidate,
         RequestInstall, EndWait, Install, EndInstall, CloseInstall, UpdateDies, RecoverDead,
         UpdateRuns, session
    <2>2. CASE Install
      <3>1. \A u \in Tasks : snap[u] = None
        BY <2>2 DEF Install, TasksFit
      <3> QED
        BY <2>1, <2>2, <3>1 DEF Install, OffersHold
    <2>3. CASE ~Install
      <3>0. newer \in BOOLEAN
        BY DEF TypeOK
      <3>a. ASSUME NEW from, NEW to, UpdateRuns(from, to)
            PROVE  newer /\ (rec'.state # "installed" \/ rec' = rec) => newer'
        BY <3>a DEF UpdateRuns
      <3> USE <3>0, <3>a DEF Offered, Updater!Record
      <3>1. CASE BeginUpdate \/ EndPreparation \/ RequestInstall
        BY <1>a, <2>1, <3>1 DEF BeginUpdate, EndPreparation, RequestInstall,
           Updater!Prepare, Updater!Retain, Updater!Request
      <3>2. CASE RejectCandidate
        BY <1>a, <2>1, <3>2 DEF RejectCandidate, Updater!Reject
      <3>3. CASE EndWait
        BY <1>a, <2>1, <3>3 DEF EndWait, Updater!Cancel
      <3>4. CASE EndInstall \/ CloseInstall
        BY <1>a, <2>1, <3>4 DEF EndInstall, CloseInstall, Updater!Deny, Updater!Settle,
           Updater!Close
      <3>5. CASE RefuseUpdate \/ UpdateDies
        BY <1>a, <2>1, <3>5 DEF RefuseUpdate, UpdateDies
      <3>6. CASE RecoverDead
        BY <1>a, <2>1, <3>6 DEF RecoverDead, Updater!RecoverStale, Updater!Cancel,
           Updater!RecoverInstall
      <3> QED
        BY <1>1, <2>3, <3>1, <3>2, <3>3, <3>4, <3>5, <3>6 DEF UpdateStep
    <2> QED
      BY <2>2, <2>3
  <1>2. CASE CheckStep \/ Reconcile
    <2> USE DEF Offered, Updater!Record
    <2>1. UNCHANGED <<app, armed, snap, update>>
      BY <1>2 DEF CheckStep, BeginCheck, RefuseCheck, EndCheck, Publish, Reconcile,
         CheckRuns, session
    <2>2. CASE BeginCheck \/ RefuseCheck
      BY <1>a, <2>1, <2>2 DEF BeginCheck, RefuseCheck, CheckRuns, Updater!Query
    <2>3. CASE EndCheck
      BY <1>a, <2>1, <2>3 DEF EndCheck, CheckRuns, Updater!Answer, Updater!FailCheck,
         Updater!RecoverStale, Updater!Cancel
    <2>4. CASE Publish \/ Reconcile
      BY <1>a, <2>1, <2>4 DEF Publish, Reconcile, Updater!Reconcile
    <2> QED
      BY <1>2, <2>2, <2>3, <2>4 DEF CheckStep
  <1> QED
    BY <1>1, <1>2

-----------------------------------------------------------------------------
(* Followed. *)

(* A step of one task keeps a working update polled if the timer and the other
   ticks go on, and it does so itself when it was the one. *)
LEMMA Chained ==
  ASSUME Followed, NEW t,
         Owing' => Owing,
         timer # None => timer' # None,
         \A u \in Ticks : u # t => (Carries(u) => Carries(u)'),
         Owing' /\ t \in Ticks /\ Carries(t) => Carries(t)' \/ timer' # None
  PROVE  Followed'
  BY DEF Followed

LEMMA OthersCarry ==
  ASSUME TypeOK, NEW t, Stepped(t)
  PROVE  \A u \in Ticks : u # t => (Carries(u) => Carries(u)')
  <1> SUFFICES ASSUME NEW u \in Ticks, u # t, Carries(u) PROVE Carries(u)'
    OBVIOUS
  <1>1. pc'[u] = pc[u] /\ snap'[u] = snap[u]
    BY DEF Stepped, TypeOK, Tasks
  <1> QED
    BY <1>1 DEF Carries

LEMMA OwedStays ==
  ASSUME UNCHANGED <<rec, update, app, outages>>, armed' => armed
  PROVE  Owing' => Owing
  BY DEF Owing

(* An answer that leaves the operation armed shows it at work. *)
LEMMA GoodArmed ==
  ASSUME NEW s, Good(s), Arms(s)
  PROVE  s.state \in ActiveUpdateStates \union UserOperationStartStates
  BY DEF Good, Arms, Released

LEMMA TimerKept ==
  ASSUME TypeOK, NEW t \in Tasks, NEW state, NEW pending \in Indexes \union {None},
         pending # None,
         PollReturns(t, state, pending) \/ FinishTick(t, state, pending)
  PROVE  timer' # None
  <1>1. ASSUME FinishTick(t, state, pending) PROVE timer' # None
    BY <1>1 DEF FinishTick, Queued
  <1>2. CASE PollReturns(t, state, pending)
    BY <1>1, <1>2 DEF PollReturns, TickGoesOn
  <1> QED BY <1>1, <1>2

(* A tick that sees an armed operation at work queues the next one. *)
LEMMA TickFollows ==
  ASSUME TypeOK, NEW t \in Ticks, NEW state, NEW pending \in Indexes \union {None},
         armed', state \in ActiveUpdateStates \union UserOperationStartStates,
         PollReturns(t, state, pending) \/ FinishTick(t, state, pending)
  PROVE  timer' # None
  <1>0. /\ state \notin {"failed", "idle"}
        /\ state \in ActiveUpdateStates \/ ~Terminal(state, armed')
        /\ t \notin Calls
    BY BridgeAssumption DEF ActiveUpdateStates, UserOperationStartStates, Terminal
  <1>1. idx[t] + 1 \in Nat
    <2>1. idx[t] \in Indexes
      BY DEF TypeOK, Tasks
    <2> QED BY <2>1, BridgeAssumption DEF Indexes
  <1>2. ASSUME FinishTick(t, state, pending) PROVE timer' # None
    <2>1. Follows(t, state)
      BY <1>0 DEF Follows
    <2>2. timer' = Queued(pending, idx[t] + 1)
      BY <1>2, <2>1 DEF FinishTick
    <2> QED
      BY <1>1, <2>2, QueuedTyped
  <1>3. CASE PollReturns(t, state, pending)
    BY <1>0, <1>2, <1>3 DEF PollReturns, TickGoesOn
  <1> QED BY <1>2, <1>3

(* checkNow leaves an armed operation alone, and sees it at work. *)
LEMMA CheckFollows ==
  ASSUME TypeOK, NEW s
  PROVE  /\ CheckQueues(s) \in Indexes \union {None}
         /\ timer # None => CheckQueues(s) # None
         /\ Arms(s) => CheckedState(s) = s.state
  <1>1. timer # None => CheckQueues(s) # None
    BY DEF CheckQueues, Queued
  <1>2. Arms(s) => CheckedState(s) = s.state
    BY DEF CheckedState, MaySpawnCheck
  <1> QED BY <1>1, <1>2, CheckQueuesTyped

LEMMA FollowedByTask ==
  ASSUME FollowInv, NEW t \in Tasks, TaskStep(t)
  PROVE  Followed'
  <1> USE DEF FollowInv
  <1>a. timer \in Indexes \union {None} /\ outages \in Nat
    BY BridgeAssumption DEF TypeOK
  <1>b. ASSUME ~StartUpdate(t), UNCHANGED outages PROVE Owing' => Owing
    BY <1>b, TaskLeaves, OwedStays
  <1>c. ASSUME ~ReadStatus(t), ~LoseStatus(t)
        PROVE  \A u \in Ticks : u # t => (Carries(u) => Carries(u)')
    BY <1>c, TaskSteps, OthersCarry
  <1>1. CASE ReadStatus(t)
    <2>1. UNCHANGED <<rec, update, app, armed, outages, timer, pc>>
      BY <1>1 DEF ReadStatus
    <2>2. \A u \in Tasks : snap'[u] = IF u = t THEN Snapshot(rec) ELSE snap[u]
      BY <1>1 DEF ReadStatus, TypeOK
    <2>3. Owing' => Owing
      BY <2>1, OwedStays
    <2>4. \A u \in Ticks : u # t => (Carries(u) => Carries(u)')
      BY <2>1, <2>2 DEF Carries, Tasks
    <2>5. Owing => Good(Snapshot(rec))
      <3> SUFFICES ASSUME Owing PROVE Good(Snapshot(rec))
        OBVIOUS
      <3>1. /\ Snapshot(rec).state = rec.state
            /\ Snapshot(rec).requested = rec.requested
        BY DEF Snapshot
      <3>2. rec.state \in States \ {"update-manager-unavailable"}
        BY DEF TypeOK, Records
      <3>3. rec.state \notin {"idle", "install-failed-manual-action"}
        BY DEF Owing, RecordFits, OffersHold, Offered
      <3>4. rec.state \in {"installed", "failed"} => ~rec.requested
        BY DEF Owing, RecordFits, OffersHold, Offered
      <3> QED
        BY <3>1, <3>2, <3>3, <3>4
           DEF Good, States, ActiveUpdateStates, UserOperationStartStates, OutcomeStates
    <2>6. Owing' /\ t \in Ticks /\ Carries(t) => Carries(t)'
      BY <2>1, <2>2, <2>3, <2>5 DEF Carries
    <2> QED
      BY <2>1, <2>3, <2>4, <2>6, Chained
  <1>2. CASE LoseStatus(t)
    <2>1. outages' # 0
      BY <1>2, <1>a DEF LoseStatus
    <2> QED
      BY <2>1 DEF Followed, Owing
  <1>3. CASE ShowFailure(t)
    <2>1. ~armed'
      BY <1>3 DEF ShowFailure, Resume, IsNews
    <2> QED
      BY <2>1 DEF Followed, Owing
  <1>4. CASE RequestQuit(t) \/ ResumePoll(t)
    <2>1. /\ PollReturns(t, snap[t].state, timer) /\ armed' = Arms(snap[t])
          /\ snap[t] # None /\ UNCHANGED outages
      BY <1>4 DEF RequestQuit, ResumePoll, Resume
    <2>2. ~StartUpdate(t) /\ ~ReadStatus(t) /\ ~LoseStatus(t)
      BY <1>4 DEF RequestQuit, ResumePoll, Resume, StartUpdate, ReadStatus, LoseStatus
    <2>3. timer # None => timer' # None
      BY <1>a, <2>1, TimerKept
    <2>4. Owing' /\ t \in Ticks /\ Carries(t) => timer' # None
      BY <1>a, <2>1, GoodArmed, TickFollows DEF Owing, Carries
    <2> QED
      BY <1>b, <1>c, <2>1, <2>2, <2>3, <2>4, Chained
  <1>5. CASE ResumeRetry(t)
    <2> DEFINE s == snap[t]
    <2>1. /\ PollReturns(t, CheckedState(s), CheckQueues(s)) /\ armed' = Arms(s)
          /\ s # None /\ UNCHANGED outages
      BY <1>5 DEF ResumeRetry, Resume
    <2>2. ~StartUpdate(t) /\ ~ReadStatus(t) /\ ~LoseStatus(t)
      BY <1>5 DEF ResumeRetry, Resume, StartUpdate, ReadStatus, LoseStatus
    <2>3. timer # None => timer' # None
      BY <2>1, CheckFollows, TimerKept
    <2>4. Owing' /\ t \in Ticks /\ Carries(t) => timer' # None
      BY <2>1, CheckFollows, GoodArmed, TickFollows DEF Owing, Carries
    <2> QED
      BY <1>b, <1>c, <2>1, <2>2, <2>3, <2>4, Chained
  <1>6. CASE ResumeCheck(t)
    <2> DEFINE s == snap[t]
    <2>1. /\ \/ t \in Ticks /\ FinishTick(t, CheckedState(s), CheckQueues(s))
             \/ t \in Calls /\ timer' = CheckQueues(s)
          /\ armed' = Arms(s) /\ s # None /\ UNCHANGED outages
      BY <1>6 DEF ResumeCheck, Resume
    <2>2. ~StartUpdate(t) /\ ~ReadStatus(t) /\ ~LoseStatus(t)
      BY <1>6 DEF ResumeCheck, Resume, StartUpdate, ReadStatus, LoseStatus
    <2>3. timer # None => timer' # None
      BY <2>1, CheckFollows, TimerKept
    <2>4. Owing' /\ t \in Ticks /\ Carries(t) => timer' # None
      <3> SUFFICES ASSUME Owing', t \in Ticks, Carries(t) PROVE timer' # None
        OBVIOUS
      <3>1. t \notin Calls
        BY BridgeAssumption
      <3>2. armed' /\ Good(s) /\ Arms(s)
        BY <2>1 DEF Owing, Carries
      <3> QED
        BY <2>1, <3>1, <3>2, CheckFollows, GoodArmed, TickFollows
    <2> QED
      BY <1>b, <1>c, <2>1, <2>2, <2>3, <2>4, Chained
  <1>7. CASE AdviseManually(t) \/ FollowUpdate(t)
    <2>1. /\ pc[t] = "installing" /\ snap[t] # None /\ UNCHANGED outages
          /\ timer # None => timer' # None
      BY <1>7 DEF AdviseManually, FollowUpdate, Resume, Queued
    <2>2. ~StartUpdate(t) /\ ~ReadStatus(t) /\ ~LoseStatus(t)
      BY <1>7 DEF AdviseManually, FollowUpdate, Resume, StartUpdate, ReadStatus, LoseStatus,
         MayStartUpdate, UserOperationStartStates
    <2>3. ~Carries(t)
      BY <2>1 DEF Carries
    <2> QED
      BY <1>b, <1>c, <2>1, <2>2, <2>3, Chained
  <1>8. CASE StartUpdate(t)
    <2>1. timer' # None
      BY <1>8, <1>a, QueuedTyped DEF StartUpdate
    <2> QED
      BY <2>1 DEF Followed
  <1> QED
    BY <1>1, <1>2, <1>3, <1>4, <1>5, <1>6, <1>7, <1>8 DEF TaskStep

LEMMA FollowedByUser ==
  ASSUME FollowInv, UserStep \/ \E t \in Ticks : FireTimer(t)
  PROVE  Followed'
  <1> USE DEF FollowInv
  <1>1. ASSUME NEW t \in Tasks, DismissFailure(t) \/ RetryFailure(t) \/ EndAdvice(t)
        PROVE  Followed'
    <2>1. UNCHANGED <<rec, update, app, outages>> /\ (armed' => armed)
      BY <1>1 DEF DismissFailure, RetryFailure, EndAdvice, world
    <2>2. Owing' => Owing
      BY <2>1, OwedStays
    <2>3. \A u \in Ticks : u # t => (Carries(u) => Carries(u)')
      BY <1>1, TaskSteps, OthersCarry
    <2>4. ~Carries(t)
      BY <1>1 DEF DismissFailure, RetryFailure, EndAdvice, Carries
    <2>5. timer \in Indexes \union {None}
      BY DEF TypeOK
    <2>6. timer # None => timer' # None
      BY <1>1, <2>5, TimerKept DEF DismissFailure, RetryFailure, EndAdvice
    <2> QED
      BY <2>2, <2>3, <2>4, <2>6, Chained
  <1>2. ASSUME NEW c \in Calls, BeginCall(c) PROVE Followed'
    <2>1. UNCHANGED <<rec, update, app, outages, armed, timer, snap>>
      BY <1>2 DEF BeginCall, world
    <2>2. \A u \in Ticks : u # c /\ pc'[u] = pc[u]
      BY <1>2, BridgeAssumption DEF BeginCall, TypeOK, Tasks
    <2>3. \A u \in Ticks : Carries(u) => Carries(u)'
      BY <2>1, <2>2 DEF Carries
    <2> QED
      BY <2>1, <2>2, <2>3, OwedStays, Chained
  <1>3. ASSUME NEW t \in Ticks, FireTimer(t) PROVE Followed'
    <2>1. pc'[t] = "polling" /\ snap'[t] = None
      BY <1>3 DEF FireTimer, TypeOK, TasksFit, Tasks
    <2> QED
      BY <2>1 DEF Followed, Carries
  <1>4. CASE AppStarts \/ AppExits
    <2>1. ~armed'
      BY <1>4 DEF AppStarts, AppExits, NewSession
    <2> QED
      BY <2>1 DEF Followed, Owing
  <1>5. CASE CancelQuit
    BY <1>5 DEF CancelQuit, session, Followed, Owing, Carries
  <1> QED
    BY <1>1, <1>2, <1>3, <1>4, <1>5 DEF UserStep

(* The updater does not touch the bridge; what it makes of the record keeps a
   working update one that was working before. *)
LEMMA FollowedByUpdater ==
  ASSUME FollowInv, UpdateStep \/ CheckStep \/ UpdateDies \/ RecoverDead \/ Reconcile
  PROVE  Followed'
  <1>1. UNCHANGED <<session, app>>
    BY DEF UpdateStep, BeginUpdate, RefuseUpdate, EndPreparation, RejectCandidate,
       RequestInstall, EndWait, Install, EndInstall, CloseInstall, UpdateDies, RecoverDead,
       Reconcile, CheckStep, BeginCheck, RefuseCheck, EndCheck, Publish, UpdateRuns, CheckRuns
  <1>2. update' \in {"starting", "preparing", "announced", "waiting"}
          => update \in {"starting", "preparing", "announced", "waiting"}
    BY DEF UpdateStep, BeginUpdate, RefuseUpdate, EndPreparation, RejectCandidate,
       RequestInstall, EndWait, Install, EndInstall, CloseInstall, UpdateDies, RecoverDead,
       Reconcile, CheckStep, BeginCheck, RefuseCheck, EndCheck, Publish, UpdateRuns, CheckRuns
  <1>3. Owing' => Owing
    BY <1>1, <1>2 DEF Owing, session
  <1>4. \A u \in Ticks : Carries(u) => Carries(u)'
    BY <1>1 DEF Carries, session
  <1>5. timer' = timer
    BY <1>1 DEF session
  <1> QED
    BY <1>3, <1>4, <1>5 DEF FollowInv, Followed

LEMMA FollowPreserved == ASSUME FollowInv, [Next]_vars PROVE FollowInv'
  <1> USE DEF FollowInv
  <1>1. CASE UNCHANGED vars
    <2>1. TypeOK'
      BY BridgeTypePreserved
    <2>2. RecordFits' /\ OffersHold' /\ TasksFit'
      BY <1>1 DEF vars, world, session, RecordFits, OffersHold, Offered, TasksFit
    <2>3. Followed'
      BY <1>1 DEF vars, world, session, Followed, Owing, Carries
    <2> QED BY <2>1, <2>2, <2>3
  <1>2. CASE Next
    <2>1. TypeOK'
      BY BridgeTypePreserved
    <2>2. TasksFit'
      BY <1>2, TasksFitKept
    <2>3. RecordFits'
      <3>1. ASSUME NEW t \in Tasks, TaskStep(t) \/ DismissFailure(t) \/ RetryFailure(t) \/ EndAdvice(t)
            PROVE  RecordFits'
        <4>1. CASE StartUpdate(t)
          BY <4>1, RecordKept DEF StartUpdate
        <4>2. CASE ~StartUpdate(t)
          BY <3>1, <4>2, TaskLeaves, RecordKept
        <4> QED BY <4>1, <4>2
      <3>2. CASE \/ \E c \in Calls : BeginCall(c)
                 \/ \E t \in Ticks : FireTimer(t)
                 \/ AppStarts \/ AppExits \/ CancelQuit
        BY <3>2, RecordKept DEF BeginCall, FireTimer, AppStarts, AppExits, CancelQuit, world
      <3> QED
        BY <1>2, <3>1, <3>2, UpdaterFits DEF Next, UserStep
    <2>4. OffersHold'
      BY <1>2, OffersOfTasks, OffersOfUser, OffersOfUpdater DEF Next, UserStep
    <2>5. Followed'
      BY <1>2, FollowedByTask, FollowedByUser, FollowedByUpdater DEF Next
    <2> QED BY <2>1, <2>2, <2>3, <2>4, <2>5
  <1> QED BY <1>1, <1>2

LEMMA FollowInitially == Init => FollowInv
  <1> SUFFICES ASSUME Init PROVE FollowInv
    OBVIOUS
  <1>1. RecordFits
    <2>1. /\ rec.requested => rec.state \in {"installed", "install-failed-manual-action"}
          /\ rec.state \notin {"preparing", "installing"}
      BY DEF Init, Record
    <2>2. update = "none" /\ newer = (rec.state \in UserOperationStartStates)
      BY DEF Init
    <2> HIDE DEF Init
    <2> QED
      BY <2>1, <2>2 DEF RecordFits, UserOperationStartStates
  <1>2. OffersHold /\ TasksFit
    BY DEF Init, OffersHold, TasksFit
  <1>3. Followed
    BY DEF Init, Followed, Owing
  <1> QED
    BY <1>1, <1>2, <1>3, BridgeTypedInitially DEF FollowInv

(* While an update of this session works, a tick is in progress or queued, for
   any number of calls and ticks that overlap: no late answer, dialog or check
   ends the polling that will ask to quit (update-bridge.cjs:429, :464). *)
THEOREM WorkIsFollowed == Spec => []PollerFollows
  <1>1. FollowInv => PollerFollows
    BY DEF FollowInv, RecordFits, Followed, Owing, Carries, PollerFollows, Polling
  <1> QED
    BY <1>1, FollowInitially, FollowPreserved, PTL DEF Spec
=============================================================================
