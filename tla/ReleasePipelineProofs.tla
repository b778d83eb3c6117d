----------------------- MODULE ReleasePipelineProofs -----------------------
(* Proofs about ReleasePipeline, for any versions, runs and interventions:   *)
(* what main names as accepted is a published release and never an older     *)
(* one than before.                                                          *)
EXTENDS ReleasePipeline, TLAPS

(* Some tag carries the highest revision: Max is defined on the tags. *)
HasHighest ==
    \E t \in releases : \A u \in releases : u.revision <= t.revision

(* A run that records has published what it records. *)
RunsHavePublished ==
    \A r \in Runs :
      run[r].pc \in {"published", "recording"}
        => \E t \in releases :
             t.version = run[r].version /\ t.commit = run[r].commit

(* A record about to be written does not regress from the one it replaces. *)
RecordsAdvance ==
    \A r \in Runs :
      run[r].pc = "recording" => run[r].version >= run[r].read.version

(* The record alone is not inductive: PutAccepted needs what its run did two
   steps before, and the revision of a dispatch needs a highest tag. *)
PipelineInv ==
    /\ TypeOK
    /\ HasHighest
    /\ AcceptedIsPublished
    /\ RunsHavePublished
    /\ RecordsAdvance

-----------------------------------------------------------------------------
(* Idle runs and watches are well typed. *)
LEMMA IdleTypes ==
    /\ NoRun \in [pc : RunPcs, version : Versions, revision : Nat \ {0},
                  ref : Refs, commit : Nat, read : Records]
    /\ NoWatch \in [pc : WatchPcs, accepted : Versions, version : Versions,
                    revision : Nat \ {0}]
BY PipelineAssumption DEF NoRun, NoWatch, RunPcs, WatchPcs, Refs, Records

(* nextWrapperRevision is a wrapper revision: linux.N with N at least 1. *)
LEMMA NextRevisionType ==
    ASSUME TypeOK, HasHighest
    PROVE  NextWrapperRevision \in Nat \ {0}
<1> DEFINE S == {t.revision : t \in releases} \union {0}
<1>1. PICK t \in releases : \A u \in releases : u.revision <= t.revision
  BY DEF HasHighest
<1>2. \A u \in releases : u.revision \in Nat
  BY DEF TypeOK
<1>3. t.revision \in S /\ (\A y \in S : t.revision >= y) /\ S \subseteq Nat
  BY <1>1, <1>2
<1>4. Max(S) \in S
  BY <1>3 DEF Max
<1> QED
  BY <1>3, <1>4 DEF NextWrapperRevision

(* Steps that leave the releases, the record and every run alone. *)
LEMMA Aside ==
    ASSUME PipelineInv, TypeOK', UNCHANGED <<accepted, releases, run>>
    PROVE  PipelineInv'
BY DEF PipelineInv, HasHighest, AcceptedIsPublished, RunsHavePublished,
       RecordsAdvance

(* Steps by which some runs end, begin to wait or keep what they recorded. *)
LEMMA RunsOnly ==
    ASSUME PipelineInv, TypeOK', UNCHANGED <<accepted, releases>>,
           \A s \in Runs :
             \/ run'[s] = run[s]
             \/ run'[s].pc \notin {"published", "recording"}
    PROVE  PipelineInv'
<1>1. HasHighest' /\ AcceptedIsPublished'
  BY DEF PipelineInv, HasHighest, AcceptedIsPublished
<1>2. RunsHavePublished'
  BY DEF PipelineInv, RunsHavePublished
<1>3. RecordsAdvance'
  BY DEF PipelineInv, RecordsAdvance
<1> QED
  BY <1>1, <1>2, <1>3 DEF PipelineInv

(* A dispatch puts one run into its queue and takes others out of it. *)
LEMMA EnqueueKeeps ==
    ASSUME PipelineInv, NEW v \in Versions, NEW k \in Nat \ {0},
           NEW ref \in Refs, Enqueue(v, k, ref)
    PROVE  /\ run' \in [Runs -> [pc : RunPcs, version : Versions,
                                 revision : Nat \ {0}, ref : Refs,
                                 commit : Nat, read : Records]]
           /\ \A s \in Runs :
                \/ run'[s] = run[s]
                \/ run'[s].pc \notin {"published", "recording"}
<1> USE IdleTypes
<1>1. PICK r \in Runs :
        run' = [s \in Runs |->
                  IF s = r
                    THEN [NoRun EXCEPT !.pc = "pending", !.version = v,
                            !.revision = k, !.ref = ref, !.commit = head]
                  ELSE IF run[s].pc = "pending" /\ SameIdentity(run[s], v, k)
                    THEN NoRun
                  ELSE run[s]]
  BY DEF Enqueue
<1> DEFINE Waiting == [NoRun EXCEPT !.pc = "pending", !.version = v,
                            !.revision = k, !.ref = ref, !.commit = head]
<1>2. /\ Waiting \in [pc : RunPcs, version : Versions, revision : Nat \ {0},
                      ref : Refs, commit : Nat, read : Records]
      /\ Waiting.pc = "pending"
  BY DEF PipelineInv, TypeOK, RunPcs
<1>3. NoRun.pc = "off"
  BY DEF NoRun
<1> HIDE DEF Waiting
<1>4. \A s \in Runs : run'[s] \in {Waiting, NoRun, run[s]}
  BY <1>1 DEF Waiting
<1> QED
  BY <1>1, <1>2, <1>3, <1>4 DEF PipelineInv, TypeOK, Waiting

-----------------------------------------------------------------------------
LEMMA InitHolds == ASSUME Init PROVE PipelineInv
<1>1. TypeOK
  BY IdleTypes, PipelineAssumption DEF Init, TypeOK, Records
<1>2. HasHighest /\ AcceptedIsPublished
  BY DEF Init, HasHighest, AcceptedIsPublished
<1>3. RunsHavePublished /\ RecordsAdvance
  BY DEF Init, RunsHavePublished, RecordsAdvance, NoRun
<1> QED
  BY <1>1, <1>2, <1>3 DEF PipelineInv

LEMMA WatchKeeps == ASSUME PipelineInv, WatchStep PROVE PipelineInv'
<1> USE IdleTypes
<1>t. TypeOK
  BY DEF PipelineInv
<1>1. CASE StartWatch
  <2>1. TypeOK' BY <1>1, <1>t DEF StartWatch, TypeOK, WatchPcs, Records
  <2> QED BY <1>1, <2>1, Aside DEF StartWatch
<1>2. CASE FindNothingNew
  <2>1. TypeOK' BY <1>2, <1>t DEF FindNothingNew, EndWatch, TypeOK
  <2> QED BY <1>2, <2>1, Aside DEF FindNothingNew
<1>3. CASE AcceptProbe
  <2>1. TypeOK' BY <1>3, <1>t DEF AcceptProbe, TypeOK, WatchPcs
  <2> QED BY <1>3, <2>1, Aside DEF AcceptProbe
<1>4. CASE RejectProbe
  <2>1. TypeOK' BY <1>4, <1>t DEF RejectProbe, EndWatch, TypeOK
  <2> QED BY <1>4, <2>1, Aside DEF RejectProbe
<1>5. CASE PlanRelease
  <2>1. NextWrapperRevision \in Nat \ {0}
    BY NextRevisionType DEF PipelineInv
  <2>2. TypeOK'
    BY <1>5, <1>t, <2>1 DEF PlanRelease, EndWatch, TypeOK, WatchPcs
  <2> QED BY <1>5, <2>2, Aside DEF PlanRelease
<1>6. CASE Dispatch
  <2>1. /\ watch.version \in Versions /\ watch.revision \in Nat \ {0}
        /\ "main" \in Refs
    BY <1>t DEF TypeOK, Refs
  <2>2. Enqueue(watch.version, watch.revision, "main")
    BY <1>6 DEF Dispatch
  <2>3. TypeOK'
    BY <1>6, <1>t, <2>1, <2>2, EnqueueKeeps DEF Dispatch, EndWatch, TypeOK
  <2> QED BY <1>6, <2>1, <2>2, <2>3, EnqueueKeeps, RunsOnly DEF Dispatch
<1>7. CASE FailWatch
  <2>1. TypeOK' BY <1>7, <1>t DEF FailWatch, EndWatch, TypeOK
  <2> QED BY <1>7, <2>1, Aside DEF FailWatch
<1> QED
  BY <1>1, <1>2, <1>3, <1>4, <1>5, <1>6, <1>7 DEF WatchStep

(* Ending a run, or moving it to a step before the record. *)
LEMMA RunEnds ==
    ASSUME PipelineInv, NEW r \in Runs, UNCHANGED <<accepted, head, releases>>,
           UNCHANGED Others, End(r)
    PROVE  PipelineInv'
<1>1. TypeOK'
  BY IdleTypes DEF PipelineInv, TypeOK, End, Others
<1>2. \A s \in Runs :
        run'[s] = run[s] \/ run'[s].pc \notin {"published", "recording"}
  BY DEF PipelineInv, TypeOK, End, NoRun
<1> QED
  BY <1>1, <1>2, RunsOnly

LEMMA BuildKeeps ==
    ASSUME PipelineInv, NEW r \in Runs,
           \/ CheckOut(r) \/ RefuseSource(r) \/ AcceptBuild(r) \/ FailBuild(r)
           \/ FailPublish(r) \/ FailRecord(r)
    PROVE  PipelineInv'
<1>t. TypeOK
  BY DEF PipelineInv
<1>1. CASE CheckOut(r)
  <2>1. PICK c \in (IF run[r].ref = "main" THEN {head} ELSE 0..head) :
          run' = [run EXCEPT ![r].pc = "building", ![r].commit = c]
    BY <1>1 DEF CheckOut
  <2>2. c \in Nat
    BY <2>1, <1>t DEF TypeOK
  <2>3. UNCHANGED <<accepted, head, releases>> /\ UNCHANGED Others
    BY <1>1 DEF CheckOut
  <2>4. run' \in [Runs -> [pc : RunPcs, version : Versions, revision : Nat \ {0},
                          ref : Refs, commit : Nat, read : Records]]
    <3> DEFINE q == [run[r] EXCEPT !.pc = "building", !.commit = c]
    <3>1. q \in [pc : RunPcs, version : Versions, revision : Nat \ {0},
                 ref : Refs, commit : Nat, read : Records]
      BY <1>t, <2>2 DEF TypeOK, RunPcs
    <3>2. run' = [run EXCEPT ![r] = q]
      BY <2>1, <1>t DEF TypeOK
    <3> HIDE DEF q
    <3> QED BY <3>1, <3>2, <1>t DEF TypeOK
  <2>5. TypeOK'
    BY <1>t, <2>3, <2>4 DEF Others, TypeOK
  <2>6. \A s \in Runs : run'[s] = run[s] \/ run'[s].pc = "building"
    BY <2>1, <1>t DEF TypeOK
  <2> QED BY <2>3, <2>5, <2>6, RunsOnly
<1>2. CASE AcceptBuild(r)
  <2>1. TypeOK'
    BY <1>2, <1>t DEF AcceptBuild, RunAt, Others, TypeOK, RunPcs
  <2>2. \A s \in Runs : run'[s] = run[s] \/ run'[s].pc = "publishing"
    BY <1>2, <1>t DEF AcceptBuild, RunAt, TypeOK
  <2> QED BY <1>2, <2>1, <2>2, RunsOnly DEF AcceptBuild
<1>3. CASE RefuseSource(r) \/ FailBuild(r) \/ FailPublish(r) \/ FailRecord(r)
  BY <1>3, RunEnds DEF RefuseSource, FailBuild, FailPublish, FailRecord
<1> QED
  BY <1>1, <1>2, <1>3

LEMMA PublishKeeps ==
    ASSUME PipelineInv, NEW r \in Runs, Publish(r)
    PROVE  PipelineInv'
<1> USE DEF PipelineInv
<1> DEFINE new == [version |-> run[r].version, revision |-> run[r].revision,
                   commit |-> run[r].commit]
           told == [run[r] EXCEPT !.pc = "published"]
<1>1. /\ releases' = releases \union {new}
      /\ accepted' = accepted /\ head' = head
      /\ UNCHANGED Others
      /\ \/ run' = [run EXCEPT ![r] = told]
         \/ run' = [run EXCEPT ![r] = NoRun]
  BY DEF Publish, LeavePublish, RunAt, End, TypeOK
<1>2. /\ new \in [version : Versions, revision : Nat, commit : Nat]
      /\ told \in [pc : RunPcs, version : Versions, revision : Nat \ {0},
                   ref : Refs, commit : Nat, read : Records]
      /\ told.pc = "published"
      /\ told.version = new.version /\ told.commit = new.commit
  BY IdleTypes DEF TypeOK, RunPcs
<1>3. NoRun.pc = "off" BY DEF NoRun
<1> HIDE DEF new, told
<1>4. TypeOK'
  BY <1>1, <1>2, IdleTypes DEF TypeOK, Others
<1>5. HasHighest'
  <2>1. PICK t \in releases : \A u \in releases : u.revision <= t.revision
    BY DEF HasHighest
  <2>2. \A u \in releases \union {new} : u.revision \in Nat
    BY <1>2 DEF TypeOK
  <2>3. CASE new.revision <= t.revision
    BY <1>1, <2>1, <2>3 DEF HasHighest
  <2>4. CASE ~(new.revision <= t.revision)
    <3>1. \A u \in releases \union {new} : u.revision <= new.revision
      BY <2>1, <2>2, <2>4
    <3> QED BY <1>1, <3>1 DEF HasHighest
  <2> QED BY <2>3, <2>4
<1>6. AcceptedIsPublished'
  BY <1>1 DEF AcceptedIsPublished
<1>7. RunsHavePublished'
  <2> SUFFICES ASSUME NEW s \in Runs,
                      run'[s].pc \in {"published", "recording"}
               PROVE  \E t \in releases' :
                        t.version = run'[s].version /\ t.commit = run'[s].commit
    BY DEF RunsHavePublished
  <2>1. run'[s] = run[s] \/ run'[s] = told
    BY <1>1, <1>3 DEF TypeOK
  <2>2. CASE run'[s] = run[s]
    BY <1>1, <2>2 DEF RunsHavePublished
  <2>3. CASE run'[s] = told
    BY <1>1, <1>2, <2>3
  <2> QED BY <2>1, <2>2, <2>3
<1>8. RecordsAdvance'
  <2>1. \A s \in Runs : run'[s] = run[s] \/ run'[s] = told \/ run'[s] = NoRun
    BY <1>1 DEF TypeOK
  <2> QED BY <1>2, <1>3, <2>1 DEF RecordsAdvance
<1> QED
  BY <1>4, <1>5, <1>6, <1>7, <1>8

LEMMA ReadKeeps ==
    ASSUME PipelineInv, NEW r \in Runs, ReadAccepted(r)
    PROVE  PipelineInv'
<1> USE DEF PipelineInv
<1>1. CASE ~Changes(run[r], accepted)
  BY <1>1, RunEnds DEF ReadAccepted
<1>2. CASE Changes(run[r], accepted)
  <2>1. /\ run' = [run EXCEPT ![r].pc = "recording", ![r].read = accepted]
        /\ UNCHANGED <<accepted, head, releases>> /\ UNCHANGED Others
        /\ run[r].pc = "published"
    BY <1>2 DEF ReadAccepted
  <2>2. TypeOK'
    BY <2>1 DEF TypeOK, Others, RunPcs
  <2>3. \A s \in Runs : /\ run'[s].version = run[s].version
                        /\ run'[s].commit = run[s].commit
                        /\ s # r => run'[s] = run[s]
    BY <2>1 DEF TypeOK
  <2>4. HasHighest' /\ AcceptedIsPublished'
    BY <2>1 DEF HasHighest, AcceptedIsPublished
  <2>5. RunsHavePublished'
    <3> SUFFICES ASSUME NEW s \in Runs,
                        run'[s].pc \in {"published", "recording"}
                 PROVE  \E t \in releases' :
                          t.version = run'[s].version /\ t.commit = run'[s].commit
      BY DEF RunsHavePublished
    <3>1. run[s].pc \in {"published", "recording"}
      BY <2>1, <2>3
    <3>2. \E t \in releases : t.version = run[s].version /\ t.commit = run[s].commit
      BY <3>1 DEF RunsHavePublished
    <3> QED BY <2>1, <2>3, <3>2
  <2>6. run'[r].read = accepted
    BY <2>1 DEF TypeOK
  <2>7. RecordsAdvance'
    BY <1>2, <2>3, <2>6 DEF RecordsAdvance, Changes
  <2> QED
    BY <2>2, <2>4, <2>5, <2>7
<1> QED
  BY <1>1, <1>2

LEMMA PutKeeps ==
    ASSUME PipelineInv, NEW r \in Runs, PutAccepted(r)
    PROVE  PipelineInv'
<1> USE DEF PipelineInv
<1>1. /\ run' = [run EXCEPT ![r] = NoRun]
      /\ accepted' = [version |-> run[r].version, commit |-> run[r].commit]
      /\ head' = head + 1 /\ releases' = releases /\ UNCHANGED Others
      /\ run[r].pc = "recording"
  BY DEF PutAccepted, End
<1>2. TypeOK'
  BY <1>1, IdleTypes DEF TypeOK, Others, Records
<1>3. AcceptedIsPublished'
  BY <1>1 DEF RunsHavePublished, AcceptedIsPublished
<1>4. HasHighest'
  BY <1>1 DEF HasHighest
<1>5. \A s \in Runs : run'[s] = run[s] \/ run'[s].pc = "off"
  BY <1>1 DEF TypeOK, NoRun
<1>6. RunsHavePublished' /\ RecordsAdvance'
  BY <1>1, <1>5 DEF RunsHavePublished, RecordsAdvance
<1> QED
  BY <1>2, <1>3, <1>4, <1>6

LEMMA SurroundingsKeep ==
    ASSUME PipelineInv, Surroundings PROVE PipelineInv'
<1>t. TypeOK /\ Hands \in Nat
  BY PipelineAssumption DEF PipelineInv
<1>1. CASE DispatchManually
  <2>1. PICK v \in Versions, k \in Revisions, ref \in Refs : Enqueue(v, k, ref)
    BY <1>1 DEF DispatchManually
  <2>2. k \in Nat \ {0}
    BY PipelineAssumption
  <2>3. TypeOK'
    BY <1>1, <1>t, <2>1, <2>2, EnqueueKeeps DEF DispatchManually, TypeOK
  <2> QED BY <1>1, <2>1, <2>2, <2>3, EnqueueKeeps, RunsOnly DEF DispatchManually
<1>2. CASE PushCommit
  <2>1. TypeOK' BY <1>2, <1>t DEF PushCommit, TypeOK
  <2> QED BY <1>2, <2>1, Aside DEF PushCommit
<1>3. CASE ReleaseUpstream
  <2>1. TypeOK' BY <1>3, <1>t DEF ReleaseUpstream, TypeOK
  <2> QED BY <1>3, <2>1, Aside DEF ReleaseUpstream
<1>4. CASE WithdrawUpstream
  <2>1. TypeOK' BY <1>4, <1>t DEF WithdrawUpstream, TypeOK
  <2> QED BY <1>4, <2>1, Aside DEF WithdrawUpstream
<1> QED
  BY <1>1, <1>2, <1>3, <1>4 DEF Surroundings

LEMMA NextKeeps == ASSUME PipelineInv, [Next]_vars PROVE PipelineInv'
<1>1. CASE WatchStep
  BY <1>1, WatchKeeps
<1>2. CASE \E r \in Runs : RunStep(r)
  <2>1. PICK r \in Runs : RunStep(r) BY <1>2
  <2> QED BY <2>1, BuildKeeps, PublishKeeps, ReadKeeps, PutKeeps DEF RunStep
<1>3. CASE Surroundings
  BY <1>3, SurroundingsKeep
<1>4. CASE UNCHANGED vars
  <2>1. TypeOK' BY <1>4 DEF vars, TypeOK, PipelineInv
  <2> QED BY <1>4, <2>1, Aside DEF vars
<1> QED
  BY <1>1, <1>2, <1>3, <1>4 DEF Next

(* The inductive invariant holds in every behaviour of the pipeline. *)
THEOREM PipelineInvariance == Spec => []PipelineInv
<1>1. Init => PipelineInv BY InitHolds
<1>2. PipelineInv /\ [Next]_vars => PipelineInv' BY NextKeeps
<1> QED BY <1>1, <1>2, PTL DEF Spec

(* The watch, the runs and the record on main keep to the values the workflows
   give them, however many runs and releases there are. *)
THEOREM PipelineTypes == Spec => []TypeOK
<1>1. PipelineInv => TypeOK BY DEF PipelineInv
<1> QED BY <1>1, PipelineInvariance, PTL

(* What main names as accepted was published, from the commit it names: no
   failed, repeated or overtaken publication is ever recorded. *)
THEOREM AcceptedWasPublished == Spec => []AcceptedIsPublished
<1>1. PipelineInv => AcceptedIsPublished BY DEF PipelineInv
<1> QED BY <1>1, PipelineInvariance, PTL

(* Only PutAccepted changes the record, and it replaces the one it compared
   with: concurrent publications cannot take the accepted version back. *)
THEOREM AcceptedMonotonic == Spec => AcceptedNeverRegresses
<1>1. ASSUME PipelineInv, [Next]_vars
      PROVE  [accepted'.version >= accepted.version]_vars
  <2> SUFFICES ASSUME Next PROVE accepted'.version >= accepted.version
    BY <1>1
  <2>1. accepted.version \in Nat
    BY <1>1, PipelineAssumption DEF PipelineInv, TypeOK, Records
  <2>2. CASE accepted' = accepted
    BY <2>1, <2>2
  <2>3. CASE \E r \in Runs : PutAccepted(r)
    <3>1. PICK r \in Runs : PutAccepted(r) BY <2>3
    <3>2. /\ run[r].pc = "recording" /\ accepted = run[r].read
          /\ accepted'.version = run[r].version
      BY <3>1 DEF PutAccepted
    <3> QED BY <1>1, <3>2 DEF PipelineInv, RecordsAdvance
  <2>4. accepted' = accepted \/ \E r \in Runs : PutAccepted(r)
    <3>1. CASE WatchStep
      BY <3>1 DEF WatchStep, StartWatch, FindNothingNew, AcceptProbe,
         RejectProbe, PlanRelease, Dispatch, FailWatch
    <3>2. CASE \E r \in Runs : RunStep(r)
      BY <3>2 DEF RunStep, CheckOut, RefuseSource, AcceptBuild, FailBuild,
         Publish, FailPublish, ReadAccepted, FailRecord
    <3>3. CASE Surroundings
      BY <3>3 DEF Surroundings, DispatchManually, PushCommit,
         ReleaseUpstream, WithdrawUpstream
    <3> QED BY <3>1, <3>2, <3>3 DEF Next
  <2> QED BY <2>2, <2>3, <2>4
<1> QED BY <1>1, PipelineInvariance, PTL DEF Spec, AcceptedNeverRegresses
=============================================================================
