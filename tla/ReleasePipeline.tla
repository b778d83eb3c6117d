-------------------------- MODULE ReleasePipeline --------------------------
(* The release automation: the scheduled watch (upstream-watch.js, then       *)
(* auto-release.js) that dispatches a release for a version the probe        *)
(* accepts, the runs of release.yml that build, publish and record it, and   *)
(* the maintainers who dispatch runs of their own.                           *)
(*                                                                           *)
(* Versions are numbers in the order of compareVersions; a commit of main is *)
(* its distance from the first one, so that "is an ancestor of" is <=.       *)
(* GitHub (workflow concurrency, releases, the contents API) is external:    *)
(* modelled by what the workflows rely on.                                   *)
EXTENDS Naturals, FiniteSetsExt

CONSTANTS
    Versions,   \* Factory versions the upstream endpoint may name
    Initial,    \* the version recorded as accepted at the start
    Revisions,  \* wrapper revisions a maintainer asks for, N of linux.N
    Runs,       \* slots for runs of release.yml, reused when a run has ended
    Hands       \* bound: runs dispatched, commits pushed, versions withdrawn

ASSUME PipelineAssumption ==
    /\ Versions \subseteq Nat
    /\ Initial \in Versions
    /\ Revisions \subseteq Nat \ {0}
    /\ Hands \in Nat

VARIABLES
    upstream,   \* the version the metadata endpoint names
    accepted,   \* release/accepted-upstream.json on main
    head,       \* the newest commit of main
    releases,   \* the published releases: version, revision, target commit
    watch,      \* the run of upstream-watch.yml; its group allows one
    run,        \* the runs of release.yml
    hands       \* what was done by hand so far

vars == <<upstream, accepted, head, releases, watch, run, hands>>

Refs == {"main", "other"}
WatchPcs == {"off", "probing", "planning", "dispatching"}
RunPcs == {"off", "pending", "building", "publishing", "published", "recording"}
Active == RunPcs \ {"off", "pending"}
Records == [version : Versions, commit : Nat]

NoWatch == [pc |-> "off", accepted |-> Initial, version |-> Initial,
            revision |-> 1]

NoRun == [pc |-> "off", version |-> Initial, revision |-> 1, ref |-> "main",
          commit |-> 0, read |-> [version |-> Initial, commit |-> 0]]

TypeOK ==
    /\ upstream \in Versions
    /\ accepted \in Records
    /\ head \in Nat
    /\ releases \subseteq [version : Versions, revision : Nat, commit : Nat]
    /\ watch \in [pc : WatchPcs, accepted : Versions, version : Versions,
                  revision : Nat \ {0}]
    /\ run \in [Runs -> [pc : RunPcs, version : Versions,
                         revision : Nat \ {0}, ref : Refs,
                         commit : Nat, read : Records]]
    /\ hands \in 0..Hands

-----------------------------------------------------------------------------
(* Plans and identities *)

(* Variant: a newer release counts as the version's own. *)
NewerPublished(v) == \E t \in releases : t.version >= v

(* planAutomaticRelease: a tag of the version, whatever its revision *)
AlreadyPublished(v) == \E t \in releases : t.version = v

(* nextWrapperRevision, over the tags of all versions *)
NextWrapperRevision == 1 + Max({t.revision : t \in releases} \union {0})

TagTaken(q) ==
    \E t \in releases : t.version = q.version /\ t.revision = q.revision

SameIdentity(q, v, k) == q.version = v /\ q.revision = k

(* updateAcceptedVersion changes the file unless it would regress or it
   already holds this version and commit. *)
Changes(q, old) ==
    /\ q.version >= old.version
    /\ <<q.version, q.commit>> # <<old.version, old.commit>>

-----------------------------------------------------------------------------
(* The watch *)

EndWatch == watch' = NoWatch

(* The checkout fixes the accepted version the probe compares with. *)
StartWatch ==
    /\ watch.pc = "off"
    /\ watch' = [watch EXCEPT !.pc = "probing", !.accepted = accepted.version]
    /\ UNCHANGED <<upstream, accepted, head, releases, run, hands>>

(* classifyVersion: current, or a regression, which fails the run *)
FindNothingNew ==
    /\ watch.pc = "probing"
    /\ upstream <= watch.accepted
    /\ EndWatch
    /\ UNCHANGED <<upstream, accepted, head, releases, run, hands>>

AcceptProbe ==
    /\ watch.pc = "probing"
    /\ upstream > watch.accepted
    /\ watch' = [NoWatch EXCEPT !.pc = "planning", !.version = upstream]
    /\ UNCHANGED <<upstream, accepted, head, releases, run, hands>>

(* Discovery, download, extraction or a required patch fails: an issue. *)
RejectProbe ==
    /\ watch.pc = "probing"
    /\ EndWatch
    /\ UNCHANGED <<upstream, accepted, head, releases, run, hands>>

(* The plan is made from the tags listed now. *)
PlanRelease ==
    /\ watch.pc = "planning"
    /\ IF AlreadyPublished(watch.version)
         THEN EndWatch
         ELSE watch' = [watch EXCEPT !.pc = "dispatching",
                                     !.revision = NextWrapperRevision]
    /\ UNCHANGED <<upstream, accepted, head, releases, run, hands>>

(* A run waits in its concurrency group; of the waiting runs of one group
   GitHub keeps the newest. *)
Enqueue(v, k, ref) ==
    \E r \in Runs :
      /\ run[r].pc = "off"
      /\ run' = [s \in Runs |->
                   IF s = r
                     THEN [NoRun EXCEPT !.pc = "pending", !.version = v,
                             !.revision = k, !.ref = ref, !.commit = head]
                   ELSE IF run[s].pc = "pending" /\ SameIdentity(run[s], v, k)
                     THEN NoRun
                   ELSE run[s]]

Dispatch ==
    /\ watch.pc = "dispatching"
    /\ Enqueue(watch.version, watch.revision, "main")
    /\ EndWatch
    /\ UNCHANGED <<upstream, accepted, head, releases, hands>>

FailWatch ==
    /\ watch.pc \in {"planning", "dispatching"}
    /\ EndWatch
    /\ UNCHANGED <<upstream, accepted, head, releases, run, hands>>

-----------------------------------------------------------------------------
(* A run of release.yml *)

RunAt(r, p) == run' = [run EXCEPT ![r].pc = p]

End(r) == run' = [run EXCEPT ![r] = NoRun]

Others == <<upstream, watch, hands>>

MayStart(r) ==
    /\ run[r].pc = "pending"
    /\ \A s \in Runs : run[s].pc \in Active
                         => ~SameIdentity(run[s], run[r].version, run[r].revision)

(* "Resolve exact source commit": what is checked out now must be in the
   history of the commit that triggered the run.  commit holds the latter
   until here and the former from here on. *)
CheckOut(r) ==
    /\ MayStart(r)
    /\ \E c \in (IF run[r].ref = "main" THEN {head} ELSE 0..head) :
         /\ c <= run[r].commit
         /\ run' = [run EXCEPT ![r].pc = "building", ![r].commit = c]
    /\ UNCHANGED <<accepted, head, releases>> /\ UNCHANGED Others

RefuseSource(r) ==
    /\ MayStart(r)
    /\ run[r].ref = "main" => head > run[r].commit
    /\ End(r)
    /\ UNCHANGED <<accepted, head, releases>> /\ UNCHANGED Others

(* buildRelease and verifyReleaseBundle accept every package. *)
AcceptBuild(r) ==
    /\ run[r].pc = "building"
    /\ RunAt(r, "publishing")
    /\ UNCHANGED <<accepted, head, releases>> /\ UNCHANGED Others

FailBuild(r) ==
    /\ run[r].pc = "building"
    /\ End(r)
    /\ UNCHANGED <<accepted, head, releases>> /\ UNCHANGED Others

(* Only a release of main is recorded; the run keeps its concurrency group. *)
LeavePublish(r) == IF run[r].ref = "main" THEN RunAt(r, "published") ELSE End(r)

(* Variant: a tag that exists already counts as this run's release. *)
PublishTagTaken(r) ==
    /\ run[r].pc = "publishing"
    /\ releases' = IF TagTaken(run[r]) THEN releases
                   ELSE releases \union
                     {[version |-> run[r].version, revision |-> run[r].revision,
                       commit |-> run[r].commit]}
    /\ LeavePublish(r)
    /\ UNCHANGED <<accepted, head>> /\ UNCHANGED Others

(* gh release create, which fails when the tag exists *)
Publish(r) ==
    /\ run[r].pc = "publishing"
    /\ ~TagTaken(run[r])
    /\ releases' = releases \union
         {[version |-> run[r].version, revision |-> run[r].revision,
           commit |-> run[r].commit]}
    /\ LeavePublish(r)
    /\ UNCHANGED <<accepted, head>> /\ UNCHANGED Others

FailPublish(r) ==
    /\ run[r].pc = "publishing"
    /\ End(r)
    /\ UNCHANGED <<accepted, head, releases>> /\ UNCHANGED Others

(* The record as main holds it now, and record-accepted-version.js on it *)
ReadAccepted(r) ==
    /\ run[r].pc = "published"
    /\ IF Changes(run[r], accepted)
         THEN run' = [run EXCEPT ![r].pc = "recording", ![r].read = accepted]
         ELSE End(r)
    /\ UNCHANGED <<accepted, head, releases>> /\ UNCHANGED Others

(* Variant: the file is written whatever it holds by now. *)
PutUnconditionally(r) ==
    /\ run[r].pc = "recording"
    /\ accepted' = [version |-> run[r].version, commit |-> run[r].commit]
    /\ head' = head + 1
    /\ End(r)
    /\ UNCHANGED releases /\ UNCHANGED Others

(* The PUT names the content it replaces; it is a commit of main. *)
PutAccepted(r) ==
    /\ run[r].pc = "recording"
    /\ accepted = run[r].read
    /\ accepted' = [version |-> run[r].version, commit |-> run[r].commit]
    /\ head' = head + 1
    /\ End(r)
    /\ UNCHANGED releases /\ UNCHANGED Others

(* The content changed, or a call fails: the release stays unrecorded. *)
FailRecord(r) ==
    /\ run[r].pc \in {"published", "recording"}
    /\ End(r)
    /\ UNCHANGED <<accepted, head, releases>> /\ UNCHANGED Others

-----------------------------------------------------------------------------
(* Surroundings *)

DispatchManually ==
    /\ hands < Hands
    /\ hands' = hands + 1
    /\ \E v \in Versions, k \in Revisions, ref \in Refs : Enqueue(v, k, ref)
    /\ UNCHANGED <<upstream, accepted, head, releases, watch>>

PushCommit ==
    /\ hands < Hands
    /\ hands' = hands + 1
    /\ head' = head + 1
    /\ UNCHANGED <<upstream, accepted, releases, watch, run>>

ReleaseUpstream ==
    /\ upstream' \in {v \in Versions : v > upstream}
    /\ UNCHANGED <<accepted, head, releases, watch, run, hands>>

WithdrawUpstream ==
    /\ hands < Hands
    /\ hands' = hands + 1
    /\ upstream' \in {v \in Versions : v < upstream}
    /\ UNCHANGED <<accepted, head, releases, watch, run>>

-----------------------------------------------------------------------------
(* One accepted release; its tag is of the time before wrapper revisions,
   which parseReleaseTag counts as none. *)
Init ==
    /\ upstream = Initial
    /\ accepted = [version |-> Initial, commit |-> 0]
    /\ head = 0
    /\ releases = {[version |-> Initial, revision |-> 0, commit |-> 0]}
    /\ watch = NoWatch
    /\ run = [r \in Runs |-> NoRun]
    /\ hands = 0

WatchStep ==
    \/ StartWatch \/ FindNothingNew \/ AcceptProbe \/ RejectProbe
    \/ PlanRelease \/ Dispatch \/ FailWatch

RunStep(r) ==
    \/ CheckOut(r) \/ RefuseSource(r) \/ AcceptBuild(r) \/ FailBuild(r)
    \/ Publish(r) \/ FailPublish(r)
    \/ ReadAccepted(r) \/ PutAccepted(r) \/ FailRecord(r)

Surroundings == DispatchManually \/ PushCommit
                \/ ReleaseUpstream \/ WithdrawUpstream

Next == WatchStep \/ (\E r \in Runs : RunStep(r)) \/ Surroundings

Spec == Init /\ [][Next]_vars

(* The watch is scheduled daily and a run that started ends.  What may fail
   (probe, plan, dispatch, checkout, build, publication) does not fail
   always. *)
Fairness ==
    /\ WF_vars(WatchStep)
    /\ SF_vars(AcceptProbe) /\ SF_vars(PlanRelease) /\ SF_vars(Dispatch)
    /\ \A r \in Runs :
         /\ WF_vars(RunStep(r))
         /\ SF_vars(CheckOut(r)) /\ SF_vars(AcceptBuild(r)) /\ SF_vars(Publish(r))

FairSpec == Spec /\ Fairness

-----------------------------------------------------------------------------
(* The accepted version never goes back, although publications of several
   versions record concurrently (record-accepted-version.js, release.yml). *)
AcceptedNeverRegresses == [][accepted'.version >= accepted.version]_vars

(* What main names as accepted is a published release, built from exactly
   the commit the record names. *)
AcceptedIsPublished ==
    \E t \in releases :
      t.version = accepted.version /\ t.commit = accepted.commit

(* A version that stays the latest is released in the end, or one at least
   as new is accepted: failed runs, runs replaced in their queue and releases
   made by hand do not keep the watch from trying again. *)
LatestIsReleased ==
    \A v \in Versions \ {Initial} :
      <>[](upstream = v)
        => <>((\E t \in releases : t.version = v) \/ accepted.version >= v)
=============================================================================
