--------------------------- MODULE DmgCacheProofs ---------------------------
(***************************************************************************)
(* What the download cache keeps for every number of processes, versions   *)
(* and DMGs: the types, the soundness of the version index and the         *)
(* wholeness of the files.                                                 *)
(***************************************************************************)
EXTENDS DmgCache, TLAPS

Past == {"patch", "zipCheck", "zipRequest", "zipWrite", "assemble", "record", "rename"}

\* A run past the acceptance of its DMG works on the version it was asked for,
\* and the index a writer has read and will write back is itself sound: but for
\* the digests whose file had other content.
IndexSound(i, except) ==
    \A v \in Version : i[v] \notin except \cup {Absent} => VersionOf[i[v]] = v

JobSound(j, except) ==
    /\ j.pc \in Past => /\ j.digest # Absent
                        /\ j.digest \notin except => j.want \in {Absent, VersionOf[j.digest]}
    /\ j.pc = "unpack" => j.digest # Absent
    /\ IndexSound(j.snap, except)

AcceptInv ==
    /\ TypeOK
    /\ BlobsAreWhole
    /\ \A p \in Process : JobSound(job[p], spoiled)
    /\ IndexSound(index, spoiled)

-----------------------------------------------------------------------------
LEMMA IdleIsJob == Idle \in Jobs
  BY DEF Idle, Jobs, Steps, Kinds

LEMMA GotoTyped ==
    ASSUME TypeOK, NEW p \in Process, NEW pc \in Steps \ {"lookup", "copy"}, Goto(p, pc)
    PROVE  job' \in [Process -> Jobs]
  BY DEF TypeOK, Goto, Jobs

LEMMA TakeTyped ==
    ASSUME TypeOK, NEW p \in Process, NEW pc \in Steps \ {"lookup"}, NEW d \in Blob,
           job' = [job EXCEPT ![p].pc = pc, ![p].digest = d]
    PROVE  job' \in [Process -> Jobs]
  <1>1. job[p] \in Jobs
    BY DEF TypeOK
  <1>2. [job[p] EXCEPT !.pc = pc, !.digest = d] \in Jobs
    BY <1>1, CacheConstants DEF Jobs
  <1> QED
    BY <1>1, <1>2 DEF TypeOK

LEMMA StopTyped ==
    ASSUME TypeOK, NEW p \in Process, Stop(p)
    PROVE  job' \in [Process -> Jobs]
  BY IdleIsJob DEF TypeOK, Stop

\* Every action of the module keeps the types.
LEMMA TypePreserved == TypeOK /\ [Next]_vars => TypeOK'
  <1> SUFFICES ASSUME TypeOK, [Next]_vars PROVE TypeOK'
    OBVIOUS
  <1> USE CacheConstants
  <1>1. ASSUME NEW p \in Process, NEW k \in Kinds, NEW v \in Version \cup {Absent}, Begin(p, k, v)
        PROVE  TypeOK'
    <2>0. k # "pinned" => v # Absent
      BY <1>1 DEF Begin
    <2>1. [Idle EXCEPT !.pc = IF k = "pinned" THEN "hash" ELSE "lookup",
                       !.kind = k, !.want = v] \in Jobs
      BY <2>0 DEF Idle, Jobs, Steps, Kinds
    <2> QED
      BY <1>1, <2>1 DEF Begin, TypeOK
  <1>2. ASSUME NEW p \in Process, LookUp(p) PROVE TypeOK'
    <2> DEFINE d == index[job[p].want]
    <2>1. CASE Goto(p, "fetch")
      BY <1>2, <2>1, GotoTyped DEF LookUp, TypeOK, Steps
    <2>2. CASE Stop(p)
      BY <1>2, <2>2, StopTyped DEF LookUp, TypeOK
    <2>3. CASE /\ blob[d] = d /\ d # Absent
               /\ job' = [job EXCEPT ![p].pc = "extract", ![p].digest = d]
      <3>1. d \in Blob
        BY <1>2, <2>3 DEF LookUp, At, TypeOK, Jobs
      <3>2. job' \in [Process -> Jobs]
        BY <2>3, <3>1, TakeTyped DEF Steps
      <3> QED
        BY <1>2, <3>2 DEF LookUp, TypeOK
    <2> QED
      BY <1>2, <2>1, <2>2, <2>3 DEF LookUp, File
  <1>3. ASSUME NEW p \in Process, NEW d \in Blob, Fetch(p, d) PROVE TypeOK'
    BY <1>3, TakeTyped DEF Fetch, TypeOK, Steps
  <1>4. ASSUME NEW p \in Process, Publish(p) PROVE TypeOK'
    <2>1. job[p].digest \in Blob \cup {Absent}
      BY DEF TypeOK, Jobs
    <2>2. blob' \in [Blob -> Blob \cup {Absent, Junk}]
      BY <1>4, <2>1 DEF Publish, TypeOK
    <2>3. job' \in [Process -> Jobs]
      BY <1>4, GotoTyped, StopTyped DEF Publish, Steps
    <2> QED
      BY <1>4, <2>2, <2>3 DEF Publish, TypeOK
  <1>5. ASSUME NEW p \in Process, NEW d \in Blob, HashPinned(p, d) PROVE TypeOK'
    <2>1. job' \in [Process -> Jobs]
      BY <1>5, TakeTyped, StopTyped DEF HashPinned, Steps
    <2> QED
      BY <1>5, <2>1 DEF HashPinned, TypeOK
  <1>6. ASSUME NEW p \in Process, NEW c \in Blob \cup {Junk, Absent}, CopyPinned(p, c)
        PROVE  TypeOK'
    <2>1. job' \in [Process -> Jobs]
      BY <1>6, GotoTyped DEF CopyPinned, Steps
    <2>2. aborts' \in 0..MaxAborts
      BY <1>6 DEF CopyPinned, TypeOK
    <2>3. spoiled' \subseteq Blob
      BY <1>6 DEF CopyPinned, At, TypeOK, Jobs
    <2> QED
      BY <1>6, <2>1, <2>2, <2>3 DEF CopyPinned, TypeOK
  <1>7. ASSUME NEW p \in Process, ValidateDmg(p) \/ ExtractDmg(p) PROVE TypeOK'
    BY <1>7, GotoTyped, StopTyped DEF ValidateDmg, ExtractDmg, TypeOK, Steps
  <1>8. ASSUME NEW p \in Process, Patch(p) PROVE TypeOK'
    BY <1>8, GotoTyped, StopTyped DEF Patch, TypeOK, Steps
  <1>9. ASSUME NEW p \in Process, CheckZip(p) PROVE TypeOK'
    BY <1>9, GotoTyped DEF CheckZip, TypeOK, Steps
  <1>10. ASSUME NEW p \in Process, OpenZip(p) PROVE TypeOK'
    BY <1>10, GotoTyped DEF OpenZip, TypeOK, Steps
  <1>11. ASSUME NEW p \in Process, CloseZip(p) PROVE TypeOK'
    BY <1>11, GotoTyped DEF CloseZip, TypeOK, Steps
  <1>12. ASSUME NEW p \in Process, Assemble(p) PROVE TypeOK'
    BY <1>12, GotoTyped, StopTyped DEF Assemble, TypeOK, Steps
  <1>13. ASSUME NEW p \in Process, ReadIndex(p) PROVE TypeOK'
    <2>1. job[p] \in Jobs
      BY DEF TypeOK
    <2>2. [job[p] EXCEPT !.pc = "rename", !.snap = index] \in Jobs
      BY <2>1 DEF TypeOK, Jobs, Steps
    <2>3. job' \in [Process -> Jobs]
      BY <1>13, <2>2, StopTyped DEF ReadIndex, TypeOK
    <2> QED
      BY <1>13, <2>3 DEF ReadIndex, TypeOK
  <1>14. ASSUME NEW p \in Process, RenameIndex(p) PROVE TypeOK'
    <2>1. job[p].snap \in [Version -> Blob \cup {Absent}] /\ job[p].digest \in Blob \cup {Absent}
      BY DEF TypeOK, Jobs
    <2> QED
      BY <1>14, <2>1, StopTyped DEF RenameIndex, TypeOK
  <1>15. ASSUME NEW p \in Process, Abort(p) PROVE TypeOK'
    BY <1>15, StopTyped DEF Abort, Disturb, TypeOK
  <1>16. ASSUME NEW d \in Blob, Damage(d) \/ Evict(d) PROVE TypeOK'
    <2>1. aborts' \in 0..MaxAborts
      BY <1>16 DEF Damage, Evict, Disturb, TypeOK
    <2>2. blob' \in [Blob -> Blob \cup {Absent, Junk}]
      BY <1>16 DEF Damage, Evict, TypeOK
    <2> QED
      BY <1>16, <2>1, <2>2 DEF Damage, Evict, TypeOK
  <1>17. CASE UNCHANGED vars
    BY <1>17 DEF vars, TypeOK
  <1>18. ASSUME NEW p \in Process, Run(p) PROVE TypeOK'
    <2>1. job[p].digest \in Blob \cup {Junk, Absent}
      BY DEF TypeOK, Jobs
    <2> QED
      BY <1>18, <2>1, <1>2, <1>3, <1>4, <1>5, <1>6, <1>7, <1>8, <1>9, <1>10, <1>11, <1>12,
         <1>13, <1>14 DEF Run
  <1> QED
    BY <1>1, <1>6, <1>15, <1>16, <1>17, <1>18, KindsAssumption DEF Next

LEMMA CacheTypesHoldInitially == Init => TypeOK
  <1>1. 0 \in 0..MaxAborts
    BY CacheConstants
  <1> QED
    BY <1>1, IdleIsJob DEF Init, TypeOK

\* The variables keep their types (DmgCache.tla, run dc_cache).
THEOREM CacheTypes == Spec => []TypeOK
  BY CacheTypesHoldInitially, TypePreserved, PTL DEF Spec

-----------------------------------------------------------------------------
\* A file that appears under a name is the content the name was computed from,
\* unless the pinned source was rewritten meanwhile.
LEMMA WholePreserved == TypeOK /\ BlobsAreWhole /\ [Next]_vars => BlobsAreWhole'
  <1> SUFFICES ASSUME TypeOK, BlobsAreWhole, [Next]_vars PROVE BlobsAreWhole'
    OBVIOUS
  <1>1. ASSUME NEW p \in Process, Publish(p) PROVE BlobsAreWhole'
    BY <1>1 DEF Publish, BlobsAreWhole, TypeOK
  <1>2. ASSUME NEW p \in Process, NEW c, CopyPinned(p, c) PROVE BlobsAreWhole'
    BY <1>2 DEF CopyPinned, BlobsAreWhole, TypeOK
  <1>3. ASSUME NEW d \in Blob, Damage(d) \/ Evict(d) PROVE BlobsAreWhole'
    BY <1>3 DEF Damage, Evict, BlobsAreWhole, TypeOK
  <1>4. ASSUME NEW p \in Process, Abort(p) PROVE BlobsAreWhole'
    BY <1>4 DEF Abort, BlobsAreWhole
  <1>5. CASE UNCHANGED <<blob, spoiled>>
    BY <1>5 DEF BlobsAreWhole
  <1>6. ASSUME NEW p \in Process, Run(p) PROVE BlobsAreWhole'
    BY <1>1, <1>2, <1>5, <1>6 DEF Run, LookUp, ValidateDmg, ExtractDmg, Patch, CheckZip, OpenZip,
       CloseZip, Assemble, ReadIndex, RenameIndex, Fetch, HashPinned
  <1> QED
    BY <1>2, <1>3, <1>4, <1>5, <1>6 DEF Next, Begin, vars

\* No download, publication or death leaves a file that is not the DMG its name
\* says (DmgCache.tla, run dc_cache; dmg.js:207).
THEOREM FilesAreWhole == Spec => []BlobsAreWhole
  <1>1. Init => BlobsAreWhole
    BY DEF Init, BlobsAreWhole
  <1> QED
    BY <1>1, WholePreserved, CacheTypes, PTL DEF Spec

-----------------------------------------------------------------------------
\* A digest that is spoiled stays so: what is sound remains sound.
LEMMA SpoiledGrows == TypeOK /\ [Next]_vars => spoiled \subseteq spoiled'
  <1> SUFFICES ASSUME TypeOK, [Next]_vars PROVE spoiled \subseteq spoiled'
    OBVIOUS
  <1>1. ASSUME NEW p \in Process, NEW c, CopyPinned(p, c) PROVE spoiled \subseteq spoiled'
    BY <1>1 DEF CopyPinned
  <1>2. ASSUME NEW p \in Process, Run(p) PROVE spoiled \subseteq spoiled'
    BY <1>1, <1>2 DEF Run, LookUp, Publish, ValidateDmg, ExtractDmg, Patch, CheckZip, OpenZip,
       CloseZip, Assemble, ReadIndex, RenameIndex, Fetch, HashPinned
  <1> QED
    BY <1>1, <1>2 DEF Next, Begin, Abort, Damage, Evict, vars

LEMMA StillSound ==
    ASSUME NEW s, NEW t, s \subseteq t
    PROVE  /\ \A i : IndexSound(i, s) => IndexSound(i, t)
           /\ \A j : JobSound(j, s) => JobSound(j, t)
  BY DEF IndexSound, JobSound

\* What the jobs and the index are to keep, seen from the spoiled digests of
\* before the step.
KeptSound == /\ \A q \in Process : JobSound(job'[q], spoiled)
             /\ IndexSound(index', spoiled)

LEMMA GotoSound ==
    ASSUME AcceptInv, NEW p \in Process, NEW pc \in Steps \ {"unpack"}, Goto(p, pc),
           pc \in Past => job[p].pc \in Past
    PROVE  \A q \in Process : JobSound(job'[q], spoiled)
  BY DEF AcceptInv, TypeOK, Goto, JobSound, Jobs

LEMMA TakeSound ==
    ASSUME AcceptInv, NEW p \in Process, NEW pc \in Steps \ (Past \cup {"unpack"}), NEW d,
           job' = [job EXCEPT ![p].pc = pc, ![p].digest = d]
    PROVE  \A q \in Process : JobSound(job'[q], spoiled)
  <1>1. JobSound(job'[p], spoiled)
    <2>1. job[p] \in Jobs /\ JobSound(job[p], spoiled)
      BY DEF AcceptInv, TypeOK
    <2>2. job'[p].pc = pc /\ job'[p].snap = job[p].snap
      BY <2>1 DEF AcceptInv, TypeOK, Jobs
    <2> QED
      BY <2>1, <2>2 DEF JobSound
  <1>2. ASSUME NEW q \in Process, q # p PROVE JobSound(job'[q], spoiled)
    BY <1>2 DEF AcceptInv, TypeOK
  <1> QED
    BY <1>1, <1>2

LEMMA IdleSound == JobSound(Idle, spoiled)
  BY DEF JobSound, IndexSound, Idle, Past

LEMMA StopSound ==
    ASSUME AcceptInv, NEW p \in Process, Stop(p)
    PROVE  \A q \in Process : JobSound(job'[q], spoiled)
  BY IdleSound DEF AcceptInv, TypeOK, Stop

\* A process reaches the record only through the acceptance of its DMG, and
\* writes back what it read.
LEMMA StepKeepsSound == ASSUME AcceptInv, [Next]_vars PROVE KeptSound
  <1> USE DEF Past, KeptSound
  <1>1. ASSUME NEW p \in Process, NEW k \in Kinds, NEW v \in Version \cup {Absent}, Begin(p, k, v)
        PROVE  KeptSound
    <2>1. JobSound([Idle EXCEPT !.pc = IF k = "pinned" THEN "hash" ELSE "lookup",
                                !.kind = k, !.want = v], spoiled)
      BY DEF JobSound, IndexSound, Idle
    <2> QED
      BY <1>1, <2>1 DEF Begin, AcceptInv, TypeOK
  <1>2. ASSUME NEW p \in Process, LookUp(p) PROVE KeptSound
    BY <1>2, GotoSound, TakeSound, StopSound DEF LookUp, Steps, AcceptInv
  <1>3. ASSUME NEW p \in Process, NEW d \in Blob, Fetch(p, d) \/ HashPinned(p, d)
        PROVE  KeptSound
    BY <1>3, TakeSound, StopSound DEF Fetch, HashPinned, Steps, AcceptInv
  <1>4. ASSUME NEW p \in Process, NEW c, Publish(p) \/ CopyPinned(p, c)
        PROVE  KeptSound
    BY <1>4, GotoSound, StopSound DEF Publish, CopyPinned, Steps, AcceptInv
  <1>5. ASSUME NEW p \in Process, ValidateDmg(p) PROVE KeptSound
    <2>1. CASE Stop(p)
      BY <1>5, <2>1, StopSound DEF ValidateDmg, AcceptInv
    <2>2. CASE Present(job[p].digest) /\ Goto(p, "unpack")
      BY <1>5, <2>2 DEF ValidateDmg, Present, Goto, JobSound, AcceptInv, TypeOK, Jobs
    <2> QED
      BY <1>5, <2>1, <2>2 DEF ValidateDmg
  <1>11. ASSUME NEW p \in Process, ExtractDmg(p) PROVE KeptSound
    <2> DEFINE d == job[p].digest
               c == File(d)
    <2>1. CASE Stop(p)
      BY <1>11, <2>1, StopSound DEF ExtractDmg, AcceptInv
    <2>2. CASE Goto(p, "patch")
      <3>1. d \in Blob /\ job[p] \in Jobs /\ JobSound(job[p], spoiled)
        BY <1>11 DEF ExtractDmg, At, AcceptInv, TypeOK, Jobs, JobSound
      <3>2. \/ c = Junk
            \/ c \in Blob /\ job[p].want \in {Absent, VersionOf[c]}
        BY <1>11, <2>2 DEF ExtractDmg, Goto, Stop, Idle, AcceptInv, TypeOK
      <3>3. d \notin spoiled => c = d \/ c = Absent
        BY <3>1, CacheConstants DEF File, AcceptInv, BlobsAreWhole
      <3>4. Absent # Junk /\ Absent \notin Blob /\ Junk \notin Blob
        BY CacheConstants
      <3>5. d \notin spoiled => job[p].want \in {Absent, VersionOf[d]}
        BY <3>1, <3>2, <3>3, <3>4
      <3>6. d # Absent
        BY <3>1, <3>4
      <3> QED
        BY <1>11, <2>2, <3>1, <3>5, <3>6 DEF ExtractDmg, Goto, JobSound, AcceptInv, TypeOK, Jobs
    <2> QED
      BY <1>11, <2>1, <2>2 DEF ExtractDmg
  <1>6. ASSUME NEW p \in Process,
               Patch(p) \/ CheckZip(p) \/ OpenZip(p) \/ CloseZip(p) \/ Assemble(p)
        PROVE  KeptSound
    <2>1. \/ Stop(p)
          \/ \E pc \in Steps \ {"unpack"} : Goto(p, pc) /\ job[p].pc \in Past
      BY <1>6 DEF Patch, CheckZip, OpenZip, CloseZip, Assemble, At, Steps
    <2>2. UNCHANGED index
      BY <1>6 DEF Patch, CheckZip, OpenZip, CloseZip, Assemble
    <2> QED
      BY <2>1, <2>2, GotoSound, StopSound DEF AcceptInv
  <1>7. ASSUME NEW p \in Process, ReadIndex(p) PROVE KeptSound
    <2>1. CASE Stop(p)
      BY <1>7, <2>1, StopSound DEF ReadIndex, AcceptInv
    <2>2. CASE job' = [job EXCEPT ![p].pc = "rename", ![p].snap = index]
      <3>1. JobSound(job'[p], spoiled)
        BY <1>7, <2>2 DEF ReadIndex, At, JobSound, AcceptInv, TypeOK, Jobs
      <3>2. ASSUME NEW q \in Process, q # p PROVE JobSound(job'[q], spoiled)
        BY <2>2, <3>2 DEF AcceptInv, TypeOK
      <3> QED
        BY <1>7, <3>1, <3>2 DEF ReadIndex, AcceptInv
    <2> QED
      BY <1>7, <2>1, <2>2 DEF ReadIndex
  <1>8. ASSUME NEW p \in Process, RenameIndex(p) PROVE KeptSound
    <2>1. job[p] \in Jobs /\ JobSound(job[p], spoiled) /\ job[p].pc = "rename"
      BY <1>8 DEF AcceptInv, TypeOK, RenameIndex, At
    <2>2. ASSUME NEW v \in Version, index'[v] \notin spoiled \cup {Absent}
          PROVE  VersionOf[index'[v]] = v
      <3>1. CASE v = job[p].want
        <4>1. index'[v] = job[p].digest
          BY <1>8, <2>1, <3>1 DEF RenameIndex, Jobs
        <4>2. v # Absent
          BY CacheConstants
        <4> QED
          BY <2>1, <2>2, <3>1, <4>1, <4>2 DEF JobSound
      <3>2. CASE v # job[p].want
        BY <1>8, <2>1, <2>2, <3>2 DEF RenameIndex, JobSound, IndexSound, Jobs
      <3> QED
        BY <3>1, <3>2
    <2> QED
      BY <1>8, <2>2, StopSound DEF RenameIndex, IndexSound
  <1>9. ASSUME NEW p \in Process, Abort(p) PROVE KeptSound
    BY <1>9, StopSound DEF Abort, AcceptInv
  <1>10. CASE UNCHANGED vars \/ \E d \in Blob : Damage(d) \/ Evict(d)
    BY <1>10 DEF vars, Damage, Evict, AcceptInv
  <1>12. ASSUME NEW p \in Process, Run(p) PROVE KeptSound
    BY <1>2, <1>3, <1>4, <1>5, <1>6, <1>7, <1>8, <1>11, <1>12 DEF Run
  <1> QED
    BY <1>1, <1>4, <1>9, <1>10, <1>12, KindsAssumption DEF Next

LEMMA AcceptPreserved == AcceptInv /\ [Next]_vars => AcceptInv'
  <1> SUFFICES ASSUME AcceptInv, [Next]_vars PROVE AcceptInv'
    OBVIOUS
  <1>1. TypeOK' /\ BlobsAreWhole' /\ spoiled \subseteq spoiled'
    BY TypePreserved, WholePreserved, SpoiledGrows DEF AcceptInv
  <1>2. \A q \in Process : JobSound(job'[q], spoiled')
    BY <1>1, StepKeepsSound, StillSound DEF KeptSound
  <1>3. IndexSound(index', spoiled')
    BY <1>1, StepKeepsSound, StillSound DEF KeptSound
  <1> QED
    BY <1>1, <1>2, <1>3 DEF AcceptInv

\* Whatever upstream delivers and however processes interleave or die, the
\* index names for a version only a DMG that embeds it, or one whose own file had
\* other content at some time (DmgCache.tla, run dc_cache; upstream-watch.js:107,
\* main.rs:516).
THEOREM IndexIsSound == Spec => []IndexedIsAccepted
  <1>1. Init => AcceptInv
    <2>1. Init => TypeOK /\ BlobsAreWhole
      BY CacheTypesHoldInitially DEF Init, BlobsAreWhole
    <2> QED
      BY <2>1, IdleSound DEF Init, AcceptInv, IndexSound
  <1>2. AcceptInv => IndexedIsAccepted
    BY DEF AcceptInv, IndexSound, IndexedIsAccepted
  <1> QED
    BY <1>1, <1>2, AcceptPreserved, PTL DEF Spec
=============================================================================
