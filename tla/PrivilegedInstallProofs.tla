----------------------- MODULE PrivilegedInstallProofs -----------------------
(***************************************************************************)
(* What the root helper guarantees for any number of helpers, packages,    *)
(* approvals and known-good places, crashes at every step included.        *)
(***************************************************************************)
EXTENDS PrivilegedInstall, SequenceTheorems, TLAPS

InstallPcs == {"copying", "inspecting", "installing", "verifying", "retaining",
               "indexing", "pruning", "restoring", "restored", "recording",
               "writing", "consuming", "approved", "applied"}

\* The lock is held by whoever is inside a command.
Exclusive == \A p \in Procs : pc[p] # "off" => lock = p

\* No package is indexed twice.
Distinct == \A i, j \in DOMAIN index : index[i] = index[j] => i = j

\* An approval that was not consumed has not started anything.
Unspent == \A a \in Approvals : a \notin consumed => used[a] = 0

\* What a helper may rely on from one step to the next.
JobNamed(p) ==
    /\ pc[p] \in InstallPcs => job[p].package \in Packages
    /\ pc[p] \in {"writing", "consuming", "approved", "applied"} => job[p].approval \in Approvals
    /\ pc[p] = "writing" => active[job[p].approval] # None
    /\ pc[p] # "off" => report[p] = "none"

JobVerified(p) ==
    /\ pc[p] \in {"retaining", "indexing", "pruning"} =>
           /\ job[p].package \in verified
           /\ p \notin disturbed => installed = VersionOf[job[p].package]
    /\ pc[p] \in {"restoring", "restored"} => job[p].package \in verified
    /\ pc[p] = "indexing" => job[p].package \in files
    /\ pc[p] = "pruning" => /\ \A i \in DOMAIN index : index[i] \notin job[p].stale
                            /\ ~ClockJumps => \E i \in DOMAIN index : index[i] = job[p].package

JobApproved(p) ==
    /\ pc[p] \in {"consuming", "approved"} /\ p \notin disturbed =>
           installed # None /\ VersionOf[job[p].package] > installed
    /\ pc[p] = "consuming" => job[p].approval \notin consumed
    /\ pc[p] = "approved" => used[job[p].approval] = 0 /\ job[p].approval \in consumed

Knows(p) ==
    /\ JobNamed(p) /\ JobVerified(p) /\ JobApproved(p)
    /\ pc[p] \in {"installing", "consuming", "approved"} => cache[job[p].package] = "good"

HelperInv ==
    /\ TypeOK
    /\ Exclusive /\ Distinct /\ Unspent
    /\ RollbackIsServed /\ KnownGoodIsVerified /\ ApprovalUsedOnce
    /\ \A p \in Procs : Knows(p)

-----------------------------------------------------------------------------
LEMMA NoneIsNew ==
    /\ None \notin Procs /\ None \notin Packages /\ None \notin Approvals
    /\ \A k \in Packages : VersionOf[k] # None /\ VersionOf[k] \in Versions /\ VersionOf[k] \in Nat
    /\ Versions \subseteq Nat
  BY PrivilegedAssumption DEF Versions

LEMMA StartHolds == Init => HelperInv
  <1> SUFFICES ASSUME Init PROVE HelperInv
    OBVIOUS
  <1>1. NoJob \in Jobs
    BY DEF NoJob, Jobs
  <1>2. TypeOK
    BY <1>1, PrivilegedAssumption DEF Init, TypeOK, Contents
  <1>3. Exclusive /\ Distinct /\ Unspent
    BY DEF Init, Exclusive, Distinct, Unspent
  <1>4. RollbackIsServed /\ KnownGoodIsVerified /\ ApprovalUsedOnce
    BY DEF Init, RollbackIsServed, KnownGoodIsVerified, ApprovalUsedOnce
  <1>5. \A p \in Procs : Knows(p)
    BY DEF Init, Knows, JobNamed, JobVerified, JobApproved, InstallPcs
  <1> QED
    BY <1>2, <1>3, <1>4, <1>5 DEF HelperInv

-----------------------------------------------------------------------------
\* The index with a package put at its place.
LEMMA WithoutShrinks ==
    ASSUME TypeOK, Distinct, NEW k \in Packages
    PROVE  /\ Without(k) \in Seq(Packages)
           /\ \A i \in DOMAIN Without(k) : Without(k)[i] # k
           /\ \A i \in DOMAIN Without(k) : \E j \in DOMAIN index : Without(k)[i] = index[j]
           /\ \A i, j \in DOMAIN Without(k) : Without(k)[i] = Without(k)[j] => i = j
  <1>0. index \in Seq(Packages)
    BY DEF TypeOK
  <1>1. CASE ~\E i \in DOMAIN index : index[i] = k
    BY <1>0, <1>1 DEF Without, Distinct
  <1>2. CASE \E i \in DOMAIN index : index[i] = k
    <2> DEFINE n == CHOOSE i \in DOMAIN index : index[i] = k
               a == SubSeq(index, 1, n - 1)
               b == SubSeq(index, n + 1, Len(index))
    <2>1. n \in 1..Len(index) /\ index[n] = k
      BY <1>0, <1>2
    <2>2. Without(k) = a \o b
      BY <1>2 DEF Without, RemoveAt
    <2> HIDE DEF n
    <2>3. /\ a \in Seq(Packages) /\ Len(a) = n - 1
          /\ \A i \in 1..(n - 1) : a[i] = index[i]
      BY <1>0, <2>1, SubSeqProperties
    <2>4. /\ b \in Seq(Packages) /\ Len(b) = Len(index) - n
          /\ \A i \in 1..(Len(index) - n) : b[i] = index[n + i]
      BY <1>0, <2>1, SubSeqProperties
    <2> HIDE DEF a, b
    <2>5. /\ a \o b \in Seq(Packages) /\ Len(a \o b) = Len(a) + Len(b)
          /\ \A i \in 1..(Len(a) + Len(b)) :
                (a \o b)[i] = IF i <= Len(a) THEN a[i] ELSE b[i - Len(a)]
      BY <2>3, <2>4, ConcatProperties
    <2> DEFINE w == a \o b
    <2>6. w \in Seq(Packages) /\ Len(w) = Len(index) - 1
      BY <1>0, <2>1, <2>3, <2>4, <2>5
    <2>7. ASSUME NEW i \in DOMAIN w
          PROVE  /\ i < n => i \in DOMAIN index /\ w[i] = index[i]
                 /\ i >= n => i + 1 \in DOMAIN index /\ w[i] = index[i + 1]
      <3> HIDE DEF w
      <3>1. i \in 1..(Len(index) - 1)
        BY <2>6
      <3>2. w[i] = IF i <= Len(a) THEN a[i] ELSE b[i - Len(a)]
        BY <1>0, <2>1, <2>3, <2>4, <2>5, <3>1 DEF w
      <3>3. n \in Nat /\ i \in Nat /\ Len(index) \in Nat /\ DOMAIN index = 1..Len(index)
        BY <1>0, <2>1, <3>1
      <3>4. CASE i < n
        BY <2>1, <2>3, <3>1, <3>2, <3>3, <3>4
      <3>5. CASE i >= n
        <4>1. i - (n - 1) \in 1..(Len(index) - n) /\ n + (i - (n - 1)) = i + 1
          BY <2>1, <3>1, <3>3, <3>5
        <4>2. w[i] = b[i - (n - 1)]
          BY <2>3, <3>2, <3>3, <3>5
        <4>3. b[i - (n - 1)] = index[i + 1]
          BY <2>4, <4>1
        <4> QED
          BY <3>1, <3>3, <3>5, <4>2, <4>3
      <3> QED
        BY <3>3, <3>4, <3>5
    <2> HIDE DEF w
    <2>8. \A i \in DOMAIN w : w[i] # k
      BY <1>0, <2>1, <2>6, <2>7 DEF Distinct
    <2>9. \A i \in DOMAIN w : \E j \in DOMAIN index : w[i] = index[j]
      BY <1>0, <2>1, <2>6, <2>7
    <2>10. \A i, j \in DOMAIN w : w[i] = w[j] => i = j
      BY <1>0, <2>1, <2>6, <2>7 DEF Distinct
    <2> QED
      BY <2>2, <2>6, <2>8, <2>9, <2>10 DEF w
  <1> QED
    BY <1>1, <1>2

LEMMA RankedIsIndex ==
    ASSUME TypeOK, Distinct, NEW k \in Packages, NEW i \in Places(k)
    PROVE  /\ Ranked(k, i) \in Seq(Packages) /\ Len(Ranked(k, i)) > 0
           /\ \A j \in DOMAIN Ranked(k, i) :
                 Ranked(k, i)[j] = k \/ \E m \in DOMAIN index : Ranked(k, i)[j] = index[m]
           /\ \A j, m \in DOMAIN Ranked(k, i) : Ranked(k, i)[j] = Ranked(k, i)[m] => j = m
           /\ ~ClockJumps => Ranked(k, i)[1] = k
  <1> DEFINE w == Without(k)
             a == SubSeq(w, 1, i - 1)
             b == SubSeq(w, i, Len(w))
             r == a \o <<k>> \o b
  <1>0. /\ w \in Seq(Packages)
        /\ \A j \in DOMAIN w : w[j] # k
        /\ \A j \in DOMAIN w : \E m \in DOMAIN index : w[j] = index[m]
        /\ \A j, m \in DOMAIN w : w[j] = w[m] => j = m
    BY WithoutShrinks
  <1>1. i \in 1..(Len(w) + 1) /\ (~ClockJumps => i = 1)
    BY <1>0 DEF Places
  <1>2. Ranked(k, i) = r
    BY DEF Ranked, InsertAt
  <1> HIDE DEF w
  <1>3. /\ a \in Seq(Packages) /\ Len(a) = i - 1
        /\ \A j \in 1..(i - 1) : a[j] = w[j]
    BY <1>0, <1>1, SubSeqProperties
  <1>4. /\ b \in Seq(Packages) /\ Len(b) = Len(w) + 1 - i
        /\ \A j \in 1..(Len(w) + 1 - i) : b[j] = w[i - 1 + j]
    BY <1>0, <1>1, SubSeqProperties
  <1> HIDE DEF a, b
  <1>5. /\ a \o <<k>> \in Seq(Packages) /\ Len(a \o <<k>>) = i
        /\ \A j \in 1..i : (a \o <<k>>)[j] = IF j < i THEN w[j] ELSE k
    BY <1>1, <1>3
  <1> DEFINE c == a \o <<k>>
  <1>9. c \in Seq(Packages) /\ Len(c) = i
    BY <1>5
  <1>10. \A j \in 1..i : c[j] = IF j < i THEN w[j] ELSE k
    BY <1>5
  <1> HIDE DEF c
  <1>11. /\ c \o b \in Seq(Packages) /\ Len(c \o b) = Len(c) + Len(b)
         /\ \A j \in 1..(Len(c) + Len(b)) :
               (c \o b)[j] = IF j <= Len(c) THEN c[j] ELSE b[j - Len(c)]
    BY <1>4, <1>9, ConcatProperties
  <1>12. r = c \o b
    BY DEF c
  <1> HIDE DEF r
  <1>6. /\ r \in Seq(Packages) /\ Len(r) = Len(w) + 1
        /\ \A j \in 1..Len(r) : /\ j < i => j \in DOMAIN w /\ r[j] = w[j]
                                /\ j = i => r[j] = k
                                /\ j > i => j - 1 \in DOMAIN w /\ r[j] = w[j - 1]
    <2>1. r \in Seq(Packages) /\ Len(r) = Len(w) + 1
      BY <1>0, <1>1, <1>4, <1>9, <1>11, <1>12
    <2>2. ASSUME NEW j \in 1..Len(r)
          PROVE  /\ j < i => j \in DOMAIN w /\ r[j] = w[j]
                 /\ j = i => r[j] = k
                 /\ j > i => j - 1 \in DOMAIN w /\ r[j] = w[j - 1]
      <3>1. j \in 1..(Len(w) + 1)
        BY <2>1
      <3>2. r[j] = IF j <= i THEN c[j] ELSE b[j - i]
        BY <1>0, <1>1, <1>4, <1>9, <1>11, <1>12, <3>1
      <3> QED
        BY <1>0, <1>1, <1>4, <1>10, <3>1, <3>2
    <2> QED
      BY <2>1, <2>2
  <1>7. \A j \in DOMAIN r : r[j] = k \/ \E m \in DOMAIN index : r[j] = index[m]
    BY <1>0, <1>1, <1>6
  <1>8. ASSUME NEW j \in DOMAIN r, NEW m \in DOMAIN r, r[j] = r[m] PROVE j = m
    <2>1. j \in 1..Len(r) /\ m \in 1..Len(r) /\ i \in Nat
      BY <1>1, <1>6
    <2>2. CASE j = i
      BY <1>0, <1>6, <1>8, <2>1, <2>2
    <2>3. CASE m = i
      BY <1>0, <1>6, <1>8, <2>1, <2>3
    <2>4. CASE j < i /\ m < i
      BY <1>0, <1>6, <1>8, <2>1, <2>4
    <2>5. CASE j > i /\ m > i
      BY <1>0, <1>6, <1>8, <2>1, <2>5
    <2>6. CASE j < i /\ m > i
      <3>1. w[j] = w[m - 1] /\ j \in DOMAIN w /\ m - 1 \in DOMAIN w
        BY <1>6, <1>8, <2>1, <2>6
      <3> QED
        BY <1>0, <1>1, <2>1, <2>6, <3>1
    <2>7. CASE j > i /\ m < i
      BY <1>0, <1>6, <1>8, <2>1, <2>7
    <2> QED
      BY <1>1, <2>1, <2>2, <2>3, <2>4, <2>5, <2>6, <2>7
  <1> QED
    BY <1>0, <1>1, <1>2, <1>6, <1>7, <1>8

LEMMA KeptIsPrefix ==
    ASSUME NEW s \in Seq(Packages)
    PROVE  /\ Kept(s) \in Seq(Packages) /\ Len(Kept(s)) <= Limit
           /\ DOMAIN Kept(s) \subseteq DOMAIN s
           /\ \A i \in DOMAIN Kept(s) : Kept(s)[i] = s[i]
           /\ Len(s) > 0 => 1 \in DOMAIN Kept(s)
  <1> DEFINE n == IF Len(s) < Limit THEN Len(s) ELSE Limit
  <1>1. n \in 0..Len(s) /\ n <= Limit /\ (Len(s) > 0 => n > 0)
    BY PrivilegedAssumption
  <1>2. Kept(s) = SubSeq(s, 1, n)
    BY DEF Kept
  <1> HIDE DEF n
  <1>3. /\ SubSeq(s, 1, n) \in Seq(Packages) /\ Len(SubSeq(s, 1, n)) = n
        /\ \A i \in 1..n : SubSeq(s, 1, n)[i] = s[i]
    BY <1>1, SubSeqProperties
  <1> QED
    BY <1>1, <1>2, <1>3

-----------------------------------------------------------------------------
(***************************************************************************)
(* Each action keeps the invariant.  Whoever is inside a command holds the *)
(* lock, so the others are outside and rely on nothing.                    *)
(***************************************************************************)
LEMMA Alone ==
    ASSUME HelperInv, NEW p \in Procs, pc[p] # "off"
    PROVE  lock = p /\ \A q \in Procs \ {p} : pc[q] = "off"
  BY NoneIsNew DEF HelperInv, Exclusive

\* Nobody relies on anything while nobody is inside a command.
LEMMA OffKnows == \A p \in Procs : pc[p] = "off" => Knows(p)
  BY DEF Knows, JobNamed, JobVerified, JobApproved, InstallPcs

LEMMA OffKnowsNext == \A p \in Procs : pc'[p] = "off" => Knows(p)'
  BY DEF Knows, JobNamed, JobVerified, JobApproved, InstallPcs

\* A command begins: the new job is what its guard found.
LEMMA BeginTyped ==
    ASSUME HelperInv, NEW p \in Procs, NEW j \in Jobs, NEW l \in BusyPcs, Begin(p, j, l)
    PROVE  /\ lock' \in Procs \cup {None} /\ pc' \in [Procs -> BusyPcs \cup {"off"}]
           /\ job' \in [Procs -> Jobs]
           /\ report' \in [Procs -> {"none", "Installed", "RolledBack", "failed", "Approved"}]
           /\ Exclusive' /\ \A q \in Procs \ {p} : pc'[q] = "off"
           /\ pc'[p] = l /\ job'[p] = j /\ report'[p] = "none" /\ disturbed' \subseteq Procs
  BY NoneIsNew DEF HelperInv, Begin, Goto, TypeOK, Exclusive

\* A command goes on.
LEMMA AdvanceTyped ==
    ASSUME HelperInv, NEW p \in Procs, NEW from \in BusyPcs, NEW to \in BusyPcs, Advance(p, from, to)
    PROVE  /\ lock' \in Procs \cup {None} /\ pc' \in [Procs -> BusyPcs \cup {"off"}]
           /\ report' \in [Procs -> {"none", "Installed", "RolledBack", "failed", "Approved"}]
           /\ Exclusive' /\ \A q \in Procs \ {p} : pc'[q] = "off"
           /\ pc'[p] = to /\ pc[p] = from /\ report'[p] = "none"
           /\ disturbed' = disturbed /\ disturbed' \subseteq Procs
  <1>1. pc[p] # "off"
    BY DEF Advance, BusyPcs
  <1> QED
    BY <1>1, Alone DEF HelperInv, Advance, Goto, TypeOK, Exclusive, Knows, JobNamed

\* A command ends: nobody is inside one.
LEMMA ReportTyped ==
    ASSUME HelperInv, NEW p \in Procs, pc[p] # "off",
           NEW o \in {"Installed", "RolledBack", "failed", "Approved"}, Report(p, o)
    PROVE  /\ lock' \in Procs \cup {None} /\ pc' \in [Procs -> BusyPcs \cup {"off"}]
           /\ job' \in [Procs -> Jobs]
           /\ report' \in [Procs -> {"none", "Installed", "RolledBack", "failed", "Approved"}]
           /\ Exclusive' /\ \A q \in Procs : pc'[q] = "off" /\ Knows(q)'
           /\ disturbed' \subseteq Procs
  <1>1. NoJob \in Jobs
    BY DEF NoJob, Jobs
  <1>2. \A q \in Procs : pc'[q] = "off"
    BY Alone DEF HelperInv, Report, Goto, TypeOK
  <1> QED
    BY <1>1, <1>2, OffKnowsNext DEF HelperInv, Report, Goto, TypeOK, Exclusive

LEMMA ManagerTyped ==
    ASSUME TypeOK, NEW k \in Packages, ManagerRuns(k)
    PROVE  installed' \in Versions \cup {None}
  BY NoneIsNew DEF TypeOK, ManagerRuns

\* What an action leaves to show once the lock, the pc and the others are
\* settled.
Rest ==
    /\ source \in [Packages -> Contents] /\ cache \in [Packages -> Contents]
    /\ files \subseteq Packages /\ index \in Seq(Packages) /\ Len(index) <= Limit
    /\ active \in [Approvals -> Records \cup {None}] /\ consumed \subseteq Approvals
    /\ installed \in Versions \cup {None} /\ verified \subseteq Packages
    /\ used \in [Approvals -> Nat]
    /\ Distinct /\ Unspent
    /\ RollbackIsServed /\ KnownGoodIsVerified /\ ApprovalUsedOnce

LEMMA RestHolds == HelperInv => Rest
  BY DEF HelperInv, TypeOK, Rest

LEMMA RestKept == HelperInv /\ UNCHANGED stores /\ installed' \in Versions \cup {None} => Rest'
  BY DEF HelperInv, TypeOK, Rest, stores, history, Distinct, Unspent, RollbackIsServed,
         KnownGoodIsVerified, ApprovalUsedOnce

LEMMA Assembled ==
    ASSUME lock' \in Procs \cup {None}, pc' \in [Procs -> BusyPcs \cup {"off"}],
           job' \in [Procs -> Jobs],
           report' \in [Procs -> {"none", "Installed", "RolledBack", "failed", "Approved"}],
           disturbed' \subseteq Procs, Exclusive', Rest', \A q \in Procs : Knows(q)'
    PROVE  HelperInv'
  BY DEF HelperInv, TypeOK, Rest

LEMMA BeginsHold ==
    ASSUME HelperInv, NEW p \in Procs,
           \/ \E k \in Packages : BeginInstall(p, k) \/ BeginApprove(p, k)
           \/ BeginRollback(p)
           \/ \E a \in Approvals : BeginApproved(p, a)
    PROVE  HelperInv'
  <1> DEFINE Started(j, l) == j \in Jobs /\ l \in BusyPcs /\ Begin(p, j, l)
  <1>1. UNCHANGED stores /\ UNCHANGED installed
    BY DEF BeginInstall, BeginApprove, BeginRollback, BeginApproved
  <1>2. Rest'
    BY <1>1, RestKept DEF HelperInv, TypeOK
  <1>3. NoJob \in Jobs /\ NoJob.command = None
    BY DEF NoJob, Jobs
  <1>4. ASSUME NEW k \in Packages, BeginInstall(p, k) \/ BeginApprove(p, k) PROVE HelperInv'
    <2>1. PICK c \in Commands : Started([NoJob EXCEPT !.command = c, !.package = k], "copying")
      BY <1>3, <1>4 DEF BeginInstall, BeginApprove, Jobs, Commands, BusyPcs
    <2>2. [NoJob EXCEPT !.command = c, !.package = k].package = k
      BY DEF NoJob
    <2>3. pc'[p] = "copying" /\ report'[p] = "none" /\ job'[p].package = k
      BY <2>1, <2>2, BeginTyped
    <2>4. Knows(p)'
      BY <2>3 DEF Knows, JobNamed, JobVerified, JobApproved, InstallPcs
    <2> QED
      BY <1>2, <2>1, <2>4, BeginTyped, OffKnowsNext, Assembled
  <1>5. ASSUME BeginRollback(p) PROVE HelperInv'
    <2>1. Started([NoJob EXCEPT !.command = "rollback"], "rolling-back")
      BY <1>3, <1>5 DEF BeginRollback, Jobs, Commands, BusyPcs
    <2>3. pc'[p] = "rolling-back" /\ report'[p] = "none"
      BY <2>1, BeginTyped
    <2>2. Knows(p)'
      BY <2>3 DEF Knows, JobNamed, JobVerified, JobApproved, InstallPcs
    <2> QED
      BY <1>2, <2>1, <2>2, BeginTyped, OffKnowsNext, Assembled
  <1>6. ASSUME NEW a \in Approvals, BeginApproved(p, a) PROVE HelperInv'
    <2> DEFINE k == active[a].package
               j == [NoJob EXCEPT !.command = "approved", !.approval = a, !.package = k]
    <2>1. k \in Packages
      BY <1>6 DEF BeginApproved, RecordIsValid, HelperInv, TypeOK, Records
    <2>2. Started(j, "consuming") /\ j.package = k /\ j.approval = a
      BY <1>3, <1>6, <2>1 DEF BeginApproved, Jobs, Commands, BusyPcs, NoJob
    <2> HIDE DEF j
    <2>3. job'[p].package = k /\ job'[p].approval = a /\ pc'[p] = "consuming" /\ report'[p] = "none"
      BY <2>2, BeginTyped
    <2>4. /\ cache[k] = "good" /\ installed # None /\ VersionOf[k] > installed
          /\ a \notin consumed
      BY <1>6 DEF BeginApproved, RecordIsValid
    <2>5. cache' = cache /\ consumed' = consumed /\ installed' = installed
      BY <1>1 DEF stores
    <2> HIDE DEF k
    <2>6. Knows(p)'
      BY <2>1, <2>3, <2>4, <2>5 DEF Knows, JobNamed, JobVerified, JobApproved, InstallPcs
    <2> QED
      BY <1>2, <2>2, <2>6, BeginTyped, OffKnowsNext, Assembled
  <1> QED
    BY <1>4, <1>5, <1>6

LEMMA EndsHold ==
    ASSUME HelperInv, NEW p \in Procs, pc[p] # "off",
           NEW o \in {"Installed", "RolledBack", "failed", "Approved"}, Report(p, o), Rest'
    PROVE  HelperInv'
  BY ReportTyped, Assembled

LEMMA GoesOn ==
    ASSUME HelperInv, NEW p \in Procs, NEW from \in BusyPcs, NEW to \in BusyPcs,
           Advance(p, from, to), Rest', job' \in [Procs -> Jobs], Knows(p)'
    PROVE  HelperInv'
  BY AdvanceTyped, OffKnowsNext, Assembled

LEMMA Pcs == BusyPcs = InstallPcs \cup {"rolling-back"} /\ "off" \notin BusyPcs
  BY DEF BusyPcs, InstallPcs

LEMMA InstallsHold ==
    ASSUME HelperInv, NEW p \in Procs,
           \/ CopyToRootCache(p) \/ InspectCached(p) \/ InstallPackage(p)
           \/ VerifyInstalled(p) \/ VerifyFails(p)
    PROVE  HelperInv'
  <1> DEFINE k == job[p].package
  <1> USE Pcs
  <1>0. HelperInv /\ Rest /\ Knows(p) /\ job \in [Procs -> Jobs]
    BY RestHolds DEF HelperInv, TypeOK
  <1>1. ASSUME CopyToRootCache(p) PROVE HelperInv'
    <2>1. Advance(p, "copying", "inspecting") /\ UNCHANGED job
      BY <1>1 DEF CopyToRootCache
    <2>2. k \in Packages
      BY <1>0, <2>1 DEF Advance, Knows, JobNamed, InstallPcs
    <2>3. cache' \in [Packages -> Contents]
      BY <1>0, <1>1, <2>2 DEF CopyToRootCache, Rest, Contents
    <2>4. Rest'
      BY <1>0, <1>1, <2>3 DEF CopyToRootCache, history, Rest, Distinct, Unspent, RollbackIsServed,
         KnownGoodIsVerified, ApprovalUsedOnce
    <2>5. pc'[p] = "inspecting" /\ report'[p] = "none"
      BY <2>1, AdvanceTyped DEF InstallPcs
    <2>6. Knows(p)'
      BY <2>1, <2>2, <2>5 DEF Knows, JobNamed, JobVerified, JobApproved, InstallPcs
    <2> QED
      BY <1>0, <2>1, <2>4, <2>6, GoesOn DEF InstallPcs
  <1>2. ASSUME InspectCached(p) PROVE HelperInv'
    <2>1. /\ pc[p] = "inspecting" /\ cache[k] = "good"
          /\ UNCHANGED <<job, stores, installed>>
      BY <1>2 DEF InspectCached
    <2>2. PICK to \in {"installing", "recording"} : Advance(p, "inspecting", to)
      BY <1>2 DEF InspectCached
    <2>3. Rest' /\ k \in Packages /\ cache' = cache /\ job' = job
      BY <1>0, <2>1, RestKept DEF Rest, Knows, JobNamed, InstallPcs, stores
    <2>4. pc'[p] = to /\ report'[p] = "none"
      BY <2>2, AdvanceTyped DEF InstallPcs
    <2>5. Knows(p)'
      BY <2>1, <2>3, <2>4 DEF Knows, JobNamed, JobVerified, JobApproved, InstallPcs
    <2> QED
      BY <1>0, <2>2, <2>3, <2>5, GoesOn DEF InstallPcs
  <1>3. ASSUME InstallPackage(p) PROVE HelperInv'
    <2>1. PICK to \in {"verifying", "rolling-back"} : Advance(p, "installing", to)
      BY <1>3 DEF InstallPackage
    <2>2. k \in Packages
      BY <1>0, <2>1 DEF Advance, Knows, JobNamed, InstallPcs
    <2>3. UNCHANGED stores /\ UNCHANGED job /\ installed' \in Versions \cup {None}
      BY <1>0, <1>3, <2>2, ManagerTyped DEF InstallPackage, HelperInv
    <2>4. pc'[p] = to /\ report'[p] = "none"
      BY <2>1, AdvanceTyped DEF InstallPcs
    <2>5. Knows(p)'
      BY <2>2, <2>3, <2>4 DEF Knows, JobNamed, JobVerified, JobApproved, InstallPcs
    <2> QED
      BY <1>0, <2>1, <2>3, <2>5, RestKept, GoesOn DEF InstallPcs
  <1>4. ASSUME VerifyInstalled(p) PROVE HelperInv'
    <2>1. /\ Advance(p, "verifying", "retaining") /\ UNCHANGED job
          /\ installed = VersionOf[k] /\ installed' = installed /\ verified' = verified \cup {k}
      BY <1>4 DEF VerifyInstalled
    <2>2. k \in Packages
      BY <1>0, <2>1 DEF Advance, Knows, JobNamed, InstallPcs
    <2>3. Rest'
      BY <1>0, <1>4, <2>2 DEF VerifyInstalled, Rest, Distinct, Unspent, RollbackIsServed,
         KnownGoodIsVerified, ApprovalUsedOnce
    <2>4. pc'[p] = "retaining" /\ report'[p] = "none"
      BY <2>1, AdvanceTyped DEF InstallPcs
    <2>5. Knows(p)'
      BY <2>1, <2>2, <2>4 DEF Knows, JobNamed, JobVerified, JobApproved, InstallPcs
    <2> QED
      BY <1>0, <2>1, <2>3, <2>5, GoesOn DEF InstallPcs
  <1>5. ASSUME VerifyFails(p) PROVE HelperInv'
    <2>1. Advance(p, "verifying", "rolling-back") /\ UNCHANGED <<job, stores, installed>>
      BY <1>5 DEF VerifyFails
    <2>2. pc'[p] = "rolling-back" /\ report'[p] = "none"
      BY <2>1, AdvanceTyped DEF InstallPcs
    <2>3. Knows(p)'
      BY <2>2 DEF Knows, JobNamed, JobVerified, JobApproved, InstallPcs
    <2> QED
      BY <1>0, <2>1, <2>3, RestKept, GoesOn DEF InstallPcs, Rest
  <1> QED
    BY <1>1, <1>2, <1>3, <1>4, <1>5

LEMMA RetainHolds ==
    ASSUME HelperInv, NEW p \in Procs, RetainFile(p) \/ WriteIndex(p) \/ PruneFiles(p)
    PROVE  HelperInv'
  <1> DEFINE k == job[p].package
  <1> USE Pcs
  <1>0. HelperInv /\ Rest /\ Knows(p) /\ job \in [Procs -> Jobs]
    BY RestHolds DEF HelperInv, TypeOK
  <1>1. pc[p] \in {"retaining", "indexing", "pruning"}
    BY DEF RetainFile, WriteIndex, PruneFiles, Advance
  <1>2. k \in Packages /\ k \in verified /\ job[p] \in Jobs /\ pc[p] # "off"
    BY <1>0, <1>1 DEF Knows, JobNamed, JobVerified, InstallPcs
  <1>6. p \notin disturbed => installed = VersionOf[k]
    BY <1>0, <1>1 DEF Knows, JobVerified
  <1>3. ASSUME RetainFile(p) PROVE HelperInv'
    <2>1. /\ Advance(p, "retaining", "indexing")
          /\ job' = job /\ installed' = installed /\ verified' = verified
          /\ files' = files \cup {k}
      BY <1>3 DEF RetainFile, history
    <2>2. Rest'
      BY <1>0, <1>2, <1>3 DEF RetainFile, history, Rest, Distinct, Unspent, RollbackIsServed,
         KnownGoodIsVerified, ApprovalUsedOnce
    <2>3. pc'[p] = "indexing" /\ report'[p] = "none" /\ disturbed' = disturbed
      BY <2>1, AdvanceTyped DEF InstallPcs
    <2>4. Knows(p)'
      BY <1>2, <1>6, <2>1, <2>3 DEF Knows, JobNamed, JobVerified, JobApproved, InstallPcs
    <2> QED
      BY <1>0, <2>1, <2>2, <2>4, GoesOn DEF InstallPcs
  <1>4. ASSUME WriteIndex(p) PROVE HelperInv'
    <2>1. PICK i \in Places(k) :
            /\ index' = Kept(Ranked(k, i))
            /\ job' = [job EXCEPT ![p].stale = ToSet(Ranked(k, i)) \ ToSet(Kept(Ranked(k, i)))]
      BY <1>4 DEF WriteIndex
    <2>2. /\ Advance(p, "indexing", "pruning") /\ k \in files
          /\ files' = files /\ verified' = verified /\ installed' = installed
      BY <1>0, <1>4 DEF WriteIndex, history, Knows, JobVerified
    <2> DEFINE s == Ranked(k, i)
    <2>3. /\ s \in Seq(Packages) /\ Len(s) > 0
          /\ \A j \in DOMAIN s : s[j] = k \/ \E m \in DOMAIN index : s[j] = index[m]
          /\ \A j, m \in DOMAIN s : s[j] = s[m] => j = m
          /\ ~ClockJumps => s[1] = k
      BY <1>0, <1>2, RankedIsIndex DEF HelperInv
    <2> HIDE DEF s
    <2>4. /\ Kept(s) \in Seq(Packages) /\ Len(Kept(s)) <= Limit
          /\ DOMAIN Kept(s) \subseteq DOMAIN s
          /\ \A j \in DOMAIN Kept(s) : Kept(s)[j] = s[j]
          /\ 1 \in DOMAIN Kept(s)
      BY <2>3, KeptIsPrefix
    <2>5. index' = Kept(s) /\ job' = [job EXCEPT ![p].stale = ToSet(s) \ ToSet(Kept(s))]
      BY <2>1 DEF s
    <2>6. ToSet(s) \subseteq Packages
      BY <2>3 DEF ToSet
    <2>7. /\ job' \in [Procs -> Jobs] /\ job'[p].package = k
          /\ job'[p].stale = ToSet(s) \ ToSet(Kept(s))
      <3>1. [job[p] EXCEPT !.stale = ToSet(s) \ ToSet(Kept(s))] \in Jobs
        BY <1>2, <2>6 DEF Jobs
      <3> QED
        BY <1>0, <1>2, <2>5, <3>1 DEF Jobs
    <2>8. /\ \A j \in DOMAIN index' : index'[j] \in files /\ index'[j] \in verified
          /\ \A j, m \in DOMAIN index' : index'[j] = index'[m] => j = m
      BY <1>0, <1>2, <2>2, <2>3, <2>4, <2>5 DEF Rest, RollbackIsServed, KnownGoodIsVerified
    <2>9. /\ \A j \in DOMAIN index' : index'[j] \notin job'[p].stale
          /\ ~ClockJumps => index'[1] = k /\ 1 \in DOMAIN index'
      BY <2>3, <2>4, <2>5, <2>7 DEF ToSet
    <2>10. Rest'
      <3>1. index' \in Seq(Packages) /\ Len(index') <= Limit
        BY <2>4, <2>5
      <3>2. RollbackIsServed' /\ KnownGoodIsVerified' /\ Distinct'
        BY <2>2, <2>8 DEF RollbackIsServed, KnownGoodIsVerified, Distinct
      <3> QED
        BY <1>0, <1>4, <3>1, <3>2 DEF WriteIndex, history, Rest, Unspent, ApprovalUsedOnce
    <2>11. pc'[p] = "pruning" /\ report'[p] = "none" /\ disturbed' = disturbed
      BY <2>2, AdvanceTyped DEF InstallPcs
    <2>12. Knows(p)'
      BY <1>2, <1>6, <2>2, <2>7, <2>9, <2>11 DEF Knows, JobNamed, JobVerified, JobApproved, InstallPcs
    <2> QED
      BY <1>0, <2>2, <2>7, <2>10, <2>12, GoesOn DEF InstallPcs
  <1>5. ASSUME PruneFiles(p) PROVE HelperInv'
    <2>1. PICK gone \in SUBSET job[p].stale : files' = files \ gone
      BY <1>5 DEF PruneFiles
    <2>2. \A i \in DOMAIN index : index[i] \notin gone
      BY <1>0, <1>5 DEF PruneFiles, Knows, JobVerified
    <2>3. Rest'
      BY <1>0, <1>5, <2>1, <2>2 DEF PruneFiles, history, Rest, Distinct, Unspent, RollbackIsServed,
         KnownGoodIsVerified, ApprovalUsedOnce
    <2> QED
      BY <1>2, <1>5, <2>3, EndsHold DEF PruneFiles
  <1> QED
    BY <1>3, <1>4, <1>5

LEMMA RollbacksHold ==
    ASSUME HelperInv, NEW p \in Procs, ChooseLatest(p) \/ RestorePackage(p) \/ ReportRestored(p)
    PROVE  HelperInv'
  <1> DEFINE k == job[p].package
  <1> USE Pcs
  <1>0. HelperInv /\ Rest /\ Knows(p) /\ job \in [Procs -> Jobs] /\ job[p] \in Jobs
    BY RestHolds DEF HelperInv, TypeOK
  <1>1. ASSUME ChooseLatest(p) PROVE HelperInv'
    <2>1. /\ Advance(p, "rolling-back", "restoring")
          /\ job' = [job EXCEPT ![p].package = index[1]]
          /\ UNCHANGED stores /\ UNCHANGED installed
      BY <1>1 DEF ChooseLatest
    <2>2. 1 \in DOMAIN index /\ index[1] \in Packages /\ index[1] \in verified
      BY <1>0, <1>1 DEF ChooseLatest, Rest, KnownGoodIsVerified
    <2>3. job' \in [Procs -> Jobs] /\ job'[p].package = index[1]
      <3>1. [job[p] EXCEPT !.package = index[1]] \in Jobs
        BY <1>0, <2>2 DEF Jobs
      <3> QED
        BY <1>0, <2>1, <3>1 DEF Jobs
    <2>4. pc'[p] = "restoring" /\ report'[p] = "none" /\ verified' = verified
      BY <2>1, AdvanceTyped DEF InstallPcs, stores, history
    <2>5. Knows(p)'
      BY <2>2, <2>3, <2>4 DEF Knows, JobNamed, JobVerified, JobApproved, InstallPcs
    <2> QED
      BY <1>0, <2>1, <2>3, <2>5, RestKept, GoesOn DEF InstallPcs, Rest
  <1>2. ASSUME RestorePackage(p) PROVE HelperInv'
    <2>1. Advance(p, "restoring", "restored") /\ UNCHANGED stores /\ job' = job
      BY <1>2 DEF RestorePackage
    <2>2. k \in Packages /\ k \in verified
      BY <1>0, <2>1 DEF Advance, Knows, JobNamed, JobVerified, InstallPcs
    <2>3. installed' \in Versions \cup {None}
      BY <1>0, <1>2, <2>2, ManagerTyped DEF RestorePackage, HelperInv
    <2>4. pc'[p] = "restored" /\ report'[p] = "none" /\ verified' = verified
      BY <2>1, AdvanceTyped DEF InstallPcs, stores, history
    <2>5. Knows(p)'
      BY <2>1, <2>2, <2>4 DEF Knows, JobNamed, JobVerified, JobApproved, InstallPcs
    <2> QED
      BY <1>0, <2>1, <2>3, <2>5, RestKept, GoesOn DEF InstallPcs
  <1>3. ASSUME ReportRestored(p) PROVE HelperInv'
    <2>1. UNCHANGED stores /\ UNCHANGED installed
      BY <1>3 DEF ReportRestored, stores, history
    <2> QED
      BY <1>0, <1>3, <2>1, RestKept, EndsHold DEF ReportRestored, Rest
  <1> QED
    BY <1>1, <1>2, <1>3

LEMMA ApprovesHold ==
    ASSUME HelperInv, NEW p \in Procs, WriteRecord(p) \/ \E a \in Approvals : CreateRecord(p, a)
    PROVE  HelperInv'
  <1> DEFINE k == job[p].package
  <1> USE Pcs
  <1>0. HelperInv /\ Rest /\ Knows(p) /\ job \in [Procs -> Jobs] /\ job[p] \in Jobs
    BY RestHolds DEF HelperInv, TypeOK
  <1>1. ASSUME WriteRecord(p) PROVE HelperInv'
    <2> DEFINE a == job[p].approval
    <2>1. a \in Approvals /\ active[a] \in Records
      BY <1>0, <1>1 DEF WriteRecord, Knows, JobNamed, Rest
    <2>2. active' \in [Approvals -> Records \cup {None}]
      <3>1. [active[a] EXCEPT !.complete = TRUE] \in Records
        BY <2>1 DEF Records
      <3> QED
        BY <1>0, <1>1, <2>1, <3>1 DEF WriteRecord, Rest
    <2>3. Rest'
      BY <1>0, <1>1, <2>2 DEF WriteRecord, history, Rest, Distinct, Unspent, RollbackIsServed,
         KnownGoodIsVerified, ApprovalUsedOnce
    <2> QED
      BY <1>1, <2>3, EndsHold DEF WriteRecord
  <1>2. ASSUME NEW a \in Approvals, CreateRecord(p, a) PROVE HelperInv'
    <2> DEFINE r == [package |-> k, complete |-> FALSE, fresh |-> TRUE]
    <2>1. /\ Advance(p, "recording", "writing")
          /\ job' = [job EXCEPT ![p].approval = a]
          /\ active' = [active EXCEPT ![a] = r]
      BY <1>2 DEF CreateRecord
    <2>2. k \in Packages /\ r \in Records
      BY <1>0, <2>1 DEF Advance, Knows, JobNamed, InstallPcs, Records
    <2>3. active'[a] # None
      BY <1>0, <2>1, <2>2, RecordAssumption DEF Rest
    <2>4. job' \in [Procs -> Jobs] /\ job'[p].package = k /\ job'[p].approval = a
      <3>1. [job[p] EXCEPT !.approval = a] \in Jobs
        BY <1>0 DEF Jobs
      <3> QED
        BY <1>0, <2>1, <3>1 DEF Jobs
    <2>5. Rest'
      BY <1>0, <1>2, <2>1, <2>2 DEF CreateRecord, history, Rest, Distinct, Unspent, RollbackIsServed,
         KnownGoodIsVerified, ApprovalUsedOnce
    <2>6. pc'[p] = "writing" /\ report'[p] = "none"
      BY <2>1, AdvanceTyped DEF InstallPcs
    <2>7. Knows(p)'
      BY <2>2, <2>3, <2>4, <2>6 DEF Knows, JobNamed, JobVerified, JobApproved, InstallPcs
    <2> QED
      BY <1>0, <2>1, <2>4, <2>5, <2>7, GoesOn DEF InstallPcs
  <1> QED
    BY <1>1, <1>2

LEMMA ApprovedHold ==
    ASSUME HelperInv, NEW p \in Procs, ConsumeApproval(p) \/ InstallApproved(p) \/ ReportApproved(p)
    PROVE  HelperInv'
  <1> DEFINE k == job[p].package
             a == job[p].approval
  <1> USE Pcs
  <1>0. HelperInv /\ Rest /\ Knows(p) /\ job \in [Procs -> Jobs]
    BY RestHolds DEF HelperInv, TypeOK
  <1>1. ASSUME ConsumeApproval(p) PROVE HelperInv'
    <2>1. /\ Advance(p, "consuming", "approved") /\ job' = job /\ installed' = installed
          /\ cache' = cache /\ used' = used /\ consumed' = consumed \cup {a}
          /\ active' = [active EXCEPT ![a] = None]
      BY <1>1 DEF ConsumeApproval, history
    <2>2. k \in Packages /\ a \in Approvals /\ a \notin consumed
      BY <1>0, <2>1 DEF Advance, Knows, JobNamed, JobApproved, InstallPcs
    <2>3. /\ used[a] = 0 /\ cache[k] = "good"
          /\ p \notin disturbed => installed # None /\ VersionOf[k] > installed
      BY <1>0, <2>1, <2>2 DEF Advance, Knows, JobApproved, Rest, Unspent
    <2>4. Rest'
      BY <1>0, <1>1, <2>1, <2>2 DEF ConsumeApproval, history, Rest, Distinct, Unspent, RollbackIsServed,
         KnownGoodIsVerified, ApprovalUsedOnce
    <2>5. pc'[p] = "approved" /\ report'[p] = "none" /\ disturbed' = disturbed
      BY <2>1, AdvanceTyped DEF InstallPcs
    <2>6. Knows(p)'
      BY <2>1, <2>2, <2>3, <2>5 DEF Knows, JobNamed, JobVerified, JobApproved, InstallPcs
    <2> QED
      BY <1>0, <2>1, <2>4, <2>6, GoesOn DEF InstallPcs
  <1>2. ASSUME InstallApproved(p) PROVE HelperInv'
    <2>1. /\ Advance(p, "approved", "applied") /\ job' = job
          /\ used' = [used EXCEPT ![a] = @ + 1] /\ ManagerRuns(k)
      BY <1>2 DEF InstallApproved
    <2>2. k \in Packages /\ a \in Approvals /\ a \in consumed /\ used[a] = 0
      BY <1>0, <2>1 DEF Advance, Knows, JobNamed, JobApproved, InstallPcs
    <2>3. installed' \in Versions \cup {None}
      BY <2>1, <2>2, ManagerTyped DEF HelperInv
    <2>4. Rest'
      BY <1>0, <1>2, <2>1, <2>2, <2>3 DEF InstallApproved, Rest, Distinct, Unspent, RollbackIsServed,
         KnownGoodIsVerified, ApprovalUsedOnce
    <2>5. pc'[p] = "applied" /\ report'[p] = "none"
      BY <2>1, AdvanceTyped DEF InstallPcs
    <2>6. Knows(p)'
      BY <2>1, <2>2, <2>5 DEF Knows, JobNamed, JobVerified, JobApproved, InstallPcs
    <2> QED
      BY <1>0, <2>1, <2>4, <2>6, GoesOn DEF InstallPcs
  <1>3. ASSUME ReportApproved(p) PROVE HelperInv'
    <2>1. UNCHANGED stores /\ UNCHANGED installed
      BY <1>3 DEF ReportApproved, stores, history
    <2> QED
      BY <1>0, <1>3, <2>1, RestKept, EndsHold DEF ReportApproved, Rest
  <1> QED
    BY <1>1, <1>2, <1>3

LEMMA StopsHold ==
    ASSUME HelperInv, NEW p \in Procs, Fail(p) \/ Crash(p)
    PROVE  HelperInv'
  <1> DEFINE k == job[p].package
             a == job[p].approval
  <1> USE Pcs
  <1>0. HelperInv /\ Rest /\ Knows(p) /\ pc[p] # "off"
    BY RestHolds DEF HelperInv, Fail, Crash
  <1>1. ASSUME Fail(p) PROVE HelperInv'
    BY <1>0, <1>1, RestKept, EndsHold DEF Fail, Rest
  <1>2. ASSUME Crash(p) PROVE HelperInv'
    <2>1. installed' \in Versions \cup {None}
      BY <1>0, <1>2 DEF Crash, Rest
    <2>2. CASE pc[p] = "approved"
      <3>1. a \in Approvals /\ a \in consumed /\ used[a] = 0
        BY <1>0, <2>2 DEF Knows, JobNamed, JobApproved
      <3>2. Rest'
        BY <1>0, <1>2, <2>1, <2>2, <3>1 DEF Crash, Rest, Distinct, Unspent, RollbackIsServed,
           KnownGoodIsVerified, ApprovalUsedOnce
      <3> QED
        BY <1>0, <1>2, <3>2, EndsHold DEF Crash
    <2>3. CASE pc[p] # "approved"
      <3>1. UNCHANGED stores
        BY <1>2, <2>3 DEF Crash, stores, history
      <3> QED
        BY <1>0, <1>2, <2>1, <3>1, RestKept, EndsHold DEF Crash
    <2> QED
      BY <2>2, <2>3
  <1> QED
    BY <1>1, <1>2

LEMMA SurroundingsHold ==
    ASSUME HelperInv,
           \/ \E k \in Packages : ChangeWorkspace(k)
           \/ \E a \in Approvals : Expire(a)
           \/ OtherManager
    PROVE  HelperInv'
  <1>0. Rest /\ TypeOK /\ \A p \in Procs : Knows(p)
    BY RestHolds DEF HelperInv
  <1>1. ASSUME NEW k \in Packages, ChangeWorkspace(k) PROVE HelperInv'
    <2>1. /\ source' \in [Packages -> Contents]
          /\ UNCHANGED <<lock, pc, job, cache, files, index, active, consumed, installed, report,
                         verified, used, disturbed>>
      BY <1>0, <1>1 DEF ChangeWorkspace, history, Rest
    <2>2. Rest'
      BY <1>0, <2>1 DEF Rest, Distinct, Unspent, RollbackIsServed, KnownGoodIsVerified, ApprovalUsedOnce
    <2>3. \A p \in Procs : Knows(p)'
      BY <1>0, <2>1 DEF Knows, JobNamed, JobVerified, JobApproved, InstallPcs
    <2> QED
      BY <2>1, <2>2, <2>3, Assembled DEF HelperInv, TypeOK, Exclusive
  <1>2. ASSUME NEW a \in Approvals, Expire(a) PROVE HelperInv'
    <2>1. /\ active[a] # None /\ active' = [active EXCEPT ![a].fresh = FALSE]
          /\ UNCHANGED <<lock, pc, job, source, cache, files, index, consumed, installed, report,
                         verified, used, disturbed>>
      BY <1>2 DEF Expire, history
    <2>2. [active[a] EXCEPT !.fresh = FALSE] \in Records
      BY <1>0, <2>1 DEF Rest, Records
    <2>3. Rest'
      BY <1>0, <2>1, <2>2 DEF Rest, Distinct, Unspent, RollbackIsServed, KnownGoodIsVerified, ApprovalUsedOnce
    <2>4. \A p \in Procs : Knows(p)'
      <3> SUFFICES ASSUME NEW p \in Procs PROVE Knows(p)'
        OBVIOUS
      <3>1. pc[p] = "writing" => active'[job[p].approval] # None
        BY <1>0, <2>1, <2>2, RecordAssumption DEF Knows, JobNamed, Rest
      <3> QED
        BY <1>0, <2>1, <3>1 DEF Knows, JobNamed, JobVerified, JobApproved, InstallPcs
    <2> QED
      BY <1>0, <2>1, <2>3, <2>4, Assembled DEF HelperInv, TypeOK, Exclusive
  <1>3. ASSUME OtherManager PROVE HelperInv'
    <2>1. /\ installed' \in Versions \cup {None} /\ disturbed' = {p \in Procs : pc[p] # "off"}
          /\ UNCHANGED <<lock, pc, job, source, cache, files, index, active, consumed, report,
                         verified, used>>
      BY <1>3 DEF OtherManager, history
    <2>2. Rest'
      BY <1>0, <2>1 DEF Rest, Distinct, Unspent, RollbackIsServed, KnownGoodIsVerified, ApprovalUsedOnce
    <2>3. \A p \in Procs : Knows(p)'
      BY <1>0, <2>1 DEF Knows, JobNamed, JobVerified, JobApproved, InstallPcs
    <2> QED
      BY <2>1, <2>2, <2>3, Assembled DEF HelperInv, TypeOK, Exclusive
  <1> QED
    BY <1>1, <1>2, <1>3

LEMMA StepHolds == HelperInv /\ [Next]_vars => HelperInv'
  <1> SUFFICES ASSUME HelperInv, [Next]_vars PROVE HelperInv'
    OBVIOUS
  <1>1. ASSUME NEW p \in Procs, Install(p) PROVE HelperInv'
    BY <1>1, BeginsHold, InstallsHold, RetainHolds DEF Install
  <1>2. ASSUME NEW p \in Procs, Rollback(p) PROVE HelperInv'
    BY <1>2, BeginsHold, RollbacksHold DEF Rollback
  <1>3. ASSUME NEW p \in Procs, Approve(p) PROVE HelperInv'
    BY <1>3, BeginsHold, ApprovesHold DEF Approve
  <1>4. ASSUME NEW p \in Procs, Approved(p) PROVE HelperInv'
    BY <1>4, BeginsHold, ApprovedHold DEF Approved
  <1>5. ASSUME NEW p \in Procs, Fail(p) \/ Crash(p) PROVE HelperInv'
    BY <1>5, StopsHold
  <1>6. CASE UNCHANGED vars
    BY <1>6 DEF vars, history, HelperInv, TypeOK, Exclusive, Distinct, Unspent, RollbackIsServed,
       KnownGoodIsVerified, ApprovalUsedOnce, Knows, JobNamed, JobVerified, JobApproved
  <1> QED
    BY <1>1, <1>2, <1>3, <1>4, <1>5, <1>6, SurroundingsHold DEF Next

\* The inductive invariant: a helper relies only on what the lock keeps for it.
THEOREM HelperInvariance == Spec => []HelperInv
  <1> QED
    BY StartHolds, StepHolds, PTL DEF Spec

-----------------------------------------------------------------------------
\* Every variable keeps its type; the index never outgrows its limit
\* (KnownGoodStore::retain).
THEOREM HelperTypes == Spec => []TypeOK
  <1>1. HelperInv => TypeOK
    BY DEF HelperInv
  <1> QED
    BY <1>1, HelperInvariance, PTL

\* list and rollback find every package the index names, whatever helper died
\* while it retained one.
THEOREM RollbackServed == Spec => []RollbackIsServed
  <1>1. HelperInv => RollbackIsServed
    BY DEF HelperInv
  <1> QED
    BY <1>1, HelperInvariance, PTL

\* Only what was installed and found installed is retained as known good.
THEOREM KnownGoodVerified == Spec => []KnownGoodIsVerified
  <1>1. HelperInv => KnownGoodIsVerified
    BY DEF HelperInv
  <1> QED
    BY <1>1, HelperInvariance, PTL

\* The package manager is only given a package whose cached copy was hashed and
\* inspected by the helper that installs it.
THEOREM OnlyValidated == Spec => []OnlyValidatedInstalled
  <1>1. HelperInv => OnlyValidatedInstalled
    BY DEF HelperInv, Knows, OnlyValidatedInstalled
  <1> QED
    BY <1>1, HelperInvariance, PTL

\* An approval starts at most one installation.
THEOREM ApprovalOnce == Spec => []ApprovalUsedOnce
  <1>1. HelperInv => ApprovalUsedOnce
    BY DEF HelperInv
  <1> QED
    BY <1>1, HelperInvariance, PTL

\* An approved installation replaces an older version, whatever other helpers
\* do and wherever they die, unless a package manager outside the root lock
\* runs after the check of the versions.
THEOREM OnlyUpgrades == Spec => ApprovedOnlyUpgrades
  <1> DEFINE Upgrade == \A p \in Procs : pc[p] = "approved" /\ pc'[p] = "applied"
                             /\ p \notin disturbed
                          => installed # None /\ VersionOf[job[p].package] > installed
  <1>1. HelperInv /\ [Next]_vars => [Upgrade]_vars
    BY DEF HelperInv, Knows, JobApproved
  <1> QED
    BY <1>1, HelperInvariance, PTL DEF Spec, ApprovedOnlyUpgrades

\* Only the last step of a command reports a success.
LEMMA Reports ==
    ASSUME HelperInv, Next, NEW p \in Procs, pc[p] # "off",
           report'[p] \in {"Installed", "RolledBack"}
    PROVE  PruneFiles(p) \/ ReportRestored(p) \/ ReportApproved(p)
  <1>1. report[p] = "none" /\ lock = p /\ lock # None
    BY Alone, NoneIsNew DEF HelperInv, Knows, JobNamed
  <1>2. ASSUME NEW q \in Procs, NEW o \in {"Installed", "RolledBack", "failed", "Approved"},
               pc[q] # "off", Report(q, o)
        PROVE  q = p /\ report'[p] = o
    BY <1>1, <1>2, Alone DEF Report, HelperInv, TypeOK
  <1>3. PICK q \in Procs : \/ PruneFiles(q) \/ ReportRestored(q) \/ ReportApproved(q)
                           \/ WriteRecord(q) \/ Fail(q) \/ Crash(q)
    BY <1>1 DEF Next, Install, Rollback, Approve, Approved, BeginInstall, BeginRollback,
       BeginApprove, BeginApproved, Begin, Advance, CopyToRootCache, InspectCached, InstallPackage,
       VerifyInstalled, VerifyFails, RetainFile, WriteIndex, ChooseLatest, RestorePackage,
       CreateRecord, ConsumeApproval, InstallApproved, ChangeWorkspace, Expire, OtherManager
  <1>4. ~WriteRecord(q) /\ ~Fail(q) /\ ~Crash(q)
    BY <1>2 DEF WriteRecord, Fail, Crash
  <1>5. q = p
    BY <1>2, <1>3, <1>4 DEF PruneFiles, ReportRestored, ReportApproved
  <1> QED
    BY <1>3, <1>4, <1>5

\* What a helper reports as installed or rolled back is what the package
\* manager then says, unless a package manager outside the root lock changed it.
THEOREM ReportTrue == Spec => ReportIsTrue
  <1> DEFINE True == \A p \in Procs :
                       pc[p] # "off" /\ report'[p] \in {"Installed", "RolledBack"}
                       => /\ p \notin disturbed => installed' = VersionOf[job[p].package]
                          /\ report'[p] = "Installed" /\ pc[p] = "pruning" => job[p].package \in verified
                          /\ report'[p] = "RolledBack" => job[p].package \in verified
  <1>1. ASSUME HelperInv, Next, NEW p \in Procs, pc[p] # "off",
               report'[p] \in {"Installed", "RolledBack"}
        PROVE  /\ p \notin disturbed => installed' = VersionOf[job[p].package]
               /\ report'[p] = "Installed" /\ pc[p] = "pruning" => job[p].package \in verified
               /\ report'[p] = "RolledBack" => job[p].package \in verified
    <2>1. Knows(p)
      BY <1>1 DEF HelperInv
    <2>2. CASE PruneFiles(p)
      BY <1>1, <2>1, <2>2 DEF PruneFiles, Report, Knows, JobVerified, HelperInv, TypeOK
    <2>3. CASE ReportRestored(p)
      BY <1>1, <2>1, <2>3 DEF ReportRestored, Report, Knows, JobVerified
    <2>4. CASE ReportApproved(p)
      BY <1>1, <2>1, <2>4 DEF ReportApproved, Report, HelperInv, TypeOK
    <2> QED
      BY <1>1, <2>2, <2>3, <2>4, Reports
  <1>2. HelperInv /\ [Next]_vars => [True]_vars
    BY <1>1
  <1> QED
    BY <1>2, HelperInvariance, PTL DEF Spec, ReportIsTrue

\* Unless the clock is set back, what is reported as installed is what the
\* next rollback finds in the index and on disk.
THEOREM InstalledRetained ==
    ASSUME ~ClockJumps
    PROVE  Spec => InstalledIsRetained
  <1> DEFINE Retained == \A p \in Procs :
                           pc[p] = "pruning" /\ report'[p] = "Installed"
                           => \E i \in DOMAIN index : index[i] = job[p].package /\ index[i] \in files'
  <1>1. ASSUME HelperInv, HelperInv', Next PROVE Retained
    <2> SUFFICES ASSUME NEW p \in Procs, pc[p] = "pruning", report'[p] = "Installed"
                 PROVE  \E i \in DOMAIN index : index[i] = job[p].package /\ index[i] \in files'
      OBVIOUS
    <2>1. PruneFiles(p)
      BY <1>1, Reports DEF ReportRestored, ReportApproved
    <2>2. PICK i \in DOMAIN index : index[i] = job[p].package
      BY <1>1 DEF HelperInv, Knows, JobVerified
    <2>3. index' = index /\ index[i] \in files'
      BY <1>1, <2>1 DEF PruneFiles, HelperInv, RollbackIsServed
    <2> QED
      BY <2>2, <2>3
  <1>2. HelperInv /\ HelperInv' /\ [Next]_vars => [Retained]_vars
    BY <1>1
  <1> QED
    BY <1>2, HelperInvariance, PTL DEF Spec, InstalledIsRetained
=============================================================================
