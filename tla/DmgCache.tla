------------------------------ MODULE DmgCache ------------------------------
(***************************************************************************)
(* One download cache directory and the processes that fill and read it:   *)
(* the probe of the upstream watch, a release build, build-app with a      *)
(* pinned DMG, and the updater's preparation of a candidate, which looks   *)
(* up and downloads in Rust and then runs build-app.  They share           *)
(*   Factory-<sha256>.dmg                    a DMG under its digest        *)
(*   version-index.json                      version -> accepted digest    *)
(*   version-index.json.<pid>.partial        an index being written        *)
(*   electron/electron-<v>-linux-x64.zip     the Electron runtime          *)
(* and take no lock: between two steps of one process any other may run,   *)
(* and a process may end at every step, leaving its files behind.          *)
(***************************************************************************)
EXTENDS Naturals

CONSTANTS
    Process,      \* processes at work on the directory, named by their pids
    KindsOf,      \* the kinds of run each process may be
    Version,      \* Factory versions
    Blob,         \* DMG contents, each identified with its SHA-256
    VersionOf,    \* the version a DMG embeds
    Accepted,     \* the DMGs whose bundle every required patch fits
    Wanted,       \* versions the claims about recovery are checked for
    MaxAborts,    \* bound: disturbances in a behaviour
    Absent,       \* no such file, no such entry, no value yet
    Junk,         \* the content of a damaged file
    Whole         \* a complete Electron archive

ASSUME CacheConstants ==
    /\ VersionOf \in [Blob -> Version]
    /\ Accepted \subseteq Blob
    /\ Wanted \subseteq Version
    /\ MaxAborts \in Nat
    /\ {Absent, Junk, Whole} \cap (Process \cup Version \cup Blob) = {}
    /\ Absent # Junk /\ Absent # Whole /\ Junk # Whole

VARIABLES
    blob,      \* blob[d]: the content of Factory-<d>.dmg
    index,     \* index[v]: the digest version-index.json gives v
    temp,      \* pids whose version-index.json.<pid>.partial exists
    zip,       \* the Electron archive: a process that truncated it last writes it
    job,       \* what each process does
    aborts,    \* how many disturbances happened
    marred,    \* history: a death left a half-written archive or a temporary index
    spoiled    \* the digests whose file was damaged, or copied from a pinned
               \* file that was rewritten meanwhile

vars == <<blob, index, temp, zip, job, aborts, marred, spoiled>>

Kinds == {"watch", "release", "pinned", "updater"}

ASSUME KindsAssumption == KindsOf \in [Process -> SUBSET Kinds]

Steps == {"idle", "lookup", "fetch", "publish", "hash", "copy", "extract",
          "unpack", "patch", "zipCheck", "zipRequest", "zipWrite", "assemble", "record", "rename"}

Idle == [pc |-> "idle", kind |-> "watch", want |-> Absent, digest |-> Absent,
         snap |-> [v \in Version |-> Absent]]

\* Only a run with a version looks it up; a pinned DMG may be built without one,
\* and is copied after it was hashed.
Jobs == {j \in [pc : Steps, kind : Kinds, want : Version \cup {Absent},
                digest : Blob \cup {Absent}, snap : [Version -> Blob \cup {Absent}]] :
            /\ j.pc = "lookup" => j.want # Absent
            /\ j.pc = "copy" => j.digest # Absent}

TypeOK ==
    /\ blob \in [Blob -> Blob \cup {Absent, Junk}]
    /\ index \in [Version -> Blob \cup {Absent}]
    /\ temp \subseteq Process
    /\ zip \in Process \cup {Absent, Junk, Whole}
    /\ job \in [Process -> Jobs]
    /\ aborts \in 0..MaxAborts
    /\ marred \in BOOLEAN
    /\ spoiled \subseteq Blob

Init ==
    /\ blob = [d \in Blob |-> Absent]
    /\ index = [v \in Version |-> Absent]
    /\ temp = {}
    /\ zip = Absent
    /\ job = [p \in Process |-> Idle]
    /\ aborts = 0
    /\ marred = FALSE
    /\ spoiled = {}

-----------------------------------------------------------------------------
At(p, pc) == job[p].pc = pc
Goto(p, pc) == job' = [job EXCEPT ![p].pc = pc]
Stop(p) == job' = [job EXCEPT ![p] = Idle]

File(d) == IF d = Absent THEN Absent ELSE blob[d]

\* A DMG is in the cache when the file of its name has its content.
Present(d) == d # Absent /\ blob[d] = d

(***************************************************************************)
(* Acquisition.  A pinned build hashes the file it is given; the others    *)
(* look the version up and download it when the index or the file is       *)
(* missing.  An indexed file with other content is an error, not a miss.   *)
(***************************************************************************)
\* Variant: a probe or a release build starts without a version.
BeginAny(p, k, v) ==
    /\ At(p, "idle")
    /\ job' = [job EXCEPT ![p] = [Idle EXCEPT !.pc = IF k = "pinned" THEN "hash" ELSE "lookup",
                                              !.kind = k, !.want = v]]
    /\ UNCHANGED <<blob, index, temp, zip, aborts, marred, spoiled>>

Begin(p, k, v) ==
    /\ At(p, "idle")
    /\ k # "pinned" => v # Absent
    /\ job' = [job EXCEPT ![p] = [Idle EXCEPT !.pc = IF k = "pinned" THEN "hash" ELSE "lookup",
                                              !.kind = k, !.want = v]]
    /\ UNCHANGED <<blob, index, temp, zip, aborts, marred, spoiled>>

LookUp(p) ==
    LET d == index[job[p].want]
        file == File(d) IN
    /\ At(p, "lookup")
    /\ \/ file = Absent /\ Goto(p, "fetch")
       \/ /\ file = d /\ d # Absent
          /\ job' = [job EXCEPT ![p].pc = "extract", ![p].digest = d]
       \/ file \notin {d, Absent} /\ Stop(p)
    /\ UNCHANGED <<blob, index, temp, zip, aborts, marred, spoiled>>

\* Variant: the response is written under its final name while it arrives.
FetchInPlace(p, d) ==
    /\ At(p, "fetch")
    /\ blob' = [blob EXCEPT ![d] = IF @ = Absent THEN Junk ELSE @]
    /\ job' = [job EXCEPT ![p].pc = "publish", ![p].digest = d]
    /\ UNCHANGED <<index, temp, zip, aborts, marred, spoiled>>

\* The URL and every redirect name the version; what they deliver is not
\* bound to it, so any content may arrive in the process's partial file.
Fetch(p, d) ==
    /\ At(p, "fetch")
    /\ job' = [job EXCEPT ![p].pc = "publish", ![p].digest = d]
    /\ UNCHANGED <<blob, index, temp, zip, aborts, marred, spoiled>>

\* Variant: a DMG that is in the cache already is taken for a collision.
PublishOnce(p) ==
    LET d == job[p].digest IN
    /\ At(p, "publish")
    /\ IF blob[d] = Absent
       THEN blob' = [blob EXCEPT ![d] = d] /\ Goto(p, "extract")
       ELSE Stop(p) /\ UNCHANGED blob
    /\ UNCHANGED <<index, temp, zip, aborts, marred, spoiled>>

\* The digest of what arrived is the name.  A file of that name with other
\* content ends the run.
Publish(p) ==
    LET d == job[p].digest IN
    /\ At(p, "publish")
    /\ \/ /\ blob[d] = Absent
          /\ blob' = [blob EXCEPT ![d] = d]
          /\ Goto(p, "extract")
       \/ Present(d) /\ Goto(p, "extract") /\ UNCHANGED blob
       \/ blob[d] \notin {d, Absent} /\ Stop(p) /\ UNCHANGED blob
    /\ UNCHANGED <<index, temp, zip, aborts, marred, spoiled>>

HashPinned(p, d) ==
    /\ At(p, "hash")
    /\ \/ /\ blob[d] = Absent
          /\ job' = [job EXCEPT ![p].pc = "copy", ![p].digest = d]
       \/ /\ Present(d)
          /\ job' = [job EXCEPT ![p].pc = "extract", ![p].digest = d]
       \/ blob[d] \notin {d, Absent} /\ Stop(p)
    /\ UNCHANGED <<blob, index, temp, zip, aborts, marred, spoiled>>

\* The file is read a second time and published under the digest of the first
\* reading: what was written to it in between is stored under the wrong name.
CopyPinned(p, c) ==
    /\ At(p, "copy")
    /\ c # job[p].digest => aborts < MaxAborts
    /\ blob' = [blob EXCEPT ![job[p].digest] = c]
    /\ aborts' = IF c = job[p].digest THEN aborts ELSE aborts + 1
    /\ spoiled' = IF c = job[p].digest THEN spoiled ELSE spoiled \cup {job[p].digest}
    /\ Goto(p, "extract")
    /\ UNCHANGED <<index, temp, zip, marred>>

-----------------------------------------------------------------------------
(***************************************************************************)
(* Acceptance and patching.  A build goes on to the runtime; the probe     *)
(* records the version at once; a release build records it also when the   *)
(* bundle drifted from the patches, and fails afterwards.                  *)
(***************************************************************************)
\* The file is hashed once more ...
ValidateDmg(p) ==
    /\ At(p, "extract")
    /\ IF Present(job[p].digest) THEN Goto(p, "unpack") ELSE Stop(p)
    /\ UNCHANGED <<blob, index, temp, zip, aborts, marred, spoiled>>

\* Variant: the embedded version is not compared with the one asked for.
ExtractAny(p) ==
    /\ At(p, "unpack")
    /\ IF File(job[p].digest) \in Blob THEN Goto(p, "patch") ELSE Stop(p)
    /\ UNCHANGED <<blob, index, temp, zip, aborts, marred, spoiled>>

\* ... and then read by its name again, for the version it embeds and for the
\* application: what has the name by then, a damaged file as far as 7z can read
\* it.
ExtractDmg(p) ==
    LET c == File(job[p].digest)
        asked == c \in Blob /\ job[p].want \in {Absent, VersionOf[c]} IN
    /\ At(p, "unpack")
    /\ \/ (asked \/ c = Junk) /\ Goto(p, "patch")
       \/ ~asked /\ Stop(p)
    /\ UNCHANGED <<blob, index, temp, zip, aborts, marred, spoiled>>

\* Whether the extracted application fits the patches: that of the digest,
\* unless its file ever was another one.
Fits(d) == IF d \in spoiled THEN BOOLEAN ELSE {d \in Accepted}

Patch(p) ==
    LET k == job[p].kind IN
    /\ At(p, "patch")
    /\ \E fits \in Fits(job[p].digest) :
          \/ k = "watch" /\ fits /\ Goto(p, "record")
          \/ k # "watch" /\ fits /\ Goto(p, "zipCheck")
          \/ k = "release" /\ ~fits /\ Goto(p, "record")
          \/ k # "release" /\ ~fits /\ Stop(p)
    /\ UNCHANGED <<blob, index, temp, zip, aborts, marred, spoiled>>

(***************************************************************************)
(* The Electron archive is downloaded to its final name when no file has   *)
(* it: opening truncates, and whoever finds the name taken unpacks what is *)
(* there.                                                                  *)
(***************************************************************************)
CheckZip(p) ==
    /\ At(p, "zipCheck")
    /\ Goto(p, IF zip = Absent THEN "zipRequest" ELSE "assemble")
    /\ UNCHANGED <<blob, index, temp, zip, aborts, marred, spoiled>>

OpenZip(p) ==
    /\ At(p, "zipRequest")
    /\ zip' = p
    /\ Goto(p, "zipWrite")
    /\ UNCHANGED <<blob, index, temp, aborts, marred, spoiled>>

\* The last to truncate the file completes it; an earlier one may fill the
\* hole a later one left when it died.
CloseZip(p) ==
    /\ At(p, "zipWrite")
    /\ zip' \in CASE zip = p -> {Whole}
                  [] zip = Junk -> {Junk, Whole}
                  [] OTHER -> {zip}
    /\ Goto(p, "assemble")
    /\ UNCHANGED <<blob, index, temp, aborts, marred, spoiled>>

Assemble(p) ==
    /\ At(p, "assemble")
    /\ IF zip = Whole /\ job[p].kind # "pinned" THEN Goto(p, "record") ELSE Stop(p)
    /\ UNCHANGED <<blob, index, temp, zip, aborts, marred, spoiled>>

(***************************************************************************)
(* The record: the index is read, an entry added, a temporary file written *)
(* and renamed.  The scripts name it by the pid and insist on creating it; *)
(* the updater's name is never used twice, and it hashes the DMG again.    *)
(***************************************************************************)
ReadIndex(p) ==
    LET j == job[p]
        ok == IF j.kind = "updater" THEN Present(j.digest) ELSE p \notin temp IN
    /\ At(p, "record")
    /\ IF ok THEN job' = [job EXCEPT ![p].pc = "rename", ![p].snap = index] ELSE Stop(p)
    /\ temp' = IF j.kind = "updater" THEN temp ELSE temp \cup {p}
    /\ UNCHANGED <<blob, index, zip, aborts, marred, spoiled>>

RenameIndex(p) ==
    LET j == job[p] IN
    /\ At(p, "rename")
    /\ index' = [j.snap EXCEPT ![j.want] = j.digest]
    /\ temp' = IF j.kind = "updater" THEN temp ELSE temp \ {p}
    /\ Stop(p)
    /\ UNCHANGED <<blob, zip, aborts, marred, spoiled>>

-----------------------------------------------------------------------------
(***************************************************************************)
(* Disturbances: an error or a death ends a process wherever it is, a file *)
(* is damaged, a DMG is removed to make room.                              *)
(***************************************************************************)
Disturb == aborts < MaxAborts /\ aborts' = aborts + 1

Abort(p) ==
    /\ Disturb
    /\ ~At(p, "idle")
    /\ zip' = IF zip = p THEN Junk ELSE zip
    /\ marred' = (marred \/ zip = p \/ (At(p, "rename") /\ job[p].kind # "updater"))
    /\ Stop(p)
    /\ UNCHANGED <<blob, index, temp, spoiled>>

Damage(d) ==
    /\ Disturb
    /\ blob[d] # Absent
    /\ blob' = [blob EXCEPT ![d] = Junk]
    /\ spoiled' = spoiled \cup {d}
    /\ UNCHANGED <<index, temp, zip, job, marred>>

Evict(d) ==
    /\ Disturb
    /\ blob[d] # Absent
    /\ blob' = [blob EXCEPT ![d] = Absent]
    /\ UNCHANGED <<index, temp, zip, job, marred, spoiled>>

-----------------------------------------------------------------------------
\* The steps a running process takes by itself.
Run(p) ==
    \/ LookUp(p) \/ Publish(p)
    \/ ValidateDmg(p) \/ ExtractDmg(p) \/ Patch(p)
    \/ CheckZip(p) \/ OpenZip(p) \/ CloseZip(p) \/ Assemble(p)
    \/ ReadIndex(p) \/ RenameIndex(p)
    \/ CopyPinned(p, job[p].digest)
    \/ \E d \in Blob : Fetch(p, d) \/ HashPinned(p, d)

Next ==
    \/ \E p \in Process : Run(p) \/ Abort(p)
    \/ \E p \in Process, v \in Version \cup {Absent} : \E k \in KindsOf[p] : Begin(p, k, v)
    \/ \E p \in Process, c \in Blob \cup {Junk} : CopyPinned(p, c)
    \/ \E d \in Blob : Damage(d) \/ Evict(d)

Spec == Init /\ [][Next]_vars

\* A process that runs goes on; that a user or a schedule starts one is not
\* assumed.
Fairness == \A p \in Process : WF_vars(Run(p))

FairSpec == Spec /\ Fairness

\* What the users and the network do: an update to v is run, and downloads the
\* DMG of v.
Asked(v) == \E p \in Process : "updater" \in KindsOf[p] /\ Begin(p, "updater", v)
Answered(v) == \E p \in Process, d \in Accepted :
                  job[p].kind = "updater" /\ job[p].want = v /\ VersionOf[d] = v /\ Fetch(p, d)

-----------------------------------------------------------------------------
\* What version-index.json names for a version is a DMG that embeds this very
\* version, whatever upstream delivered, whatever was pinned or removed and
\* however the writers of the index interleave: acceptance comes before the
\* record (upstream-watch.js:107, main.rs:516).  Excepted is a DMG whose own file
\* had other content at some time: the version is read after the file was
\* hashed, from whatever has its name by then (extract-dmg.js:69, 90).
IndexedIsAccepted ==
    \A v \in Version : index[v] \notin spoiled \cup {Absent} => VersionOf[index[v]] = v

\* A file of the cache is the DMG its name says, unless this very file was
\* damaged or its pinned source was rewritten while it was cached: no download,
\* no concurrent publication and no death publishes a file that is not whole
\* (dmg.js:207).
BlobsAreWhole == \A d \in Blob \ spoiled : blob[d] \in {d, Absent}

\* Deaths, removed DMGs, wrong answers and lost index entries are recovered
\* from: a version whose update users run again and again, and whose downloads
\* are not all wrong, is indexed again and again, as long as no archive was
\* left half written, no temporary index left behind and no file spoiled.
Recovers ==
    \A v \in Wanted :
        /\ []<><<Asked(v)>>_vars
        /\ SF_vars(Answered(v))
        /\ [](~marred /\ spoiled = {})
        => []<>(index[v] # Absent)
=============================================================================
