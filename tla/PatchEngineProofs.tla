-------------------------- MODULE PatchEngineProofs --------------------------
(***************************************************************************)
(* What the patch engine keeps for every bundle and any number of runs:    *)
(* patches yield bundles, a run leaves the archive with its companion,     *)
(* nothing is lost, and the seven patches compose: what one of them put in *)
(* place stays under the others, and is found when they run again.         *)
(***************************************************************************)
EXTENDS PatchEngine, SequenceTheorems, FiniteSetTheorems, TLAPS

File == Seq(Shapes)

-----------------------------------------------------------------------------
(***************************************************************************)
(* Every patch turns a bundle into a bundle.                               *)
(***************************************************************************)
LEMMA FirstIsPosition ==
    ASSUME NEW is
    PROVE  First(is) = 0 \/ First(is) \in is
  BY DEF First

LEMMA ShapesWritten ==
    {"m.transport", "webSocket", "m.listen", "guardedPush", "m.adoption", "adopt", "startInternal",
     "m.droid", "droidLookup", "m.sync", "themeSync", "m.syncEnd", "m.window", "overlay", "icon",
     "m.updater", "bridge", "dispatch.getState", "dispatch.install", "dispatch.checkNow", "bridgeEnd",
     "markedCheck", "guardedQuit"} \subseteq Shapes
  BY DEF Shapes, Markers

LEMMA SingleTyped ==
    ASSUME NEW S, NEW a \in S
    PROVE  <<a>> \in Seq(S)
  OBVIOUS

LEMMA PairTyped ==
    ASSUME NEW S, NEW a \in S, NEW b \in S
    PROVE  <<a, b>> \in Seq(S)
  OBVIOUS

LEMMA TripleTyped ==
    ASSUME NEW S, NEW a \in S, NEW b \in S, NEW c \in S
    PROVE  <<a, b, c>> \in Seq(S)
  OBVIOUS

LEMMA SpliceTyped ==
    ASSUME NEW f \in File, NEW j \in 0..Len(f), NEW n \in Nat, j + n > 0, NEW others \in File
    PROVE  Splice(f, j, n, others) \in File
  <1>1. SubSeq(f, 1, j - 1) \in File
    BY SubSeqProperties DEF File
  <1>2. SubSeq(f, j + n, Len(f)) \in File
    BY SubSeqProperties DEF File
  <1> QED
    BY <1>1, <1>2, ConcatProperties DEF Splice, File

LEMMA InsertionTyped ==
    ASSUME NEW f \in File, NEW j \in 1..(Len(f) + 1), NEW others \in File
    PROVE  /\ Splice(f, j, 0, others) \in File
           /\ Len(Splice(f, j, 0, others)) >= Len(f)
  <1> DEFINE a == SubSeq(f, 1, j - 1)
             c == SubSeq(f, j, Len(f))
  <1>1. j + 0 = j
    OBVIOUS
  <1>2. Splice(f, j, 0, others) = a \o others \o c
    BY <1>1 DEF Splice
  <1>3. /\ a \in Seq(Shapes) /\ others \in Seq(Shapes) /\ c \in Seq(Shapes)
        /\ Len(a) + Len(c) = Len(f)
    <2>1. Len(f) \in Nat /\ \A i \in 1..Len(f) : f[i] \in Shapes
      BY DEF File
    <2>2. a \in Seq(Shapes) /\ Len(a) = j - 1
      BY <2>1, SubSeqProperties
    <2>3. c \in Seq(Shapes) /\ Len(c) = Len(f) - j + 1
      <3>1. \A i \in j..Len(f) : f[i] \in Shapes
        BY <2>1
      <3>2. c \in Seq(Shapes) /\ Len(c) = IF j <= Len(f) THEN Len(f) - j + 1 ELSE 0
        BY <2>1, <3>1, SubSeqProperties
      <3> QED
        BY <2>1, <3>2
    <2> HIDE DEF a, c
    <2> QED
      BY <2>1, <2>2, <2>3 DEF File
  <1> HIDE DEF a, c
  <1>4. a \o others \in Seq(Shapes) /\ Len(a \o others) = Len(a) + Len(others)
    BY <1>3, ConcatProperties
  <1>5. /\ a \o others \o c \in Seq(Shapes)
        /\ Len(a \o others \o c) = Len(a \o others) + Len(c)
    BY <1>3, <1>4, ConcatProperties
  <1>6. Len(others) \in Nat /\ Len(a) \in Nat /\ Len(c) \in Nat
    BY <1>3
  <1> DEFINE d == a \o others \o c
  <1>7. d \in File /\ Len(d) = Len(f) + Len(others)
    BY <1>3, <1>4, <1>5, <1>6 DEF File
  <1> HIDE DEF d
  <1>8. Splice(f, j, 0, others) = d
    BY <1>2 DEF d
  <1> QED
    BY <1>3, <1>6, <1>7, <1>8

LEMMA OneFileChanged ==
    ASSUME NEW fs \in Bundle, NEW i, NEW f, i \in DOMAIN fs => f \in File
    PROVE  [fs EXCEPT ![i] = f] \in Bundle
  <1>1. CASE i \in DOMAIN fs
    <2>1. i \in 1..Len(fs) /\ fs \in Seq(File) /\ f \in File
      BY <1>1 DEF Bundle, File
    <2> QED
      BY <2>1, ExceptSeq DEF Bundle, File
  <1>2. CASE i \notin DOMAIN fs
    <2>1. [fs EXCEPT ![i] = f] = fs
      BY <1>2 DEF Bundle
    <2> QED
      BY <2>1
  <1> QED
    BY <1>1, <1>2

\* What an outcome carries.
LEMMA Outcomes ==
    ASSUME NEW fs
    PROVE  /\ NoMatch(fs).files = fs /\ NoMatch(fs).patched = FALSE
           /\ Already(fs).files = fs /\ Already(fs).patched = FALSE
           /\ Patched(fs).files = fs /\ Patched(fs).patched = TRUE
  BY DEF NoMatch, Already, Patched, Outcome

Typed(outcome) == outcome.files \in Bundle /\ outcome.patched \in BOOLEAN

LEMMA NothingTyped == ASSUME NEW fs \in Bundle PROVE Typed(NoMatch(fs)) /\ Typed(Already(fs))
  BY Outcomes DEF Typed

LEMMA PatchedTyped == ASSUME NEW fs \in Bundle PROVE Typed(Patched(fs))
  BY Outcomes DEF Typed

LEMMA ReplacedTyped ==
    ASSUME NEW fs \in Bundle, NEW i, NEW shapes, NEW others \in File
    PROVE  Typed(Replaced(fs, i, shapes, others))
  <1> DEFINE f == Splice(fs[i], FirstIn(fs[i], shapes), 1, others)
  <1>1. ASSUME i \in DOMAIN fs PROVE f \in File
    <2>1. fs[i] \in File
      BY <1>1 DEF Bundle, File
    <2>2. FirstIn(fs[i], shapes) \in 0..Len(fs[i])
      BY <2>1, FirstIsPosition DEF FirstIn, File
    <2> QED
      BY <2>1, <2>2, SpliceTyped
  <1>2. [fs EXCEPT ![i] = f] \in Bundle
    BY <1>1, OneFileChanged
  <1>3. Replaced(fs, i, shapes, others) = Patched([fs EXCEPT ![i] = f])
    BY DEF Replaced
  <1> QED
    BY <1>2, <1>3, PatchedTyped

LEMMA SimplePatchesTyped ==
    ASSUME NEW fs \in Bundle
    PROVE  /\ Typed(DaemonTransport(fs)) /\ Typed(PreventListen(fs))
           /\ Typed(Adoption(fs)) /\ Typed(SystemDroid(fs))
  <1>0. /\ <<"m.transport", "webSocket">> \in File /\ <<"m.listen", "guardedPush">> \in File
        /\ <<"m.adoption", "adopt", "startInternal">> \in File /\ <<"m.droid", "droidLookup">> \in File
    BY ShapesWritten, PairTyped, TripleTyped DEF File
  <1>1. Typed(DaemonTransport(fs))
    BY <1>0, ReplacedTyped, NothingTyped DEF DaemonTransport
  <1>2. Typed(PreventListen(fs))
    BY <1>0, ReplacedTyped, NothingTyped DEF PreventListen
  <1>3. Typed(Adoption(fs))
    BY <1>0, ReplacedTyped, NothingTyped DEF Adoption
  <1>4. Typed(SystemDroid(fs))
    BY <1>0, ReplacedTyped, NothingTyped DEF SystemDroid
  <1> QED
    BY <1>1, <1>2, <1>3, <1>4

LEMMA PlaceTyped ==
    ASSUME NEW fs \in Bundle, NEW shapes, NEW p \in Places(fs, shapes)
    PROVE  p[1] \in DOMAIN fs /\ fs[p[1]] \in File /\ p[2] \in DOMAIN fs[p[1]]
  BY DEF Places, Bundle, File

LEMMA CountedOnce ==
    ASSUME NEW fs \in Bundle, NEW shapes, Cardinality(Places(fs, shapes)) = 1
    PROVE  Places(fs, shapes) # {}
  BY FS_EmptySet

\* The options to replace are where the form of the window says.
WindowOptions(fs) == IF WindowShapes(fs) = UpstreamForm THEN <<"titleBar">> ELSE LegacyOptions

LEMMA OptionsPlaced ==
    ASSUME NEW fs \in Bundle, WindowShapes(fs) \in {UpstreamForm, LegacyForm}
    PROVE  Places(fs, WindowOptions(fs)) # {}
  <1> DEFINE form == WindowShapes(fs)
  <1>1. CASE form = UpstreamForm
    <2>1. form["titleBar"] = Count(fs, "titleBar") /\ UpstreamForm["titleBar"] = 1
      BY DEF WindowShapes, UpstreamForm, WindowForm, WindowFields
    <2> QED
      BY <1>1, <2>1, CountedOnce DEF Count, WindowOptions
  <1>2. CASE form # UpstreamForm
    <2>1. /\ form["legacy"] = Cardinality(Places(fs, LegacyOptions))
          /\ LegacyForm["legacy"] = 1
      BY DEF WindowShapes, LegacyForm, WindowForm, WindowFields
    <2> QED
      BY <1>2, <2>1, CountedOnce DEF WindowOptions
  <1> QED
    BY <1>1, <1>2

LEMMA ContextIsAfter ==
    ASSUME NEW f, NEW j, WindowContext(f, j) # 0
    PROVE  WindowContext(f, j) \in (j + 1)..Len(f) /\ f[WindowContext(f, j)] = "webContents"
  <1> DEFINE anchors == {k \in (j + 1)..Len(f) : f[k] = "webContents"}
  <1>1. Cardinality(anchors) = 1 /\ WindowContext(f, j) = CHOOSE k \in anchors : TRUE
    BY DEF WindowContext
  <1>2. anchors # {}
    BY <1>1, FS_EmptySet
  <1> QED
    BY <1>1, <1>2

LEMMA WindowTyped == ASSUME NEW fs \in Bundle PROVE Typed(WindowControls(fs))
  <1> DEFINE form == WindowShapes(fs)
             old == IF form = UpstreamForm THEN <<"titleBar">> ELSE LegacyOptions
             place == CHOOSE p \in Places(fs, old) : TRUE
             f == fs[place[1]]
             anchor == WindowContext(f, place[2])
             inner == Splice(f, anchor + 1, 0, <<"m.sync", "themeSync", "m.syncEnd">>)
             themed == Splice(inner, place[2], Len(old), <<"m.window", "overlay", "icon">>)
  <1>1. WindowControls(fs) = CASE form = ThemedForm -> Already(fs)
         [] form \in {UpstreamForm, LegacyForm} /\ anchor # 0 ->
                Patched([fs EXCEPT ![place[1]] = themed])
         [] OTHER -> NoMatch(fs)
    BY DEF WindowControls
  <1>2. ASSUME form \in {UpstreamForm, LegacyForm}, anchor # 0
        PROVE  [fs EXCEPT ![place[1]] = themed] \in Bundle
    <2>1. Places(fs, old) # {}
      BY <1>2, OptionsPlaced DEF WindowOptions
    <2>2. place \in Places(fs, old)
      BY <2>1
    <2> HIDE DEF place
    <2>3. f \in File /\ place[1] \in DOMAIN fs /\ place[2] \in 1..Len(f)
      BY <2>2, PlaceTyped DEF File
    <2>4. Len(old) \in Nat \ {0}
      BY DEF LegacyOptions
    <2> HIDE DEF old, f
    <2>5. anchor \in 1..Len(f)
      BY <1>2, <2>3, ContextIsAfter DEF File
    <2> HIDE DEF anchor
    <2>6. inner \in File /\ Len(inner) >= Len(f)
      <3>1. <<"m.sync", "themeSync", "m.syncEnd">> \in File
        BY ShapesWritten, TripleTyped DEF File
      <3>2. anchor + 1 \in 1..(Len(f) + 1)
        BY <2>3, <2>5 DEF File
      <3> QED
        BY <2>3, <3>1, <3>2, InsertionTyped
    <2> HIDE DEF inner
    <2>7. <<"m.window", "overlay", "icon">> \in File
      BY ShapesWritten, TripleTyped DEF File
    <2>8. place[2] \in 0..Len(inner) /\ place[2] + Len(old) > 0
      BY <2>3, <2>4, <2>6 DEF File
    <2>9. themed \in File
      BY <2>4, <2>6, <2>7, <2>8, SpliceTyped
    <2> QED
      BY <2>9, OneFileChanged
  <1> QED
    BY <1>1, <1>2, NothingTyped, PatchedTyped

LEMMA UpdaterTyped == ASSUME NEW fs \in Bundle PROVE Typed(NativeUpdater(fs))
  <1> DEFINE place == CHOOSE p \in HandlerSpans(fs) : TRUE
             f == fs[place[1]]
             span == SubSeq(f, place[2], place[2] + 2)
  <1>1. ASSUME HandlerSpans(fs) # {}
        PROVE  [fs EXCEPT ![place[1]] = Splice(f, place[2], 3, Bridge(span))] \in Bundle
    <2>1. place \in HandlerSpans(fs)
      BY <1>1
    <2> HIDE DEF place
    <2>2. /\ place[1] \in DOMAIN fs /\ place[2] \in 1..(Len(fs[place[1]]) - 2)
          /\ ToSet(span) = Handlers
      BY <2>1 DEF HandlerSpans
    <2>3. f \in File /\ place[2] \in 0..Len(f) /\ place[2] \in Nat \ {0}
      BY <2>2 DEF Bundle, File
    <2>4. \A k \in 1..3 : span[k] \in Handlers
      <3>1. \A i \in place[2]..(place[2] + 2) : f[i] \in Shapes
        BY <2>2, <2>3 DEF File
      <3>2. Len(span) = 3 /\ span \in Seq(Shapes)
        BY <2>3, <3>1, SubSeqProperties
      <3> HIDE DEF span
      <3>3. \A k \in DOMAIN span : span[k] \in ToSet(span)
        BY DEF ToSet
      <3> QED
        BY <2>2, <3>2, <3>3
    <2> HIDE DEF span, f
    <2>5. \A k \in 1..3 : DispatchOf(span[k]) \in Shapes
      BY <2>4, ShapesWritten DEF DispatchOf, Handlers
    <2>6. Bridge(span) \in File
      <3> DEFINE d == [k \in 1..3 |-> DispatchOf(span[k])]
      <3>1. d \in Seq(Shapes)
        BY <2>5
      <3>2. <<"m.updater", "bridge">> \in Seq(Shapes) /\ <<"bridgeEnd">> \in Seq(Shapes)
        BY ShapesWritten, PairTyped, SingleTyped
      <3>3. Bridge(span) = <<"m.updater", "bridge">> \o d \o <<"bridgeEnd">>
        BY DEF Bridge
      <3> HIDE DEF d
      <3> QED
        BY <3>1, <3>2, <3>3, ConcatProperties DEF File
    <2>7. Splice(f, place[2], 3, Bridge(span)) \in File
      BY <2>3, <2>6, SpliceTyped
    <2> QED
      BY <2>7, OneFileChanged
  <1>2. Typed(Patched([fs EXCEPT ![place[1]] = Splice(f, place[2], 3, Bridge(span))]))
        \/ HandlerSpans(fs) = {}
    BY <1>1, PatchedTyped
  <1> QED
    BY <1>2, NothingTyped DEF NativeUpdater

LEMMA GuardTyped == ASSUME NEW fs \in Bundle PROVE Typed(AutoUpdater(fs))
  <1> DEFINE g(i) == [j \in DOMAIN fs[i] |-> IF fs[i][j] \in Calls THEN Guarded[fs[i][j]]
                                             ELSE fs[i][j]]
             gs == [i \in DOMAIN fs |-> g(i)]
  <1>1. ASSUME NEW i \in DOMAIN fs PROVE g(i) \in File
    <2>1. fs[i] \in File /\ DOMAIN fs[i] = 1..Len(fs[i]) /\ Len(fs[i]) \in Nat
      BY DEF Bundle, File
    <2>2. \A j \in DOMAIN fs[i] : g(i)[j] \in Shapes
      BY <2>1, ShapesWritten DEF File, Calls, Guarded
    <2> QED
      BY <2>1, <2>2 DEF File
  <1>2. DOMAIN fs = 1..Len(fs) /\ Len(fs) \in Nat
    BY DEF Bundle
  <1> HIDE DEF g
  <1>3. gs \in Seq(File)
    BY <1>1, <1>2
  <1>4. gs \in Bundle
    BY <1>3 DEF Bundle, File
  <1> QED
    BY <1>4, PatchedTyped, NothingTyped DEF AutoUpdater, g

LEMMA ApplyTyped ==
    ASSUME NEW fs \in Bundle, NEW i \in 1..7
    PROVE  Typed(Apply(Descriptors[i], fs))
  <1>1. Descriptors[i] \in {"transport", "listen", "adoption", "droid", "window", "updater", "guard"}
    BY DEF Descriptors
  <1> QED
    BY <1>1, SimplePatchesTyped, WindowTyped, UpdaterTyped, GuardTyped DEF Apply

-----------------------------------------------------------------------------
(***************************************************************************)
(* The engine's invariant: where the original is while the files are       *)
(* exchanged.                                                              *)
(***************************************************************************)
Runs == [no : 0..MaxRuns, pc : Ended \cup Steps, next : 1..(Len(Descriptors) + 1),
         original : Bundle, work : Bundle, patched : BOOLEAN]

RunSound ==
    /\ run.pc \in Steps => run.no \in 1..MaxRuns
    /\ At("apply") => run.next \in 1..7

\* A companion next to an archive is that archive's.
Consistent == site.unpacked /\ archive # Absent /\ companion # Absent => companion = archive

Moving ==
    /\ run.pc \in {"apply", "check", "rebuild", "moveArchive", "report"} => archive # Absent
    /\ run.pc \in {"moveArchive", "removeArchive", "removeCompanion"} => Paired(archive, companion)
    /\ At("moveCompanion") => archive = Absent /\ Paired(aside[run.no], companion)
    /\ run.pc \in {"placeArchive", "placeCompanion", "removeArchive"}
           => Paired(aside[run.no], asideCompanion[run.no])
    /\ run.pc \in {"placeArchive", "placeCompanion"} => companion = Absent
    /\ At("placeCompanion") => archive = run.work
    /\ At("removeCompanion") => aside[run.no] = Absent
    /\ run.pc \in {"undoCompanion", "returnArchive"} => archive = Absent
    /\ run.pc \in {"returnArchive", "returnCompanion"} => companion = Absent

\* In the handler the original is aside, or its companion could not be removed.
Undoable ==
    /\ run.pc \in {"undoArchive", "undoCompanion", "returnArchive"}
           => \/ Paired(aside[run.no], asideCompanion[run.no])
              \/ aside[run.no] = Absent /\ "removeCompanion" \in faults
    /\ At("returnCompanion") => Paired(archive, asideCompanion[run.no])

\* EndsPaired also holds while nothing has been moved yet, or all is placed.
Settled ==
    /\ faults \cap Unanswered = {}
    /\ run.pc \notin {"moveCompanion", "placeArchive", "placeCompanion"} \cup Undoing
    => Paired(archive, companion)

EngineInv ==
    /\ TypeOK /\ RunSound /\ Consistent /\ Moving /\ Undoable /\ Settled /\ NothingIsLost

LEMMA LenDescriptors == Len(Descriptors) = 7
  BY DEF Descriptors

LEMMA AbsentIsNew == Absent \notin Bundle
  BY EngineConstants

LEMMA NoFiles == <<>> \in Bundle
  BY EmptySeq DEF Bundle

LEMMA RunTyped == TypeOK => run \in Runs
  BY DEF TypeOK, Runs

LEMMA GotoRun ==
    ASSUME TypeOK, NEW pc \in Ended \cup Steps, Goto(pc)
    PROVE  run' \in Runs /\ run' = [run EXCEPT !.pc = pc]
           /\ run'.pc = pc /\ run'.no = run.no /\ run'.work = run.work /\ run'.next = run.next
  BY RunTyped DEF Goto, Runs

LEMMA EndRun ==
    ASSUME TypeOK, NEW no \in 0..MaxRuns, NEW pc \in Ended, End(no, pc)
    PROVE  run' \in Runs /\ run'.pc = pc /\ run'.no = no
  BY NoFiles, LenDescriptors DEF End, Runs

LEMMA AcceptRun ==
    ASSUME run \in Runs, NEW w \in Bundle, NEW b \in BOOLEAN, NEW n \in 1..8, NEW pc \in Steps,
           run' = [no |-> run.no, pc |-> pc, next |-> n, original |-> run.original,
                   work |-> w, patched |-> b]
    PROVE  run' \in Runs /\ run'.pc = pc /\ run'.no = run.no /\ run'.next = n
  <1>1. /\ run.no \in 0..MaxRuns /\ run.original \in Bundle
        /\ 1..(Len(Descriptors) + 1) = 1..8
    BY LenDescriptors DEF Runs
  <1> QED
    BY <1>1 DEF Runs

LEMMA StartEngine == Init => EngineInv
  <1> SUFFICES ASSUME Init PROVE EngineInv
    OBVIOUS
  <1> USE EngineConstants
  <1>1. archive \in Bundle /\ archive # Absent
    BY DEF Init
  <1>2. run \in Runs /\ run.pc = "idle" /\ run.no = 0
    BY NoFiles, LenDescriptors DEF Init, Runs, Ended
  <1>3. TypeOK
    BY <1>1, <1>2 DEF Init, TypeOK, Runs
  <1>4. Paired(archive, companion)
    BY <1>1 DEF Init, Paired
  <1>5. RunSound /\ Consistent /\ Moving /\ Undoable /\ Settled
    BY <1>2, <1>4 DEF RunSound, Consistent, Moving, Undoable, Settled, Paired, At, Steps, Undoing
  <1>6. NothingIsLost
    BY <1>4 DEF NothingIsLost
  <1> QED
    BY <1>3, <1>5, <1>6 DEF EngineInv

\* In memory nothing on disk changes, and the report is written of a bundle.
LEMMA DiskKept ==
    ASSUME EngineInv, UNCHANGED <<disk, site, faults>>, run' \in Runs,
           report' = Absent \/ report' \in [accepted : BOOLEAN, bundle : Bundle],
           run'.pc \in Ended \cup {"apply", "check", "rebuild", "moveArchive", "report"},
           run.pc \notin {"moveCompanion", "placeArchive", "placeCompanion", "undoArchive",
                          "undoCompanion", "returnArchive", "returnCompanion"},
           RunSound',
           run'.pc \in {"apply", "check", "rebuild", "moveArchive", "report"} => archive # Absent,
           run'.pc = "moveArchive" => Paired(archive, companion)
    PROVE  EngineInv'
  <1>1. TypeOK'
    BY DEF EngineInv, TypeOK, Runs, disk
  <1>2. Consistent' /\ NothingIsLost'
    BY DEF EngineInv, Consistent, NothingIsLost, Paired, disk
  <1>3. Moving'
    BY DEF EngineInv, Moving, Paired, disk, At, Ended
  <1>4. Settled' /\ Undoable'
    BY DEF EngineInv, Settled, Undoable, Paired, disk, At, Ended, Undoing
  <1> QED
    BY <1>1, <1>2, <1>3, <1>4 DEF EngineInv

LEMMA MemoryHolds ==
    ASSUME EngineInv, Begin \/ ApplyNext \/ CheckBundle \/ Rebuild
    PROVE  EngineInv'
  <1> USE EngineConstants
  <1>0. TypeOK /\ RunSound /\ Moving /\ Consistent /\ run \in Runs
    BY RunTyped DEF EngineInv
  <1>r. ASSUME Reject, run.pc \in Steps
        PROVE  /\ run' \in Runs /\ run'.pc = "failed" /\ RunSound'
               /\ report' \in [accepted : BOOLEAN, bundle : Bundle]
    BY <1>0, <1>r, EndRun DEF Reject, Ended, Steps, Runs, RunSound, At
  <1>1. ASSUME Begin PROVE EngineInv'
    <2>1. CASE archive = Absent \/ archive = <<>>
      <3>1. run' \in Runs /\ run'.pc = "failed"
        BY <1>0, <1>1, <2>1, EndRun DEF Begin, Ended, Runs
      <3> QED
        BY <1>0, <1>1, <3>1, DiskKept DEF Begin, TypeOK, Ended, Steps, RunSound, At
    <2>2. CASE ~(archive = Absent \/ archive = <<>>)
      <3>1. /\ run' \in Runs /\ run'.pc = "apply" /\ run'.next = 1 /\ run'.no \in 1..MaxRuns
        <4>1. archive \in Bundle /\ run.no + 1 \in 1..MaxRuns
          BY <1>0, <1>1, <2>2 DEF Begin, TypeOK
        <4>2. run' = [no |-> run.no + 1, pc |-> "apply", next |-> 1, original |-> archive,
                      work |-> archive, patched |-> FALSE]
          BY <1>1, <2>2 DEF Begin
        <4> QED
          BY <4>1, <4>2, LenDescriptors DEF Steps, Runs
      <3> QED
        BY <1>0, <1>1, <2>2, <3>1, DiskKept DEF Begin, TypeOK, Ended, Steps, RunSound, At
    <2> QED
      BY <2>1, <2>2
  <1>2. ASSUME ApplyNext PROVE EngineInv'
    <2>0. At("apply") /\ run.next \in 1..7 /\ archive # Absent /\ run.no \in 1..MaxRuns
      BY <1>0, <1>2 DEF ApplyNext, RunSound, Moving, At, Steps
    <2> DEFINE outcome == Apply(Descriptors[run.next], run.work)
    <2>1. outcome.files \in Bundle /\ outcome.patched \in BOOLEAN
      BY <1>0, <2>0, ApplyTyped DEF Typed, Runs
    <2> HIDE DEF outcome
    <2>2. ASSUME Accept(outcome.files, outcome.patched), UNCHANGED report PROVE EngineInv'
      <3> DEFINE w == outcome.files
                 b == run.patched \/ outcome.patched
      <3>0. b \in BOOLEAN
        OBVIOUS
      <3> HIDE DEF b
      <3>1. CASE run.next = 7
        <4>1. /\ run' \in Runs /\ run'.pc = "check" /\ run'.no = run.no
          <5>1. run' = [no |-> run.no, pc |-> "check", next |-> 8, original |-> run.original,
                          work |-> w, patched |-> b]
            BY <2>2, <3>1, LenDescriptors DEF Accept, b
          <5>2. 8 \in 1..8 /\ "check" \in Steps
            BY DEF Steps
          <5> QED
            BY <1>0, <2>1, <3>0, <5>1, <5>2, AcceptRun
        <4> QED
          BY <1>0, <1>2, <2>0, <2>2, <4>1, DiskKept DEF ApplyNext, TypeOK, RunSound, At
      <3>2. CASE run.next # 7
        <4>1. /\ run' \in Runs /\ run'.pc = "apply" /\ run'.no = run.no /\ run'.next \in 1..7
          <5>1. run' = [no |-> run.no, pc |-> "apply", next |-> run.next + 1, original |-> run.original,
                          work |-> w, patched |-> b]
            BY <2>2, <3>2, LenDescriptors DEF Accept, b
          <5>2. run.next + 1 \in 1..7 /\ run.next + 1 \in 1..8
            BY <2>0, <3>2
          <5> QED
            BY <1>0, <2>1, <3>0, <5>1, <5>2, AcceptRun DEF Steps
        <4> QED
          BY <1>0, <1>2, <2>0, <2>2, <4>1, DiskKept DEF ApplyNext, TypeOK, RunSound, At
      <3> QED
        BY <3>1, <3>2
    <2>3. ASSUME Reject PROVE EngineInv'
      BY <1>0, <1>r, <1>2, <2>0, <2>3, DiskKept DEF ApplyNext, At, Steps, Ended
    <2> QED
      BY <1>2, <2>2, <2>3 DEF ApplyNext, outcome
  <1>3. ASSUME CheckBundle PROVE EngineInv'
    <2>0. At("check") /\ archive # Absent /\ run.no \in 1..MaxRuns
      BY <1>0, <1>3 DEF CheckBundle, RunSound, Moving, At, Steps
    <2>1. ASSUME NEW pc \in {"rebuild", "report"}, Goto(pc), UNCHANGED report PROVE EngineInv'
      <3>1. run' \in Runs /\ run'.pc = pc /\ run'.no = run.no
        BY <1>0, <2>1, GotoRun DEF Steps
      <3> QED
        BY <1>0, <1>3, <2>0, <2>1, <3>1, DiskKept DEF CheckBundle, TypeOK, RunSound, At
    <2>2. ASSUME Reject PROVE EngineInv'
      BY <1>0, <1>r, <1>3, <2>0, <2>2, DiskKept DEF CheckBundle, At, Steps, Ended
    <2> QED
      BY <1>3, <2>1, <2>2 DEF CheckBundle
  <1>4. ASSUME Rebuild PROVE EngineInv'
    <2>0. At("rebuild") /\ archive # Absent /\ run.no \in 1..MaxRuns /\ UNCHANGED <<disk, report, faults, site>>
      BY <1>0, <1>4 DEF Rebuild, RunSound, Moving, At, Steps
    <2>1. CASE site.unpacked /\ companion = Absent
      <3>1. run' \in Runs /\ run'.pc = "failed"
        BY <1>0, <1>4, <2>0, <2>1, EndRun DEF Rebuild, Ended
      <3> QED
        BY <1>0, <2>0, <3>1, DiskKept DEF TypeOK, Ended, Steps, RunSound, At
    <2>2. CASE ~(site.unpacked /\ companion = Absent)
      <3>1. run' \in Runs /\ run'.pc = "moveArchive" /\ run'.no = run.no
        BY <1>0, <1>4, <2>2, GotoRun DEF Rebuild, Steps
      <3>2. Paired(archive, companion)
        BY <1>0, <2>0, <2>2 DEF Paired, Consistent
      <3> QED
        BY <1>0, <2>0, <3>1, <3>2, DiskKept DEF TypeOK, RunSound, At
    <2> QED
      BY <2>1, <2>2
  <1> QED
    BY <1>1, <1>2, <1>3, <1>4

LEMMA MovesHold ==
    ASSUME EngineInv, MoveArchive \/ MoveCompanion \/ PlaceArchive \/ PlaceCompanion
    PROVE  EngineInv'
  <1> DEFINE o == run.no
  <1>0. TypeOK /\ RunSound /\ Moving /\ Consistent /\ NothingIsLost /\ run \in Runs
    BY RunTyped DEF EngineInv
  <1>1. ASSUME MoveArchive PROVE EngineInv'
    <2>1. /\ o \in 1..MaxRuns /\ Paired(archive, companion)
          /\ aside' = [aside EXCEPT ![o] = archive] /\ archive' = Absent
          /\ UNCHANGED <<companion, asideCompanion, report, faults, site>>
      BY <1>0, <1>1 DEF MoveArchive, RunSound, Moving, At, Steps
    <2>2. run' \in Runs /\ run'.pc = "moveCompanion" /\ run'.no = o
      BY <1>0, <1>1, GotoRun DEF MoveArchive, Steps
    <2>3. TypeOK'
      BY <1>0, <2>1, <2>2 DEF TypeOK, Runs
    <2>4. Paired(aside[o], companion)'
      BY <1>0, <2>1, <2>2 DEF TypeOK, Paired
    <2>5. RunSound' /\ Moving' /\ Undoable' /\ Consistent' /\ Settled'
      BY <2>1, <2>2, <2>4 DEF RunSound, Moving, Undoable, Consistent, Settled, At, Steps, Undoing
    <2>6. NothingIsLost'
      BY <2>1, <2>2, <2>4 DEF NothingIsLost, Paired
    <2> QED
      BY <2>3, <2>5, <2>6 DEF EngineInv
  <1>2. ASSUME MoveCompanion PROVE EngineInv'
    <2>1. /\ o \in 1..MaxRuns /\ Paired(aside[o], companion) /\ archive = Absent
          /\ asideCompanion' = [asideCompanion EXCEPT ![o] = companion] /\ companion' = Absent
          /\ UNCHANGED <<archive, aside, report, faults, site>>
      BY <1>0, <1>2 DEF MoveCompanion, RunSound, Moving, At, Steps
    <2>2. run' \in Runs /\ run'.pc = "placeArchive" /\ run'.no = o
      BY <1>0, <1>2, GotoRun DEF MoveCompanion, Steps
    <2>3. TypeOK'
      BY <1>0, <2>1, <2>2 DEF TypeOK, Runs
    <2>4. Paired(aside[o], asideCompanion[o])'
      BY <1>0, <2>1, <2>2 DEF TypeOK, Paired
    <2>5. RunSound' /\ Moving' /\ Undoable' /\ Consistent' /\ Settled'
      BY <2>1, <2>2, <2>4 DEF RunSound, Moving, Undoable, Consistent, Settled, At, Steps, Undoing, Paired
    <2>6. NothingIsLost'
      BY <2>1, <2>2, <2>4 DEF NothingIsLost, Paired
    <2> QED
      BY <2>3, <2>5, <2>6 DEF EngineInv
  <1>3. ASSUME PlaceArchive PROVE EngineInv'
    <2>1. /\ o \in 1..MaxRuns /\ Paired(aside[o], asideCompanion[o]) /\ companion = Absent
          /\ archive' = run.work /\ UNCHANGED <<companion, aside, asideCompanion, report, faults, site>>
      BY <1>0, <1>3 DEF PlaceArchive, RunSound, Moving, At, Steps
    <2>2. run' \in Runs /\ run'.pc = "placeCompanion" /\ run'.no = o /\ run'.work = run.work
      BY <1>0, <1>3, GotoRun DEF PlaceArchive, Steps
    <2>3. TypeOK'
      BY <1>0, <2>1, <2>2 DEF TypeOK, Runs
    <2>4. RunSound' /\ Moving' /\ Undoable' /\ Consistent' /\ Settled'
      BY <2>1, <2>2 DEF RunSound, Moving, Undoable, Consistent, Settled, At, Steps, Undoing, Paired
    <2>5. NothingIsLost'
      BY <2>1, <2>2 DEF NothingIsLost, Paired
    <2> QED
      BY <2>3, <2>4, <2>5 DEF EngineInv
  <1>4. ASSUME PlaceCompanion PROVE EngineInv'
    <2>1. /\ o \in 1..MaxRuns /\ Paired(aside[o], asideCompanion[o]) /\ archive = run.work
          /\ companion' = IF site.unpacked THEN run.work ELSE companion
          /\ UNCHANGED <<archive, aside, asideCompanion, report, faults, site>>
      BY <1>0, <1>4 DEF PlaceCompanion, RunSound, Moving, At, Steps
    <2>2. run' \in Runs /\ run'.pc = "removeArchive" /\ run'.no = o /\ run.work \in Bundle
      BY <1>0, <1>4, GotoRun DEF PlaceCompanion, Steps, Runs
    <2>3. TypeOK'
      BY <1>0, <2>1, <2>2 DEF TypeOK, Runs
    <2>4. Paired(archive, companion)' /\ Paired(aside[o], asideCompanion[o])'
      BY <1>0, <2>1, <2>2, AbsentIsNew DEF Paired
    <2>5. RunSound' /\ Moving' /\ Undoable' /\ Consistent' /\ Settled'
      BY <2>1, <2>2, <2>4 DEF RunSound, Moving, Undoable, Consistent, Settled, At, Steps, Undoing, Paired
    <2>6. NothingIsLost'
      BY <2>4 DEF NothingIsLost
    <2> QED
      BY <2>3, <2>5, <2>6 DEF EngineInv
  <1> QED
    BY <1>1, <1>2, <1>3, <1>4

LEMMA RemovesHold ==
    ASSUME EngineInv, RemoveArchive \/ RemoveCompanion \/ WriteReport
    PROVE  EngineInv'
  <1> DEFINE o == run.no
  <1>0. TypeOK /\ RunSound /\ Moving /\ Consistent /\ Settled /\ NothingIsLost /\ run \in Runs
    BY RunTyped DEF EngineInv
  <1>1. ASSUME RemoveArchive PROVE EngineInv'
    <2>1. /\ o \in 1..MaxRuns /\ Paired(archive, companion)
          /\ aside' = [aside EXCEPT ![o] = Absent]
          /\ UNCHANGED <<archive, companion, asideCompanion, report, faults, site>>
      BY <1>0, <1>1 DEF RemoveArchive, RunSound, Moving, At, Steps
    <2>2. run' \in Runs /\ run'.pc = "removeCompanion" /\ run'.no = o
      BY <1>0, <1>1, GotoRun DEF RemoveArchive, Steps
    <2>3. TypeOK'
      BY <1>0, <2>1, <2>2 DEF TypeOK, Runs
    <2>4. Paired(archive, companion)' /\ aside'[o] = Absent
      BY <1>0, <2>1 DEF Paired, TypeOK
    <2>5. RunSound' /\ Moving' /\ Undoable' /\ Consistent' /\ Settled' /\ NothingIsLost'
      BY <1>0, <2>1, <2>2, <2>4 DEF RunSound, Moving, Undoable, Consistent, Settled, NothingIsLost, At, Steps,
         Undoing
    <2> QED
      BY <2>3, <2>5 DEF EngineInv
  <1>2. ASSUME RemoveCompanion PROVE EngineInv'
    <2>1. /\ o \in 1..MaxRuns /\ Paired(archive, companion)
          /\ asideCompanion' = [asideCompanion EXCEPT ![o] = Absent]
          /\ UNCHANGED <<archive, companion, aside, report, faults, site>>
      BY <1>0, <1>2 DEF RemoveCompanion, RunSound, Moving, At, Steps
    <2>2. run' \in Runs /\ run'.pc = "report" /\ run'.no = o
      BY <1>0, <1>2, GotoRun DEF RemoveCompanion, Steps
    <2>3. TypeOK'
      BY <1>0, <2>1, <2>2 DEF TypeOK, Runs
    <2>4. Paired(archive, companion)' /\ archive' # Absent
      BY <2>1 DEF Paired
    <2>5. RunSound' /\ Moving' /\ Undoable' /\ Consistent' /\ Settled' /\ NothingIsLost'
      BY <1>0, <2>1, <2>2, <2>4 DEF RunSound, Moving, Undoable, Consistent, Settled, NothingIsLost, At, Steps,
         Undoing
    <2> QED
      BY <2>3, <2>5 DEF EngineInv
  <1>3. ASSUME WriteReport PROVE EngineInv'
    <2>1. At("report") /\ archive # Absent /\ archive \in Bundle /\ o \in 0..MaxRuns
      BY <1>0, <1>3 DEF WriteReport, Moving, At, TypeOK
    <2>2. run' \in Runs /\ run'.pc = "done"
      BY <1>0, <1>3, <2>1, EndRun DEF WriteReport, Ended
    <2>3. report' \in [accepted : BOOLEAN, bundle : Bundle]
      BY <1>3, <2>1 DEF WriteReport
    <2>4. RunSound'
      BY <2>2 DEF RunSound, At, Steps
    <2> QED
      BY <1>3, <2>1, <2>2, <2>3, <2>4, DiskKept DEF WriteReport, Ended, At
  <1> QED
    BY <1>1, <1>2, <1>3

\* The handler takes over with the original aside, and puts it back.
LEMMA HandlerHolds ==
    ASSUME EngineInv, Catch \/ UndoArchive \/ UndoCompanion \/ ReturnArchive \/ ReturnCompanion
    PROVE  EngineInv'
  <1> DEFINE o == run.no
  <1>0. /\ TypeOK /\ RunSound /\ Moving /\ Undoable /\ Consistent /\ Settled /\ NothingIsLost
        /\ run \in Runs
    BY RunTyped DEF EngineInv
  <1>s. run.pc \in Steps /\ o \in 1..MaxRuns /\ o \in 0..MaxRuns
    BY <1>0 DEF Catch, UndoArchive, UndoCompanion, ReturnArchive, ReturnCompanion, RunSound,
       Restoring, Steps, At
  <1>1. ASSUME Catch PROVE EngineInv'
    <2>1. run' \in Runs /\ run'.pc = "undoArchive" /\ run'.no = o
      BY <1>0, <1>1, GotoRun DEF Catch, Steps
    <2>2. /\ UNCHANGED <<archive, companion, aside, asideCompanion, report, site>>
          /\ faults' = faults \cup {run.pc} /\ run.pc \in Restoring
      BY <1>1 DEF Catch, disk
    <2>3. TypeOK'
      BY <1>0, <1>s, <2>1, <2>2 DEF TypeOK, Runs
    <2>4. RunSound' /\ Moving' /\ Consistent' /\ Settled'
      BY <1>0, <1>s, <2>1, <2>2 DEF RunSound, Moving, Consistent, Settled, At, Steps, Undoing
    <2>5. IF run.pc = "removeCompanion" THEN aside[o] = Absent
                                        ELSE Paired(aside[o], asideCompanion[o])
      BY <1>0, <2>2 DEF Restoring, Moving, At
    <2>6. Undoable'
      BY <2>1, <2>2, <2>5 DEF Undoable, Paired, At
    <2>7. NothingIsLost'
      BY <1>0, <2>2 DEF NothingIsLost, Paired
    <2> QED
      BY <2>3, <2>4, <2>6, <2>7 DEF EngineInv
  <1>2. ASSUME UndoArchive PROVE EngineInv'
    <2>1. run' \in Runs /\ run'.pc = "undoCompanion" /\ run'.no = o
      BY <1>0, <1>2, GotoRun DEF UndoArchive, Steps
    <2>2. /\ At("undoArchive") /\ archive' = Absent
          /\ UNCHANGED <<companion, aside, asideCompanion, report, faults, site>>
      BY <1>2 DEF UndoArchive
    <2>3. TypeOK'
      BY <1>0, <2>1, <2>2 DEF TypeOK, Runs
    <2>4. RunSound' /\ Moving' /\ Consistent' /\ Settled'
      BY <1>s, <2>1, <2>2 DEF RunSound, Moving, Consistent, Settled, At, Steps, Undoing
    <2>5. Undoable' /\ NothingIsLost'
      BY <1>0, <1>s, <2>1, <2>2 DEF Undoable, NothingIsLost, Paired, At, Undoing
    <2> QED
      BY <2>3, <2>4, <2>5 DEF EngineInv
  <1>3. ASSUME UndoCompanion PROVE EngineInv'
    <2>1. run' \in Runs /\ run'.pc = "returnArchive" /\ run'.no = o
      BY <1>0, <1>3, GotoRun DEF UndoCompanion, Steps
    <2>2. /\ At("undoCompanion") /\ companion' = Absent
          /\ UNCHANGED <<archive, aside, asideCompanion, report, faults, site>>
      BY <1>3 DEF UndoCompanion
    <2>3. TypeOK'
      BY <1>0, <2>1, <2>2 DEF TypeOK, Runs
    <2>4. RunSound' /\ Moving' /\ Consistent' /\ Settled'
      BY <1>0, <1>s, <2>1, <2>2 DEF RunSound, Moving, Consistent, Settled, At, Steps, Undoing
    <2>5. Undoable' /\ NothingIsLost'
      BY <1>0, <1>s, <2>1, <2>2 DEF Undoable, NothingIsLost, Paired, At, Undoing
    <2> QED
      BY <2>3, <2>4, <2>5 DEF EngineInv
  <1>4. ASSUME ReturnArchive PROVE EngineInv'
    <2>1. /\ At("returnArchive") /\ archive' = aside[o]
          /\ aside' = [aside EXCEPT ![o] = Absent] /\ companion = Absent
          /\ UNCHANGED <<companion, asideCompanion, report, faults, site>>
      BY <1>0, <1>4 DEF ReturnArchive, Moving, At
    <2>2. /\ run' \in Runs
          /\ \/ aside[o] = Absent /\ run'.pc = "failed"
             \/ aside[o] # Absent /\ run'.pc = "returnCompanion" /\ run'.no = o
      BY <1>0, <1>s, <1>4, GotoRun, EndRun DEF ReturnArchive, Steps, Ended
    <2>3. TypeOK'
      BY <1>0, <1>s, <2>1, <2>2 DEF TypeOK, Runs
    <2>4. \/ Paired(aside[o], asideCompanion[o])
          \/ aside[o] = Absent /\ "removeCompanion" \in faults
      BY <1>0, <2>1 DEF Undoable, At
    <2>5. RunSound' /\ Moving' /\ Consistent'
      BY <1>s, <2>1, <2>2 DEF RunSound, Moving, Consistent, At, Steps
    <2>6. \/ /\ run'.pc = "returnCompanion" /\ run'.no = o
             /\ Paired(archive, asideCompanion[o])'
          \/ run'.pc = "failed" /\ "removeCompanion" \in faults
      BY <2>1, <2>2, <2>4 DEF Paired
    <2>7. Undoable' /\ NothingIsLost'
      BY <1>0, <1>s, <2>1, <2>2, <2>6 DEF Undoable, NothingIsLost, Undoing, At
    <2>8. Settled'
      BY <2>1, <2>6 DEF Settled, Unanswered, Undoing
    <2> QED
      BY <2>3, <2>5, <2>7, <2>8 DEF EngineInv
  <1>5. ASSUME ReturnCompanion PROVE EngineInv'
    <2>1. run' \in Runs /\ run'.pc = "failed"
      BY <1>0, <1>s, <1>5, EndRun DEF ReturnCompanion, Ended
    <2>2. /\ At("returnCompanion") /\ companion' = asideCompanion[o]
          /\ asideCompanion' = [asideCompanion EXCEPT ![o] = Absent]
          /\ UNCHANGED <<archive, aside, report, faults, site>>
      BY <1>5 DEF ReturnCompanion
    <2>3. TypeOK'
      BY <1>0, <1>s, <2>1, <2>2 DEF TypeOK, Runs
    <2>4. RunSound' /\ Moving' /\ Undoable'
      BY <2>1 DEF RunSound, Moving, Undoable, At, Steps, Undoing
    <2>5. Paired(archive, companion)'
      BY <1>0, <2>2 DEF Undoable, Paired, At
    <2>6. Consistent' /\ Settled' /\ NothingIsLost'
      BY <2>5 DEF Consistent, Settled, NothingIsLost, Paired
    <2> QED
      BY <2>3, <2>4, <2>6 DEF EngineInv
  <1> QED
    BY <1>1, <1>2, <1>3, <1>4, <1>5

LEMMA FailuresHold ==
    ASSUME EngineInv, Fail \/ Die
    PROVE  EngineInv'
  <1>0. /\ TypeOK /\ RunSound /\ Moving /\ Undoable /\ Consistent /\ Settled /\ NothingIsLost
        /\ run \in Runs
    BY RunTyped DEF EngineInv
  <1>1. run.pc \in Steps /\ run.no \in 0..MaxRuns
    BY <1>0 DEF Fail, Die, RunSound, Restoring, Steps
  <1>2. run' \in Runs /\ run'.pc \in {"failed", "dead"}
    BY <1>0, <1>1, EndRun DEF Fail, Die, Ended
  <1>3. /\ UNCHANGED <<archive, companion, aside, asideCompanion, report, site>>
        /\ \/ faults' = faults \cup {"death"}
           \/ faults' = faults \cup {run.pc} /\ run.pc \notin Restoring
    BY DEF Fail, Die, disk
  <1>4. TypeOK'
    BY <1>0, <1>1, <1>2, <1>3 DEF TypeOK, Runs
  <1>5. RunSound' /\ Moving' /\ Undoable' /\ Consistent'
    BY <1>0, <1>2, <1>3 DEF RunSound, Moving, Undoable, Consistent, At, Steps, Undoing
  <1>6. Settled'
    BY <1>0, <1>2, <1>3 DEF Settled, Paired, Restoring, Unanswered
  <1>7. NothingIsLost'
    BY <1>0, <1>3 DEF NothingIsLost, Paired
  <1> QED
    BY <1>4, <1>5, <1>6, <1>7 DEF EngineInv

LEMMA EngineStep == EngineInv /\ [Next]_vars => EngineInv'
  <1> SUFFICES ASSUME EngineInv, [Next]_vars PROVE EngineInv'
    OBVIOUS
  <1>1. CASE Next
    BY <1>1, MemoryHolds, MovesHold, RemovesHold, HandlerHolds, FailuresHold DEF Next
  <1>2. CASE UNCHANGED vars
    BY <1>2 DEF vars, EngineInv, TypeOK, RunSound, Consistent, Moving, Undoable, Settled,
       NothingIsLost, Paired, At
  <1> QED
    BY <1>1, <1>2

\* The inductive invariant: at each step of the exchange it says where the
\* original archive and its companion are (replaceFilesAtomic).
THEOREM EngineInvariance == Spec => []EngineInv
  <1> QED
    BY StartEngine, EngineStep, PTL DEF Spec

\* Patches turn bundles into bundles, and every variable keeps its type.
THEOREM EngineTypes == Spec => []TypeOK
  <1>1. EngineInv => TypeOK
    BY DEF EngineInv
  <1> QED
    BY <1>1, EngineInvariance, PTL

\* A run that has ended leaves an archive with its own companion tree, but for
\* the faults replaceFilesAtomic has no answer to.
THEOREM RunsEndPaired == Spec => []EndsPaired
  <1>1. EngineInv => EndsPaired
    BY DEF EngineInv, Settled, EndsPaired, Ended, Undoing
  <1> QED
    BY <1>1, EngineInvariance, PTL

\* Whatever step failed or the process died at, and whatever runs followed, an
\* archive with its companion is still on disk, unless the removal of the
\* original's companion failed.
THEOREM NothingLost == Spec => []NothingIsLost
  <1>1. EngineInv => NothingIsLost
    BY DEF EngineInv
  <1> QED
    BY <1>1, EngineInvariance, PTL

-----------------------------------------------------------------------------
(***************************************************************************)
(* Patches one after another.  A patch touches the shapes it is about and  *)
(* no others, so what an earlier one established stays: its validator      *)
(* passes, and applied again it finds itself there.                        *)
(***************************************************************************)

\* The elements of a spliced file: those before, the others, those after.
LEMMA SplicedElements ==
    ASSUME NEW f \in File, NEW j \in 1..(Len(f) + 1), NEW n \in Nat, j + n <= Len(f) + 1,
           NEW others \in File
    PROVE  LET g == Splice(f, j, n, others) IN
           /\ g \in File
           /\ Len(g) = Len(f) - n + Len(others)
           /\ \A k \in 1..(j - 1) : g[k] = f[k]
           /\ \A k \in 1..Len(others) : g[j - 1 + k] = others[k]
           /\ \A k \in (j + n)..Len(f) : g[k - n + Len(others)] = f[k]
  <1> DEFINE a == SubSeq(f, 1, j - 1)
             c == SubSeq(f, j + n, Len(f))
             m == Len(others)
             l == Len(f)
  <1>1. l \in Nat /\ m \in Nat /\ \A k \in 1..l : f[k] \in Shapes
    BY DEF File
  <1>2. /\ a \in Seq(Shapes) /\ Len(a) = j - 1
        /\ \A k \in 1..(j - 1) : a[k] = f[k]
    BY <1>1, SubSeqProperties
  <1>3. /\ c \in Seq(Shapes) /\ Len(c) = l - (j + n) + 1
        /\ \A k \in 1..Len(c) : c[k] = f[j + n + k - 1]
    <2>1. \A k \in (j + n)..l : f[k] \in Shapes
      BY <1>1
    <2>2. /\ c \in Seq(Shapes)
          /\ Len(c) = IF j + n <= l THEN l - (j + n) + 1 ELSE 0
          /\ \A k \in 1..(l - (j + n) + 1) : c[k] = f[j + n + k - 1]
      BY <1>1, <2>1, SubSeqProperties
    <2> QED
      BY <1>1, <2>2
  <1>4. Splice(f, j, n, others) = a \o others \o c
    BY DEF Splice
  <1> HIDE DEF a, c
  <1>5. others \in Seq(Shapes)
    BY DEF File
  <1>6. /\ a \o others \in Seq(Shapes) /\ Len(a \o others) = Len(a) + m
        /\ \A k \in 1..(Len(a) + m) :
              (a \o others)[k] = IF k <= Len(a) THEN a[k] ELSE others[k - Len(a)]
    BY <1>2, <1>5, ConcatProperties
  <1> DEFINE b == a \o others
             g == b \o c
  <1>7. /\ g \in Seq(Shapes) /\ Len(g) = Len(b) + Len(c)
        /\ \A k \in 1..(Len(b) + Len(c)) :
              g[k] = IF k <= Len(b) THEN b[k] ELSE c[k - Len(b)]
    <2> HIDE DEF b
    <2>1. b \in Seq(Shapes)
      BY <1>6 DEF b
    <2> QED
      BY <1>3, <2>1, ConcatProperties
  <1>60. /\ Len(b) = j - 1 + m
         /\ \A k \in 1..(j - 1) : b[k] = a[k]
         /\ \A k \in 1..m : b[j - 1 + k] = others[k]
    <2>1. j - 1 \in Nat /\ Len(a) = j - 1
      BY <1>1, <1>2
    <2> HIDE DEF a
    <2>2. ASSUME NEW k \in 1..(j - 1) PROVE b[k] = a[k]
      BY <1>1, <1>6, <2>1
    <2>3. ASSUME NEW k \in 1..m PROVE b[j - 1 + k] = others[k]
      <3>1. j - 1 + k \in 1..(Len(a) + m) /\ ~(j - 1 + k <= Len(a)) /\ j - 1 + k - Len(a) = k
        BY <1>1, <2>1
      <3> QED
        BY <1>6, <3>1
    <2> QED
      BY <1>6, <2>1, <2>2, <2>3
  <1> HIDE DEF b, g
  <1>8. g \in File /\ Len(g) = l - n + m
    BY <1>1, <1>3, <1>60, <1>7 DEF File
  <1>9. ASSUME NEW k \in 1..(j - 1) PROVE g[k] = f[k]
    <2>1. k \in 1..(Len(b) + Len(c)) /\ k <= Len(b)
      BY <1>1, <1>3, <1>60
    <2> QED
      BY <1>2, <1>60, <1>7, <2>1
  <1>10. ASSUME NEW k \in 1..m PROVE g[j - 1 + k] = others[k]
    <2>1. j - 1 + k \in 1..(Len(b) + Len(c)) /\ j - 1 + k <= Len(b)
      BY <1>1, <1>3, <1>60
    <2> QED
      BY <1>60, <1>7, <2>1
  <1>11. \A k \in (j + n)..l : g[k - n + m] = f[k]
    <2> SUFFICES ASSUME NEW k \in (j + n)..l PROVE g[k - n + m] = f[k]
      OBVIOUS
    <2>1. /\ k - n + m \in 1..(j - 1 + m + Len(c)) /\ ~(k - n + m <= j - 1 + m)
          /\ (k - n + m) - (j - 1 + m) = k - n - j + 1
          /\ k - n - j + 1 \in 1..Len(c)
      BY <1>1, <1>3
    <2>2. g[k - n + m] = c[k - n - j + 1]
      BY <1>60, <1>7, <2>1
    <2>3. j + n + (k - n - j + 1) - 1 = k
      BY <1>1
    <2> QED
      BY <1>3, <2>1, <2>2, <2>3
  <1>12. Splice(f, j, n, others) = g
    BY <1>4 DEF g, b
  <1> QED
    BY <1>8, <1>9, <1>10, <1>11, <1>12

\* A shape that is neither taken out nor put in is contained as before.
LEMMA SplicedContains ==
    ASSUME NEW f \in File, NEW j \in 1..(Len(f) + 1), NEW n \in Nat, j + n <= Len(f) + 1,
           NEW others \in File, NEW s,
           \A k \in 1..Len(others) : others[k] # s,
           \A k \in j..(j + n - 1) : f[k] # s
    PROVE  Contains(Splice(f, j, n, others), s) <=> Contains(f, s)
  <1> DEFINE g == Splice(f, j, n, others)
  <1>1. /\ g \in File
        /\ Len(g) = Len(f) - n + Len(others)
        /\ \A k \in 1..(j - 1) : g[k] = f[k]
        /\ \A k \in 1..Len(others) : g[j - 1 + k] = others[k]
        /\ \A k \in (j + n)..Len(f) : g[k - n + Len(others)] = f[k]
    BY SplicedElements
  <1> HIDE DEF g
  <1>0. Len(f) \in Nat /\ Len(others) \in Nat
    BY DEF File
  <1>2. ASSUME NEW k \in 1..Len(g), g[k] = s PROVE Contains(f, s)
    <2>1. CASE k <= j - 1
      <3>1. k \in 1..(j - 1) /\ k \in 1..Len(f)
        BY <1>0, <2>1
      <3> QED
        BY <1>1, <1>2, <3>1 DEF Contains
    <2>2. CASE j - 1 < k /\ k <= j - 1 + Len(others)
      <3>1. k - (j - 1) \in 1..Len(others) /\ j - 1 + (k - (j - 1)) = k
        BY <1>0, <2>2
      <3>2. g[k] = others[k - (j - 1)]
        BY <1>1, <3>1
      <3> QED
        BY <1>2, <3>1, <3>2
    <2>3. CASE j - 1 + Len(others) < k
      <3>1. /\ k + n - Len(others) \in (j + n)..Len(f)
            /\ k + n - Len(others) \in 1..Len(f)
            /\ (k + n - Len(others)) - n + Len(others) = k
        BY <1>0, <1>1, <2>3
      <3>2. g[k] = f[k + n - Len(others)]
        BY <1>1, <3>1
      <3> QED
        BY <1>2, <3>1, <3>2 DEF Contains
    <2> QED
      BY <1>0, <2>1, <2>2, <2>3
  <1>3. ASSUME NEW k \in 1..Len(f), f[k] = s PROVE Contains(g, s)
    <2>1. CASE k \in 1..(j - 1)
      <3>1. k \in 1..Len(g)
        BY <1>0, <1>1, <2>1
      <3> QED
        BY <1>1, <1>3, <2>1, <3>1 DEF Contains
    <2>2. CASE k \in (j + n)..Len(f)
      <3>1. k - n + Len(others) \in 1..Len(g)
        BY <1>0, <1>1, <2>2
      <3> QED
        BY <1>1, <1>3, <2>2, <3>1 DEF Contains
    <2>3. CASE k \in j..(j + n - 1)
      BY <1>3, <2>3
    <2> QED
      BY <1>0, <2>1, <2>2, <2>3
  <1>4. Contains(g, s) <=> Contains(f, s)
    BY <1>2, <1>3 DEF Contains
  <1> QED
    BY <1>4 DEF g

\* Two bundles of as many files, each with the same of some shapes.
Alike(fs, gs, S) ==
    /\ DOMAIN gs = DOMAIN fs
    /\ \A i \in DOMAIN fs, s \in S : Contains(gs[i], s) <=> Contains(fs[i], s)

LEMMA FileElements ==
    ASSUME NEW f \in File, NEW shapes
    PROVE  /\ DOMAIN f = 1..Len(f) /\ Len(f) \in Nat
           /\ ToSet(f) \cap shapes # {} <=> \E s \in shapes : Contains(f, s)
           /\ \A s : s \in ToSet(f) <=> Contains(f, s)
  BY DEF File, ToSet, Contains

LEMMA BundleFiles ==
    ASSUME NEW fs \in Bundle, NEW i \in DOMAIN fs
    PROVE  fs[i] \in File /\ i \in Nat \ {0}
  BY DEF Bundle, File

LEMMA AlikeHas ==
    ASSUME NEW fs, NEW gs, NEW S, Alike(fs, gs, S), NEW s \in S
    PROVE  Has(gs, s) <=> Has(fs, s)
  BY DEF Alike, Has

LEMMA AlikeFirst ==
    ASSUME NEW fs \in Bundle, NEW gs \in Bundle, NEW S, Alike(fs, gs, S), NEW shapes \in SUBSET S
    PROVE  FirstFile(gs, shapes) = FirstFile(fs, shapes)
  <1>1. ASSUME NEW i \in DOMAIN fs
        PROVE  ToSet(gs[i]) \cap shapes # {} <=> ToSet(fs[i]) \cap shapes # {}
    <2>1. fs[i] \in File /\ gs[i] \in File
      BY BundleFiles DEF Alike
    <2> QED
      BY <2>1, FileElements DEF Alike
  <1>2. {i \in DOMAIN gs : ToSet(gs[i]) \cap shapes # {}}
            = {i \in DOMAIN fs : ToSet(fs[i]) \cap shapes # {}}
    BY <1>1 DEF Alike
  <1> QED
    BY <1>2 DEF FirstFile

LEMMA FirstFileHas ==
    ASSUME NEW fs \in Bundle, NEW shapes, FirstFile(fs, shapes) # 0
    PROVE  /\ FirstFile(fs, shapes) \in DOMAIN fs
           /\ \E s \in shapes : Contains(fs[FirstFile(fs, shapes)], s)
  <1> DEFINE is == {i \in DOMAIN fs : ToSet(fs[i]) \cap shapes # {}}
             i == First(is)
  <1>1. FirstFile(fs, shapes) = i
    BY DEF FirstFile
  <1>2. i \in is
    BY <1>1, FirstIsPosition
  <1> HIDE DEF i
  <1>3. i \in DOMAIN fs /\ ToSet(fs[i]) \cap shapes # {} /\ fs[i] \in File
    BY <1>2, BundleFiles
  <1> QED
    BY <1>1, <1>3, FileElements

LEMMA OneFileAlike ==
    ASSUME NEW fs \in Bundle, NEW i \in DOMAIN fs, NEW g, NEW S,
           \A s \in S : Contains(g, s) <=> Contains(fs[i], s)
    PROVE  Alike(fs, [fs EXCEPT ![i] = g], S)
  <1>1. DOMAIN [fs EXCEPT ![i] = g] = DOMAIN fs
    OBVIOUS
  <1>2. \A k \in DOMAIN fs : [fs EXCEPT ![i] = g][k] = IF k = i THEN g ELSE fs[k]
    BY DEF Bundle
  <1> QED
    BY <1>1, <1>2 DEF Alike

\* Taking out nothing before the first element puts the others there.
LEMMA SpliceAtZero ==
    ASSUME NEW f \in File, NEW others
    PROVE  Splice(f, 0, 1, others) = Splice(f, 1, 0, others)
  <1>1. SubSeq(f, 1, 0 - 1) = SubSeq(f, 1, 1 - 1)
    <2>1. SubSeq(f, 1, 0 - 1) = <<>> /\ SubSeq(f, 1, 1 - 1) = <<>>
      BY SubSeqEmpty DEF File
    <2> QED
      BY <2>1
  <1>2. 0 + 1 = 1 + 0
    OBVIOUS
  <1> QED
    BY <1>1, <1>2 DEF Splice

LEMMA ReplacedFile ==
    ASSUME NEW fs \in Bundle, NEW i \in DOMAIN fs, NEW shapes, NEW others \in File
    PROVE  LET gs == Replaced(fs, i, shapes, others).files IN
           /\ gs \in Bundle /\ DOMAIN gs = DOMAIN fs
           /\ \A k \in DOMAIN fs : k # i => gs[k] = fs[k]
           /\ \A s : (s \notin shapes /\ s \notin ToSet(others))
                         => (Contains(gs[i], s) <=> Contains(fs[i], s))
           /\ \A s \in ToSet(others) : Contains(gs[i], s)
  <1> DEFINE f == fs[i]
             p == FirstIn(f, shapes)
             g == Splice(f, p, 1, others)
             gs == [fs EXCEPT ![i] = g]
  <1>1. Replaced(fs, i, shapes, others).files = gs
    BY Outcomes DEF Replaced
  <1>2. gs \in Bundle
    BY <1>1, ReplacedTyped DEF Typed
  <1>3. DOMAIN gs = DOMAIN fs /\ gs[i] = g /\ \A k \in DOMAIN fs : k # i => gs[k] = fs[k]
    BY DEF Bundle
  <1>4. f \in File /\ Len(f) \in Nat /\ DOMAIN f = 1..Len(f) /\ Len(others) \in Nat
        /\ DOMAIN others = 1..Len(others)
    BY BundleFiles, FileElements DEF File
  <1>5. p = 0 \/ (p \in 1..Len(f) /\ f[p] \in shapes)
    BY <1>4, FirstIsPosition DEF FirstIn
  <1> HIDE DEF f, p, gs
  <1> DEFINE Changed(h) ==
               /\ \A s : (s \notin shapes /\ s \notin ToSet(others)) => (Contains(h, s) <=> Contains(f, s))
               /\ \A s \in ToSet(others) : Contains(h, s)
  <1>6. Changed(g)
    <2> HIDE DEF g
    <2>1. ASSUME NEW j \in 1..(Len(f) + 1), NEW n \in {0, 1}, j + n <= Len(f) + 1,
                 \A k \in j..(j + n - 1) : f[k] \in shapes, g = Splice(f, j, n, others)
          PROVE  Changed(g)
      <3>1. ASSUME NEW s, s \notin shapes, s \notin ToSet(others)
            PROVE  Contains(g, s) <=> Contains(f, s)
        <4>1. \A k \in 1..Len(others) : others[k] # s
          BY <1>4, <3>1 DEF ToSet
        <4>2. \A k \in j..(j + n - 1) : f[k] # s
          BY <2>1, <3>1
        <4> QED
          BY <1>4, <2>1, <4>1, <4>2, SplicedContains
      <3>2. ASSUME NEW s \in ToSet(others) PROVE Contains(g, s)
        <4>1. PICK k \in 1..Len(others) : others[k] = s
          BY <1>4 DEF ToSet
        <4>0. f \in File /\ n \in Nat /\ j + n <= Len(f) + 1
          BY <1>4, <2>1
        <4>2. /\ g \in File
              /\ Len(g) = Len(f) - n + Len(others)
              /\ \A m \in 1..(j - 1) : g[m] = f[m]
              /\ \A m \in 1..Len(others) : g[j - 1 + m] = others[m]
              /\ \A m \in (j + n)..Len(f) : g[m - n + Len(others)] = f[m]
          <5> DEFINE h == Splice(f, j, n, others)
          <5>1. /\ h \in File
                /\ Len(h) = Len(f) - n + Len(others)
                /\ \A m \in 1..(j - 1) : h[m] = f[m]
                /\ \A m \in 1..Len(others) : h[j - 1 + m] = others[m]
                /\ \A m \in (j + n)..Len(f) : h[m - n + Len(others)] = f[m]
            BY <4>0, SplicedElements
          <5> QED
            BY <2>1, <5>1
        <4>3. j - 1 + k \in 1..Len(g)
          BY <1>4, <2>1, <4>2
        <4>4. g[j - 1 + k] = others[k]
          BY <2>1, <4>2
        <4> QED
          BY <4>1, <4>3, <4>4 DEF Contains
      <3> QED
        BY <3>1, <3>2
    <2>2. CASE p = 0
      <3>1. g = Splice(f, 1, 0, others)
        BY <1>4, <2>2, SpliceAtZero DEF g
      <3>2. 1 \in 1..(Len(f) + 1) /\ 0 \in {0, 1} /\ 1 + 0 <= Len(f) + 1
            /\ \A k \in 1..(1 + 0 - 1) : f[k] \in shapes
        BY <1>4
      <3> QED
        BY <2>1, <3>1, <3>2
    <2>3. CASE p # 0
      <3>1. p \in 1..(Len(f) + 1) /\ 1 \in {0, 1} /\ p + 1 <= Len(f) + 1
            /\ \A k \in p..(p + 1 - 1) : f[k] \in shapes
        <4>1. p \in 1..Len(f) /\ \A k \in p..(p + 1 - 1) : k = p
          BY <1>4, <1>5, <2>3
        <4> QED
          BY <1>4, <1>5, <2>3, <4>1
      <3> QED
        BY <2>1, <3>1 DEF g
    <2> QED
      BY <2>2, <2>3
  <1> QED
    BY <1>1, <1>2, <1>3, <1>6 DEF f

LEMMA ReplacedAlike ==
    ASSUME NEW fs \in Bundle, NEW i \in DOMAIN fs, NEW shapes, NEW others \in File, NEW S,
           S \cap shapes = {}, S \cap ToSet(others) = {}
    PROVE  Alike(fs, Replaced(fs, i, shapes, others).files, S)
  BY ReplacedFile DEF Alike

\* The first file with one of the shapes is the same when it keeps one of them.
LEMMA ReplacedFirst ==
    ASSUME NEW fs \in Bundle, NEW these, NEW shapes, NEW others \in File,
           FirstFile(fs, these) # 0, ToSet(others) \cap these # {}
    PROVE  FirstFile(Replaced(fs, FirstFile(fs, these), shapes, others).files, these)
               = FirstFile(fs, these)
  <1> DEFINE i == FirstFile(fs, these)
             gs == Replaced(fs, i, shapes, others).files
  <1>1. i \in DOMAIN fs /\ \E s \in these : Contains(fs[i], s)
    BY FirstFileHas
  <1> HIDE DEF i
  <1>2. /\ gs \in Bundle /\ DOMAIN gs = DOMAIN fs
        /\ \A k \in DOMAIN fs : k # i => gs[k] = fs[k]
        /\ \A s \in ToSet(others) : Contains(gs[i], s)
    BY <1>1, ReplacedFile
  <1> HIDE DEF gs
  <1>3. ASSUME NEW k \in DOMAIN fs
        PROVE  ToSet(gs[k]) \cap these # {} <=> ToSet(fs[k]) \cap these # {}
    <2>1. fs[k] \in File /\ gs[k] \in File
      BY <1>2, BundleFiles
    <2> QED
      BY <1>1, <1>2, <2>1, FileElements
  <1>4. {k \in DOMAIN gs : ToSet(gs[k]) \cap these # {}}
            = {k \in DOMAIN fs : ToSet(fs[k]) \cap these # {}}
    BY <1>2, <1>3
  <1> QED
    BY <1>4 DEF FirstFile, gs, i

-----------------------------------------------------------------------------
\* The patch is there: its validator passes, and applying it changes nothing.
InPlace(d, fs) == Valid(d, fs) /\ Apply(d, fs) = Already(fs)

\* The patches that are recognised by what single files contain, and the
\* shapes they are recognised by.
Simple == {"transport", "listen", "adoption", "droid"}
Reads == [transport |-> {"m.transport", "webSocket", "transportUse", "hardcodedIpc", "statsig"},
          listen |-> {"m.listen", "push", "guardedPush"},
          adoption |-> {"m.adoption", "adopt", "startInternal", "startOther"},
          droid |-> {"m.droid", "droidLookup"}]

LEMMA ReadsOf ==
    /\ Reads["transport"] = {"m.transport", "webSocket", "transportUse", "hardcodedIpc", "statsig"}
    /\ Reads["listen"] = {"m.listen", "push", "guardedPush"}
    /\ Reads["adoption"] = {"m.adoption", "adopt", "startInternal", "startOther"}
    /\ Reads["droid"] = {"m.droid", "droidLookup"}
  BY DEF Reads

LEMMA OutcomesDiffer ==
    ASSUME NEW fs, NEW gs
    PROVE  /\ Already(fs) # NoMatch(gs) /\ Already(fs) # Patched(gs)
           /\ ~NoMatch(fs).matched /\ ~NoMatch(fs).already
  BY DEF NoMatch, Already, Patched, Outcome

LEMMA ListenThere ==
    ASSUME NEW fs
    PROVE  LET i == FirstFile(fs, Pushes) IN
           PreventListen(fs) = Already(fs) <=> i # 0 /\ Contains(fs[i], "m.listen")
  BY OutcomesDiffer DEF PreventListen, Replaced

LEMMA AdoptionThere ==
    ASSUME NEW fs
    PROVE  LET i == FirstFile(fs, {"startInternal", "startOther"}) IN
           Adoption(fs) = Already(fs) <=> i # 0 /\ Contains(fs[i], "m.adoption")
  BY OutcomesDiffer DEF Adoption, Replaced

\* The other patches find themselves there when their validators pass.
LEMMA MarkedIsThere ==
    ASSUME NEW fs
    PROVE  /\ Has(fs, "m.transport") => DaemonTransport(fs) = Already(fs)
           /\ Has(fs, "m.droid") => SystemDroid(fs) = Already(fs)
           /\ ValidWindow(fs) => WindowControls(fs) = Already(fs)
           /\ Has(fs, "m.updater") => NativeUpdater(fs) = Already(fs)
           /\ Has(fs, "markedCheck") => AutoUpdater(fs) = Already(fs)
  <1>1. Has(fs, "m.transport") => DaemonTransport(fs) = Already(fs)
    BY DEF DaemonTransport
  <1>2. Has(fs, "m.droid") => SystemDroid(fs) = Already(fs)
    BY DEF SystemDroid
  <1>3. ValidWindow(fs) => WindowControls(fs) = Already(fs)
    <2>1. ThemedForm # UpstreamForm /\ ThemedForm # LegacyForm
      <3>1. ThemedForm["m.sync"] = 1 /\ UpstreamForm["m.sync"] = 0 /\ LegacyForm["m.sync"] = 0
        BY DEF ThemedForm, UpstreamForm, LegacyForm, WindowForm, WindowFields
      <3> QED
        BY <3>1
    <2> QED
      BY <2>1 DEF ValidWindow, WindowControls
  <1>4. Has(fs, "m.updater") => NativeUpdater(fs) = Already(fs)
    BY DEF NativeUpdater
  <1>5. Has(fs, "markedCheck") => AutoUpdater(fs) = Already(fs)
    BY DEF AutoUpdater
  <1> QED
    BY <1>1, <1>2, <1>3, <1>4, <1>5

\* A patch that is recognised by what files contain stays while they do.
LEMMA SimpleStays ==
    ASSUME NEW fs \in Bundle, NEW gs \in Bundle, NEW d \in Simple,
           Alike(fs, gs, Reads[d]), InPlace(d, fs)
    PROVE  InPlace(d, gs)
  <1>0. \A s \in Reads[d] : Has(gs, s) <=> Has(fs, s)
    BY AlikeHas
  <1>1. CASE d = "transport"
    <2>1. ValidTransport(fs)
      BY <1>1 DEF InPlace, Valid
    <2>2. ValidTransport(gs)
      BY <1>0, <1>1, <2>1, ReadsOf DEF ValidTransport
    <2>3. DaemonTransport(gs) = Already(gs)
      BY <2>2, MarkedIsThere DEF ValidTransport
    <2> QED
      BY <1>1, <2>2, <2>3 DEF InPlace, Valid, Apply
  <1>2. CASE d = "listen"
    <2>1. ValidListen(fs) /\ PreventListen(fs) = Already(fs)
      BY <1>2 DEF InPlace, Valid, Apply
    <2>2. ValidListen(gs)
      BY <1>0, <1>2, <2>1, ReadsOf DEF ValidListen
    <2> DEFINE i == FirstFile(fs, Pushes)
    <2>3. i # 0 /\ Contains(fs[i], "m.listen")
      BY <2>1, ListenThere
    <2>4. FirstFile(gs, Pushes) = i /\ i \in DOMAIN fs
      BY <1>2, <2>3, AlikeFirst, FirstFileHas, ReadsOf DEF Pushes
    <2> HIDE DEF i
    <2>5. Contains(gs[i], "m.listen")
      BY <1>2, <2>3, <2>4, ReadsOf DEF Alike
    <2>6. PreventListen(gs) = Already(gs)
      BY <2>3, <2>4, <2>5, ListenThere
    <2> QED
      BY <1>2, <2>2, <2>6 DEF InPlace, Valid, Apply
  <1>3. CASE d = "adoption"
    <2>1. ValidAdoption(fs) /\ Adoption(fs) = Already(fs)
      BY <1>3 DEF InPlace, Valid, Apply
    <2>2. ValidAdoption(gs)
      BY <1>0, <1>3, <2>1, ReadsOf DEF ValidAdoption
    <2> DEFINE i == FirstFile(fs, {"startInternal", "startOther"})
    <2>3. i # 0 /\ Contains(fs[i], "m.adoption")
      BY <2>1, AdoptionThere
    <2>4. FirstFile(gs, {"startInternal", "startOther"}) = i /\ i \in DOMAIN fs
      BY <1>3, <2>3, AlikeFirst, FirstFileHas, ReadsOf
    <2> HIDE DEF i
    <2>5. Contains(gs[i], "m.adoption")
      BY <1>3, <2>3, <2>4, ReadsOf DEF Alike
    <2>6. Adoption(gs) = Already(gs)
      BY <2>3, <2>4, <2>5, AdoptionThere
    <2> QED
      BY <1>3, <2>2, <2>6 DEF InPlace, Valid, Apply
  <1>4. CASE d = "droid"
    <2>1. ValidDroid(fs)
      BY <1>4 DEF InPlace, Valid
    <2>2. ValidDroid(gs)
      BY <1>0, <1>4, <2>1, ReadsOf DEF ValidDroid
    <2>3. SystemDroid(gs) = Already(gs)
      BY <2>2, MarkedIsThere DEF ValidDroid
    <2> QED
      BY <1>4, <2>2, <2>3 DEF InPlace, Valid, Apply
  <1> QED
    BY <1>1, <1>2, <1>3, <1>4 DEF Simple

\* What applying a simple patch leaves as it was.
LEMMA SimpleTouches ==
    ASSUME NEW fs \in Bundle, NEW S
    PROVE  /\ S \cap {"statsig", "hardcodedIpc", "m.transport", "webSocket"} = {}
                  => Alike(fs, DaemonTransport(fs).files, S)
           /\ S \cap {"push", "guardedPush", "m.listen"} = {}
                  => Alike(fs, PreventListen(fs).files, S)
           /\ S \cap {"startInternal", "m.adoption", "adopt"} = {}
                  => Alike(fs, Adoption(fs).files, S)
           /\ S \cap {"droidPath", "m.droid", "droidLookup"} = {}
                  => Alike(fs, SystemDroid(fs).files, S)
  <1>0. /\ <<"m.transport", "webSocket">> \in File /\ <<"m.listen", "guardedPush">> \in File
        /\ <<"m.adoption", "adopt", "startInternal">> \in File /\ <<"m.droid", "droidLookup">> \in File
    BY ShapesWritten, PairTyped, TripleTyped DEF File
  <1>p. \A a, b : ToSet(<<a, b>>) = {a, b}
    BY DEF ToSet
  <1>t. \A a, b, c : ToSet(<<a, b, c>>) = {a, b, c}
    BY DEF ToSet
  <1>s. Alike(fs, NoMatch(fs).files, S) /\ Alike(fs, Already(fs).files, S)
    BY Outcomes DEF Alike
  <1>1. ASSUME S \cap {"statsig", "hardcodedIpc", "m.transport", "webSocket"} = {}
        PROVE  Alike(fs, DaemonTransport(fs).files, S)
    <2> DEFINE statsig == FirstFile(fs, {"statsig"})
               both == {i \in DOMAIN fs : {"hardcodedIpc", "transportUse"} \subseteq ToSet(fs[i])}
               hardcoded == First(both)
               websocket == <<"m.transport", "webSocket">>
    <2>1. statsig # 0 => statsig \in DOMAIN fs
      BY FirstFileHas
    <2>2. hardcoded # 0 => hardcoded \in DOMAIN fs
      BY FirstIsPosition
    <2>3. ToSet(websocket) = {"m.transport", "webSocket"}
      BY <1>p
    <2>4. DaemonTransport(fs) \in {Already(fs), NoMatch(fs)}
          \/ (statsig # 0 /\ DaemonTransport(fs) = Replaced(fs, statsig, {"statsig"}, websocket))
          \/ (hardcoded # 0 /\ DaemonTransport(fs) = Replaced(fs, hardcoded, {"hardcodedIpc"}, websocket))
      BY DEF DaemonTransport
    <2> HIDE DEF statsig, hardcoded, websocket
    <2>5. websocket \in File
      BY <1>0 DEF websocket
    <2>6. S \cap {"statsig"} = {} /\ S \cap {"hardcodedIpc"} = {} /\ S \cap ToSet(websocket) = {}
      BY <1>1, <2>3
    <2> QED
      BY <1>s, <2>1, <2>2, <2>4, <2>5, <2>6, ReplacedAlike
  <1>2. ASSUME S \cap {"push", "guardedPush", "m.listen"} = {}
        PROVE  Alike(fs, PreventListen(fs).files, S)
    <2> DEFINE i == FirstFile(fs, Pushes)
               others == <<"m.listen", "guardedPush">>
    <2>1. i # 0 => i \in DOMAIN fs
      BY FirstFileHas
    <2>2. S \cap Pushes = {} /\ S \cap ToSet(others) = {}
      BY <1>2, <1>p DEF Pushes
    <2>3. PreventListen(fs) \in {Already(fs), NoMatch(fs)}
          \/ (i # 0 /\ PreventListen(fs) = Replaced(fs, i, Pushes, others))
      BY DEF PreventListen
    <2>4. others \in File
      BY <1>0
    <2> HIDE DEF i, others
    <2> QED
      BY <1>s, <2>1, <2>2, <2>3, <2>4, ReplacedAlike
  <1>3. ASSUME S \cap {"startInternal", "m.adoption", "adopt"} = {}
        PROVE  Alike(fs, Adoption(fs).files, S)
    <2> DEFINE i == FirstFile(fs, {"startInternal", "startOther"})
               others == <<"m.adoption", "adopt", "startInternal">>
    <2>1. i # 0 => i \in DOMAIN fs
      BY FirstFileHas
    <2>2. S \cap {"startInternal"} = {} /\ S \cap ToSet(others) = {}
      BY <1>3, <1>t
    <2>3. Adoption(fs) \in {Already(fs), NoMatch(fs)}
          \/ (i # 0 /\ Adoption(fs) = Replaced(fs, i, {"startInternal"}, others))
      BY DEF Adoption
    <2>4. others \in File
      BY <1>0
    <2> HIDE DEF i, others
    <2> QED
      BY <1>s, <2>1, <2>2, <2>3, <2>4, ReplacedAlike
  <1>4. ASSUME S \cap {"droidPath", "m.droid", "droidLookup"} = {}
        PROVE  Alike(fs, SystemDroid(fs).files, S)
    <2> DEFINE i == FirstFile(fs, {"droidPath", "droidOther"})
               others == <<"m.droid", "droidLookup">>
    <2>1. i # 0 => i \in DOMAIN fs
      BY FirstFileHas
    <2>2. S \cap {"droidPath"} = {} /\ S \cap ToSet(others) = {}
      BY <1>4, <1>p
    <2>3. SystemDroid(fs) \in {Already(fs), NoMatch(fs)}
          \/ (i # 0 /\ SystemDroid(fs) = Replaced(fs, i, {"droidPath"}, others))
      BY DEF SystemDroid
    <2>4. others \in File
      BY <1>0
    <2> HIDE DEF i, others
    <2> QED
      BY <1>s, <2>1, <2>2, <2>3, <2>4, ReplacedAlike
  <1> QED
    BY <1>1, <1>2, <1>3, <1>4

-----------------------------------------------------------------------------
(***************************************************************************)
(* Where shapes occur, and how often.                                      *)
(***************************************************************************)
LEMMA PrefixThere ==
    ASSUME NEW f \in File, NEW j \in 1..Len(f), NEW shapes \in File
    PROVE  IsPrefix(shapes, SubSeq(f, j, Len(f)))
               <=> /\ j + Len(shapes) - 1 <= Len(f)
                   /\ \A k \in 1..Len(shapes) : f[j + k - 1] = shapes[k]
  <1> DEFINE t == SubSeq(f, j, Len(f))
             n == Len(shapes)
  <1>1. Len(f) \in Nat /\ n \in Nat /\ \A k \in 1..Len(f) : f[k] \in Shapes
    BY DEF File
  <1>2. /\ t \in Seq(Shapes) /\ Len(t) = Len(f) - j + 1
        /\ \A k \in 1..(Len(f) - j + 1) : t[k] = f[j + k - 1]
    <2>1. \A k \in j..Len(f) : f[k] \in Shapes
      BY <1>1
    <2>2. /\ t \in Seq(Shapes)
          /\ Len(t) = IF j <= Len(f) THEN Len(f) - j + 1 ELSE 0
          /\ \A k \in 1..(Len(f) - j + 1) : t[k] = f[j + k - 1]
      BY <1>1, <2>1, SubSeqProperties
    <2> QED
      BY <1>1, <2>2
  <1>3. SubSeq(shapes, 1, n) = shapes
    BY SubSeqFull DEF File
  <1> HIDE DEF t
  <1>4. CASE n <= Len(t)
    <2> DEFINE u == SubSeq(t, 1, n)
    <2>1. u \in Seq(Shapes) /\ Len(u) = n /\ \A k \in 1..n : u[k] = t[k]
      <3>1. \A k \in 1..n : t[k] \in Shapes
        BY <1>1, <1>2, <1>4
      <3>2. /\ u \in Seq(Shapes)
            /\ Len(u) = IF 1 <= n THEN n - 1 + 1 ELSE 0
            /\ \A k \in 1..(n - 1 + 1) : u[k] = t[1 + k - 1]
        BY <1>1, <1>2, <1>4, <3>1, SubSeqProperties
      <3> HIDE DEF u
      <3> QED
        BY <1>1, <3>2
    <2> HIDE DEF u
    <2>2. u = shapes <=> \A k \in 1..n : t[k] = shapes[k]
      <3>1. shapes \in Seq(Shapes)
        BY DEF File
      <3>2. (\A k \in 1..n : t[k] = shapes[k]) => u = shapes
        BY <2>1, <3>1, SeqEqual
      <3> QED
        BY <2>1, <3>2
    <2>3. \A k \in 1..n : t[k] = f[j + k - 1]
      BY <1>1, <1>2, <1>4
    <2>4. (\A k \in 1..n : t[k] = shapes[k]) <=> (\A k \in 1..n : f[j + k - 1] = shapes[k])
      BY <2>3
    <2>5. j + n - 1 <= Len(f)
      BY <1>1, <1>2, <1>4
    <2> QED
      BY <1>3, <1>4, <2>2, <2>4, <2>5 DEF IsPrefix, t, u
  <1>5. CASE ~(n <= Len(t))
    <2>1. ~(j + n - 1 <= Len(f))
      BY <1>1, <1>2, <1>5
    <2> QED
      BY <1>5, <2>1 DEF IsPrefix, t
  <1> QED
    BY <1>4, <1>5

LEMMA PlacesThere ==
    ASSUME NEW fs \in Bundle, NEW shapes \in File
    PROVE  /\ \A p \in Places(fs, shapes) : p = <<p[1], p[2]>>
           /\ \A i, j : <<i, j>> \in Places(fs, shapes)
                  <=> /\ i \in DOMAIN fs /\ j \in DOMAIN fs[i]
                      /\ j + Len(shapes) - 1 <= Len(fs[i])
                      /\ \A k \in 1..Len(shapes) : fs[i][j + k - 1] = shapes[k]
  <1>1. \A p \in Places(fs, shapes) : p = <<p[1], p[2]>>
    BY DEF Places
  <1>2. ASSUME NEW i, NEW j
        PROVE  <<i, j>> \in Places(fs, shapes)
                  <=> /\ i \in DOMAIN fs /\ j \in DOMAIN fs[i]
                      /\ j + Len(shapes) - 1 <= Len(fs[i])
                      /\ \A k \in 1..Len(shapes) : fs[i][j + k - 1] = shapes[k]
    <2>1. <<i, j>> \in Places(fs, shapes)
            <=> /\ i \in DOMAIN fs /\ j \in DOMAIN fs[i]
                /\ IsPrefix(shapes, SubSeq(fs[i], j, Len(fs[i])))
      BY DEF Places
    <2>2. ASSUME i \in DOMAIN fs, j \in DOMAIN fs[i]
          PROVE  fs[i] \in File /\ j \in 1..Len(fs[i])
      BY <2>2, BundleFiles, FileElements
    <2> QED
      BY <2>1, <2>2, PrefixThere
  <1> QED
    BY <1>1, <1>2

\* A single shape is at its places.
LEMMA ShapePlaces ==
    ASSUME NEW fs \in Bundle, NEW s \in Shapes
    PROVE  /\ \A p \in Places(fs, <<s>>) : p = <<p[1], p[2]>>
           /\ \A i, j : <<i, j>> \in Places(fs, <<s>>)
                  <=> i \in DOMAIN fs /\ j \in DOMAIN fs[i] /\ fs[i][j] = s
  <1>1. <<s>> \in File /\ Len(<<s>>) = 1 /\ <<s>>[1] = s
    BY SingleTyped DEF File
  <1> DEFINE one == <<s>>
  <1> HIDE DEF one
  <1>2. ASSUME NEW i \in DOMAIN fs, NEW j \in DOMAIN fs[i]
        PROVE  j + 1 - 1 = j /\ j <= Len(fs[i])
    BY BundleFiles, FileElements
  <1>3. /\ \A p \in Places(fs, one) : p = <<p[1], p[2]>>
        /\ \A i, j : <<i, j>> \in Places(fs, one)
                  <=> /\ i \in DOMAIN fs /\ j \in DOMAIN fs[i]
                      /\ j + Len(one) - 1 <= Len(fs[i])
                      /\ \A k \in 1..Len(one) : fs[i][j + k - 1] = one[k]
    BY <1>1, PlacesThere DEF one
  <1>4. ASSUME NEW i \in DOMAIN fs, NEW j \in DOMAIN fs[i]
        PROVE  (/\ j + Len(one) - 1 <= Len(fs[i])
                /\ \A k \in 1..Len(one) : fs[i][j + k - 1] = one[k]) <=> fs[i][j] = s
    BY <1>1, <1>2 DEF one
  <1> QED
    BY <1>3, <1>4 DEF one

LEMMA PlacesFinite ==
    ASSUME NEW fs \in Bundle, NEW shapes
    PROVE  IsFiniteSet(Places(fs, shapes))
  <1> DEFINE at(i) == {<<i, j>> : j \in {j \in DOMAIN fs[i] :
                                IsPrefix(shapes, SubSeq(fs[i], j, Len(fs[i])))}}
             all == {at(i) : i \in DOMAIN fs}
  <1>1. Places(fs, shapes) = UNION all
    BY DEF Places
  <1>2. IsFiniteSet(all)
    <2>1. DOMAIN fs = 1..Len(fs) /\ Len(fs) \in Nat
      BY DEF Bundle
    <2>2. IsFiniteSet(DOMAIN fs)
      BY <2>1, FS_Interval
    <2>3. [i \in DOMAIN fs |-> at(i)] \in Surjection(DOMAIN fs, all)
      BY DEF Surjection
    <2> QED
      BY <2>2, <2>3, FS_Surjection
  <1>3. ASSUME NEW i \in DOMAIN fs PROVE IsFiniteSet(at(i))
    <2> DEFINE js == {j \in DOMAIN fs[i] : IsPrefix(shapes, SubSeq(fs[i], j, Len(fs[i])))}
    <2>0. fs[i] \in File
      BY BundleFiles
    <2>1. DOMAIN fs[i] = 1..Len(fs[i]) /\ Len(fs[i]) \in Nat
      BY <2>0 DEF File
    <2>2. IsFiniteSet(DOMAIN fs[i])
      <3> DEFINE n == Len(fs[i])
      <3>1. n \in Int /\ 1 \in Int
        BY <2>1
      <3> HIDE DEF n
      <3>2. IsFiniteSet(1..n)
        BY <3>1, FS_Interval
      <3> QED
        BY <2>1, <3>2 DEF n
    <2>3. IsFiniteSet(js)
      BY <2>2, FS_Subset
    <2> HIDE DEF js
    <2>4. [j \in js |-> <<i, j>>] \in Surjection(js, {<<i, j>> : j \in js})
      BY DEF Surjection
    <2>5. IsFiniteSet({<<i, j>> : j \in js})
      BY <2>3, <2>4, FS_Surjection
    <2> QED
      BY <2>5 DEF js
  <1> HIDE DEF at
  <1> QED
    BY <1>1, <1>2, <1>3, FS_UNION

\* The shape is at one place only.
Once(fs, s) ==
    \E i \in DOMAIN fs : \E j \in DOMAIN fs[i] :
        /\ fs[i][j] = s
        /\ \A k \in DOMAIN fs : \A l \in DOMAIN fs[k] : fs[k][l] = s => k = i /\ l = j

LEMMA CountIsOne ==
    ASSUME NEW fs \in Bundle, NEW s \in Shapes
    PROVE  Count(fs, s) = 1 <=> Once(fs, s)
  <1> DEFINE ps == Places(fs, <<s>>)
  <1>1. IsFiniteSet(ps)
    BY PlacesFinite
  <1>2. /\ \A p \in ps : p = <<p[1], p[2]>>
        /\ \A i, j : <<i, j>> \in ps <=> i \in DOMAIN fs /\ j \in DOMAIN fs[i] /\ fs[i][j] = s
    BY ShapePlaces
  <1>3. Count(fs, s) = Cardinality(ps)
    BY DEF Count
  <1> HIDE DEF ps
  <1>4. Cardinality(ps) = 1 <=> \E p : ps = {p}
    BY <1>1, FS_Singleton
  <1>5. ASSUME NEW p, ps = {p} PROVE Once(fs, s)
    <2>1. p = <<p[1], p[2]>>
      BY <1>2, <1>5
    <2>2. p[1] \in DOMAIN fs /\ p[2] \in DOMAIN fs[p[1]] /\ fs[p[1]][p[2]] = s
      BY <1>2, <1>5, <2>1
    <2>3. ASSUME NEW k \in DOMAIN fs, NEW l \in DOMAIN fs[k], fs[k][l] = s
          PROVE  k = p[1] /\ l = p[2]
      <3>1. <<k, l>> \in ps
        BY <1>2, <2>3
      <3>2. <<k, l>> = p
        BY <1>5, <3>1
      <3> QED
        BY <3>2
    <2> QED
      BY <2>2, <2>3 DEF Once
  <1>6. ASSUME Once(fs, s) PROVE \E p : ps = {p}
    <2>0. PICK i \in DOMAIN fs : \E j \in DOMAIN fs[i] :
             /\ fs[i][j] = s
             /\ \A k \in DOMAIN fs : \A l \in DOMAIN fs[k] : fs[k][l] = s => k = i /\ l = j
      BY <1>6 DEF Once
    <2>1. PICK j \in DOMAIN fs[i] :
             /\ fs[i][j] = s
             /\ \A k \in DOMAIN fs : \A l \in DOMAIN fs[k] : fs[k][l] = s => k = i /\ l = j
      BY <2>0
    <2>2. ASSUME NEW p \in ps PROVE p = <<i, j>>
      <3>1. /\ p = <<p[1], p[2]>> /\ p[1] \in DOMAIN fs /\ p[2] \in DOMAIN fs[p[1]]
            /\ fs[p[1]][p[2]] = s
        BY <1>2
      <3> QED
        BY <2>1, <3>1
    <2>3. <<i, j>> \in ps
      <3>1. i \in DOMAIN fs /\ j \in DOMAIN fs[i] /\ fs[i][j] = s
        BY <2>1
      <3> QED
        BY <1>2, <3>1
    <2>4. ps = {<<i, j>>}
      BY <2>2, <2>3
    <2> QED
      BY <2>4
  <1> QED
    BY <1>3, <1>4, <1>5, <1>6

LEMMA CountIsZero ==
    ASSUME NEW fs \in Bundle, NEW s \in Shapes
    PROVE  Count(fs, s) = 0 <=> ~Has(fs, s)
  <1> DEFINE ps == Places(fs, <<s>>)
  <1>1. IsFiniteSet(ps)
    BY PlacesFinite
  <1>2. /\ \A p \in ps : p = <<p[1], p[2]>>
        /\ \A i, j : <<i, j>> \in ps <=> i \in DOMAIN fs /\ j \in DOMAIN fs[i] /\ fs[i][j] = s
    BY ShapePlaces
  <1>3. Count(fs, s) = Cardinality(ps)
    BY DEF Count
  <1> HIDE DEF ps
  <1>4. Cardinality(ps) = 0 <=> ps = {}
    BY <1>1, FS_EmptySet
  <1>5. ASSUME NEW i \in DOMAIN fs
        PROVE  Contains(fs[i], s) <=> \E j \in DOMAIN fs[i] : fs[i][j] = s
    BY BundleFiles, FileElements DEF Contains
  <1>6. Has(fs, s) <=> \E i \in DOMAIN fs : \E j \in DOMAIN fs[i] : fs[i][j] = s
    BY <1>5 DEF Has
  <1>7. ps # {} <=> \E i \in DOMAIN fs : \E j \in DOMAIN fs[i] : fs[i][j] = s
    <2>1. ASSUME NEW p \in ps PROVE \E i \in DOMAIN fs : \E j \in DOMAIN fs[i] : fs[i][j] = s
      <3>1. p[1] \in DOMAIN fs /\ p[2] \in DOMAIN fs[p[1]] /\ fs[p[1]][p[2]] = s
        BY <1>2
      <3> QED
        BY <3>1
    <2> QED
      BY <1>2, <2>1
  <1> QED
    BY <1>3, <1>4, <1>6, <1>7

\* Every occurrence of a shape that was not put in comes from one before.
LEMMA SplicedOrigin ==
    ASSUME NEW f \in File, NEW j \in 1..(Len(f) + 1), NEW n \in Nat, j + n <= Len(f) + 1,
           NEW others \in File, NEW s, \A k \in 1..Len(others) : others[k] # s
    PROVE  LET g == Splice(f, j, n, others)
               from(k) == IF k < j THEN k ELSE k + n - Len(others)
           IN \A k \in 1..Len(g) : g[k] = s =>
                  /\ from(k) \in 1..Len(f) /\ f[from(k)] = s
                  /\ \A l \in 1..Len(g) : g[l] = s /\ from(l) = from(k) => l = k
  <1> DEFINE g == Splice(f, j, n, others)
             m == Len(others)
             from(k) == IF k < j THEN k ELSE k + n - m
  <1>1. /\ g \in File
        /\ Len(g) = Len(f) - n + Len(others)
        /\ \A k \in 1..(j - 1) : g[k] = f[k]
        /\ \A k \in 1..Len(others) : g[j - 1 + k] = others[k]
        /\ \A k \in (j + n)..Len(f) : g[k - n + Len(others)] = f[k]
    BY SplicedElements
  <1> HIDE DEF g
  <1>0. Len(f) \in Nat /\ m \in Nat
    BY DEF File
  <1>2. ASSUME NEW k \in 1..Len(g), g[k] = s
        PROVE  /\ k < j \/ k >= j + m
               /\ from(k) \in 1..Len(f) /\ f[from(k)] = s
    <2>1. CASE k < j
      <3>1. k \in 1..(j - 1) /\ k \in 1..Len(f)
        BY <1>0, <2>1
      <3> QED
        BY <1>1, <1>2, <2>1, <3>1
    <2>2. CASE j <= k /\ k < j + m
      <3>1. k - (j - 1) \in 1..m /\ j - 1 + (k - (j - 1)) = k
        BY <1>0, <2>2
      <3>2. g[k] = others[k - (j - 1)]
        BY <1>1, <3>1
      <3> QED
        BY <1>2, <3>1, <3>2
    <2>3. CASE k >= j + m
      <3>1. /\ k + n - m \in (j + n)..Len(f) /\ k + n - m \in 1..Len(f)
            /\ (k + n - m) - n + m = k /\ ~(k < j)
        BY <1>0, <1>1, <2>3
      <3>2. g[k] = f[k + n - m]
        BY <1>1, <3>1
      <3> QED
        BY <1>2, <2>3, <3>1, <3>2
    <2> QED
      BY <1>0, <2>1, <2>2, <2>3
  <1>3. ASSUME NEW k \in 1..Len(g), NEW l \in 1..Len(g), g[k] = s, g[l] = s, from(l) = from(k)
        PROVE  l = k
    <2>1. (k < j \/ k >= j + m) /\ (l < j \/ l >= j + m)
      BY <1>2, <1>3
    <2>2. k \in Nat /\ l \in Nat
      BY <1>0, <1>1
    <2> HIDE DEF m
    <2> QED
      BY <1>0, <1>3, <2>1, <2>2
  <1>4. \A k \in 1..Len(g) : g[k] = s =>
                  /\ from(k) \in 1..Len(f) /\ f[from(k)] = s
                  /\ \A l \in 1..Len(g) : g[l] = s /\ from(l) = from(k) => l = k
    <2> HIDE DEF from
    <2> QED
      BY <1>2, <1>3
  <1> QED
    BY <1>4 DEF g

\* A shape that is in one place stays in one place.
LEMMA SplicedOnce ==
    ASSUME NEW fs \in Bundle, NEW i \in DOMAIN fs, NEW j \in 1..(Len(fs[i]) + 1), NEW n \in Nat,
           j + n <= Len(fs[i]) + 1, NEW others \in File, NEW s,
           \A k \in 1..Len(others) : others[k] # s,
           \A k \in j..(j + n - 1) : fs[i][k] # s,
           Once(fs, s)
    PROVE  Once([fs EXCEPT ![i] = Splice(fs[i], j, n, others)], s)
  <1> DEFINE f == fs[i]
             g == Splice(f, j, n, others)
             gs == [fs EXCEPT ![i] = g]
             from(k) == IF k < j THEN k ELSE k + n - Len(others)
  <1>1. f \in File /\ DOMAIN f = 1..Len(f)
    BY BundleFiles, FileElements
  <1>2. \A k \in 1..Len(g) : g[k] = s =>
                  /\ from(k) \in 1..Len(f) /\ f[from(k)] = s
                  /\ \A l \in 1..Len(g) : g[l] = s /\ from(l) = from(k) => l = k
    BY <1>1, SplicedOrigin
  <1>3. g \in File /\ DOMAIN g = 1..Len(g)
    <2>1. g \in File
      BY <1>1, SplicedElements
    <2> QED
      BY <2>1, FileElements
  <1>4. Contains(g, s) <=> Contains(f, s)
    BY <1>1, SplicedContains
  <1>5. DOMAIN gs = DOMAIN fs /\ gs[i] = g /\ \A k \in DOMAIN fs : k # i => gs[k] = fs[k]
    BY DEF Bundle
  <1>6. PICK a \in DOMAIN fs : \E b \in DOMAIN fs[a] :
            /\ fs[a][b] = s
            /\ \A k \in DOMAIN fs : \A l \in DOMAIN fs[k] : fs[k][l] = s => k = a /\ l = b
    BY DEF Once
  <1>7. PICK b \in DOMAIN fs[a] :
            /\ fs[a][b] = s
            /\ \A k \in DOMAIN fs : \A l \in DOMAIN fs[k] : fs[k][l] = s => k = a /\ l = b
    BY <1>6
  <1> HIDE DEF f, g, gs, from
  <1>8. CASE a = i
    <2>1. Contains(f, s)
      BY <1>1, <1>7, <1>8 DEF Contains, f
    <2>2. PICK c \in 1..Len(g) : g[c] = s
      BY <1>4, <2>1 DEF Contains
    <2>3. ASSUME NEW k \in DOMAIN gs, NEW l \in DOMAIN gs[k], gs[k][l] = s
          PROVE  k = i /\ l = c
      <3>1. CASE k # i
        BY <1>5, <1>7, <1>8, <2>3, <3>1
      <3>2. CASE k = i
        <4>1. l \in 1..Len(g) /\ g[l] = s
          BY <1>3, <1>5, <2>3, <3>2
        <4>2. from(l) = b /\ from(c) = b
          BY <1>1, <1>2, <1>7, <1>8, <2>2, <4>1 DEF f
        <4> QED
          BY <1>2, <2>2, <3>2, <4>1, <4>2
      <3> QED
        BY <3>1, <3>2
    <2>4. i \in DOMAIN gs /\ c \in DOMAIN gs[i] /\ gs[i][c] = s
      BY <1>3, <1>5, <2>2
    <2> QED
      BY <2>3, <2>4 DEF Once, gs, g, f
  <1>9. CASE a # i
    <2>1. ASSUME NEW k \in DOMAIN gs, NEW l \in DOMAIN gs[k], gs[k][l] = s
          PROVE  k = a /\ l = b
      <3>1. CASE k # i
        BY <1>5, <1>7, <2>1, <3>1
      <3>2. CASE k = i
        <4>1. l \in 1..Len(g) /\ g[l] = s
          BY <1>3, <1>5, <2>1, <3>2
        <4>2. from(l) \in DOMAIN fs[i] /\ fs[i][from(l)] = s
          BY <1>1, <1>2, <4>1 DEF f
        <4> QED
          BY <1>7, <1>9, <4>2
      <3> QED
        BY <3>1, <3>2
    <2>2. a \in DOMAIN gs /\ b \in DOMAIN gs[a] /\ gs[a][b] = s
      BY <1>5, <1>7, <1>9
    <2> QED
      BY <2>1, <2>2 DEF Once, gs, g, f
  <1> QED
    BY <1>8, <1>9

LEMMA PlaceElements ==
    ASSUME NEW fs \in Bundle, NEW shapes \in File, NEW p \in Places(fs, shapes)
    PROVE  /\ p[1] \in DOMAIN fs /\ p[2] \in DOMAIN fs[p[1]]
           /\ p[2] + Len(shapes) - 1 <= Len(fs[p[1]])
           /\ \A k \in 1..Len(shapes) : fs[p[1]][p[2] + k - 1] = shapes[k]
  <1>1. <<p[1], p[2]>> \in Places(fs, shapes)
    BY PlacesThere
  <1> QED
    BY <1>1, PlacesThere

\* What a themed window is, shape by shape.
LEMMA ThemedWindow ==
    ASSUME NEW fs \in Bundle
    PROVE  ValidWindow(fs)
               <=> /\ \A s \in {"m.window", "m.sync", "m.syncEnd", "overlay", "icon", "themeSync"} :
                         Once(fs, s)
                   /\ \A s \in {"legacyOverlay", "titleBar"} : ~Has(fs, s)
  <1> DEFINE ones == {"m.window", "m.sync", "m.syncEnd", "overlay", "icon", "themeSync"}
             zeros == {"legacyOverlay", "titleBar"}
  <1>0. ones \subseteq Shapes /\ zeros \subseteq Shapes /\ "legacyStyle" \in Shapes
    BY DEF Shapes, Markers
  <1>1. /\ \A s \in ones : WindowShapes(fs)[s] = Count(fs, s) /\ ThemedForm[s] = 1
        /\ \A s \in zeros : WindowShapes(fs)[s] = Count(fs, s) /\ ThemedForm[s] = 0
        /\ WindowShapes(fs)["legacy"] = Cardinality(Places(fs, LegacyOptions))
        /\ ThemedForm["legacy"] = 0
    BY DEF WindowShapes, ThemedForm, WindowForm, WindowFields
  <1>2. \A s \in WindowFields : s \in ones \/ s \in zeros \/ s = "legacy"
    BY DEF WindowFields
  <1>3. WindowShapes(fs) = ThemedForm
            <=> \A s \in WindowFields : WindowShapes(fs)[s] = ThemedForm[s]
    BY DEF WindowShapes, ThemedForm, WindowForm
  <1>4. ASSUME ~Has(fs, "legacyOverlay") PROVE Cardinality(Places(fs, LegacyOptions)) = 0
    <2>1. LegacyOptions \in File /\ Len(LegacyOptions) = 4 /\ LegacyOptions[3] = "legacyOverlay"
      BY <1>0, ShapesWritten DEF LegacyOptions, File
    <2>2. ASSUME NEW p \in Places(fs, LegacyOptions) PROVE FALSE
      <3> DEFINE f == fs[p[1]]
      <3>1. /\ p[1] \in DOMAIN fs /\ p[2] \in DOMAIN f
            /\ p[2] + 4 - 1 <= Len(f)
            /\ \A k \in 1..4 : f[p[2] + k - 1] = LegacyOptions[k]
        BY <2>1, <2>2, PlaceElements
      <3>2. f \in File
        BY <3>1, BundleFiles
      <3>3. DOMAIN f = 1..Len(f) /\ Len(f) \in Nat
        BY <3>2 DEF File
      <3>4. p[2] + 3 - 1 \in 1..Len(f) /\ f[p[2] + 3 - 1] = "legacyOverlay"
        BY <2>1, <3>1, <3>3
      <3>5. Contains(f, "legacyOverlay")
        BY <3>4 DEF Contains
      <3> QED
        BY <1>4, <3>1, <3>5 DEF Has
    <2> QED
      BY <2>2, FS_EmptySet
  <1>5. \A s \in ones : Count(fs, s) = 1 <=> Once(fs, s)
    BY <1>0, CountIsOne
  <1>6. \A s \in zeros : Count(fs, s) = 0 <=> ~Has(fs, s)
    BY <1>0, CountIsZero
  <1>7. ASSUME WindowShapes(fs) = ThemedForm
        PROVE  (\A s \in ones : Once(fs, s)) /\ (\A s \in zeros : ~Has(fs, s))
    BY <1>1, <1>5, <1>6, <1>7
  <1>8. ASSUME \A s \in ones : Once(fs, s), \A s \in zeros : ~Has(fs, s)
        PROVE  WindowShapes(fs) = ThemedForm
    <2>1. Cardinality(Places(fs, LegacyOptions)) = 0
      BY <1>4, <1>8
    <2>2. \A s \in ones : WindowShapes(fs)[s] = ThemedForm[s]
      BY <1>1, <1>5, <1>8
    <2>3. \A s \in zeros : WindowShapes(fs)[s] = ThemedForm[s]
      BY <1>1, <1>6, <1>8
    <2> HIDE DEF ones, zeros
    <2> QED
      BY <1>1, <1>2, <1>3, <2>1, <2>2, <2>3
  <1> HIDE DEF ones, zeros
  <1>9. ValidWindow(fs) <=> (\A s \in ones : Once(fs, s)) /\ (\A s \in zeros : ~Has(fs, s))
    BY <1>7, <1>8 DEF ValidWindow
  <1> QED
    BY <1>9 DEF ones, zeros

\* What the patch of the handlers leaves as it was.
LEMMA UpdaterTouches ==
    ASSUME NEW fs \in Bundle, NEW S,
           S \cap (Handlers \cup {"m.updater", "bridge", "bridgeEnd",
                    "dispatch.getState", "dispatch.install", "dispatch.checkNow"}) = {}
    PROVE  LET gs == NativeUpdater(fs).files IN
           Alike(fs, gs, S) /\ \A s \in S : Once(fs, s) => Once(gs, s)
  <1> DEFINE place == CHOOSE p \in HandlerSpans(fs) : TRUE
             i == place[1]
             j == place[2]
             f == fs[i]
             span == SubSeq(f, j, j + 2)
             others == Bridge(span)
             gs == [fs EXCEPT ![i] = Splice(f, j, 3, others)]
             out == NativeUpdater(fs).files
  <1>1. out = fs \/ (HandlerSpans(fs) # {} /\ out = gs)
    BY Outcomes DEF NativeUpdater
  <1>2. CASE out = fs
    BY <1>2 DEF Alike
  <1>3. CASE HandlerSpans(fs) # {} /\ out = gs
    <2>1. place \in HandlerSpans(fs)
      BY <1>3
    <2> HIDE DEF place
    <2>2. i \in DOMAIN fs /\ j \in 1..(Len(fs[i]) - 2) /\ ToSet(span) = Handlers
      BY <2>1 DEF HandlerSpans
    <2>3. f \in File /\ Len(f) \in Nat /\ DOMAIN f = 1..Len(f)
      <3>1. f \in File
        BY <2>2, BundleFiles
      <3> QED
        BY <3>1 DEF File
    <2> HIDE DEF i, j
    <2>4. /\ Len(span) = 3 /\ span \in Seq(Shapes)
          /\ \A k \in 1..3 : span[k] = f[j + k - 1]
      <3>1. \A k \in j..(j + 2) : f[k] \in Shapes
        BY <2>2, <2>3 DEF File
      <3>2. /\ span \in Seq(Shapes)
            /\ Len(span) = IF j <= j + 2 THEN j + 2 - j + 1 ELSE 0
            /\ \A k \in 1..(j + 2 - j + 1) : span[k] = f[j + k - 1]
        BY <2>2, <2>3, <3>1, SubSeqProperties
      <3>3. j <= j + 2 /\ j + 2 - j + 1 = 3
        BY <2>2, <2>3
      <3> QED
        BY <3>2, <3>3
    <2>5. \A k \in 1..3 : span[k] \in Handlers
      <3> HIDE DEF span
      <3>1. \A k \in DOMAIN span : span[k] \in ToSet(span)
        BY DEF ToSet
      <3> QED
        BY <2>2, <2>4, <3>1
    <2> HIDE DEF span
    <2>6. /\ others \in File
          /\ \A k \in 1..Len(others) :
                others[k] \in {"m.updater", "bridge", "bridgeEnd",
                               "dispatch.getState", "dispatch.install", "dispatch.checkNow"}
      <3> DEFINE written == {"m.updater", "bridge", "bridgeEnd",
                               "dispatch.getState", "dispatch.install", "dispatch.checkNow"}
                 d == [k \in 1..3 |-> DispatchOf(span[k])]
      <3>1. \A k \in 1..3 : DispatchOf(span[k]) \in written
        BY <2>5 DEF DispatchOf, Handlers
      <3>2. d \in Seq(written)
        BY <3>1
      <3>3. <<"m.updater", "bridge">> \in Seq(written) /\ <<"bridgeEnd">> \in Seq(written)
        BY PairTyped, SingleTyped
      <3>4. others = <<"m.updater", "bridge">> \o d \o <<"bridgeEnd">>
        BY DEF Bridge
      <3> HIDE DEF d
      <3>5. others \in Seq(written)
        BY <3>2, <3>3, <3>4, ConcatProperties
      <3> HIDE DEF others
      <3>6. written \subseteq Shapes
        BY ShapesWritten
      <3> QED
        BY <3>5, <3>6 DEF File
    <2>7. /\ j \in 1..(Len(f) + 1) /\ j + 3 <= Len(f) + 1
          /\ \A k \in j..(j + 3 - 1) : f[k] \in Handlers
      <3>1. ASSUME NEW k \in j..(j + 3 - 1) PROVE f[k] \in Handlers
        <4>1. k - j + 1 \in 1..3 /\ j + (k - j + 1) - 1 = k
          BY <2>2, <2>3
        <4> QED
          BY <2>4, <2>5, <4>1
      <3> QED
        BY <2>2, <2>3, <3>1
    <2> HIDE DEF others
    <2>8. ASSUME NEW s \in S
          PROVE  /\ \A k \in 1..Len(others) : others[k] # s
                 /\ \A k \in j..(j + 3 - 1) : f[k] # s
      BY <2>6, <2>7
    <2>9. ASSUME NEW s \in S PROVE Contains(Splice(f, j, 3, others), s) <=> Contains(f, s)
      BY <2>3, <2>6, <2>7, <2>8, SplicedContains
    <2>10. Alike(fs, gs, S)
      BY <2>2, <2>9, OneFileAlike
    <2>11. ASSUME NEW s \in S, Once(fs, s) PROVE Once(gs, s)
      <3>1. 3 \in Nat
        OBVIOUS
      <3> QED
        BY <2>2, <2>6, <2>7, <2>8, <2>11, <3>1, SplicedOnce
    <2> HIDE DEF gs
    <2> QED
      BY <1>3, <2>10, <2>11
  <1> HIDE DEF gs, out
  <1> QED
    BY <1>1, <1>2, <1>3 DEF out

\* What the patch of the window leaves as it was.
LEMMA WindowTouches ==
    ASSUME NEW fs \in Bundle, NEW S,
           S \cap {"titleBar", "legacyStyle", "legacyOverlay", "m.window", "overlay", "icon",
                   "m.sync", "themeSync", "m.syncEnd"} = {}
    PROVE  Alike(fs, WindowControls(fs).files, S)
  <1> DEFINE old == WindowOptions(fs)
             place == CHOOSE p \in Places(fs, old) : TRUE
             i == place[1]
             j == place[2]
             f == fs[i]
             anchor == WindowContext(f, j)
             sync == <<"m.sync", "themeSync", "m.syncEnd">>
             theme == <<"m.window", "overlay", "icon">>
             inner == Splice(f, anchor + 1, 0, sync)
             g == Splice(inner, j, Len(old), theme)
             gs == [fs EXCEPT ![i] = g]
             out == WindowControls(fs).files
  <1>1. out = fs \/ (WindowShapes(fs) \in {UpstreamForm, LegacyForm} /\ anchor # 0 /\ out = gs)
    <2>1. \/ WindowControls(fs) \in {Already(fs), NoMatch(fs)}
          \/ (WindowShapes(fs) \in {UpstreamForm, LegacyForm} /\ anchor # 0
                  /\ WindowControls(fs) = Patched(gs))
      BY DEF WindowControls, WindowOptions
    <2> HIDE DEF gs, anchor
    <2> QED
      BY <2>1, Outcomes
  <1>2. CASE out = fs
    BY <1>2 DEF Alike
  <1>3. CASE WindowShapes(fs) \in {UpstreamForm, LegacyForm} /\ anchor # 0 /\ out = gs
    <2>1. place \in Places(fs, old)
      BY <1>3, OptionsPlaced
    <2>2. /\ old \in File /\ Len(old) \in Nat \ {0}
          /\ \A k \in 1..Len(old) : old[k] \in {"titleBar", "legacyStyle", "m.window",
                                                "legacyOverlay", "icon"}
      <3>1. {"titleBar", "legacyStyle", "m.window", "legacyOverlay", "icon"} \subseteq Shapes
        BY DEF Shapes, Markers
      <3>2. CASE old = <<"titleBar">>
        BY <3>1, <3>2, SingleTyped DEF File
      <3>3. CASE old = LegacyOptions
        BY <3>1, <3>3 DEF LegacyOptions, File
      <3> QED
        BY <3>2, <3>3 DEF WindowOptions
    <2> HIDE DEF place, old
    <2>3. /\ i \in DOMAIN fs /\ j \in DOMAIN f
          /\ j + Len(old) - 1 <= Len(f)
          /\ \A k \in 1..Len(old) : f[j + k - 1] = old[k]
      BY <2>1, <2>2, PlaceElements
    <2>4. f \in File
      BY <2>3, BundleFiles
    <2>5. Len(f) \in Nat /\ DOMAIN f = 1..Len(f)
      BY <2>4 DEF File
    <2>6. anchor \in (j + 1)..Len(f) /\ f[anchor] = "webContents"
      BY <1>3, ContextIsAfter
    <2> HIDE DEF f, i, j, anchor
    <2>7. ASSUME NEW k \in j..(j + Len(old) - 1)
          PROVE  f[k] \in {"titleBar", "legacyStyle", "m.window", "legacyOverlay", "icon"}
      <3>1. k - j + 1 \in 1..Len(old) /\ j + (k - j + 1) - 1 = k
        BY <2>2, <2>3, <2>5
      <3> QED
        BY <2>2, <2>3, <3>1
    <2>8. j + Len(old) - 1 < anchor
      <3>1. anchor \notin j..(j + Len(old) - 1)
        BY <2>6, <2>7
      <3> QED
        BY <2>2, <2>3, <2>5, <2>6, <3>1
    <2>9. /\ sync \in File /\ theme \in File
          /\ \A k \in 1..Len(sync) : sync[k] \in {"m.sync", "themeSync", "m.syncEnd"}
          /\ \A k \in 1..Len(theme) : theme[k] \in {"m.window", "overlay", "icon"}
      BY ShapesWritten, TripleTyped DEF File
    <2> HIDE DEF sync, theme
    <2>10. /\ inner \in File /\ Len(inner) = Len(f) + Len(sync)
           /\ \A k \in 1..anchor : inner[k] = f[k]
      <3> DEFINE b == anchor + 1
                 n == 0
                 h == Splice(f, b, n, sync)
      <3>1. b \in 1..(Len(f) + 1) /\ n \in Nat /\ b + n <= Len(f) + 1 /\ b - 1 = anchor
        BY <2>3, <2>5, <2>6
      <3>2. h = inner
        OBVIOUS
      <3> HIDE DEF b, h, n
      <3>a. f \in File /\ sync \in File
        BY <2>4, <2>9
      <3>3. /\ h \in File
            /\ Len(h) = Len(f) - n + Len(sync)
            /\ \A k \in 1..(b - 1) : h[k] = f[k]
            /\ \A k \in 1..Len(sync) : h[b - 1 + k] = sync[k]
            /\ \A k \in (b + n)..Len(f) : h[k - n + Len(sync)] = f[k]
        BY <3>a, <3>1, SplicedElements DEF h
      <3>4. Len(f) - n = Len(f)
        BY <2>5 DEF n
      <3> QED
        BY <3>1, <3>2, <3>3, <3>4
    <2>11. ASSUME NEW s \in S PROVE Contains(inner, s) <=> Contains(f, s)
      <3>1. anchor + 1 \in 1..(Len(f) + 1) /\ 0 \in Nat /\ anchor + 1 + 0 <= Len(f) + 1
            /\ (anchor + 1)..(anchor + 1 + 0 - 1) = {}
        BY <2>3, <2>5, <2>6
      <3>2. \A k \in 1..Len(sync) : sync[k] # s
        BY <2>9
      <3> QED
        BY <2>4, <2>9, <3>1, <3>2, SplicedContains
    <2>12. Len(sync) \in Nat
      BY <2>9 DEF File
    <2> HIDE DEF inner
    <2>13. ASSUME NEW s \in S PROVE Contains(g, s) <=> Contains(inner, s)
      <3>1. /\ j \in 1..(Len(inner) + 1) /\ Len(old) \in Nat /\ j + Len(old) <= Len(inner) + 1
            /\ \A k \in j..(j + Len(old) - 1) : k \in 1..anchor
        BY <2>2, <2>3, <2>5, <2>6, <2>8, <2>10, <2>12
      <3>2. \A k \in j..(j + Len(old) - 1) : inner[k] # s
        BY <2>7, <2>10, <3>1
      <3>3. \A k \in 1..Len(theme) : theme[k] # s
        BY <2>9
      <3> QED
        BY <2>9, <2>10, <3>1, <3>2, <3>3, SplicedContains
    <2> HIDE DEF g
    <2>14. Alike(fs, gs, S)
      BY <2>3, <2>11, <2>13, OneFileAlike DEF f
    <2> HIDE DEF gs
    <2> QED
      BY <1>3, <2>14
  <1> HIDE DEF gs, out, anchor
  <1> QED
    BY <1>1, <1>2, <1>3 DEF out

\* Bundles that differ, element by element, in other shapes at most.
SameShapes(fs, gs, S) ==
    /\ DOMAIN gs = DOMAIN fs
    /\ \A i \in DOMAIN fs :
          /\ DOMAIN gs[i] = DOMAIN fs[i] /\ Len(gs[i]) = Len(fs[i])
          /\ \A j \in DOMAIN fs[i] : \A s \in S : gs[i][j] = s <=> fs[i][j] = s

LEMMA SameAlike ==
    ASSUME NEW fs \in Bundle, NEW gs \in Bundle, NEW S, SameShapes(fs, gs, S)
    PROVE  Alike(fs, gs, S) /\ \A s \in S : Once(fs, s) => Once(gs, s)
  <1>1. Alike(fs, gs, S)
    <2>1. ASSUME NEW i \in DOMAIN fs, NEW s \in S PROVE Contains(gs[i], s) <=> Contains(fs[i], s)
      <3>1. fs[i] \in File /\ DOMAIN fs[i] = 1..Len(fs[i])
        BY BundleFiles, FileElements
      <3> QED
        BY <3>1 DEF SameShapes, Contains
    <2> QED
      BY <2>1 DEF SameShapes, Alike
  <1>2. ASSUME NEW s \in S, Once(fs, s) PROVE Once(gs, s)
    BY <1>2 DEF SameShapes, Once
  <1> QED
    BY <1>1, <1>2

LEMMA SamePlaces ==
    ASSUME NEW fs \in Bundle, NEW gs \in Bundle, NEW S, SameShapes(fs, gs, S),
           NEW shapes \in File, \A k \in 1..Len(shapes) : shapes[k] \in S
    PROVE  Places(gs, shapes) = Places(fs, shapes)
  <1> DEFINE at(hs, i, j) == /\ i \in DOMAIN hs /\ j \in DOMAIN hs[i]
                             /\ j + Len(shapes) - 1 <= Len(hs[i])
                             /\ \A k \in 1..Len(shapes) : hs[i][j + k - 1] = shapes[k]
  <1>1. /\ \A p \in Places(fs, shapes) : p = <<p[1], p[2]>>
        /\ \A i, j : <<i, j>> \in Places(fs, shapes) <=> at(fs, i, j)
    BY PlacesThere
  <1>2. /\ \A p \in Places(gs, shapes) : p = <<p[1], p[2]>>
        /\ \A i, j : <<i, j>> \in Places(gs, shapes) <=> at(gs, i, j)
    BY PlacesThere
  <1>3. ASSUME NEW i, NEW j PROVE at(gs, i, j) <=> at(fs, i, j)
    <2>1. CASE i \in DOMAIN fs /\ j \in DOMAIN fs[i] /\ j + Len(shapes) - 1 <= Len(fs[i])
      <3>1. /\ i \in DOMAIN gs /\ j \in DOMAIN gs[i] /\ Len(gs[i]) = Len(fs[i])
            /\ \A l \in DOMAIN fs[i] : \A s \in S : gs[i][l] = s <=> fs[i][l] = s
        BY <2>1 DEF SameShapes
      <3>2. fs[i] \in File
        BY <2>1, BundleFiles
      <3>3. DOMAIN fs[i] = 1..Len(fs[i]) /\ Len(fs[i]) \in Nat /\ Len(shapes) \in Nat
        BY <3>2 DEF File
      <3>4. ASSUME NEW k \in 1..Len(shapes) PROVE j + k - 1 \in DOMAIN fs[i]
        BY <2>1, <3>3
      <3> QED
        BY <2>1, <3>1, <3>4
    <2>2. CASE ~(i \in DOMAIN fs /\ j \in DOMAIN fs[i] /\ j + Len(shapes) - 1 <= Len(fs[i]))
      BY <2>2 DEF SameShapes
    <2> QED
      BY <2>1, <2>2
  <1> HIDE DEF at
  <1>4. ASSUME NEW p PROVE p \in Places(gs, shapes) <=> p \in Places(fs, shapes)
    <2>1. ASSUME p \in Places(gs, shapes) PROVE p \in Places(fs, shapes)
      <3>1. p = <<p[1], p[2]>>
        BY <1>2, <2>1
      <3>2. at(gs, p[1], p[2])
        BY <1>2, <2>1, <3>1
      <3>3. <<p[1], p[2]>> \in Places(fs, shapes)
        BY <1>1, <1>3, <3>2
      <3> QED
        BY <3>1, <3>3
    <2>2. ASSUME p \in Places(fs, shapes) PROVE p \in Places(gs, shapes)
      <3>1. p = <<p[1], p[2]>>
        BY <1>1, <2>2
      <3>2. at(fs, p[1], p[2])
        BY <1>1, <2>2, <3>1
      <3>3. <<p[1], p[2]>> \in Places(gs, shapes)
        BY <1>2, <1>3, <3>2
      <3> QED
        BY <3>1, <3>3
    <2> QED
      BY <2>1, <2>2
  <1> QED
    BY <1>4

\* The shapes the guard does not touch.
Unguarded == Shapes \ {"check", "guardedCheck", "quit", "guardedQuit", "markedCheck"}

LEMMA GuardTouches ==
    ASSUME NEW fs \in Bundle
    PROVE  SameShapes(fs, AutoUpdater(fs).files, Unguarded)
  <1> DEFINE g(i) == [j \in DOMAIN fs[i] |-> IF fs[i][j] \in Calls THEN Guarded[fs[i][j]]
                                             ELSE fs[i][j]]
             gs == [i \in DOMAIN fs |-> g(i)]
             out == AutoUpdater(fs).files
  <1>1. out = fs \/ out = gs
    <2>1. AutoUpdater(fs) \in {Already(fs), NoMatch(fs), Patched(gs)}
      BY DEF AutoUpdater
    <2> HIDE DEF gs
    <2> QED
      BY <2>1, Outcomes
  <1>2. CASE out = fs
    BY <1>2 DEF SameShapes
  <1>3. CASE out = gs
    <2>1. out \in Bundle
      BY GuardTyped DEF Typed
    <2>2. ASSUME NEW i \in DOMAIN fs
          PROVE  /\ DOMAIN g(i) = DOMAIN fs[i] /\ Len(g(i)) = Len(fs[i])
                 /\ \A j \in DOMAIN fs[i] : \A s \in Unguarded : g(i)[j] = s <=> fs[i][j] = s
      <3>1. fs[i] \in File
        BY BundleFiles
      <3>2. DOMAIN fs[i] = 1..Len(fs[i]) /\ Len(fs[i]) \in Nat
        BY <3>1 DEF File
      <3>3. \A j \in DOMAIN fs[i] : \A s \in Unguarded : g(i)[j] = s <=> fs[i][j] = s
        BY DEF Calls, Guarded, Unguarded
      <3> QED
        BY <3>2, <3>3
    <2> HIDE DEF g
    <2>3. DOMAIN gs = DOMAIN fs /\ \A i \in DOMAIN fs : gs[i] = g(i)
      OBVIOUS
    <2> HIDE DEF gs
    <2> QED
      BY <1>3, <2>2, <2>3 DEF SameShapes
  <1> HIDE DEF gs, out
  <1> QED
    BY <1>1, <1>2, <1>3 DEF out

\* The updater's patch stays in place where its shapes stay where they are.
LEMMA BridgeStays ==
    ASSUME NEW fs \in Bundle, NEW gs \in Bundle, SameShapes(fs, gs, Unguarded), ValidUpdater(fs)
    PROVE  ValidUpdater(gs)
  <1>0. {"m.updater", "bridge", "dispatch.getState", "dispatch.install", "dispatch.checkNow",
         "bridgeEnd", "handle.getState", "handle.install", "handle.checkNow", "handle.other",
         "handle.getDiagnostics"} \subseteq Unguarded
    BY DEF Unguarded, Shapes, Markers
  <1>1. ASSUME NEW s \in Unguarded PROVE Count(gs, s) = Count(fs, s) /\ (Has(gs, s) <=> Has(fs, s))
    <2>1. <<s>> \in File /\ Len(<<s>>) = 1 /\ <<s>>[1] = s
      BY SingleTyped DEF File, Unguarded
    <2>2. \A k \in 1..Len(<<s>>) : <<s>>[k] \in Unguarded
      BY <2>1
    <2>3. Places(gs, <<s>>) = Places(fs, <<s>>)
      BY <2>1, <2>2, SamePlaces
    <2>4. Has(gs, s) <=> Has(fs, s)
      BY SameAlike, AlikeHas
    <2> QED
      BY <2>3, <2>4 DEF Count
  <1>2. ASSUME NEW s \in Unguarded, NEW t \in Unguarded PROVE Places(gs, <<s, t>>) = Places(fs, <<s, t>>)
    <2>1. <<s, t>> \in File
      BY PairTyped DEF File, Unguarded
    <2>2. \A k \in 1..Len(<<s, t>>) : <<s, t>>[k] \in Unguarded
      OBVIOUS
    <2> QED
      BY <2>1, <2>2, SamePlaces
  <1>3. \A h \in Handlers : h \in Unguarded /\ DispatchOf(h) \in Unguarded
    BY <1>0 DEF Handlers, DispatchOf
  <1>4. \A s \in {"m.updater", "bridge"} \cup {DispatchOf(h) : h \in Handlers} : s \in Unguarded
    BY <1>0, <1>3
  <1>5. \A s \in {"m.updater", "bridge"} \cup {DispatchOf(h) : h \in Handlers} : Count(gs, s) = 1
    BY <1>1, <1>4 DEF ValidUpdater
  <1>6. \A h \in Handlers \cup {"handle.other"} : ~Has(gs, h)
    BY <1>0, <1>1, <1>3 DEF ValidUpdater
  <1>7. Count(gs, "handle.getDiagnostics") <= 1
    BY <1>0, <1>1 DEF ValidUpdater
  <1>8. /\ Places(gs, <<"m.updater", "bridge">>) # {}
        /\ Places(gs, <<"dispatch.checkNow", "bridgeEnd">>) # {}
    BY <1>0, <1>2 DEF ValidUpdater
  <1> QED
    BY <1>5, <1>6, <1>7, <1>8 DEF ValidUpdater

-----------------------------------------------------------------------------
(***************************************************************************)
(* One patch after the others.                                             *)
(***************************************************************************)
Names == {"transport", "listen", "adoption", "droid", "window", "updater", "guard"}

LEMMA DescriptorNames ==
    /\ \A i \in 1..7 : Descriptors[i] \in Names
    /\ \A i, j \in 1..7 : i # j => Descriptors[i] # Descriptors[j]
    /\ \A i \in 1..4 : Descriptors[i] \in Simple
    /\ Descriptors[5] = "window" /\ Descriptors[6] = "updater" /\ Descriptors[7] = "guard"
  BY DEF Descriptors, Names, Simple

\* No other patch touches the shapes a simple patch is recognised by.
LEMMA OthersKeep ==
    ASSUME NEW fs \in Bundle, NEW d \in Simple, NEW e \in Names, e # d
    PROVE  Alike(fs, Apply(e, fs).files, Reads[d])
  <1>1. CASE e = "transport"
    <2>1. Reads[d] \cap {"statsig", "hardcodedIpc", "m.transport", "webSocket"} = {}
      BY <1>1, ReadsOf DEF Simple
    <2> QED
      BY <1>1, <2>1, SimpleTouches DEF Apply
  <1>2. CASE e = "listen"
    <2>1. Reads[d] \cap {"push", "guardedPush", "m.listen"} = {}
      BY <1>2, ReadsOf DEF Simple
    <2> QED
      BY <1>2, <2>1, SimpleTouches DEF Apply
  <1>3. CASE e = "adoption"
    <2>1. Reads[d] \cap {"startInternal", "m.adoption", "adopt"} = {}
      BY <1>3, ReadsOf DEF Simple
    <2> QED
      BY <1>3, <2>1, SimpleTouches DEF Apply
  <1>4. CASE e = "droid"
    <2>1. Reads[d] \cap {"droidPath", "m.droid", "droidLookup"} = {}
      BY <1>4, ReadsOf DEF Simple
    <2> QED
      BY <1>4, <2>1, SimpleTouches DEF Apply
  <1>5. CASE e = "window"
    <2>1. Reads[d] \cap {"titleBar", "legacyStyle", "legacyOverlay", "m.window", "overlay", "icon",
                         "m.sync", "themeSync", "m.syncEnd"} = {}
      BY ReadsOf DEF Simple
    <2> QED
      BY <1>5, <2>1, WindowTouches DEF Apply
  <1>6. CASE e = "updater"
    <2>1. Reads[d] \cap (Handlers \cup {"m.updater", "bridge", "bridgeEnd",
                    "dispatch.getState", "dispatch.install", "dispatch.checkNow"}) = {}
      BY ReadsOf DEF Simple, Handlers
    <2> QED
      BY <1>6, <2>1, UpdaterTouches DEF Apply
  <1>7. CASE e = "guard"
    <2>1. AutoUpdater(fs).files \in Bundle
      BY GuardTyped DEF Typed
    <2>2. Reads[d] \subseteq Unguarded
      BY ReadsOf DEF Simple, Unguarded, Shapes, Markers
    <2>3. Alike(fs, AutoUpdater(fs).files, Unguarded)
      BY <2>1, GuardTouches, SameAlike
    <2> QED
      BY <1>7, <2>2, <2>3 DEF Apply, Alike
  <1> QED
    BY <1>1, <1>2, <1>3, <1>4, <1>5, <1>6, <1>7 DEF Names

\* A themed window stays one where its shapes stay.
LEMMA ThemeStays ==
    ASSUME NEW fs \in Bundle, NEW gs \in Bundle, NEW S, Alike(fs, gs, S),
           \A s \in S : Once(fs, s) => Once(gs, s),
           {"m.window", "m.sync", "m.syncEnd", "overlay", "icon", "themeSync",
            "legacyOverlay", "titleBar"} \subseteq S,
           ValidWindow(fs)
    PROVE  ValidWindow(gs)
  <1>1. \A s \in S : Has(gs, s) <=> Has(fs, s)
    BY AlikeHas
  <1> QED
    BY <1>1, ThemedWindow

(* What an earlier patch put in place of a bundle stays in place under every
   later one: the engine need validate each patch but once. *)
THEOREM EarlierStays ==
    ASSUME NEW fs \in Bundle, NEW j \in 1..7, NEW i \in 1..(j - 1), InPlace(Descriptors[i], fs)
    PROVE  InPlace(Descriptors[i], Apply(Descriptors[j], fs).files)
  <1> DEFINE gs == Apply(Descriptors[j], fs).files
  <1>0. gs \in Bundle
    BY ApplyTyped DEF Typed
  <1>1. CASE i \in 1..4
    <2>1. Descriptors[i] \in Simple /\ Descriptors[j] \in Names /\ Descriptors[j] # Descriptors[i]
      BY <1>1, DescriptorNames
    <2>2. Alike(fs, gs, Reads[Descriptors[i]])
      BY <2>1, OthersKeep
    <2> QED
      BY <1>0, <2>1, <2>2, SimpleStays
  <1>2. CASE i = 5
    <2>1. ValidWindow(fs) /\ Descriptors[i] = "window"
      BY <1>2, DescriptorNames DEF InPlace, Valid
    <2> DEFINE themed == {"m.window", "m.sync", "m.syncEnd", "overlay", "icon", "themeSync",
                          "legacyOverlay", "titleBar"}
    <2>2. Alike(fs, gs, themed) /\ \A s \in themed : Once(fs, s) => Once(gs, s)
      <3>1. CASE j = 6
        <4>1. gs = NativeUpdater(fs).files
          BY <3>1, DescriptorNames DEF Apply
        <4>2. themed \cap (Handlers \cup {"m.updater", "bridge", "bridgeEnd",
                    "dispatch.getState", "dispatch.install", "dispatch.checkNow"}) = {}
          BY DEF Handlers
        <4> HIDE DEF gs, themed
        <4> QED
          BY <4>1, <4>2, UpdaterTouches
      <3>2. CASE j = 7
        <4>1. gs = AutoUpdater(fs).files
          BY <3>2, DescriptorNames DEF Apply
        <4>2. themed \subseteq Unguarded
          BY DEF Unguarded, Shapes, Markers
        <4> HIDE DEF gs, themed
        <4>3. Alike(fs, gs, Unguarded) /\ \A s \in Unguarded : Once(fs, s) => Once(gs, s)
          BY <1>0, <4>1, GuardTouches, SameAlike
        <4> QED
          BY <4>2, <4>3 DEF Alike
      <3> QED
        BY <1>2, <3>1, <3>2
    <2> HIDE DEF gs
    <2>3. ValidWindow(gs)
      BY <1>0, <2>1, <2>2, ThemeStays
    <2>4. WindowControls(gs) = Already(gs)
      BY <2>3, MarkedIsThere
    <2> QED
      BY <2>1, <2>3, <2>4 DEF InPlace, Valid, Apply, gs
  <1>3. CASE i = 6
    <2>1. ValidUpdater(fs) /\ Descriptors[i] = "updater" /\ j = 7
      BY <1>3, DescriptorNames DEF InPlace, Valid
    <2>2. gs = AutoUpdater(fs).files
      BY <2>1, DescriptorNames DEF Apply
    <2> HIDE DEF gs
    <2>3. ValidUpdater(gs)
      BY <1>0, <2>1, <2>2, GuardTouches, BridgeStays
    <2>4. NativeUpdater(gs) = Already(gs)
      <3>1. Count(gs, "m.updater") = 1
        BY <2>3 DEF ValidUpdater
      <3>2. Has(gs, "m.updater")
        BY <1>0, <3>1, CountIsZero, ShapesWritten
      <3> QED
        BY <3>2, MarkedIsThere
    <2> QED
      BY <2>1, <2>3, <2>4 DEF InPlace, Valid, Apply, gs
  <1> QED
    BY <1>1, <1>2, <1>3

\* A patch that matched and whose validator passes is in place.
LEMMA JustApplied ==
    ASSUME NEW fs \in Bundle, NEW d \in Names,
           Apply(d, fs).matched \/ Apply(d, fs).already, Apply(d, fs).files \in Bundle,
           Valid(d, Apply(d, fs).files)
    PROVE  InPlace(d, Apply(d, fs).files)
  <1> DEFINE gs == Apply(d, fs).files
  <1>s. ASSUME Apply(d, fs) = Already(fs) PROVE InPlace(d, gs)
    <2>1. gs = fs
      BY <1>s, Outcomes
    <2> HIDE DEF gs
    <2> QED
      BY <1>s, <2>1 DEF InPlace, gs
  <1>1. CASE d = "transport"
    <2>1. Has(gs, "m.transport")
      BY <1>1 DEF Valid, ValidTransport
    <2> HIDE DEF gs
    <2> QED
      BY <1>1, <2>1, MarkedIsThere DEF InPlace, Apply, gs
  <1>2. CASE d = "listen"
    <2> DEFINE i == FirstFile(fs, Pushes)
               others == <<"m.listen", "guardedPush">>
    <2>1. PreventListen(fs) = Already(fs)
          \/ (i # 0 /\ PreventListen(fs) = Replaced(fs, i, Pushes, others))
      BY <1>2, OutcomesDiffer DEF PreventListen, Apply
    <2>2. others \in File /\ "m.listen" \in ToSet(others) /\ ToSet(others) \cap Pushes # {}
      BY ShapesWritten, PairTyped DEF File, ToSet, Pushes
    <2> HIDE DEF others
    <2>3. ASSUME i # 0, PreventListen(fs) = Replaced(fs, i, Pushes, others) PROVE InPlace(d, gs)
      <3>1. gs = Replaced(fs, i, Pushes, others).files
        BY <1>2, <2>3 DEF Apply
      <3>2. FirstFile(gs, Pushes) = i /\ i \in DOMAIN fs
        BY <2>2, <2>3, <3>1, ReplacedFirst, FirstFileHas
      <3> HIDE DEF i
      <3>3. Contains(gs[i], "m.listen")
        BY <2>2, <3>1, <3>2, ReplacedFile
      <3> HIDE DEF gs
      <3>4. PreventListen(gs) = Already(gs)
        BY <2>3, <3>2, <3>3, ListenThere
      <3> QED
        BY <1>2, <3>4 DEF InPlace, Apply, gs
    <2> HIDE DEF i, gs
    <2> QED
      BY <1>s, <1>2, <2>1, <2>3 DEF Apply, gs
  <1>3. CASE d = "adoption"
    <2> DEFINE these == {"startInternal", "startOther"}
               i == FirstFile(fs, these)
               others == <<"m.adoption", "adopt", "startInternal">>
    <2>1. Adoption(fs) = Already(fs)
          \/ (i # 0 /\ Adoption(fs) = Replaced(fs, i, {"startInternal"}, others))
      BY <1>3, OutcomesDiffer DEF Adoption, Apply
    <2>2. others \in File /\ "m.adoption" \in ToSet(others) /\ ToSet(others) \cap these # {}
      BY ShapesWritten, TripleTyped DEF File, ToSet
    <2> HIDE DEF others
    <2>3. ASSUME i # 0, Adoption(fs) = Replaced(fs, i, {"startInternal"}, others) PROVE InPlace(d, gs)
      <3>1. gs = Replaced(fs, i, {"startInternal"}, others).files
        BY <1>3, <2>3 DEF Apply
      <3>2. FirstFile(gs, these) = i /\ i \in DOMAIN fs
        <4> HIDE DEF these
        <4> QED
          BY <2>2, <2>3, <3>1, ReplacedFirst, FirstFileHas
      <3> HIDE DEF i
      <3>3. Contains(gs[i], "m.adoption")
        BY <2>2, <3>1, <3>2, ReplacedFile
      <3> HIDE DEF gs
      <3>4. Adoption(gs) = Already(gs)
        BY <2>3, <3>2, <3>3, AdoptionThere
      <3> QED
        BY <1>3, <3>4 DEF InPlace, Apply, gs
    <2> HIDE DEF i, gs
    <2> QED
      BY <1>s, <1>3, <2>1, <2>3 DEF Apply, gs
  <1>4. CASE d = "droid"
    <2>1. Has(gs, "m.droid")
      BY <1>4 DEF Valid, ValidDroid
    <2> HIDE DEF gs
    <2> QED
      BY <1>4, <2>1, MarkedIsThere DEF InPlace, Apply, gs
  <1>5. CASE d = "window"
    <2>1. ValidWindow(gs)
      BY <1>5 DEF Valid
    <2> HIDE DEF gs
    <2> QED
      BY <1>5, <2>1, MarkedIsThere DEF InPlace, Apply, gs
  <1>6. CASE d = "updater"
    <2>1. Count(gs, "m.updater") = 1
      BY <1>6 DEF Valid, ValidUpdater
    <2>2. Has(gs, "m.updater")
      BY <2>1, CountIsZero, ShapesWritten
    <2> HIDE DEF gs
    <2> QED
      BY <1>6, <2>2, MarkedIsThere DEF InPlace, Apply, gs
  <1>7. CASE d = "guard"
    <2>1. Has(gs, "markedCheck")
      BY <1>7 DEF Valid, ValidGuard
    <2> HIDE DEF gs
    <2> QED
      BY <1>7, <2>1, MarkedIsThere DEF InPlace, Apply, gs
  <1> QED
    BY <1>1, <1>2, <1>3, <1>4, <1>5, <1>6, <1>7 DEF Names

-----------------------------------------------------------------------------
(***************************************************************************)
(* What a run has established when it is where it is.                      *)
(***************************************************************************)
\* All patches are in place, and what the engine checks of the whole holds.
Good(fs) ==
    /\ \A i \in 1..7 : InPlace(Descriptors[i], fs)
    /\ PackagedDaemonMode(fs)
    /\ Parses(fs, fs)

Checked == {"rebuild", "moveArchive", "moveCompanion", "placeArchive", "placeCompanion",
            "removeArchive", "removeCompanion", "report"}
Placed == {"placeCompanion", "removeArchive", "removeCompanion", "report"}

AppliedInv ==
    /\ At("apply") => \A i \in 1..(run.next - 1) : InPlace(Descriptors[i], run.work)
    /\ At("check") => \A i \in 1..7 : InPlace(Descriptors[i], run.work)
    /\ run.pc \in {"apply", "check"}
           => archive = run.original /\ (~run.patched => run.work = run.original)
    /\ run.pc \in Checked => Good(run.work)
    /\ run.pc \in Placed => archive = run.work
    /\ At("done") => Good(archive)
    /\ report # Absent /\ report.accepted => Good(report.bundle)

\* A patch that does not say it patched has changed nothing.
LEMMA UnpatchedSame ==
    ASSUME NEW fs, NEW d \in Names, ~Apply(d, fs).patched
    PROVE  Apply(d, fs).files = fs
  <1> DEFINE Unchanged(out) == out.patched \/ out.files = fs
  <1>0. /\ Unchanged(Already(fs)) /\ Unchanged(NoMatch(fs))
        /\ \A gs : Unchanged(Patched(gs))
    BY Outcomes
  <1>r. \A i, shapes, others : Unchanged(Replaced(fs, i, shapes, others))
    BY <1>0 DEF Replaced
  <1>1. CASE d = "transport"
    <2>1. Unchanged(DaemonTransport(fs))
      <3> HIDE DEF Unchanged
      <3> QED
        BY <1>0, <1>r DEF DaemonTransport
    <2> QED
      BY <1>1, <2>1 DEF Apply
  <1>2. CASE d = "listen"
    <2>1. Unchanged(PreventListen(fs))
      <3> HIDE DEF Unchanged
      <3> QED
        BY <1>0, <1>r DEF PreventListen
    <2> QED
      BY <1>2, <2>1 DEF Apply
  <1>3. CASE d = "adoption"
    <2>1. Unchanged(Adoption(fs))
      <3> HIDE DEF Unchanged
      <3> QED
        BY <1>0, <1>r DEF Adoption
    <2> QED
      BY <1>3, <2>1 DEF Apply
  <1>4. CASE d = "droid"
    <2>1. Unchanged(SystemDroid(fs))
      <3> HIDE DEF Unchanged
      <3> QED
        BY <1>0, <1>r DEF SystemDroid
    <2> QED
      BY <1>4, <2>1 DEF Apply
  <1>5. CASE d = "window"
    <2>1. Unchanged(WindowControls(fs))
      <3> HIDE DEF Unchanged
      <3> QED
        BY <1>0 DEF WindowControls
    <2> QED
      BY <1>5, <2>1 DEF Apply
  <1>6. CASE d = "updater"
    <2>1. Unchanged(NativeUpdater(fs))
      <3> HIDE DEF Unchanged
      <3> QED
        BY <1>0 DEF NativeUpdater
    <2> QED
      BY <1>6, <2>1 DEF Apply
  <1>7. CASE d = "guard"
    <2>1. Unchanged(AutoUpdater(fs))
      <3> HIDE DEF Unchanged
      <3> QED
        BY <1>0 DEF AutoUpdater
    <2> QED
      BY <1>7, <2>1 DEF Apply
  <1> QED
    BY <1>1, <1>2, <1>3, <1>4, <1>5, <1>6, <1>7 DEF Names

\* What parses beside the original parses by itself: a marker is there.
LEMMA ParsesAlone ==
    ASSUME NEW fs \in Bundle, NEW original, Parses(original, fs), Has(fs, "m.transport")
    PROVE  Parses(fs, fs)
  <1>1. PICK i \in DOMAIN fs : Contains(fs[i], "m.transport")
    BY DEF Has
  <1>2. ToSet(fs[i]) \cap Markers # {}
    <2>1. fs[i] \in File /\ "m.transport" \in Markers
      BY BundleFiles DEF Markers
    <2> QED
      BY <1>1, <2>1, FileElements
  <1> QED
    BY <1>2 DEF Parses

LEMMA EndApplied ==
    ASSUME AppliedInv, run'.pc \in {"failed", "dead"},
           report' = report \/ (report' # Absent => ~report'.accepted)
    PROVE  AppliedInv'
  BY DEF AppliedInv, At, Checked, Placed

LEMMA HandledApplied ==
    ASSUME AppliedInv, run'.pc \in {"failed"} \cup Undoing, report' = report
    PROVE  AppliedInv'
  BY DEF AppliedInv, At, Checked, Placed, Undoing

LEMMA ApplyNextApplied ==
    ASSUME EngineInv, AppliedInv, ApplyNext
    PROVE  AppliedInv'
  <1> DEFINE d == Descriptors[run.next]
             outcome == Apply(d, run.work)
             gs == outcome.files
  <1>0. TypeOK /\ RunSound /\ run \in Runs
    BY RunTyped DEF EngineInv
  <1>1. At("apply") /\ run.next \in 1..7 /\ run.no \in 0..MaxRuns /\ run.work \in Bundle
    BY <1>0 DEF ApplyNext, RunSound, At, Runs
  <1>2. d \in Names
    BY <1>1, DescriptorNames
  <1>3. outcome.files \in Bundle
    BY <1>1, ApplyTyped DEF Typed
  <1>4. ASSUME Accept(outcome.files, outcome.patched), UNCHANGED report,
               outcome.matched \/ outcome.already, Valid(d, outcome.files)
        PROVE  AppliedInv'
    <2>1. InPlace(d, gs)
      BY <1>1, <1>2, <1>3, <1>4, JustApplied
    <2>2. \A i \in 1..run.next : InPlace(Descriptors[i], gs)
      <3>1. \A i \in 1..(run.next - 1) : InPlace(Descriptors[i], run.work)
        BY <1>1 DEF AppliedInv
      <3>2. ASSUME NEW i \in 1..(run.next - 1) PROVE InPlace(Descriptors[i], gs)
        BY <1>1, <3>1, EarlierStays
      <3>3. \A i \in 1..run.next : i = run.next \/ i \in 1..(run.next - 1)
        BY <1>1
      <3> HIDE DEF gs
      <3> QED
        BY <2>1, <3>2, <3>3
    <2>3. ~outcome.patched => gs = run.work
      BY <1>2, UnpatchedSame
    <2> HIDE DEF outcome
    <2>4. /\ run'.pc = IF run.next = 7 THEN "check" ELSE "apply"
          /\ run'.next = run.next + 1 /\ run'.original = run.original
          /\ run'.work = gs /\ run'.patched = (run.patched \/ outcome.patched)
      BY <1>4, LenDescriptors DEF Accept
    <2>5. archive' = archive
      BY DEF ApplyNext, disk
    <2>6. archive = run.original /\ (~run.patched => run.work = run.original)
      BY <1>1 DEF AppliedInv, At
    <2> HIDE DEF gs
    <2>7. ~run'.patched => run'.work = run'.original
      BY <2>3, <2>4, <2>6
    <2>8. CASE run.next = 7
      BY <1>4, <2>2, <2>4, <2>5, <2>6, <2>7, <2>8 DEF AppliedInv, At, Checked, Placed
    <2>9. CASE run.next # 7
      <3>1. run'.pc = "apply" /\ run'.next - 1 = run.next
        BY <1>1, <2>4, <2>9
      <3> QED
        BY <1>4, <2>2, <2>4, <2>5, <2>6, <2>7, <3>1 DEF AppliedInv, At, Checked, Placed
    <2> QED
      BY <2>8, <2>9
  <1>5. ASSUME Reject PROVE AppliedInv'
    <2>1. run'.pc = "failed"
      BY <1>0, <1>1, <1>5, EndRun DEF Reject, Ended
    <2>2. ~report'.accepted
      BY <1>5 DEF Reject
    <2> QED
      BY <2>1, <2>2, EndApplied
  <1> HIDE DEF outcome
  <1> QED
    BY <1>4, <1>5 DEF ApplyNext, outcome

LEMMA AppliedStep ==
    ASSUME EngineInv, AppliedInv, Next
    PROVE  AppliedInv'
  <1>0. TypeOK /\ RunSound /\ run \in Runs /\ run.no \in 0..MaxRuns
    BY RunTyped DEF EngineInv, Runs
  <1>1. CASE Begin
    <2>1. CASE archive = Absent \/ archive = <<>>
      <3>1. run'.pc = "failed"
        BY <1>1, <2>1 DEF Begin, End
      <3> QED
        BY <1>1, <3>1, EndApplied DEF Begin
    <2>2. CASE ~(archive = Absent \/ archive = <<>>)
      <3>1. /\ run'.pc = "apply" /\ run'.next = 1
            /\ run'.original = archive /\ run'.work = archive
            /\ archive' = archive /\ report' = report
        BY <1>1, <2>2 DEF Begin, disk
      <3> QED
        BY <3>1 DEF AppliedInv, At, Checked, Placed
    <2> QED
      BY <2>1, <2>2
  <1>2. CASE ApplyNext
    BY <1>2, ApplyNextApplied
  <1>3. CASE CheckBundle
    <2>1. At("check") /\ archive' = archive
      BY <1>3 DEF CheckBundle, disk
    <2>2. ASSUME PackagedDaemonMode(run.work), Parses(run.original, run.work), UNCHANGED report,
                 Goto(IF run.patched THEN "rebuild" ELSE "report")
          PROVE  AppliedInv'
      <3>1. \A i \in 1..7 : InPlace(Descriptors[i], run.work)
        BY <2>1 DEF AppliedInv
      <3>2. Has(run.work, "m.transport")
        <4>1. InPlace("transport", run.work)
          BY <3>1 DEF Descriptors
        <4> QED
          BY <4>1 DEF InPlace, Valid, ValidTransport
      <3>3. Parses(run.work, run.work)
        BY <1>0, <2>2, <3>2, ParsesAlone DEF Runs
      <3>4. Good(run.work)
        BY <2>2, <3>1, <3>3 DEF Good
      <3>5. CASE run.patched
        <4>1. run'.pc = "rebuild" /\ run'.work = run.work
          BY <1>0, <2>2, <3>5, GotoRun DEF Steps
        <4> QED
          BY <2>1, <2>2, <3>4, <4>1 DEF AppliedInv, At, Checked, Placed
      <3>6. CASE ~run.patched
        <4>1. run'.pc = "report" /\ run'.work = run.work
          BY <1>0, <2>2, <3>6, GotoRun DEF Steps
        <4>2. archive = run.work
          BY <2>1, <3>6 DEF AppliedInv, At
        <4> QED
          BY <2>1, <2>2, <3>4, <4>1, <4>2 DEF AppliedInv, At, Checked, Placed
      <3> QED
        BY <3>5, <3>6
    <2>3. ASSUME Reject PROVE AppliedInv'
      <3>1. run'.pc = "failed" /\ ~report'.accepted
        BY <2>3 DEF Reject, End
      <3> QED
        BY <3>1, EndApplied
    <2> QED
      BY <1>3, <2>2, <2>3 DEF CheckBundle
  <1>4. CASE Rebuild
    <2>1. At("rebuild") /\ archive' = archive /\ report' = report
      BY <1>4 DEF Rebuild, disk
    <2>2. CASE site.unpacked /\ companion = Absent
      <3>1. run'.pc = "failed"
        BY <1>4, <2>2 DEF Rebuild, End
      <3> QED
        BY <2>1, <3>1, EndApplied
    <2>3. CASE ~(site.unpacked /\ companion = Absent)
      <3>1. run'.pc = "moveArchive" /\ run'.work = run.work
        BY <1>0, <1>4, <2>3, GotoRun DEF Rebuild, Steps
      <3> QED
        BY <2>1, <3>1 DEF AppliedInv, At, Checked, Placed
    <2> QED
      BY <2>2, <2>3
  <1>5. CASE MoveArchive \/ MoveCompanion
    <2>1. /\ run.pc \in Checked /\ report' = report
          /\ run'.pc \in {"moveCompanion", "placeArchive"} /\ run'.work = run.work
      BY <1>0, <1>5, GotoRun DEF MoveArchive, MoveCompanion, At, Steps, Checked
    <2> QED
      BY <2>1 DEF AppliedInv, At, Checked, Placed
  <1>6. CASE PlaceArchive
    <2>1. /\ At("placeArchive") /\ report' = report /\ archive' = run.work
          /\ run'.pc = "placeCompanion" /\ run'.work = run.work
      BY <1>0, <1>6, GotoRun DEF PlaceArchive, Steps
    <2> QED
      BY <2>1 DEF AppliedInv, At, Checked, Placed
  <1>7. CASE PlaceCompanion \/ RemoveArchive \/ RemoveCompanion
    <2>1. /\ run.pc \in Placed /\ report' = report /\ archive' = archive
          /\ run'.pc \in {"removeArchive", "removeCompanion", "report"} /\ run'.work = run.work
      BY <1>0, <1>7, GotoRun DEF PlaceCompanion, RemoveArchive, RemoveCompanion, At, Steps, Placed
    <2> QED
      BY <2>1 DEF AppliedInv, At, Checked, Placed
  <1>8. CASE WriteReport
    <2>1. At("report") /\ Good(archive)
      BY <1>8 DEF WriteReport, AppliedInv, At, Checked, Placed
    <2>2. run'.pc = "done" /\ archive' = archive /\ report'.bundle = archive
      BY <1>8 DEF WriteReport, End, disk
    <2> QED
      BY <2>1, <2>2 DEF AppliedInv, At, Checked, Placed
  <1>9. CASE Catch \/ UndoArchive \/ UndoCompanion \/ ReturnArchive \/ ReturnCompanion
    <2>1. /\ report' = report
          /\ run'.pc \in {"failed"} \cup Undoing
      BY <1>0, <1>9, GotoRun DEF Catch, UndoArchive, UndoCompanion, ReturnArchive,
         ReturnCompanion, End, Steps, Undoing
    <2> QED
      BY <2>1, HandledApplied
  <1>10. CASE Fail \/ Die
    <2>1. run'.pc \in {"failed", "dead"} /\ report' = report
      BY <1>10 DEF Fail, Die, End
    <2> QED
      BY <2>1, EndApplied
  <1> QED
    BY <1>1, <1>2, <1>3, <1>4, <1>5, <1>6, <1>7, <1>8, <1>9, <1>10 DEF Next

LEMMA StartApplied == Init => AppliedInv
  BY DEF Init, AppliedInv, At, Checked, Placed

LEMMA EngineAppliedStep == EngineInv /\ AppliedInv /\ [Next]_vars => (EngineInv /\ AppliedInv)'
  <1> SUFFICES ASSUME EngineInv, AppliedInv, [Next]_vars PROVE AppliedInv'
    BY EngineStep
  <1>1. CASE Next
    BY <1>1, AppliedStep
  <1>2. CASE UNCHANGED vars
    BY <1>2 DEF vars, AppliedInv, At
  <1> QED
    BY <1>1, <1>2

\* The inductive invariant of the patches: while they are applied, those
\* before the next one are in place together; what is written, and what an
\* accepted report is about, has them all and passes the checks of the whole.
THEOREM AppliedInvariance == Spec => [](EngineInv /\ AppliedInv)
  <1>1. Init => EngineInv /\ AppliedInv
    BY StartEngine, StartApplied
  <1> QED
    BY <1>1, EngineAppliedStep, PTL DEF Spec

\* When a run succeeds every validator passes, all together, on the archive
\* that was written, whatever the later patches did to the earlier ones'.
THEOREM AcceptedValid == Spec => []AcceptedIsValid
  <1>1. AppliedInv => AcceptedIsValid
    BY LenDescriptors DEF AppliedInv, AcceptedIsValid, Good, InPlace, Descriptors
  <1> QED
    BY <1>1, AppliedInvariance, PTL

\* Patching what was patched changes nothing.
THEOREM AcceptedStable == Spec => []AcceptedIsStable
  <1>1. AppliedInv => AcceptedIsStable
    <2> SUFFICES ASSUME AppliedInv, At("done"), NEW i \in DOMAIN Descriptors
                 PROVE  LET outcome == Apply(Descriptors[i], archive) IN
                        outcome.already /\ ~outcome.patched /\ outcome.files = archive
      BY DEF AcceptedIsStable
    <2>1. i \in 1..7
      BY DEF Descriptors
    <2>2. Apply(Descriptors[i], archive) = Already(archive)
      BY <2>1 DEF AppliedInv, Good, InPlace
    <2>3. Already(archive).already /\ ~Already(archive).patched /\ Already(archive).files = archive
      BY DEF Already, Outcome
    <2> QED
      BY <2>2, <2>3
  <1> QED
    BY <1>1, AppliedInvariance, PTL
=============================================================================
