-------------------------- MODULE PatchDescriptors --------------------------
(***************************************************************************)
(* The seven patches of the application bundle: how each one finds the     *)
(* code it changes (src/patcher/src/patches.js) and what its validator     *)
(* demands of the bundle afterwards (src/patcher/src/validators.js).       *)
(*                                                                         *)
(* A bundle is a sequence of JavaScript files and a file is the sequence   *)
(* of the code shapes the matchers and the validators know, in the order   *)
(* they occur in.  A shape stands for the text one pattern matches, m.x    *)
(* for the marker comment of patch x, which in markedCheck goes with the   *)
(* call it guards.  Names of variables, and how far apart two shapes of    *)
(* one pattern may be, are left out.                                       *)
(***************************************************************************)
EXTENDS Naturals, Sequences, FiniteSets, SequencesExt

Descriptors == <<"transport", "listen", "adoption", "droid", "window", "updater", "guard">>

Markers == {"m.transport", "m.listen", "m.adoption", "m.droid", "m.window",
            "m.sync", "m.syncEnd", "m.updater", "markedCheck"}

\* What the matchers and the validators tell apart, patch by patch.
Shapes == Markers \cup
    {"hardcodedIpc", "statsig", "transportUse", "webSocket",
     "push", "guardedPush",
     "startInternal", "startOther", "adopt",
     "isPackaged", "droidPath", "droidOther", "droidLookup",
     "browserWindow", "endOptions", "titleBar", "overlay", "icon", "webContents", "themeSync",
     "legacyStyle", "legacyOverlay",
     "handle.getState", "handle.install", "handle.checkNow", "handle.getDiagnostics",
     "handle.other", "bridge", "dispatch.getState", "dispatch.install", "dispatch.checkNow",
     "bridgeEnd",
     "check", "quit", "guardedCheck", "guardedQuit",
     "debugGuarded", "debugBare", "devGuard", "syntaxError"}

-----------------------------------------------------------------------------
\* The places <<file, position>> at which a run of shapes begins.
Places(fs, shapes) ==
    UNION {{<<i, j>> : j \in {j \in DOMAIN fs[i] :
                                IsPrefix(shapes, SubSeq(fs[i], j, Len(fs[i])))}} : i \in DOMAIN fs}

Count(fs, shape) == Cardinality(Places(fs, <<shape>>))
Has(fs, shape) == \E i \in DOMAIN fs : Contains(fs[i], shape)

\* The first of some positions, 0 when there is none; the first file with one
\* of the shapes, and the first of them in a file.
First(is) ==
    IF \E i \in is : \A j \in is : i <= j THEN CHOOSE i \in is : \A j \in is : i <= j ELSE 0
FirstFile(fs, shapes) == First({i \in DOMAIN fs : ToSet(fs[i]) \cap shapes # {}})
FirstIn(f, shapes) == First({j \in DOMAIN f : f[j] \in shapes})

\* n shapes of a file at position j give way to others.
Splice(f, j, n, others) == SubSeq(f, 1, j - 1) \o others \o SubSeq(f, j + n, Len(f))

\* What applying a patch returns, with the bundle its changes give.
Outcome(fs, matched, patched, already) ==
    [matched |-> matched, patched |-> patched, already |-> already, files |-> fs]
NoMatch(fs) == Outcome(fs, FALSE, FALSE, FALSE)
Already(fs) == Outcome(fs, TRUE, FALSE, TRUE)
Patched(fs) == Outcome(fs, TRUE, TRUE, FALSE)

\* In file i, the first of the shapes gives way to others.
Replaced(fs, i, shapes, others) ==
    Patched([fs EXCEPT ![i] = Splice(@, FirstIn(@, shapes), 1, others)])

-----------------------------------------------------------------------------
\* The resolver of the daemon's transport returns WebSocket.
DaemonTransport(fs) ==
    LET statsig == FirstFile(fs, {"statsig"})
        hardcoded == First({i \in DOMAIN fs : {"hardcodedIpc", "transportUse"} \subseteq ToSet(fs[i])})
        websocket == <<"m.transport", "webSocket">>
    IN CASE Has(fs, "m.transport") -> Already(fs)
         [] ~Has(fs, "m.transport") /\ statsig # 0 -> Replaced(fs, statsig, {"statsig"}, websocket)
         [] ~Has(fs, "m.transport") /\ statsig = 0 /\ hardcoded # 0 ->
                Replaced(fs, hardcoded, {"hardcodedIpc"}, websocket)
         [] OTHER -> NoMatch(fs)

ValidTransport(fs) ==
    /\ Has(fs, "m.transport") /\ Has(fs, "webSocket") /\ Has(fs, "transportUse")
    /\ ~Has(fs, "hardcodedIpc") /\ ~Has(fs, "statsig")

\* The daemon is not spawned with --listen ipc: the first push is guarded.
Pushes == {"push", "guardedPush"}

\* Variant: the marker of an earlier run is not looked for.
PreventListenAgain(fs) ==
    LET i == FirstFile(fs, Pushes) IN
    IF i = 0 THEN NoMatch(fs) ELSE Replaced(fs, i, Pushes, <<"m.listen", "guardedPush">>)

PreventListen(fs) ==
    LET i == FirstFile(fs, Pushes) IN
    CASE i = 0 -> NoMatch(fs)
      [] i # 0 /\ Contains(fs[i], "m.listen") -> Already(fs)
      [] OTHER -> Replaced(fs, i, Pushes, <<"m.listen", "guardedPush">>)

\* One guarded push is enough, whatever other pushes there are.
ValidListen(fs) ==
    Has(fs, "m.listen") /\ (Has(fs, "push") => Has(fs, "guardedPush"))

\* The running system daemon is adopted before one is spawned.
Adoption(fs) ==
    LET i == FirstFile(fs, {"startInternal", "startOther"}) IN
    CASE i # 0 /\ Contains(fs[i], "m.adoption") -> Already(fs)
      [] i # 0 /\ ~Contains(fs[i], "m.adoption") /\ Contains(fs[i], "startInternal") ->
             Replaced(fs, i, {"startInternal"}, <<"m.adoption", "adopt", "startInternal">>)
      [] OTHER -> NoMatch(fs)

ValidAdoption(fs) == Has(fs, "m.adoption") /\ Has(fs, "adopt")

\* The droid executable is looked up on the system.
SystemDroid(fs) ==
    LET i == FirstFile(fs, {"droidPath", "droidOther"}) IN
    CASE Has(fs, "m.droid") -> Already(fs)
      [] ~Has(fs, "m.droid") /\ i # 0 /\ Contains(fs[i], "droidPath") ->
             Replaced(fs, i, {"droidPath"}, <<"m.droid", "droidLookup">>)
      [] OTHER -> NoMatch(fs)

ValidDroid(fs) == Has(fs, "m.droid") /\ Has(fs, "droidLookup")

-----------------------------------------------------------------------------
\* The window's options, as upstream writes them and as an earlier release of
\* the patch left them, give way to a themed overlay, and a theme listener
\* follows the window's webContents.
LegacyOptions == <<"legacyStyle", "m.window", "legacyOverlay", "icon">>

WindowFields == {"m.window", "m.sync", "m.syncEnd", "overlay", "legacyOverlay", "icon",
                 "themeSync", "titleBar", "legacy"}

WindowShapes(fs) ==
    [s \in WindowFields |-> IF s = "legacy" THEN Cardinality(Places(fs, LegacyOptions))
                            ELSE Count(fs, s)]

WindowForm(ones) == [s \in WindowFields |-> IF s \in ones THEN 1 ELSE 0]
ThemedForm == WindowForm({"m.window", "m.sync", "m.syncEnd", "overlay", "icon", "themeSync"})
UpstreamForm == WindowForm({"titleBar"})
LegacyForm == WindowForm({"m.window", "legacyOverlay", "icon", "legacy"})

\* The position of the window's only webContents after j, 0 unless the options
\* at j are those of the last window constructed before them.
WindowContext(f, j) ==
    LET windows == {k \in 1..(j - 1) : f[k] = "browserWindow"}
        anchors == {k \in (j + 1)..Len(f) : f[k] = "webContents"}
        open == /\ windows # {}
                /\ "endOptions" \notin {f[k] : k \in Max(windows)..(j - 1)}
    IN IF open /\ Cardinality(anchors) = 1 THEN CHOOSE k \in anchors : TRUE ELSE 0

WindowControls(fs) ==
    LET form == WindowShapes(fs)
        old == IF form = UpstreamForm THEN <<"titleBar">> ELSE LegacyOptions
        place == CHOOSE p \in Places(fs, old) : TRUE
        f == fs[place[1]]
        anchor == WindowContext(f, place[2])
        themed == Splice(Splice(f, anchor + 1, 0, <<"m.sync", "themeSync", "m.syncEnd">>),
                         place[2], Len(old), <<"m.window", "overlay", "icon">>)
    IN CASE form = ThemedForm -> Already(fs)
         [] form \in {UpstreamForm, LegacyForm} /\ anchor # 0 ->
                Patched([fs EXCEPT ![place[1]] = themed])
         [] OTHER -> NoMatch(fs)

ValidWindow(fs) == WindowShapes(fs) = ThemedForm

-----------------------------------------------------------------------------
\* The three update handlers become the bridge's, where they are one span.
Handlers == {"handle.getState", "handle.install", "handle.checkNow"}

DispatchOf(h) ==
    CASE h = "handle.getState" -> "dispatch.getState"
      [] h = "handle.install" -> "dispatch.install"
      [] h = "handle.checkNow" -> "dispatch.checkNow"

HandlerSpans(fs) ==
    UNION {{<<i, j>> : j \in {j \in 1..(Len(fs[i]) - 2) :
                                ToSet(SubSeq(fs[i], j, j + 2)) = Handlers}} : i \in DOMAIN fs}

Bridge(span) == <<"m.updater", "bridge">> \o [k \in 1..3 |-> DispatchOf(span[k])] \o <<"bridgeEnd">>

NativeUpdater(fs) ==
    LET once == \A h \in Handlers : Count(fs, h) = 1
        spans == HandlerSpans(fs)
        place == CHOOSE p \in spans : TRUE
        f == fs[place[1]]
        span == SubSeq(f, place[2], place[2] + 2)
    IN CASE Has(fs, "m.updater") -> Already(fs)
         [] ~Has(fs, "m.updater") /\ once /\ spans # {} ->
                Patched([fs EXCEPT ![place[1]] = Splice(f, place[2], 3, Bridge(span))])
         [] OTHER -> NoMatch(fs)

\* The expression ends with the handler of checkNow, and of all other handlers
\* only that of the diagnostics may remain.
ValidUpdater(fs) ==
    /\ \A s \in {"m.updater", "bridge"} \cup {DispatchOf(h) : h \in Handlers} : Count(fs, s) = 1
    /\ \A h \in Handlers \cup {"handle.other"} : ~Has(fs, h)
    /\ Count(fs, "handle.getDiagnostics") <= 1
    /\ Places(fs, <<"m.updater", "bridge">>) # {}
    /\ Places(fs, <<"dispatch.checkNow", "bridgeEnd">>) # {}

-----------------------------------------------------------------------------
\* Every call of Electron's own updater is guarded, in every file, unless some
\* file is marked: then nothing is changed.  The marker goes with each check.
Guarded == [check |-> "markedCheck", guardedCheck |-> "markedCheck",
            quit |-> "guardedQuit", guardedQuit |-> "guardedQuit"]
Calls == DOMAIN Guarded

AutoUpdater(fs) ==
    CASE Has(fs, "markedCheck") -> Already(fs)
      [] ~Has(fs, "markedCheck") /\ FirstFile(fs, Calls) # 0 ->
             Patched([i \in DOMAIN fs |->
                        [j \in DOMAIN fs[i] |-> IF fs[i][j] \in Calls THEN Guarded[fs[i][j]]
                                                 ELSE fs[i][j]]])
      [] OTHER -> NoMatch(fs)

ValidGuard(fs) == Has(fs, "markedCheck") /\ ~Has(fs, "check") /\ ~Has(fs, "quit")

-----------------------------------------------------------------------------
Apply(d, fs) ==
    CASE d = "transport" -> DaemonTransport(fs)
      [] d = "listen" -> PreventListen(fs)
      [] d = "adoption" -> Adoption(fs)
      [] d = "droid" -> SystemDroid(fs)
      [] d = "window" -> WindowControls(fs)
      [] d = "updater" -> NativeUpdater(fs)
      [] d = "guard" -> AutoUpdater(fs)

Valid(d, fs) ==
    CASE d = "transport" -> ValidTransport(fs)
      [] d = "listen" -> ValidListen(fs)
      [] d = "adoption" -> ValidAdoption(fs)
      [] d = "droid" -> ValidDroid(fs)
      [] d = "window" -> ValidWindow(fs)
      [] d = "updater" -> ValidUpdater(fs)
      [] d = "guard" -> ValidGuard(fs)

\* Packaged builds reach neither the development resolver nor --debug.
PackagedDaemonMode(fs) ==
    /\ Has(fs, "debugGuarded") /\ ~Has(fs, "debugBare")
    /\ Places(fs, <<"isPackaged", "m.droid">>) # {}
    /\ Has(fs, "devGuard")

\* The files that were changed or carry a marker parse, and there are some.
Parses(original, fs) ==
    LET selected == {i \in DOMAIN fs : fs[i] # original[i] \/ ToSet(fs[i]) \cap Markers # {}} IN
    selected # {} /\ \A i \in selected : ~Contains(fs[i], "syntaxError")
=============================================================================
