-------------------------- MODULE MCApplicationBuild --------------------------
(***************************************************************************)
(* Bundles of one main file, made of sections that are each as upstream    *)
(* writes them today or in one of a few other forms, and at most one more  *)
(* file before or after it.  Patches share shapes only across files, and   *)
(* within their own section: one section deviates at a time.               *)
(***************************************************************************)
EXTENDS ApplicationBuild

Themed == <<"browserWindow", "m.window", "overlay", "icon", "webContents",
            "m.sync", "themeSync", "m.syncEnd">>
Bridged == <<"m.updater", "bridge", "dispatch.getState", "dispatch.install",
             "dispatch.checkNow", "bridgeEnd">>

\* The forms of each section, today's first.
Forms == <<
    << <<"hardcodedIpc", "transportUse">>, <<"statsig", "transportUse">>, <<"hardcodedIpc">>,
       <<"statsig", "hardcodedIpc", "transportUse">>, <<"m.transport", "webSocket", "transportUse">> >>,
    << <<"push">>, <<>>, <<"push", "push">>, <<"guardedPush", "push">>, <<"m.listen", "guardedPush">> >>,
    << <<"startInternal">>, <<"startOther">>, <<"m.adoption", "adopt", "startInternal">> >>,
    << <<"isPackaged", "droidPath">>, <<"droidPath", "isPackaged">>, <<"isPackaged", "droidOther">>,
       <<"isPackaged", "m.droid", "droidLookup">> >>,
    << <<"browserWindow", "titleBar", "webContents">>, <<"browserWindow", "endOptions", "titleBar", "webContents">>,
       <<"browserWindow", "titleBar">>, <<"browserWindow", "titleBar", "webContents", "webContents">>,
       <<"browserWindow">> \o LegacyOptions \o <<"webContents">>,
       <<"browserWindow", "legacyStyle", "m.window", "legacyOverlay", "webContents">>,
       <<"browserWindow", "titleBar", "browserWindow", "titleBar", "webContents">>, Themed >>,
    << <<"handle.getState", "handle.install", "handle.checkNow">>,
       <<"handle.install", "handle.getState", "handle.checkNow", "handle.getDiagnostics">>,
       <<"handle.getState", "handle.checkNow", "handle.install">>,
       <<"handle.getState", "handle.getDiagnostics", "handle.install", "handle.checkNow">>,
       <<"handle.getState", "handle.install", "handle.checkNow", "handle.other">>,
       <<"handle.getState", "handle.install">>, Bridged >>,
    << <<"check", "quit">>, <<"quit">>, <<>>, <<"guardedCheck", "quit">>, <<"markedCheck", "quit">>,
       <<"markedCheck", "guardedQuit">> >>,
    << <<"debugGuarded", "devGuard">>, <<"debugBare", "devGuard">>, <<"debugGuarded">> >>,
    << <<>>, <<"syntaxError">> >>,
    << <<>>, <<"push">>, <<"hardcodedIpc", "transportUse">>, <<"quit">>, <<"droidOther">>, <<"syntaxError">> >>,
    << <<>>, <<"push">>, <<"statsig">>, <<"check">>, <<"handle.install">>, <<"startInternal">>, <<"syntaxError">> >>
>>

Sections == 1..9
Others == 10..11

Today == [k \in DOMAIN Forms |-> Forms[k][1]]
Deviating == {[[Today EXCEPT ![a] = Forms[a][x]] EXCEPT ![b] = Forms[b][y]] :
                 <<a, x>> \in UNION {{k} \X DOMAIN Forms[k] : k \in Sections},
                 <<b, y>> \in UNION {{k} \X DOMAIN Forms[k] : k \in Others}}

Files(c) == SelectSeq(<<c[10], FlattenSeq(SubSeq(c, 1, 9)), c[11]>>, LAMBDA f : f # <<>>)

\* These, and an archive without JavaScript.
MCBundles == {Files(c) : c \in Deviating} \cup {<<>>}

\* An archive with some of the patches only.
MCStrays == {Files([Today EXCEPT ![5] = Themed, ![6] = Bridged])}
MCFormats == {"deb"}
=============================================================================
