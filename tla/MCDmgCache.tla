----------------------------- MODULE MCDmgCache -----------------------------
(* Two processes, which differ in the script they may run; two versions, one *)
(* DMG of each.                                                              *)
EXTENDS DmgCache, TLC

CONSTANTS p1, p2, v1, v2, d1, d2

MCProcess == {p1, p2}
MCKindsOf == p1 :> {"watch", "pinned", "updater"} @@ p2 :> {"release", "pinned", "updater"}
MCVersion == {v1, v2}
MCBlob == {d1, d2}
MCVersionOf == d1 :> v1 @@ d2 :> v2
MCAccepted == {d1}
MCWanted == {v1}
=============================================================================
