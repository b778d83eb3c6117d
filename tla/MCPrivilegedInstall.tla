------------------------- MODULE MCPrivilegedInstall -------------------------
(***************************************************************************)
(* Constants of the TLC runs of PrivilegedInstall.                         *)
(***************************************************************************)
EXTENDS PrivilegedInstall, TLC

CONSTANTS h1, h2, k1, k2, k3, a1, a2

OneHelper == {h1}
TwoHelpers == {h1, h2}
TwoPackages == {k1, k2}
ThreePackages == {k1, k2, k3}
NoApproval == {}
OneApproval == {a1}
TwoApprovals == {a1, a2}

(* Versions 1, 2, 3 in the order of the packages. *)
Version == [k \in Packages |-> CASE k = k1 -> 1 [] k = k2 -> 2 [] OTHER -> 3]

HelperSymmetry == Permutations(TwoHelpers)
=============================================================================
