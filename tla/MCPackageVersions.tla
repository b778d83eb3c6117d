-------------------------- MODULE MCPackageVersions --------------------------
(* Numbers whose text order differs from their order, and suffixes that do the *)
(* same; "0" and "5" look like wrapper revisions.                            *)
EXTENDS PackageVersions, TLC

MCCores == {<<0, 9, 0>>, <<0, 10, 0>>}
MCSuffixes == {"0", "5", "rc.9", "rc.10"}
MCTextRank == "0" :> 1 @@ "5" :> 2 @@ "rc.10" :> 3 @@ "rc.9" :> 4
MCSemRank == "0" :> 1 @@ "5" :> 2 @@ "rc.9" :> 3 @@ "rc.10" :> 4
MCNumberOf == "0" :> 0 @@ "5" :> 5
MCRevisions == {1, 5}
MCFirst == [core |-> <<0, 9, 0>>, suffix |-> "none"]
=============================================================================
