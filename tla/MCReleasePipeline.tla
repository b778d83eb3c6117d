------------------------- MODULE MCReleasePipeline -------------------------
(* Instances of ReleasePipeline for TLC. *)
EXTENDS ReleasePipeline

CONSTANTS r1, r2

ThreeVersions == {1, 2, 3}
OneRevision == {2}
TwoRuns == {r1, r2}
=============================================================================
