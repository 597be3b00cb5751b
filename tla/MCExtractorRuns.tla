--------------------------- MODULE MCExtractorRuns ---------------------------
(***************************************************************************)
(* Instances of ExtractorRuns for TLC: two runs, so that the handling of   *)
(* one interleaves with the handling of the other.                         *)
(***************************************************************************)
EXTENDS ExtractorRuns, TLC

CONSTANTS r1, r2

MCRuns == {r1, r2}
AllFaults == FaultKinds
NoFaults == {}
RunSymmetry == Permutations(MCRuns)
=============================================================================
