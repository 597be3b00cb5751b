---------------------------- MODULE MCWastageScan ----------------------------
(***************************************************************************)
(* Instances of WastageScan for TLC.                                       *)
(***************************************************************************)
EXTENDS WastageScan, TLC

CONSTANTS f1, a1

OneFinding == {f1}
OneAccount == {a1}
OwnerA1 == [f \in Findings |-> a1]
AllFaults == FaultKinds
OnlyPartial == {"partial"}
=============================================================================
