---------------------------- MODULE MCOidcDevice ----------------------------
(***************************************************************************)
(* Instances of OidcDevice for TLC.                                        *)
(***************************************************************************)
EXTENDS OidcDevice, TLC

CONSTANTS c1, c2, p1, p2

TwoCodes == {c1, c2}
TwoPolls == {p1, p2}
AllFaults == FaultKinds
NoFaults == {}
Symmetry == Permutations(TwoPolls) \cup Permutations(TwoCodes)
=============================================================================
