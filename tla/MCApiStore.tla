----------------------------- MODULE MCApiStore -----------------------------
(***************************************************************************)
(* Instances of ApiStore: a table that an older version has left one       *)
(* configuration and one provider in, and room for one new provider.       *)
(***************************************************************************)
EXTENDS ApiStore, TLC

CONSTANTS s1, s2, c1, p1, p2, al, x, y, k1, k2

MCServers == {s1, s2}
MCConfigs == {c1}
MCProvs == {p1, p2}
MCKeys == {k1, k2}

\* One legacy configuration, readable or not, or none; and one provider.
MCLegacy ==
  {[r \in MCConfigs \cup MCProvs |->
      CASE r = c1 -> c [] r = p1 -> p [] OTHER -> Absent] :
     c \in {Absent} \cup [pub : {{}}, secret : {NoSecret, x}, form : {"clear", "junk"}],
     p \in {Absent} \cup [pub : {"a"}, secret : {x}, form : {"clear"}]}

Symmetry == Permutations(MCServers)
=============================================================================
