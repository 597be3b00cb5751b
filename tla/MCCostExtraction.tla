-------------------------- MODULE MCCostExtraction --------------------------
(***************************************************************************)
(* An instance of CostExtraction: two processes that may overlap, mostly   *)
(* of one extractor, and two rows in two scopes that share a record id.    *)
(***************************************************************************)
EXTENDS CostExtraction

CONSTANTS p1, p2, r1, r2, i1, i2

\* azure: r1 and r2 are one meter's rows of two resource groups on one day;
\* elsewhere two charges of one SKU.  Each llm request has its own id.
MCIdOf == [v \in Providers |->
            [r \in Rows |-> IF v = "llm" /\ r = r2 THEN i2 ELSE i1]]
MCScopeOf == [r \in Rows |-> IF r = r1 THEN 1 ELSE 2]

\* Each extractor meets a malformed row, and treats it in its own way.
MCQuality ==
  [k \in Kinds |-> [r \in Rows |->
     IF r = r1 \/ k \in {"azure", "csv", "fx", "llm"} THEN "good"
     ELSE IF k \in {"gcp", "aws", "azurergs"} THEN "raise" ELSE "skip"]]

TwoProcesses == {[p \in {p1, p2} |-> k] : k \in Kinds}
                  \cup {[p \in {p1, p2} |-> IF p = p1 THEN "gcp" ELSE "csv"]}
=============================================================================
