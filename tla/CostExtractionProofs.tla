------------------------ MODULE CostExtractionProofs ------------------------
(***************************************************************************)
(* Proofs about CostExtraction: for every set of processes, deployment,    *)
(* finite set of billed rows, assignment of record ids and scopes, batch   *)
(* size, and any number of faults.                                         *)
(***************************************************************************)
EXTENDS CostExtraction, FiniteSetTheorems, TLAPS

-----------------------------------------------------------------------------
(* The inductive invariant.                                                *)

\* What a process has at hand: rows of its scope, at amounts they were billed at,
\* and nothing before the fetch; a process at work has no exit status.
Hand(p) ==
  /\ todo[p] \subseteq RowsAt(kind[p], at[p])
  /\ \A r \in todo[p] : snap[p][r] >= 1 /\ snap[p][r] <= bill[r]
  /\ pc[p] \in {"idle", "fetch"} => todo[p] = {}
  /\ pc[p] = "start" /\ RunOf(kind[p]).first = "start" => todo[p] = {}
  /\ pc[p] # "idle" => exit[p] = "none"

\* The fetched rows that a process need not have stored at this point: those it
\* has still to insert, or those of a scope that failed.
Owed(p) == IF pc[p] \in {"start", "insert"} THEN todo[p]
           ELSE IF pc[p] = "failed" THEN RowsAt(kind[p], at[p]) ELSE {}

SeenState(p) ==
  /\ pc[p] # "idle" => \A r \in seen[p] : Stored(kind[p], r) \/ r \in Owed(p)
  /\ exit[p] = "zero" => \A r \in seen[p] : Stored(kind[p], r)

\* The count of a run that has not failed; what it has added is in the table.
CountState(p) ==
  /\ IsFiniteSet(added[p])
  /\ \A i \in added[p] : table[i] # NoRecord
  /\ pc[p] = "idle" => added[p] = {} /\ count[p] = 0
  /\ pc[p] # "failed" =>
       /\ count[p] >= Cardinality(added[p])
       /\ kind[p] = "gcp" => count[p] = Cardinality(added[p])

ProcInv(p) == Hand(p) /\ SeenState(p) /\ CountState(p)

IInv == TypeOK /\ SuccessIsComplete /\ \A p \in Procs : ProcInv(p)

-----------------------------------------------------------------------------
(* Facts about the definitions.                                            *)

\* The kinds are the strings they are listed as.
LEMMA KindList ==
  Kinds = {"azure", "azuresubs", "azurergs", "gcp", "csv", "aws", "llm", "fx"}
BY DEF Kinds, AzureKinds

\* A process runs one of the extractors.
LEMMA KindType == ASSUME TypeOK, NEW p \in Procs PROVE kind[p] \in Kinds
BY DeploymentsAssumption DEF TypeOK

\* What the proofs need to know of the extractors' policies.
LEMMA Policies ==
  ASSUME NEW k \in Kinds
  PROVE  /\ RunOf(k).first \in {"fetch", "start"}
         /\ RunOf(k).next \in {"start", "insert"}
         /\ RunOf(k).nothing \in {"finish", "start", "exit"}
         /\ RunOf(k).first = "start" => RunOf(k).next = "insert" /\ RunOf(k).nothing = "finish"
         /\ RunOf(k).abort \in {"exit", "failed"}
         /\ FetchOf(k).attempts \in 1..4
         /\ (StoreOf(k).counts = "added") <=> (k = "gcp")
         /\ MainOf(k).failure \in {"next", "exit"}
         /\ LastScope(k) \in 1..NScopes
<1> USE KindList, ScopeAssumption
<1>1. CASE k \in AzureKinds
  BY <1>1 DEF AzureKinds, RunOf, FetchOf, StoreOf, MainOf, LastScope, Choose, AzureRun,
     AzureFetch, AzureStore, AzureMain
<1>2. CASE k = "gcp"
  BY <1>2 DEF AzureKinds, RunOf, FetchOf, StoreOf, MainOf, LastScope, Choose, GcpRun,
     GcpFetch, GcpStore, GcpMain
<1>3. CASE k = "csv"
  BY <1>3 DEF AzureKinds, RunOf, FetchOf, StoreOf, MainOf, LastScope, Choose, CsvRun,
     CsvFetch, CsvStore, CsvMain
<1>4. CASE k = "aws"
  BY <1>4 DEF AzureKinds, RunOf, FetchOf, StoreOf, MainOf, LastScope, Choose, AwsRun,
     AwsFetch, AwsStore, AwsMain
<1>5. CASE k = "llm"
  BY <1>5 DEF AzureKinds, RunOf, FetchOf, StoreOf, MainOf, LastScope, Choose, LlmRun,
     LlmFetch, LlmStore, LlmMain
<1>6. CASE k = "fx"
  BY <1>6 DEF AzureKinds, RunOf, FetchOf, StoreOf, MainOf, LastScope, Choose, FxRun,
     FxFetch, FxStore, FxMain
<1> QED
  BY <1>1, <1>2, <1>3, <1>4, <1>5, <1>6 DEF AzureKinds

\* Each row has a record id, whichever extractor stores it.
LEMMA IdType == ASSUME NEW k \in Kinds, NEW r \in Rows PROVE Id(k, r) \in Ids
<1>1. ProviderOf(k) \in Providers
  BY KindList DEF ProviderOf, Providers, AzureKinds
<1> QED
  BY <1>1, IdAssumption DEF Id

\* A health row is named after its extractor.
LEMMA NameType ==
  ASSUME NEW k \in Kinds, NEW s \in 1..NScopes
  PROVE  /\ OkName(k, s) \in Names /\ OkName(k, s)[1] = k
         /\ FailName(k, s) \in Names
BY ScopeAssumption DEF OkName, FailName, Names

\* A batch consists of good rows at hand, finitely many.
LEMMA BatchType ==
  ASSUME TypeOK, NEW p \in Procs, NEW batch \in Batches(p)
  PROVE  /\ batch \subseteq todo[p] /\ batch \subseteq Rows
         /\ IsFiniteSet(batch)
<1>1. batch \subseteq todo[p] /\ batch \subseteq Rows
  BY DEF Batches, Good, TypeOK
<1> QED
  BY <1>1, FS_Subset, BoundAssumption

\* What is in the tables stays there if every id keeps its record and every rate
\* stays positive.
LEMMA StoredStays ==
  ASSUME \A i \in Ids : table[i] # NoRecord => table'[i] # NoRecord,
         \A r \in Rows : rates[r] > 0 => rates'[r] > 0
  PROVE  \A k \in Kinds : \A r \in Rows : Stored(k, r) => Stored(k, r)'
BY IdType DEF Stored, Id

-----------------------------------------------------------------------------
(* The commit of a batch.                                                  *)

\* A committed batch adds records of billed rows under free ids, leaves all else
\* alone, and all of its rows are stored afterwards.
LEMMA CommitFacts ==
  ASSUME TypeOK, NEW p \in Procs, Hand(p), NEW batch \in Batches(p), Commit(p, batch)
  PROVE  /\ table' \in [Ids -> Records \cup {NoRecord}]
         /\ rates' \in [Rows -> 0..MaxBill]
         /\ added' \in [Procs -> SUBSET Ids]
         /\ \A i \in Ids : \/ table'[i] = table[i]
                           \/ /\ table[i] = NoRecord /\ table'[i] # NoRecord
                              /\ table'[i].row \in Rows
                              /\ IdOf[ProviderOf(kind[p])][table'[i].row] = i
                              /\ table'[i].amount \in 1..bill[table'[i].row]
         /\ \A k \in Kinds : \A r \in Rows : Stored(k, r) => Stored(k, r)'
         /\ kind' = kind => \A r \in batch : Stored(kind[p], r)'
         /\ \A q \in Procs \ {p} : added'[q] = added[q]
         /\ \/ added'[p] = added[p]
            \/ /\ added'[p] = added[p] \cup NewIds(p, batch)
               /\ \A i \in NewIds(p, batch) : table[i] = NoRecord /\ table'[i] # NoRecord
<1> DEFINE k == kind[p]
<1>k. k \in Kinds
  BY KindType
<1>b. batch \subseteq todo[p] /\ batch \subseteq Rows
  BY BatchType
<1>a. \A r \in batch : snap[p][r] \in 1..bill[r] /\ snap[p][r] \in 1..MaxBill
  BY <1>b, BoundAssumption DEF Hand, TypeOK
<1>1. CASE k = "fx"
  <2>1. /\ rates' = [r \in Rows |-> IF r \in batch THEN snap[p][r] ELSE rates[r]]
        /\ table' = table /\ added' = added
    BY <1>1 DEF Commit
  <2>2. \A r \in Rows : rates[r] > 0 => rates'[r] > 0
    BY <2>1, <1>a, BoundAssumption DEF TypeOK
  <2>3. \A l \in Kinds : \A r \in Rows : Stored(l, r) => Stored(l, r)'
    BY <2>1, <2>2, StoredStays
  <2>4. kind' = kind => \A r \in batch : Stored(kind[p], r)'
    BY <2>1, <1>a, <1>b, <1>1, BoundAssumption DEF Stored, TypeOK
  <2>5. rates' \in [Rows -> 0..MaxBill]
    BY <2>1, <1>a, BoundAssumption DEF TypeOK
  <2> QED
    BY <2>1, <2>3, <2>4, <2>5 DEF TypeOK
<1>2. CASE k # "fx"
  <2> DEFINE N == NewIds(p, batch)
  <2>1. PICK first \in [N -> batch] :
          /\ \A i \in N : Id(k, first[i]) = i
          /\ table' = [i \in Ids |-> IF i \in N THEN [row |-> first[i],
                                                      amount |-> snap[p][first[i]]]
                                     ELSE table[i]]
    BY <1>2 DEF Commit
  <2>2. added' = [added EXCEPT ![p] = @ \cup N] /\ rates' = rates
    BY <1>2 DEF Commit
  <2>3. N \subseteq Ids /\ \A i \in N : table[i] = NoRecord
    BY DEF NewIds
  <2>4. \A i \in N : /\ first[i] \in batch /\ first[i] \in Rows
                     /\ table'[i] = [row |-> first[i], amount |-> snap[p][first[i]]]
    BY <2>1, <2>3, <1>b
  <2>5. \A i \in N : table'[i] \in Records /\ table'[i] # NoRecord
    <3> SUFFICES ASSUME NEW i \in N PROVE table'[i] \in Records /\ table'[i] # NoRecord
      OBVIOUS
    <3>1. first[i] \in Rows /\ snap[p][first[i]] \in 1..MaxBill
      BY <2>4, <1>a
    <3> DEFINE a == snap[p][first[i]]
    <3>2. table'[i] = [row |-> first[i], amount |-> a]
      BY <2>4
    <3>3. a \in 1..MaxBill /\ a \in Nat
      BY <3>1, BoundAssumption
    <3> HIDE DEF a
    <3>4. table'[i] \in Records
      BY <3>1, <3>2, <3>3 DEF Records
    <3>5. table'[i] \in [row : Rows, amount : Nat]
      BY <3>1, <3>2, <3>3
    <3> QED
      BY <3>4, <3>5, NoRecordAssumption
  <2>6. \A i \in Ids \ N : table'[i] = table[i]
    BY <2>1
  <2>7. table' \in [Ids -> Records \cup {NoRecord}]
    BY <2>1, <2>5, <2>6 DEF TypeOK
  <2>8. \A i \in Ids : table[i] # NoRecord => table'[i] # NoRecord
    BY <2>3, <2>6
  <2>9. \A l \in Kinds : \A r \in Rows : Stored(l, r) => Stored(l, r)'
    BY <2>8, <2>2, StoredStays
  <2>10. ASSUME kind' = kind, NEW r \in batch PROVE Stored(kind[p], r)'
    <3>1. Id(k, r) \in Ids
      BY <1>k, <1>b, IdType
    <3>2. table'[Id(k, r)] # NoRecord
      BY <3>1, <2>5, <2>6 DEF NewIds
    <3> QED
      BY <3>2, <2>10, <1>2 DEF Stored, Id
  <2>11. ASSUME NEW i \in N
         PROVE  /\ table'[i].row \in Rows
                /\ IdOf[ProviderOf(kind[p])][table'[i].row] = i
                /\ table'[i].amount \in 1..bill[table'[i].row]
    <3>1. first[i] \in batch /\ first[i] \in Rows /\ Id(k, first[i]) = i
      BY <2>1, <2>4
    <3>2. snap[p][first[i]] \in 1..bill[first[i]]
      BY <3>1, <1>a
    <3> DEFINE a == snap[p][first[i]]
    <3>a. table'[i] = [row |-> first[i], amount |-> a]
      BY <2>4
    <3> HIDE DEF a
    <3>b. table'[i].row = first[i] /\ table'[i].amount = a
      BY <3>a
    <3> USE DEF a
    <3>3. table'[i].row = first[i] /\ table'[i].amount = snap[p][first[i]]
      BY <3>b
    <3> QED
      BY <3>1, <3>2, <3>3 DEF Id
  <2> QED
    BY <2>2, <2>3, <2>5, <2>6, <2>7, <2>9, <2>10, <2>11 DEF TypeOK
<1> QED
  BY <1>1, <1>2

\* An extractor adds no more records than the rows it sends.
LEMMA NewIdsBound ==
  ASSUME TypeOK, NEW p \in Procs, NEW batch \in Batches(p)
  PROVE  /\ IsFiniteSet(NewIds(p, batch))
         /\ Cardinality(NewIds(p, batch)) \in Nat
         /\ Cardinality(batch) \in Nat
         /\ Cardinality(NewIds(p, batch)) <= Cardinality(batch)
<1> DEFINE N == NewIds(p, batch)
           f == [i \in N |-> CHOOSE r \in batch : Id(kind[p], r) = i]
<1>1. IsFiniteSet(batch)
  BY BatchType
<1>2. \A i \in N : f[i] \in batch /\ Id(kind[p], f[i]) = i
  BY DEF NewIds
<1>3. f \in Injection(N, batch)
  BY <1>2 DEF Injection, IsInjective
<1> HIDE DEF f
<1>4. IsFiniteSet(N) /\ Cardinality(N) <= Cardinality(batch)
  BY <1>1, <1>3, FS_Injection
<1> QED
  BY <1>1, <1>4, FS_CardinalityType

-----------------------------------------------------------------------------
(* What a step leaves alone.                                               *)

\* The step does not touch process q.
Same(q) == /\ pc'[q] = pc[q] /\ at'[q] = at[q] /\ exit'[q] = exit[q]
           /\ todo'[q] = todo[q] /\ snap'[q] = snap[q] /\ seen'[q] = seen[q]
           /\ added'[q] = added[q] /\ count'[q] = count[q]

\* Bills only grow and nothing leaves the tables.
Grows == /\ \A r \in Rows : bill[r] <= bill'[r]
         /\ \A i \in Ids : table[i] # NoRecord => table'[i] # NoRecord
         /\ \A r \in Rows : rates[r] > 0 => rates'[r] > 0

\* A health row that the step writes says 'success' of stored rows only.
HonestHealth == \A n \in Names : \/ health'[n] = health[n]
                                 \/ health'[n].status # "success"
                                 \/ \A r \in health'[n].rows : Stored(n[1], r)'

\* The other processes keep their part of the invariant.
LEMMA OthersKeep ==
  ASSUME TypeOK, TypeOK', kind' = kind, Grows, NEW q \in Procs, Same(q), ProcInv(q)
  PROVE  ProcInv(q)'
<1>k. kind[q] \in Kinds
  BY KindType
<1>s. \A r \in Rows : Stored(kind[q], r) => Stored(kind[q], r)'
  BY <1>k, IdType DEF Grows, Stored, Id
<1>0. todo[q] \subseteq Rows /\ seen[q] \subseteq Rows /\ added[q] \subseteq Ids
  BY DEF TypeOK
<1>1. Hand(q)'
  <2>1. \A r \in todo[q] : snap[q][r] \in Nat /\ bill[r] \in Nat /\ bill'[r] \in Nat
    BY <1>0, BoundAssumption DEF TypeOK
  <2>2. \A r \in todo[q] : bill[r] <= bill'[r]
    BY <1>0 DEF Grows
  <2> QED
    BY <2>1, <2>2 DEF Hand, ProcInv, Same, RowsAt
<1>2. SeenState(q)'
  <2>1. Owed(q)' = Owed(q)
    BY DEF Owed, Same, RowsAt
  <2> QED
    BY <1>s, <1>0, <2>1 DEF SeenState, ProcInv, Same
<1>3. CountState(q)'
  BY <1>0 DEF CountState, ProcInv, Same, Grows
<1> QED
  BY <1>1, <1>2, <1>3 DEF ProcInv

\* What is left to show of a step.
LEMMA Assemble ==
  ASSUME IInv, TypeOK', kind' = kind, Grows, HonestHealth,
         \A q \in Procs : Same(q) \/ ProcInv(q)'
  PROVE  IInv'
<1>1. \A q \in Procs : ProcInv(q)'
  BY OthersKeep DEF IInv
<1>2. SuccessIsComplete'
  <2> SUFFICES ASSUME NEW n \in Names, health'[n].status = "success",
                      NEW r \in health'[n].rows
               PROVE  Stored(n[1], r)'
    BY DEF SuccessIsComplete
  <2>1. CASE health'[n] = health[n]
    <3>1. Stored(n[1], r)
      BY <2>1 DEF IInv, SuccessIsComplete
    <3>2. n[1] \in Kinds /\ r \in Rows
      BY <2>1 DEF IInv, TypeOK, Names
    <3> QED
      BY <3>1, <3>2, StoredStays DEF Grows
  <2> QED
    BY <2>1 DEF HonestHealth
<1> QED
  BY <1>1, <1>2 DEF IInv

-----------------------------------------------------------------------------
(* How a run ends.                                                         *)

\* The types of what a process keeps, apart from seen.
ProcTypes ==
  /\ pc \in [Procs -> PCs] /\ at \in [Procs -> 1..NScopes] /\ tries \in [Procs -> 0..3]
  /\ todo \in [Procs -> SUBSET Rows] /\ snap \in [Procs -> [Rows -> 0..MaxBill]]
  /\ added \in [Procs -> SUBSET Ids] /\ count \in [Procs -> Nat]
  /\ exit \in [Procs -> {"none", "zero", "one", "killed"}]

\* All of Same(q) but seen.
Apart(q) == /\ pc'[q] = pc[q] /\ at'[q] = at[q] /\ exit'[q] = exit[q]
            /\ todo'[q] = todo[q] /\ snap'[q] = snap[q]
            /\ added'[q] = added[q] /\ count'[q] = count[q]

\* Nothing is at hand and nothing is counted after a reset.
LEMMA ResetFacts ==
  ASSUME TypeOK, NEW p \in Procs, ResetScope(p)
  PROVE  /\ tries' \in [Procs -> 0..3] /\ todo' \in [Procs -> SUBSET Rows]
         /\ snap' \in [Procs -> [Rows -> 0..MaxBill]]
         /\ added' \in [Procs -> SUBSET Ids] /\ count' \in [Procs -> Nat]
         /\ todo'[p] = {} /\ added'[p] = {} /\ count'[p] = 0
         /\ CountState(p)'
         /\ \A q \in Procs \ {p} : /\ todo'[q] = todo[q] /\ snap'[q] = snap[q]
                                   /\ added'[q] = added[q] /\ count'[q] = count[q]
<1>1. todo'[p] = {} /\ added'[p] = {} /\ count'[p] = 0
  BY DEF ResetScope, TypeOK
<1>2. snap' \in [Procs -> [Rows -> 0..MaxBill]]
  BY BoundAssumption DEF ResetScope, TypeOK
<1>3. CountState(p)'
  BY <1>1, FS_EmptySet DEF CountState
<1> QED
  BY <1>1, <1>2, <1>3 DEF ResetScope, TypeOK

\* After an exit a process is idle; an exit with 0 needs all it has seen stored.
LEMMA ExitFacts ==
  ASSUME TypeOK, NEW p \in Procs, NEW status \in {"zero", "one", "killed"},
         Exit(p, status)
  PROVE  /\ ProcTypes' /\ Hand(p)' /\ CountState(p)'
         /\ \A q \in Procs \ {p} : Apart(q)
         /\ (status = "zero" => \A r \in seen'[p] : Stored(kind[p], r)') => SeenState(p)'
<1>1. /\ pc' = [pc EXCEPT ![p] = "idle"] /\ exit' = [exit EXCEPT ![p] = status]
      /\ at' = at /\ ResetScope(p)
  BY DEF Exit
<1>2. /\ tries' \in [Procs -> 0..3] /\ todo' \in [Procs -> SUBSET Rows]
      /\ snap' \in [Procs -> [Rows -> 0..MaxBill]]
      /\ added' \in [Procs -> SUBSET Ids] /\ count' \in [Procs -> Nat]
      /\ todo'[p] = {} /\ CountState(p)'
      /\ \A q \in Procs \ {p} : /\ todo'[q] = todo[q] /\ snap'[q] = snap[q]
                                /\ added'[q] = added[q] /\ count'[q] = count[q]
  BY <1>1, ResetFacts
<1>3. pc'[p] = "idle" /\ exit'[p] = status
  BY <1>1 DEF TypeOK
<1>4. Hand(p)'
  BY <1>2, <1>3 DEF Hand
<1>5. ProcTypes'
  BY <1>1, <1>2 DEF ProcTypes, TypeOK, PCs
<1>6. \A q \in Procs \ {p} : Apart(q)
  BY <1>1, <1>2 DEF Apart, TypeOK
<1>7. (status = "zero" => \A r \in seen'[p] : Stored(kind[p], r)') => SeenState(p)'
  BY <1>3 DEF SeenState
<1> QED
  BY <1>2, <1>4, <1>5, <1>6, <1>7

\* So does moving on to the next scope, or exiting after the last one.
LEMMA NextScopeFacts ==
  ASSUME TypeOK, NEW p \in Procs, NextScope(p), exit[p] = "none"
  PROVE  /\ ProcTypes' /\ Hand(p)' /\ CountState(p)'
         /\ \A q \in Procs \ {p} : Apart(q)
         /\ (\A r \in seen'[p] : Stored(kind[p], r)') => SeenState(p)'
<1>1. CASE Exit(p, "zero")
  BY <1>1, ExitFacts
<1>2. CASE /\ at[p] < LastScope(kind[p])
           /\ at' = [at EXCEPT ![p] = @ + 1]
           /\ pc' = [pc EXCEPT ![p] = "fetch"]
           /\ ResetScope(p)
           /\ UNCHANGED exit
  <2>1. LastScope(kind[p]) \in 1..NScopes
    BY KindType, Policies
  <2>2. at' \in [Procs -> 1..NScopes]
    BY <1>2, <2>1, ScopeAssumption DEF TypeOK
  <2>3. /\ tries' \in [Procs -> 0..3] /\ todo' \in [Procs -> SUBSET Rows]
        /\ snap' \in [Procs -> [Rows -> 0..MaxBill]]
        /\ added' \in [Procs -> SUBSET Ids] /\ count' \in [Procs -> Nat]
        /\ todo'[p] = {} /\ CountState(p)'
        /\ \A q \in Procs \ {p} : /\ todo'[q] = todo[q] /\ snap'[q] = snap[q]
                                  /\ added'[q] = added[q] /\ count'[q] = count[q]
    BY <1>2, ResetFacts
  <2>4. pc'[p] = "fetch" /\ exit'[p] = "none"
    BY <1>2 DEF TypeOK
  <2>5. Hand(p)'
    BY <2>3, <2>4 DEF Hand
  <2>6. ProcTypes'
    BY <1>2, <2>2, <2>3 DEF ProcTypes, TypeOK, PCs
  <2>7. \A q \in Procs \ {p} : Apart(q)
    BY <1>2, <2>3 DEF Apart, TypeOK
  <2>8. (\A r \in seen'[p] : Stored(kind[p], r)') => SeenState(p)'
    BY <2>4 DEF SeenState
  <2> QED
    BY <2>3, <2>5, <2>6, <2>7, <2>8
<1> QED
  BY <1>1, <1>2 DEF NextScope

\* Initially no process is at work and nothing is stored.
LEMMA InitIInv == Init => IInv
<1> SUFFICES ASSUME Init PROVE IInv
  OBVIOUS
<1>1. TypeOK
  BY BoundAssumption, ScopeAssumption DEF Init, TypeOK, PCs
<1>2. SuccessIsComplete
  BY DEF Init, SuccessIsComplete
<1>3. ASSUME NEW p \in Procs PROVE ProcInv(p)
  <2>1. Hand(p) /\ SeenState(p)
    BY DEF Init, Hand, SeenState
  <2>2. CountState(p)
    BY FS_EmptySet DEF Init, CountState
  <2> QED
    BY <2>1, <2>2 DEF ProcInv
<1> QED
  BY <1>1, <1>2, <1>3 DEF IInv

-----------------------------------------------------------------------------
(* Steps that leave the bills and the tables alone.                        *)

Quiet == UNCHANGED <<bill, table, rates, kind>>
HealthRows == [Names -> [status : {"none", "running", "success", "failed"},
                         count : Nat, rows : SUBSET Rows]]

\* What is left to show of such a step.
LEMMA QuietStep ==
  ASSUME IInv, NEW p \in Procs, Quiet, ProcTypes', seen' \in [Procs -> SUBSET Rows],
         health' \in HealthRows, HonestHealth, faults' \in 0..MaxFaults,
         \A q \in Procs \ {p} : Same(q), ProcInv(p)'
  PROVE  IInv'
<1>1. TypeOK'
  BY DEF IInv, TypeOK, ProcTypes, Quiet, HealthRows
<1>2. Grows
  <2>1. \A r \in Rows : bill[r] \in 0..MaxBill
    BY DEF IInv, TypeOK
  <2> QED
    BY <2>1, BoundAssumption DEF Grows, Quiet
<1>3. \A q \in Procs : Same(q) \/ ProcInv(q)'
  OBVIOUS
<1>4. kind' = kind
  BY DEF Quiet
<1> QED
  BY <1>1, <1>2, <1>3, <1>4, Assemble

\* What is stored stays stored.
LEMMA QuietStored ==
  ASSUME Quiet, NEW p \in Procs, NEW r \in Rows
  PROVE  Stored(kind[p], r)' <=> Stored(kind[p], r)
BY DEF Quiet, Stored, Id

\* A process only moves its program counter.
LEMMA GotoFacts ==
  ASSUME IInv, NEW p \in Procs, NEW step \in PCs \ {"idle", "fetch", "start"}, Goto(p, step),
         pc[p] # "idle", UNCHANGED <<kind, at, exit, scopeVars, seen>>,
         \A r \in todo[p] : bill'[r] = bill[r]
  PROVE  /\ ProcTypes' /\ Hand(p)' /\ pc'[p] = step
         /\ \A q \in Procs \ {p} : Same(q)
<1>1. pc' = [pc EXCEPT ![p] = step] /\ pc'[p] = step
  BY DEF Goto, IInv, TypeOK
<1>2. ProcTypes'
  BY <1>1 DEF IInv, TypeOK, ProcTypes, scopeVars
<1>3. Hand(p)'
  <2>1. Hand(p)
    BY DEF IInv, ProcInv
  <2> QED
    BY <2>1, <1>1 DEF Hand, scopeVars, RowsAt
<1>4. \A q \in Procs \ {p} : Same(q)
  BY <1>1 DEF Same, scopeVars, IInv, TypeOK
<1> QED
  BY <1>1, <1>2, <1>3, <1>4

\* The launch of a run.
LEMMA LaunchKeeps == ASSUME IInv, NEW p \in Procs, Launch(p) PROVE IInv'
<1> USE DEF IInv
<1>1. kind[p] \in Kinds /\ RunOf(kind[p]).first \in {"fetch", "start"}
  BY KindType, Policies
<1> DEFINE f == RunOf(kind[p]).first
<1>2. /\ pc[p] = "idle" /\ pc' = [pc EXCEPT ![p] = f]
      /\ at' = [at EXCEPT ![p] = 1] /\ seen' = [seen EXCEPT ![p] = {}]
      /\ exit' = [exit EXCEPT ![p] = "none"]
      /\ UNCHANGED <<health, faults, tries, todo, snap, added, count>> /\ Quiet
  BY DEF Launch, Goto, scopeVars, Quiet
<1>3. ProcTypes' /\ seen' \in [Procs -> SUBSET Rows]
  BY <1>1, <1>2, ScopeAssumption DEF ProcTypes, TypeOK, PCs
<1>4. \A q \in Procs \ {p} : Same(q)
  BY <1>2 DEF Same, TypeOK
<1>5. todo[p] = {} /\ pc'[p] = f /\ seen'[p] = {} /\ exit'[p] = "none" /\ kind'[p] = kind[p]
  BY <1>2 DEF ProcInv, Hand, TypeOK, Quiet
<1>6. Hand(p)'
  BY <1>2, <1>5 DEF Hand
<1>7. SeenState(p)'
  BY <1>5 DEF SeenState
<1>8. CountState(p)'
  <2>1. CountState(p) /\ table' = table /\ f # "idle"
    BY <1>1, <1>2 DEF ProcInv, Quiet
  <2> QED
    BY <2>1, <1>2, <1>5 DEF CountState
<1>9. health' \in HealthRows /\ HonestHealth /\ faults' \in 0..MaxFaults
  BY <1>2 DEF TypeOK, HealthRows, HonestHealth
<1> QED
  BY <1>2, <1>3, <1>4, <1>6, <1>7, <1>8, <1>9, QuietStep DEF ProcInv

\* A launch that ends at once.
LEMMA MisconfiguredKeeps == ASSUME IInv, NEW p \in Procs, LaunchMisconfigured(p) PROVE IInv'
<1> USE DEF IInv
<1>1. PICK status \in {"zero", "one"} : exit' = [exit EXCEPT ![p] = status]
  BY DEF LaunchMisconfigured
<1>2. /\ pc[p] = "idle" /\ seen' = [seen EXCEPT ![p] = {}] /\ Fault
      /\ UNCHANGED <<health, pc, at, tries, todo, snap, added, count>> /\ Quiet
  BY DEF LaunchMisconfigured, scopeVars, Quiet
<1>3. ProcTypes' /\ seen' \in [Procs -> SUBSET Rows]
  BY <1>1, <1>2 DEF ProcTypes, TypeOK
<1>4. \A q \in Procs \ {p} : Same(q)
  BY <1>1, <1>2 DEF Same, TypeOK
<1>5. todo[p] = {} /\ pc'[p] = "idle" /\ seen'[p] = {}
  BY <1>2 DEF ProcInv, Hand, TypeOK
<1>6. Hand(p)' /\ SeenState(p)'
  BY <1>2, <1>5 DEF Hand, SeenState
<1>7. CountState(p)'
  <2>1. CountState(p) /\ table' = table /\ kind' = kind
    BY <1>2 DEF ProcInv, Quiet
  <2> QED
    BY <2>1, <1>2 DEF CountState
<1>8. health' \in HealthRows /\ HonestHealth /\ faults' \in 0..MaxFaults
  BY <1>2, BoundAssumption DEF TypeOK, HealthRows, HonestHealth, Fault
<1> QED
  BY <1>2, <1>3, <1>4, <1>6, <1>7, <1>8, QuietStep DEF ProcInv

\* Rows that arrive are at hand, and seen; before, everything seen was stored.
LEMMA FetchKeeps == ASSUME IInv, NEW p \in Procs, Fetch(p) PROVE IInv'
<1> DEFINE k == kind[p]
           rows == Listed(k, at[p])
           good == Good(k, rows)
           held == {r \in rows : Quality[k][r] # "skip"}
           amounts == [r \in Rows |-> IF r \in rows THEN bill[r] ELSE 0]
           step == IF good = {} THEN RunOf(k).nothing ELSE RunOf(k).next
<1>1. /\ pc[p] = "fetch" /\ (RunOf(k).nothing = "exit" => good # {})
      /\ todo' = [todo EXCEPT ![p] = held]
      /\ snap' = [snap EXCEPT ![p] = amounts]
      /\ seen' = [seen EXCEPT ![p] = @ \cup good]
      /\ pc' = [pc EXCEPT ![p] = step]
      /\ UNCHANGED <<health, at, tries, added, count, exit, faults>> /\ Quiet
  BY DEF Fetch, Goto, Quiet
<1>2. k \in Kinds /\ TypeOK /\ ProcInv(p)
  BY KindType DEF IInv
<1>3. /\ step \in {"start", "insert", "finish"}
      /\ good # {} => step \in {"start", "insert"}
      /\ RunOf(k).first = "start" => step # "start"
  BY <1>1, <1>2, Policies
<1>4. /\ rows \subseteq Rows /\ rows \subseteq RowsAt(k, at[p])
      /\ \A r \in rows : bill[r] \in 1..MaxBill
  BY <1>2, BoundAssumption DEF Listed, RowsAt, TypeOK
<1>5. good \subseteq held /\ held \subseteq rows /\ good \subseteq rows
  BY DEF Good
<1>6. amounts \in [Rows -> 0..MaxBill]
  BY <1>2, BoundAssumption DEF TypeOK
<1>7. \A r \in held : amounts[r] = bill[r]
  BY <1>4, <1>5
<1> HIDE DEF rows, good, held, amounts, step
<1>8. /\ todo'[p] = held /\ snap'[p] = amounts /\ seen'[p] = seen[p] \cup good
      /\ pc'[p] = step /\ kind' = kind /\ bill' = bill /\ exit'[p] = exit[p]
  BY <1>1, <1>2 DEF TypeOK, Quiet
<1>9. ProcTypes' /\ seen' \in [Procs -> SUBSET Rows]
  <2>1. todo' \in [Procs -> SUBSET Rows] /\ snap' \in [Procs -> [Rows -> 0..MaxBill]]
    BY <1>1, <1>2, <1>4, <1>5, <1>6 DEF TypeOK
  <2>2. seen' \in [Procs -> SUBSET Rows] /\ pc' \in [Procs -> PCs]
    BY <1>1, <1>2, <1>3, <1>4, <1>5 DEF TypeOK, PCs
  <2> QED
    BY <1>1, <1>2, <2>1, <2>2 DEF TypeOK, ProcTypes
<1>10. \A q \in Procs \ {p} : Same(q)
  BY <1>1, <1>2 DEF Same, TypeOK
<1>11. Hand(p)'
  <2>1. exit'[p] = "none"
    BY <1>1, <1>2, <1>8 DEF ProcInv, Hand
  <2>2. \A r \in held : amounts[r] >= 1 /\ amounts[r] <= bill[r]
    BY <1>4, <1>5, <1>7, BoundAssumption
  <2>3. held \subseteq RowsAt(k, at[p]) /\ at' = at
    BY <1>1, <1>4, <1>5
  <2> QED
    BY <2>1, <2>2, <2>3, <1>3, <1>8 DEF Hand, RowsAt
<1>12. SeenState(p)'
  <2>1. \A r \in seen[p] : Stored(kind[p], r)
    BY <1>1, <1>2 DEF ProcInv, SeenState, Owed
  <2>2. \A r \in seen[p] : Stored(kind[p], r)'
    BY <2>1, <1>1, <1>2, QuietStored DEF TypeOK
  <2>3. \A r \in good : r \in Owed(p)'
    BY <1>3, <1>5, <1>8 DEF Owed
  <2>4. exit'[p] # "zero"
    BY <1>1, <1>2, <1>8 DEF ProcInv, Hand
  <2> QED
    BY <2>2, <2>3, <2>4, <1>8 DEF SeenState
<1>13. CountState(p)'
  <2>1. CountState(p) /\ table' = table
    BY <1>1, <1>2 DEF ProcInv, Quiet
  <2> QED
    BY <2>1, <1>1, <1>3, <1>8 DEF CountState
<1>14. health' \in HealthRows /\ HonestHealth /\ faults' \in 0..MaxFaults
  BY <1>1, <1>2 DEF TypeOK, HealthRows, HonestHealth
<1> QED
  BY <1>1, <1>9, <1>10, <1>11, <1>12, <1>13, <1>14, QuietStep DEF ProcInv

\* A process that exits owes nothing, or does not exit with 0.
LEMMA ExitKeeps ==
  ASSUME IInv, NEW p \in Procs, NEW status \in {"zero", "one", "killed"}, Exit(p, status),
         Quiet, seen' = seen, faults' \in 0..MaxFaults, health' \in HealthRows, HonestHealth,
         status = "zero" => pc[p] \in {"fetch", "finish"}
  PROVE  IInv'
<1>1. TypeOK /\ ProcInv(p)
  BY DEF IInv
<1>2. /\ ProcTypes' /\ Hand(p)' /\ CountState(p)'
      /\ \A q \in Procs \ {p} : Apart(q)
      /\ (status = "zero" => \A r \in seen'[p] : Stored(kind[p], r)') => SeenState(p)'
  BY <1>1, ExitFacts
<1>3. ASSUME status = "zero" PROVE \A r \in seen'[p] : Stored(kind[p], r)'
  <2>1. \A r \in seen[p] : Stored(kind[p], r)
    BY <1>1, <1>3 DEF ProcInv, SeenState, Owed
  <2> QED
    BY <2>1, <1>1, QuietStored DEF TypeOK
<1>4. \A q \in Procs \ {p} : Same(q)
  BY <1>2 DEF Apart, Same
<1>5. seen' \in [Procs -> SUBSET Rows]
  BY <1>1 DEF TypeOK
<1> QED
  BY <1>2, <1>3, <1>4, <1>5, QuietStep DEF ProcInv

\* A scope that failed owes all its rows.
LEMMA FailedKeeps ==
  ASSUME IInv, NEW p \in Procs, Goto(p, "failed"), pc[p] # "idle", Quiet,
         UNCHANGED <<at, exit, scopeVars, seen>>,
         faults' \in 0..MaxFaults, health' \in HealthRows, HonestHealth
  PROVE  IInv'
<1>1. TypeOK /\ ProcInv(p)
  BY DEF IInv
<1>2. ProcTypes' /\ Hand(p)' /\ pc'[p] = "failed" /\ \A q \in Procs \ {p} : Same(q)
  <2>1. "failed" \in PCs \ {"idle", "fetch", "start"} /\ kind' = kind /\ bill' = bill
    BY DEF PCs, Quiet
  <2> QED
    BY <2>1, GotoFacts
<1>3. SeenState(p)'
  <2>1. \A r \in seen[p] : Stored(kind[p], r) \/ r \in RowsAt(kind[p], at[p])
    BY <1>1 DEF ProcInv, SeenState, Owed, Hand
  <2>2. \A r \in seen[p] : Stored(kind[p], r)' \/ r \in RowsAt(kind[p], at[p])
    BY <2>1, <1>1, QuietStored DEF TypeOK
  <2>3. exit'[p] = "none" /\ seen'[p] = seen[p] /\ at' = at /\ kind' = kind
    BY <1>1 DEF ProcInv, Hand, Quiet
  <2>4. Owed(p)' = RowsAt(kind[p], at[p])
    BY <1>2, <2>3 DEF Owed, RowsAt
  <2> QED
    BY <2>2, <2>3, <2>4 DEF SeenState
<1>4. CountState(p)'
  <2>1. CountState(p) /\ table' = table
    BY <1>1 DEF ProcInv, Quiet
  <2> QED
    BY <2>1, <1>2 DEF CountState, scopeVars
<1>5. seen' \in [Procs -> SUBSET Rows]
  BY <1>1 DEF TypeOK
<1> QED
  BY <1>2, <1>3, <1>4, <1>5, QuietStep DEF ProcInv

\* The steps before anything is inserted.
LEMMA RetryKeeps == ASSUME IInv, NEW p \in Procs, RetryFetch(p) PROVE IInv'
<1>1. /\ tries[p] + 1 < FetchOf(kind[p]).attempts /\ Fault
      /\ tries' = [tries EXCEPT ![p] = @ + 1]
      /\ UNCHANGED <<health, pc, at, todo, snap, seen, added, count, exit>> /\ Quiet
  BY DEF RetryFetch, Quiet
<1>2. TypeOK /\ \A q \in Procs : ProcInv(q)
  BY DEF IInv
<1>3. FetchOf(kind[p]).attempts \in 1..4
  BY <1>2, KindType, Policies
<1>4. tries' \in [Procs -> 0..3]
  <2> DEFINE m == FetchOf(kind[p]).attempts
             t == tries[p]
  <2>1. m \in 1..4 /\ t \in 0..3 /\ t + 1 < m
    BY <1>1, <1>2, <1>3 DEF TypeOK
  <2> HIDE DEF m, t
  <2>2. t + 1 \in 0..3
    BY <2>1
  <2> QED
    BY <1>1, <1>2, <2>2 DEF TypeOK, t
<1>5. ProcTypes' /\ seen' \in [Procs -> SUBSET Rows]
  BY <1>1, <1>2, <1>4 DEF TypeOK, ProcTypes
<1>6. /\ health' \in HealthRows /\ HonestHealth /\ faults' \in 0..MaxFaults
      /\ \A q \in Procs : Same(q)
  BY <1>1, <1>2, BoundAssumption DEF TypeOK, HealthRows, HonestHealth, Fault, Same
<1>7. TypeOK' /\ kind' = kind /\ Grows
  BY <1>1, <1>2, <1>5, <1>6, BoundAssumption DEF TypeOK, ProcTypes, Quiet, HealthRows, Grows
<1> QED
  BY <1>6, <1>7, Assemble

\* A fetch that is given up ends the process or fails the scope.
LEMMA AbortKeeps ==
  ASSUME IInv, NEW p \in Procs, pc[p] = "fetch", AbortFetch(p), faults' \in 0..MaxFaults
  PROVE  IInv'
<1>1. Quiet /\ seen' = seen /\ health' \in HealthRows /\ HonestHealth
  BY DEF AbortFetch, Quiet, HonestHealth, HealthRows, IInv, TypeOK
<1>2. CASE Exit(p, "one")
  BY <1>1, <1>2, ExitKeeps
<1>3. CASE Goto(p, "failed") /\ UNCHANGED <<at, exit, scopeVars>>
  BY <1>1, <1>3, FailedKeeps
<1> QED
  BY <1>2, <1>3 DEF AbortFetch

\* The ways a fetch ends without rows at hand.
LEMMA FetchEndsKeep ==
  ASSUME IInv, NEW p \in Procs, FetchNothing(p) \/ RowRaises(p) \/ GiveUpFetch(p)
  PROVE  IInv'
<1>1. faults \in 0..MaxFaults /\ MaxFaults \in Nat
  BY BoundAssumption DEF IInv, TypeOK
<1>2. CASE FetchNothing(p)
  <2>1. Quiet /\ seen' = seen /\ health' \in HealthRows /\ HonestHealth /\ faults' = faults
    BY <1>2 DEF FetchNothing, Quiet, HonestHealth, HealthRows, IInv, TypeOK
  <2> QED
    BY <1>1, <1>2, <2>1, ExitKeeps DEF FetchNothing
<1>3. CASE RowRaises(p)
  BY <1>1, <1>3, AbortKeeps DEF RowRaises
<1>4. CASE GiveUpFetch(p)
  <2>1. faults' \in 0..MaxFaults
    BY <1>1, <1>4 DEF GiveUpFetch, Fault
  <2> QED
    BY <2>1, <1>4, AbortKeeps DEF GiveUpFetch
<1> QED
  BY <1>2, <1>3, <1>4

\* A kill.
LEMMA KillKeeps == ASSUME IInv, NEW p \in Procs, Kill(p) PROVE IInv'
<1>1. Quiet /\ seen' = seen /\ health' \in HealthRows /\ HonestHealth
  BY DEF Kill, Quiet, HonestHealth, HealthRows, IInv, TypeOK
<1>2. faults' \in 0..MaxFaults /\ Exit(p, "killed")
  BY BoundAssumption DEF Kill, Fault, IInv, TypeOK
<1> QED
  BY <1>1, <1>2, ExitKeeps

\* A row that gcp cannot normalise.
LEMMA NormaliseRaisesKeeps == ASSUME IInv, NEW p \in Procs, NormaliseRaises(p) PROVE IInv'
<1>1. Quiet /\ health' \in HealthRows /\ HonestHealth /\ faults' \in 0..MaxFaults
  BY DEF NormaliseRaises, Quiet, HonestHealth, HealthRows, IInv, TypeOK
<1>2. /\ Goto(p, "failed") /\ pc[p] # "idle" /\ UNCHANGED <<at, exit, scopeVars, seen>>
  BY DEF NormaliseRaises
<1> QED
  BY <1>1, <1>2, FailedKeeps

\* The mark at the start says 'running', which claims nothing.
LEMMA MarkStartKeeps == ASSUME IInv, NEW p \in Procs, MarkStart(p) PROVE IInv'
<1> DEFINE name == OkName(kind[p], at[p])
           mark == [status |-> "running", count |-> 0, rows |-> {}]
           step == IF RunOf(kind[p]).first = "start" THEN "fetch"
                   ELSE IF todo[p] = {} THEN "finish" ELSE "insert"
<1>1. /\ pc[p] = "start" /\ health' = [health EXCEPT ![name] = mark]
      /\ pc' = [pc EXCEPT ![p] = step]
      /\ UNCHANGED <<at, tries, todo, snap, added, count, seen, exit, faults>> /\ Quiet
  BY DEF MarkStart, Goto, Quiet, scopeVars
<1>2. TypeOK /\ ProcInv(p) /\ kind[p] \in Kinds
  BY KindType DEF IInv
<1>3. health' \in HealthRows /\ HonestHealth
  <2>1. name \in Names
    BY <1>2, NameType DEF TypeOK
  <2>2. mark \in [status : {"none", "running", "success", "failed"},
                  count : Nat, rows : SUBSET Rows]
    OBVIOUS
  <2>3. mark.status # "success" /\ health \in HealthRows
    BY <1>2 DEF TypeOK, HealthRows
  <2> HIDE DEF name, mark
  <2> QED
    BY <1>1, <2>1, <2>2, <2>3 DEF HealthRows, HonestHealth
<1>4. /\ step \in {"fetch", "finish", "insert"} /\ (step # "insert" => todo[p] = {})
  BY <1>1, <1>2 DEF ProcInv, Hand
<1> HIDE DEF step, name, mark
<1>5. pc'[p] = step /\ exit[p] = "none" /\ kind' = kind /\ bill' = bill
  BY <1>1, <1>2 DEF TypeOK, ProcInv, Hand, Quiet
<1>6. ProcTypes' /\ seen' \in [Procs -> SUBSET Rows] /\ faults' \in 0..MaxFaults
  BY <1>1, <1>2, <1>4 DEF TypeOK, ProcTypes, PCs
<1>7. \A q \in Procs \ {p} : Same(q)
  BY <1>1, <1>2 DEF Same, TypeOK
<1>8. Hand(p)'
  BY <1>1, <1>2, <1>4, <1>5 DEF ProcInv, Hand, RowsAt
<1>9. SeenState(p)'
  <2>1. \A r \in seen[p] : Stored(kind[p], r) \/ r \in todo[p]
    BY <1>1, <1>2 DEF ProcInv, SeenState, Owed
  <2>2. \A r \in seen[p] : Stored(kind[p], r)' \/ r \in todo[p]
    BY <2>1, <1>1, <1>2, QuietStored DEF TypeOK
  <2>3. \A r \in todo[p] : r \in Owed(p)'
    BY <1>1, <1>4, <1>5 DEF Owed
  <2> QED
    BY <2>2, <2>3, <1>1, <1>5 DEF SeenState
<1>10. CountState(p)'
  <2>1. CountState(p) /\ table' = table
    BY <1>1, <1>2 DEF ProcInv, Quiet
  <2> QED
    BY <2>1, <1>1, <1>4, <1>5 DEF CountState
<1> QED
  BY <1>1, <1>3, <1>6, <1>7, <1>8, <1>9, <1>10, QuietStep DEF ProcInv

\* The mark at the start fails, and llm goes on without it.
LEMMA StartFailsKeeps == ASSUME IInv, NEW p \in Procs, StartFails(p) PROVE IInv'
<1>1. /\ pc[p] = "start" /\ Quiet /\ seen' = seen
      /\ health' \in HealthRows /\ HonestHealth
  BY DEF StartFails, Quiet, HonestHealth, HealthRows, IInv, TypeOK
<1>2. faults' \in 0..MaxFaults
  BY BoundAssumption DEF StartFails, Fault, IInv, TypeOK
<1>3. CASE Exit(p, "one")
  BY <1>1, <1>2, <1>3, ExitKeeps
<1>4. CASE Goto(p, "insert") /\ UNCHANGED <<at, exit, scopeVars>>
  <2>1. ProcTypes' /\ Hand(p)' /\ pc'[p] = "insert" /\ \A q \in Procs \ {p} : Same(q)
    <3>1. "insert" \in PCs \ {"idle", "fetch", "start"} /\ kind' = kind /\ bill' = bill
      BY <1>1 DEF PCs, Quiet
    <3> QED
      BY <3>1, <1>1, <1>4, GotoFacts
  <2>2. TypeOK /\ ProcInv(p) /\ seen' \in [Procs -> SUBSET Rows]
    BY <1>1 DEF IInv, TypeOK
  <2>3. SeenState(p)'
    <3>1. \A r \in seen[p] : Stored(kind[p], r) \/ r \in todo[p]
      BY <1>1, <2>2 DEF ProcInv, SeenState, Owed
    <3>2. \A r \in seen[p] : Stored(kind[p], r)' \/ r \in todo[p]
      BY <3>1, <1>1, <2>2, QuietStored DEF TypeOK
    <3>3. exit'[p] = "none" /\ seen'[p] = seen[p] /\ Owed(p)' = todo[p]
      BY <1>1, <1>4, <2>1, <2>2 DEF ProcInv, Hand, Owed, scopeVars
    <3> QED
      BY <3>2, <3>3 DEF SeenState
  <2>4. CountState(p)'
    <3>1. CountState(p) /\ table' = table /\ kind' = kind
      BY <1>1, <2>2 DEF ProcInv, Quiet
    <3> QED
      BY <3>1, <1>1, <1>4, <2>1 DEF CountState, scopeVars
  <2> QED
    BY <1>1, <1>2, <2>1, <2>2, <2>3, <2>4, QuietStep DEF ProcInv
<1> QED
  BY <1>3, <1>4 DEF StartFails

-----------------------------------------------------------------------------
(* The end of a scope.                                                     *)

\* A mark of extractor_health replaces one row, or nothing.
LEMMA MarkFacts ==
  ASSUME IInv, NEW p \in Procs, NEW name \in Names,
         NEW mark \in [status : {"none", "running", "success", "failed"},
                       count : Nat, rows : SUBSET Rows],
         health' = Mark(p, name, mark),
         mark.status = "success" => \A r \in mark.rows : Stored(name[1], r)'
  PROVE  health' \in HealthRows /\ HonestHealth
<1>1. health \in HealthRows
  BY DEF IInv, TypeOK, HealthRows
<1>2. health' = health \/ health' = [health EXCEPT ![name] = mark]
  BY DEF Mark
<1> QED
  BY <1>1, <1>2 DEF HealthRows, HonestHealth

\* The mark of success speaks of rows that are stored: nothing is owed.
LEMMA SuccessFacts ==
  ASSUME IInv, NEW p \in Procs, pc[p] = "finish", Quiet,
         health' = health \/ health' = MarkSuccess(p)
  PROVE  health' \in HealthRows /\ HonestHealth
<1> DEFINE k == kind[p]
           mark == [status |-> "success", count |-> count[p],
                    rows |-> seen[p] \cap RowsAt(k, at[p])]
<1>1. TypeOK /\ ProcInv(p) /\ k \in Kinds /\ at[p] \in 1..NScopes
  BY KindType DEF IInv, TypeOK
<1>2. PICK name \in Names : name = OkName(k, at[p]) /\ name[1] = k
  BY <1>1, NameType
<1>3. \A r \in seen[p] : r \in Rows /\ Stored(k, r)
  BY <1>1 DEF ProcInv, SeenState, Owed, TypeOK
<1>4. \A r \in seen[p] : Stored(k, r) => Stored(name[1], r)'
  BY <1>2, <1>3 DEF Stored, Id, Quiet
<1>5. mark \in [status : {"none", "running", "success", "failed"},
                count : Nat, rows : SUBSET Rows]
  BY <1>1, <1>3 DEF TypeOK
<1>6. \A r \in mark.rows : Stored(name[1], r)'
  BY <1>3, <1>4
<1>7. CASE health' = MarkSuccess(p)
  <2>1. health' = Mark(p, name, mark)
    BY <1>7, <1>2 DEF MarkSuccess
  <2> HIDE DEF mark
  <2> QED
    BY <2>1, <1>2, <1>5, <1>6, MarkFacts
<1>8. CASE health' = health
  BY <1>1, <1>8 DEF HealthRows, HonestHealth, TypeOK
<1> QED
  BY <1>7, <1>8

\* Going on to the next scope, with everything seen stored.
LEMMA NextScopeKeeps ==
  ASSUME IInv, NEW p \in Procs, NextScope(p), pc[p] # "idle", Quiet,
         seen' \in [Procs -> SUBSET Rows], \A q \in Procs \ {p} : seen'[q] = seen[q],
         \A r \in seen'[p] : Stored(kind[p], r),
         faults' \in 0..MaxFaults, health' \in HealthRows, HonestHealth
  PROVE  IInv'
<1>1. TypeOK /\ exit[p] = "none"
  BY DEF IInv, ProcInv, Hand
<1>2. /\ ProcTypes' /\ Hand(p)' /\ CountState(p)'
      /\ \A q \in Procs \ {p} : Apart(q)
      /\ (\A r \in seen'[p] : Stored(kind[p], r)') => SeenState(p)'
  BY <1>1, NextScopeFacts
<1>3. \A r \in seen'[p] : Stored(kind[p], r)'
  BY QuietStored
<1>4. \A q \in Procs \ {p} : Same(q)
  BY <1>2 DEF Apart, Same
<1> QED
  BY <1>2, <1>3, <1>4, QuietStep DEF ProcInv

\* The mark of success, and on to the next scope.
LEMMA FinishKeeps == ASSUME IInv, NEW p \in Procs, Finish(p) PROVE IInv'
<1>1. /\ pc[p] = "finish" /\ Quiet /\ seen' = seen /\ faults' = faults
      /\ health' = MarkSuccess(p) /\ NextScope(p)
  BY DEF Finish, Quiet
<1>2. TypeOK /\ ProcInv(p)
  BY DEF IInv
<1>3. health' \in HealthRows /\ HonestHealth
  BY <1>1, SuccessFacts
<1>4. \A r \in seen'[p] : Stored(kind[p], r)
  BY <1>1, <1>2 DEF ProcInv, SeenState, Owed
<1>5. seen' \in [Procs -> SUBSET Rows] /\ faults' \in 0..MaxFaults
  BY <1>1, <1>2 DEF TypeOK
<1> QED
  BY <1>1, <1>3, <1>4, <1>5, NextScopeKeeps

\* The mark of success fails, after or before it was written.
LEMMA FinishFailsKeeps == ASSUME IInv, NEW p \in Procs, FinishFails(p) PROVE IInv'
<1>1. /\ pc[p] = "finish" /\ Quiet /\ seen' = seen
      /\ health' = health \/ health' = MarkSuccess(p)
  BY DEF FinishFails, Quiet
<1>2. health' \in HealthRows /\ HonestHealth
  BY <1>1, SuccessFacts
<1>3. faults' \in 0..MaxFaults
  BY BoundAssumption DEF FinishFails, Fault, IInv, TypeOK
<1>4. CASE Exit(p, "zero")
  BY <1>1, <1>2, <1>3, <1>4, ExitKeeps
<1>5. CASE Goto(p, "failed") /\ UNCHANGED <<at, exit, scopeVars>>
  BY <1>1, <1>2, <1>3, <1>5, FailedKeeps
<1> QED
  BY <1>4, <1>5 DEF FinishFails

\* A failed scope is taken out of seen before azure goes on.
LEMMA AfterFailureKeeps ==
  ASSUME IInv, NEW p \in Procs, pc[p] = "failed", AfterFailure(p), Quiet,
         faults' \in 0..MaxFaults, health' \in HealthRows, HonestHealth
  PROVE  IInv'
<1>1. TypeOK /\ ProcInv(p)
  BY DEF IInv
<1>2. CASE Exit(p, "one") /\ seen' = seen
  BY <1>2, ExitKeeps
<1>3. CASE NextScope(p) /\ seen' = [seen EXCEPT ![p] = @ \ RowsAt(kind[p], at[p])]
  <2>1. seen'[p] = seen[p] \ RowsAt(kind[p], at[p])
    BY <1>1, <1>3 DEF TypeOK
  <2>2. \A r \in seen'[p] : Stored(kind[p], r)
    BY <2>1, <1>1 DEF ProcInv, SeenState, Owed
  <2>3. seen' \in [Procs -> SUBSET Rows] /\ \A q \in Procs \ {p} : seen'[q] = seen[q]
    BY <1>1, <1>3 DEF TypeOK
  <2> QED
    BY <2>2, <2>3, <1>3, NextScopeKeeps
<1> QED
  BY <1>2, <1>3 DEF AfterFailure

\* The exception handler, whether or not its mark is written.
LEMMA FailureMarksKeep ==
  ASSUME IInv, NEW p \in Procs, MarkFailure(p) \/ MarkFailureFails(p)
  PROVE  IInv'
<1>1. /\ pc[p] = "failed" /\ AfterFailure(p) /\ Quiet
  BY DEF MarkFailure, MarkFailureFails, Quiet
<1>2. faults' \in 0..MaxFaults
  BY BoundAssumption DEF MarkFailure, MarkFailureFails, Fault, IInv, TypeOK
<1>3. health' \in HealthRows /\ HonestHealth
  <2>1. CASE MarkFailure(p)
    <3> DEFINE name == FailName(kind[p], at[p])
               mark == [status |-> "failed", count |-> health[name].count, rows |-> {}]
    <3>1. name \in Names
      BY KindType, NameType DEF IInv, TypeOK
    <3>2. health[name].count \in Nat
      BY <3>1 DEF IInv, TypeOK
    <3>3. mark \in [status : {"none", "running", "success", "failed"},
                    count : Nat, rows : SUBSET Rows] /\ mark.status # "success"
      BY <3>2
    <3>4. health' = Mark(p, name, mark)
      BY <2>1 DEF MarkFailure
    <3> HIDE DEF name, mark
    <3> QED
      BY <3>1, <3>3, <3>4, MarkFacts
  <2>2. CASE MarkFailureFails(p)
    BY <2>2 DEF MarkFailureFails, HealthRows, HonestHealth, IInv, TypeOK
  <2> QED
    BY <2>1, <2>2
<1> QED
  BY <1>1, <1>2, <1>3, AfterFailureKeeps

-----------------------------------------------------------------------------
(* Steps that write the tables or the bills.                               *)

\* What a commit leaves of the invariant, before todo, count and pc are set.
LEMMA CommitKeeps ==
  ASSUME IInv, NEW p \in Procs, NEW batch \in Batches(p), Commit(p, batch),
         UNCHANGED <<bill, kind>>
  PROVE  /\ Grows /\ IsFiniteSet(added'[p])
         /\ \A i \in added'[p] : table'[i] # NoRecord
         /\ Cardinality(added'[p]) \in Nat
         /\ pc[p] # "failed" =>
              /\ count[p] + BatchCount(p, batch) >= Cardinality(added'[p])
              /\ kind[p] = "gcp" => count[p] + BatchCount(p, batch) = Cardinality(added'[p])
         /\ BatchCount(p, batch) \in Nat
<1> DEFINE N == NewIds(p, batch)
<1>1. TypeOK /\ ProcInv(p) /\ Hand(p) /\ CountState(p) /\ kind[p] \in Kinds
  BY KindType DEF IInv, ProcInv
<1>2. /\ \A i \in Ids : table[i] # NoRecord => table'[i] # NoRecord
      /\ \/ added'[p] = added[p]
         \/ /\ added'[p] = added[p] \cup N
            /\ \A i \in N : table[i] = NoRecord /\ table'[i] # NoRecord
  BY <1>1, CommitFacts
<1>3. Grows
  <2>1. \A r \in Rows : rates[r] > 0 => rates'[r] > 0
    <3>1. CASE kind[p] = "fx"
      <4>1. \A r \in batch : r \in todo[p] /\ snap[p][r] >= 1
        BY <1>1, BatchType DEF Hand
      <4>2. \A r \in Rows : rates'[r] = IF r \in batch THEN snap[p][r] ELSE rates[r]
        BY <3>1 DEF Commit
      <4>3. snap[p] \in [Rows -> 0..MaxBill] /\ MaxBill \in Nat
        BY <1>1, BoundAssumption DEF TypeOK
      <4> QED
        BY <4>1, <4>2, <4>3
    <3>2. CASE kind[p] # "fx"
      BY <3>2 DEF Commit
    <3> QED
      BY <3>1, <3>2
  <2>2. \A r \in Rows : bill[r] <= bill'[r]
    BY <1>1, BoundAssumption DEF TypeOK
  <2> QED
    BY <1>2, <2>1, <2>2 DEF Grows
<1>4. /\ IsFiniteSet(N) /\ Cardinality(N) \in Nat
      /\ Cardinality(batch) \in Nat /\ Cardinality(N) <= Cardinality(batch)
  BY <1>1, NewIdsBound
<1>5. /\ IsFiniteSet(added[p]) /\ Cardinality(added[p]) \in Nat
      /\ added[p] \subseteq Ids /\ \A i \in added[p] : table[i] # NoRecord
  BY <1>1, FS_CardinalityType DEF CountState, TypeOK
<1>6. /\ BatchCount(p, batch) \in Nat /\ BatchCount(p, batch) >= Cardinality(N)
      /\ kind[p] = "gcp" => BatchCount(p, batch) = Cardinality(N)
  <2>1. (StoreOf(kind[p]).counts = "added") <=> (kind[p] = "gcp")
    BY <1>1, Policies
  <2> QED
    BY <2>1, <1>4 DEF BatchCount
<1>7. /\ count[p] \in Nat
      /\ pc[p] # "failed" => /\ count[p] >= Cardinality(added[p])
                             /\ kind[p] = "gcp" => count[p] = Cardinality(added[p])
  BY <1>1 DEF CountState, TypeOK
<1>8. CASE added'[p] = added[p] \cup N /\ \A i \in N : table[i] = NoRecord /\ table'[i] # NoRecord
  <2>1. added[p] \cap N = {}
    BY <1>5, <1>8
  <2>2. /\ IsFiniteSet(added'[p])
        /\ Cardinality(added'[p]) = Cardinality(added[p]) + Cardinality(N)
    <3>1. /\ IsFiniteSet(added[p] \cup N)
          /\ Cardinality(added[p] \cup N) =
               Cardinality(added[p]) + Cardinality(N) - Cardinality(added[p] \cap N)
      BY <1>4, <1>5, FS_Union
    <3>2. Cardinality(added[p] \cap N) = 0
      BY <2>1, FS_EmptySet
    <3> HIDE DEF N
    <3> QED
      BY <3>1, <3>2, <1>4, <1>5, <1>8
  <2>3. \A i \in added'[p] : table'[i] # NoRecord
    BY <1>2, <1>5, <1>8
  <2> HIDE DEF N
  <2> QED
    BY <2>2, <2>3, <1>3, <1>4, <1>5, <1>6, <1>7
<1>9. CASE added'[p] = added[p]
  <2>1. \A i \in added'[p] : table'[i] # NoRecord
    BY <1>2, <1>5, <1>9
  <2>2. kind[p] = "gcp" => N = {}
    <3> SUFFICES ASSUME kind[p] = "gcp" PROVE N = {}
      OBVIOUS
    <3>1. added'[p] = added[p] \cup N
      BY <1>1 DEF Commit, TypeOK
    <3> QED
      BY <3>1, <1>9, <1>5 DEF NewIds
  <2>3. kind[p] = "gcp" => Cardinality(N) = 0
    BY <2>2, FS_EmptySet
  <2> HIDE DEF N
  <2> QED
    BY <2>1, <2>3, <1>3, <1>4, <1>5, <1>6, <1>7, <1>9
<1> QED
  BY <1>2, <1>8, <1>9

\* A batch is stored: what was owed shrinks by what is in the table now.
LEMMA InsertKeeps == ASSUME IInv, NEW p \in Procs, InsertBatch(p) PROVE IInv'
<1>1. PICK batch \in Batches(p) :
        /\ Commit(p, batch)
        /\ count' = [count EXCEPT ![p] = @ + BatchCount(p, batch)]
        /\ todo' = [todo EXCEPT ![p] = @ \ batch]
        /\ Goto(p, IF todo[p] = batch THEN "finish" ELSE "insert")
  BY DEF InsertBatch
<1> DEFINE step == IF todo[p] = batch THEN "finish" ELSE "insert"
           n == BatchCount(p, batch)
<1>2. /\ pc[p] = "insert" /\ UNCHANGED <<bill, health, kind, at, tries, snap, seen, exit, faults>>
  BY DEF InsertBatch
<1>3. TypeOK /\ ProcInv(p) /\ Hand(p) /\ kind[p] \in Kinds
  BY KindType DEF IInv, ProcInv
<1>4. /\ table' \in [Ids -> Records \cup {NoRecord}] /\ rates' \in [Rows -> 0..MaxBill]
      /\ added' \in [Procs -> SUBSET Ids]
      /\ \A k \in Kinds : \A r \in Rows : Stored(k, r) => Stored(k, r)'
      /\ \A r \in batch : Stored(kind[p], r)'
      /\ \A q \in Procs \ {p} : added'[q] = added[q]
  BY <1>1, <1>2, <1>3, CommitFacts
<1>5. /\ Grows /\ IsFiniteSet(added'[p]) /\ \A i \in added'[p] : table'[i] # NoRecord
      /\ count[p] + n >= Cardinality(added'[p])
      /\ kind[p] = "gcp" => count[p] + n = Cardinality(added'[p])
      /\ n \in Nat
  BY <1>1, <1>2, CommitKeeps
<1>6. pc' = [pc EXCEPT ![p] = step] /\ step \in {"finish", "insert"}
  BY <1>1 DEF Goto
<1> HIDE DEF n, step
<1>7. /\ pc'[p] = step /\ todo'[p] = todo[p] \ batch /\ count'[p] = count[p] + n
  BY <1>1, <1>3, <1>6 DEF TypeOK, n
<1>8. TypeOK'
  <2>1. count' \in [Procs -> Nat] /\ todo' \in [Procs -> SUBSET Rows]
    BY <1>1, <1>3, <1>5 DEF TypeOK, n
  <2>2. pc' \in [Procs -> PCs]
    BY <1>3, <1>6 DEF TypeOK, PCs
  <2> QED
    BY <2>1, <2>2, <1>2, <1>3, <1>4 DEF TypeOK
<1>9. \A q \in Procs \ {p} : Same(q)
  BY <1>1, <1>2, <1>3, <1>4, <1>6 DEF Same, TypeOK
<1>10. Hand(p)'
  BY <1>2, <1>3, <1>6, <1>7 DEF Hand, RowsAt
<1>11. SeenState(p)'
  <2>1. \A r \in seen[p] : r \in Rows /\ (Stored(kind[p], r) \/ r \in todo[p])
    BY <1>2, <1>3 DEF ProcInv, SeenState, Owed, TypeOK
  <2>2. \A r \in seen[p] : Stored(kind[p], r) => Stored(kind[p], r)'
    BY <2>1, <1>2, <1>3, <1>5, IdType DEF Grows, Stored, Id
  <2>3. \A r \in todo[p] : r \in batch \/ r \in Owed(p)'
    BY <1>6, <1>7 DEF Owed, step
  <2>4. exit'[p] = "none" /\ seen'[p] = seen[p]
    BY <1>2, <1>3 DEF Hand
  <2> QED
    BY <2>1, <2>2, <2>3, <2>4, <1>4 DEF SeenState
<1>12. CountState(p)'
  BY <1>2, <1>5, <1>6, <1>7 DEF CountState
<1>13. HonestHealth /\ kind' = kind
  BY <1>2 DEF HonestHealth
<1> QED
  BY <1>5, <1>8, <1>9, <1>10, <1>11, <1>12, <1>13, Assemble DEF ProcInv

\* A batch that failed: it may be in the table all the same, and nothing of the
\* scope counts as stored.
LEMMA InsertFailsKeeps == ASSUME IInv, NEW p \in Procs, InsertFails(p) PROVE IInv'
<1>1. /\ pc[p] = "insert" /\ Fault /\ pc' = [pc EXCEPT ![p] = "failed"]
      /\ UNCHANGED <<bill, health, kind, at, tries, todo, snap, seen, count, exit>>
  BY DEF InsertFails, Goto
<1>2. TypeOK /\ ProcInv(p) /\ Hand(p) /\ kind[p] \in Kinds
  BY KindType DEF IInv, ProcInv
<1>3. /\ table' \in [Ids -> Records \cup {NoRecord}] /\ rates' \in [Rows -> 0..MaxBill]
      /\ added' \in [Procs -> SUBSET Ids]
      /\ \A q \in Procs \ {p} : added'[q] = added[q]
      /\ Grows /\ IsFiniteSet(added'[p]) /\ \A i \in added'[p] : table'[i] # NoRecord
  <2>1. CASE UNCHANGED <<table, rates, added>>
    BY <2>1, <1>1, <1>2, BoundAssumption DEF TypeOK, Grows, ProcInv, CountState
  <2>2. ASSUME NEW batch \in Batches(p), Commit(p, batch)
        PROVE  /\ table' \in [Ids -> Records \cup {NoRecord}]
               /\ rates' \in [Rows -> 0..MaxBill] /\ added' \in [Procs -> SUBSET Ids]
               /\ \A q \in Procs \ {p} : added'[q] = added[q]
               /\ Grows /\ IsFiniteSet(added'[p])
               /\ \A i \in added'[p] : table'[i] # NoRecord
    BY <2>2, <1>1, <1>2, CommitFacts, CommitKeeps
  <2> QED
    BY <2>1, <2>2 DEF InsertFails
<1>4. TypeOK'
  <2>1. pc' \in [Procs -> PCs] /\ faults' \in 0..MaxFaults
    BY <1>1, <1>2, BoundAssumption DEF TypeOK, PCs, Fault
  <2> QED
    BY <2>1, <1>1, <1>2, <1>3 DEF TypeOK
<1>5. \A q \in Procs \ {p} : Same(q)
  BY <1>1, <1>2, <1>3 DEF Same, TypeOK
<1>6. pc'[p] = "failed"
  BY <1>1, <1>2 DEF TypeOK
<1>7. Hand(p)'
  BY <1>1, <1>2, <1>6 DEF Hand, RowsAt
<1>8. SeenState(p)'
  <2>1. \A r \in seen[p] : r \in Rows /\ (Stored(kind[p], r) \/ r \in RowsAt(kind[p], at[p]))
    BY <1>1, <1>2 DEF ProcInv, SeenState, Owed, Hand, TypeOK
  <2>2. \A r \in seen[p] : Stored(kind[p], r) => Stored(kind[p], r)'
    BY <2>1, <1>1, <1>2, <1>3, IdType DEF Grows, Stored, Id
  <2>3. Owed(p)' = RowsAt(kind[p], at[p]) /\ exit'[p] = "none" /\ seen'[p] = seen[p]
    BY <1>1, <1>2, <1>6 DEF Owed, RowsAt, Hand
  <2> QED
    BY <2>1, <2>2, <2>3 DEF SeenState
<1>9. CountState(p)'
  BY <1>3, <1>6 DEF CountState
<1>10. HonestHealth /\ kind' = kind
  BY <1>1 DEF HonestHealth
<1> QED
  BY <1>3, <1>4, <1>5, <1>7, <1>8, <1>9, <1>10, Assemble DEF ProcInv

\* A provider bills a row: no process is touched.
LEMMA BillKeeps == ASSUME IInv, NEW r \in Rows, Bill(r) PROVE IInv'
<1>1. TypeOK
  BY DEF IInv
<1>2. bill' \in [Rows -> 0..MaxBill] /\ \A q \in Rows : bill[q] <= bill'[q]
  BY <1>1, BoundAssumption DEF Bill, TypeOK
<1>3. UNCHANGED <<table, rates, health, kind, pc, at, tries, todo, snap, added, count,
                  seen, exit, faults>>
  BY DEF Bill, scopeVars
<1>4. TypeOK' /\ Grows /\ HonestHealth /\ kind' = kind /\ \A q \in Procs : Same(q)
  BY <1>1, <1>2, <1>3 DEF TypeOK, Grows, HonestHealth, Same
<1> QED
  BY <1>4, Assemble

-----------------------------------------------------------------------------
(* The theorems.                                                           *)

\* Every step keeps the inductive invariant.
LEMMA StepIInv == IInv /\ [Next]_vars => IInv'
<1> SUFFICES ASSUME IInv, [Next]_vars PROVE IInv'
  OBVIOUS
<1>1. ASSUME NEW p \in Procs, Launch(p) PROVE IInv'
  BY <1>1, LaunchKeeps
<1>2. ASSUME NEW p \in Procs, Step(p) PROVE IInv'
  BY <1>2, FetchKeeps, FetchEndsKeep, MarkStartKeeps, InsertKeeps, NormaliseRaisesKeeps,
     FinishKeeps, FailureMarksKeep DEF Step
<1>3. ASSUME NEW p \in Procs, Failure(p) PROVE IInv'
  BY <1>3, MisconfiguredKeeps, RetryKeeps, FetchEndsKeep, StartFailsKeeps,
     InsertFailsKeeps, FinishFailsKeeps, FailureMarksKeep, KillKeeps DEF Failure
<1>4. ASSUME NEW r \in Rows, Bill(r) PROVE IInv'
  BY <1>4, BillKeeps
<1>5. CASE UNCHANGED vars
  <2>1. UNCHANGED <<bill, table, rates, health, kind, pc, at, tries, todo, snap, seen,
                    added, count, exit, faults>>
    BY <1>5 DEF vars
  <2>2. TypeOK
    BY DEF IInv
  <2>3. TypeOK' /\ kind' = kind /\ HonestHealth /\ \A q \in Procs : Same(q)
    BY <2>1, <2>2 DEF TypeOK, HonestHealth, Same
  <2>4. Grows
    BY <2>1, <2>2, BoundAssumption DEF TypeOK, Grows
  <2> QED
    BY <2>3, <2>4, Assemble
<1> QED
  BY <1>1, <1>2, <1>3, <1>4, <1>5 DEF Next

\* IInv holds of every behaviour of the extractors.
THEOREM Invariance == Spec => []IInv
BY InitIInv, StepIInv, PTL DEF Spec

\* Type correctness of the extractors' tables and of the processes' own state.
THEOREM TypeCorrect == Spec => []TypeOK
<1>1. IInv => TypeOK
  BY DEF IInv
<1> QED
  BY <1>1, Invariance, PTL

\* mark_extractor_success speaks of stored rows only, whatever was killed,
\* repeated or ran at the same time.
THEOREM SuccessMeansStored == Spec => []SuccessIsComplete
<1>1. IInv => SuccessIsComplete
  BY DEF IInv
<1> QED
  BY <1>1, Invariance, PTL

\* So does the exit status 0 that the runner takes for success.
THEOREM ExitZeroMeansStored == Spec => []ExitZeroIsComplete
<1>1. IInv => ExitZeroIsComplete
  BY DEF IInv, ProcInv, SeenState, ExitZeroIsComplete
<1> QED
  BY <1>1, Invariance, PTL

\* records_extracted is what gcp added, and no less than what the others added.
THEOREM CountMeansAdded == Spec => []CountIsHonest
<1>1. IInv => CountIsHonest
  BY DEF IInv, ProcInv, CountState, CountIsHonest
<1> QED
  BY <1>1, Invariance, PTL

\* Seen from the table, a run of the extractors is a run of CostLedger: however
\* many processes repeat, overlap or die, they only add records of billed rows.
THEOREM ImplementsCostLedger == Spec => RefinesCostLedger
<1>1. Init => Ledger!LedgerInit
  BY DEF Init, Ledger!LedgerInit
<1>2. IInv /\ [Next]_vars => [Ledger!LedgerNext]_(Ledger!ledgerVars)
  <2> SUFFICES ASSUME IInv, [Next]_vars
               PROVE  Ledger!LedgerNext \/ UNCHANGED <<bill, table>>
    BY DEF Ledger!ledgerVars
  <2>0. TypeOK
    BY DEF IInv
  <2>1. ASSUME NEW p \in Procs, NEW batch \in Batches(p), Commit(p, batch), bill' = bill
        PROVE  Ledger!LedgerNext
    <3> DEFINE own == [i \in Ids |-> {r \in Rows : \E v \in Providers : IdOf[v][r] = i}]
    <3>1. Hand(p) /\ ProviderOf(kind[p]) \in Providers
      BY <2>0, KindType, KindList DEF IInv, ProcInv, ProviderOf, Providers, AzureKinds
    <3>2. /\ table' \in [Ids -> Records \cup {NoRecord}]
          /\ \A i \in Ids : \/ table'[i] = table[i]
                            \/ /\ table[i] = NoRecord
                               /\ table'[i].row \in Rows
                               /\ IdOf[ProviderOf(kind[p])][table'[i].row] = i
                               /\ table'[i].amount \in 1..bill[table'[i].row]
      BY <2>0, <2>1, <3>1, CommitFacts
    <3>3. \A i \in Ids : \/ table'[i] = table[i]
                         \/ /\ table[i] = NoRecord
                            /\ table'[i].row \in own[i]
                            /\ table'[i].amount \in 1..bill[table'[i].row]
      BY <3>1, <3>2
    <3>4. DOMAIN table' = Ids
      BY <3>2
    <3> QED
      BY <3>3, <3>4, <2>1 DEF Ledger!LedgerNext, Ledger!Record
  <2>2. ASSUME NEW p \in Procs, InsertBatch(p) PROVE Ledger!LedgerNext
    BY <2>1, <2>2 DEF InsertBatch
  <2>3. ASSUME NEW p \in Procs, InsertFails(p)
        PROVE  Ledger!LedgerNext \/ UNCHANGED <<bill, table>>
    BY <2>1, <2>3 DEF InsertFails
  <2>4. ASSUME NEW r \in Rows, Bill(r) PROVE Ledger!LedgerNext
    BY <2>4 DEF Bill, Ledger!LedgerNext, Ledger!Charge
  <2>5. ASSUME NEW p \in Procs, Launch(p) PROVE UNCHANGED <<bill, table>>
    BY <2>5 DEF Launch
  <2>6. ASSUME NEW p \in Procs, Step(p)
        PROVE  InsertBatch(p) \/ UNCHANGED <<bill, table>>
    BY <2>6 DEF Step, Fetch, FetchNothing, RowRaises, AbortFetch, MarkStart,
       NormaliseRaises, Finish, MarkFailure
  <2>7. ASSUME NEW p \in Procs, Failure(p)
        PROVE  InsertFails(p) \/ UNCHANGED <<bill, table>>
    BY <2>7 DEF Failure, LaunchMisconfigured, RetryFetch, GiveUpFetch, AbortFetch,
       StartFails, FinishFails, MarkFailureFails, Kill
  <2>8. CASE UNCHANGED vars
    BY <2>8 DEF vars
  <2> QED
    BY <2>2, <2>3, <2>4, <2>5, <2>6, <2>7, <2>8 DEF Next
<1> QED
  BY <1>1, <1>2, Invariance, PTL DEF Spec, RefinesCostLedger, Ledger!LedgerSpec
=============================================================================
