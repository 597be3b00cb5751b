--------------------------- MODULE CostExtraction ---------------------------
(***************************************************************************)
(* The cost extractors under extractors/: subprocesses (or scheduled jobs) *)
(* that fetch what a provider billed, turn each row into a record with a   *)
(* deterministic record_id, insert the records in batches that are         *)
(* committed one by one, and report to the table extractor_health.  They   *)
(* share the tables and nothing else; several may run at once, any of them *)
(* may be killed between two steps, and a run is repeated over data that   *)
(* earlier runs have stored in whole or in part.                           *)
(*                                                                         *)
(* The extractors take the same steps in different orders:                 *)
(*   azure (all modes)   fetch, insert, finish         per scope           *)
(*   gcp                 fetch, start, insert, finish  per project         *)
(*   csv                 start, fetch, insert, finish                      *)
(*   aws, llm, fx        fetch, start, insert, finish                      *)
(* and differ in which failures they report, skip or swallow.              *)
(***************************************************************************)
EXTENDS Naturals, FiniteSets

CONSTANTS Procs,        \* extractor processes that may overlap
          Deployments,  \* which extractor each process runs
          Rows,         \* rows of the providers' bills (for fx: currencies)
          Ids,          \* values of record_id
          NoRecord,     \* "no record under this id"
          IdOf,         \* IdOf[provider][row]: the row's record_id
          ScopeOf,      \* the resource group, subscription or project of a row
          NScopes,      \* how many of those a run goes through
          Quality,      \* Quality[kind][row]: good, skip or raise
          BatchSize,    \* BATCH_SIZE
          MaxBill,      \* bound: how often a row's amount grows
          MaxFaults     \* bound: failures and kills of a behaviour

\* "azure": one subscription and a list of resource groups; "azuresubs":
\* several subscriptions; "azurergs": saved selections of resource groups.
AzureKinds == {"azure", "azuresubs", "azurergs"}
Kinds == AzureKinds \cup {"gcp", "csv", "aws", "llm", "fx"}
Providers == {"azure", "gcp", "aws", "llm", "ecb"}

ASSUME DeploymentsAssumption == Deployments \subseteq [Procs -> Kinds]
ASSUME IdAssumption == IdOf \in [Providers -> [Rows -> Ids]]
ASSUME NoRecordAssumption == NoRecord \notin [row : Rows, amount : Nat]
ASSUME ScopeAssumption == /\ NScopes \in Nat \ {0}
                          /\ ScopeOf \in [Rows -> 1..NScopes]
ASSUME QualityAssumption ==
  /\ Quality \in [Kinds -> [Rows -> {"good", "skip", "raise"}]]
  /\ \A r \in Rows : Quality["gcp"][r] # "skip" /\ Quality["csv"][r] # "raise"
ASSUME BoundAssumption == /\ IsFiniteSet(Rows)
                          /\ BatchSize \in Nat \ {0}
                          /\ {MaxBill, MaxFaults} \subseteq Nat

VARIABLES
  bill,      \* what the providers charge for each row so far
  table,     \* cost_records, by record_id
  rates,     \* exchange_rates: the published value stored for a currency
  health,    \* extractor_health, and the rows a 'success' answers for
  kind,      \* the extractor a process runs
  pc,        \* what a process does next
  at,        \* the scope it is working on
  tries,     \* attempts at the current fetch
  todo,      \* fetched rows that are not inserted yet
  snap,      \* the amounts fetched with them
  seen,      \* rows the run has fetched and not given up
  added,     \* ids the run has added to the table in this scope
  count,     \* records_extracted as the run will report it
  exit,      \* exit status of the process's last run
  faults     \* failures so far

scopeVars == <<tries, todo, snap, added, count>>
vars == <<bill, table, rates, health, kind, pc, at, tries, todo, snap, seen,
          added, count, exit, faults>>

PCs == {"idle", "fetch", "start", "insert", "finish", "failed"}
ProviderOf(k) == CASE k \in AzureKinds -> "azure"
                   [] k \in {"gcp", "csv"} -> "gcp"
                   [] k = "fx" -> "ecb"
                   [] OTHER -> k
Id(k, r) == IdOf[ProviderOf(k)][r]

(***************************************************************************)
(* The extractors' policies.  fetch: attempts before tenacity re-raises,   *)
(* and whether it retries every error.  run: the first step, the step that *)
(* follows the fetch, what happens when there is nothing to store or the   *)
(* fetch is given up, and whether rows are normalised one by one while     *)
(* they are inserted.  store: what a batch's count counts, and whether     *)
(* everything is one transaction.  marks: how extractor_health is written, *)
(* and whether a failing mark is swallowed.                                *)
(***************************************************************************)
AzureFetch == [attempts |-> 4, every |-> FALSE]
GcpFetch == [attempts |-> 3, every |-> FALSE]
CsvFetch == [attempts |-> 1, every |-> FALSE]
AwsFetch == [attempts |-> 3, every |-> TRUE]
LlmFetch == [attempts |-> 3, every |-> TRUE]
FxFetch == [attempts |-> 3, every |-> FALSE]

AzureRun == [first |-> "fetch", next |-> "insert", nothing |-> "finish",
             abort |-> "failed", lazy |-> FALSE]
GcpRun == [first |-> "fetch", next |-> "start", nothing |-> "start",
           abort |-> "exit", lazy |-> TRUE]
CsvRun == [first |-> "start", next |-> "insert", nothing |-> "finish",
           abort |-> "failed", lazy |-> FALSE]
AwsRun == [first |-> "fetch", next |-> "start", nothing |-> "exit",
           abort |-> "exit", lazy |-> FALSE]
LlmRun == [first |-> "fetch", next |-> "start", nothing |-> "exit",
           abort |-> "exit", lazy |-> FALSE]
FxRun == [first |-> "fetch", next |-> "start", nothing |-> "exit",
          abort |-> "exit", lazy |-> FALSE]

AzureStore == [counts |-> "sent", whole |-> FALSE]
GcpStore == [counts |-> "added", whole |-> FALSE]
CsvStore == [counts |-> "sent", whole |-> FALSE]
AwsStore == [counts |-> "sent", whole |-> FALSE]
LlmStore == [counts |-> "sent", whole |-> FALSE]
FxStore == [counts |-> "sent", whole |-> TRUE]

AzureMarks == [write |-> "upsert", lenient |-> FALSE]
GcpMarks == [write |-> "update", lenient |-> FALSE]
CsvMarks == [write |-> "update", lenient |-> FALSE]
AwsMarks == [write |-> "update", lenient |-> FALSE]
LlmMarks == [write |-> "update", lenient |-> TRUE]
FxMarks == [write |-> "update", lenient |-> FALSE]

Choose(k, azure, gcp, csv, aws, llm, fx) ==
  CASE k \in AzureKinds -> azure [] k = "gcp" -> gcp [] k = "csv" -> csv
    [] k = "aws" -> aws [] k = "llm" -> llm [] k = "fx" -> fx

FetchOf(k) == Choose(k, AzureFetch, GcpFetch, CsvFetch, AwsFetch, LlmFetch, FxFetch)
RunOf(k) == Choose(k, AzureRun, GcpRun, CsvRun, AwsRun, LlmRun, FxRun)
StoreOf(k) == Choose(k, AzureStore, GcpStore, CsvStore, AwsStore, LlmStore, FxStore)
MarksOf(k) == Choose(k, AzureMarks, GcpMarks, CsvMarks, AwsMarks, LlmMarks, FxMarks)

(***************************************************************************)
(* main(): the scopes a run goes through, whether it goes on after one of  *)
(* them failed, and the names it uses in extractor_health.                 *)
(***************************************************************************)
AzureMain == [scopes |-> NScopes, failure |-> "next", quiet |-> FALSE]
GcpMain == [scopes |-> NScopes, failure |-> "exit", quiet |-> FALSE]
CsvMain == [scopes |-> 1, failure |-> "exit", quiet |-> FALSE]
AwsMain == [scopes |-> 1, failure |-> "exit", quiet |-> TRUE]
LlmMain == [scopes |-> 1, failure |-> "exit", quiet |-> TRUE]
FxMain == [scopes |-> 1, failure |-> "exit", quiet |-> FALSE]
MainOf(k) == Choose(k, AzureMain, GcpMain, CsvMain, AwsMain, LlmMain, FxMain)

\* Mutant: the loop goes one scope too far.
LastScopeLoopsOnce(k) == MainOf(k).scopes + 1

LastScope(k) == MainOf(k).scopes

Names == Kinds \X (0..NScopes)
OkName(k, s) == IF k \in {"gcp", "azuresubs", "azurergs"} THEN <<k, s>> ELSE <<k, 0>>
FailName(k, s) == IF k \in {"gcp", "azuresubs"} THEN <<k, s>> ELSE <<k, 0>>

\* The rows a provider lists for a scope.
RowsAt(k, s) == IF k \in AzureKinds \cup {"gcp"}
                  THEN {r \in Rows : ScopeOf[r] = s} ELSE Rows
Listed(k, s) == {r \in RowsAt(k, s) : bill[r] > 0}

\* transform_row, normalise_row, normalize_...: the rows of a bill that become
\* records, and the ones that make the extractor raise.
Good(k, rows) == {r \in rows : Quality[k][r] = "good"}
Raises(k, rows) == \E r \in rows : Quality[k][r] = "raise"

Init == /\ bill = [r \in Rows |-> 0]
        /\ table = [i \in Ids |-> NoRecord]
        /\ rates = [r \in Rows |-> 0]
        /\ health = [n \in Names |-> [status |-> "none", count |-> 0, rows |-> {}]]
        /\ kind \in Deployments
        /\ pc = [p \in Procs |-> "idle"]
        /\ at = [p \in Procs |-> 1]
        /\ tries = [p \in Procs |-> 0]
        /\ todo = [p \in Procs |-> {}]
        /\ snap = [p \in Procs |-> [r \in Rows |-> 0]]
        /\ seen = [p \in Procs |-> {}]
        /\ added = [p \in Procs |-> {}]
        /\ count = [p \in Procs |-> 0]
        /\ exit = [p \in Procs |-> "none"]
        /\ faults = 0

(***************************************************************************)
(* How a run ends: the process exits, or moves on to its next scope.       *)
(***************************************************************************)
Fault == faults < MaxFaults /\ faults' = faults + 1

ResetScope(p) == /\ tries' = [tries EXCEPT ![p] = 0]
                 /\ todo' = [todo EXCEPT ![p] = {}]
                 /\ snap' = [snap EXCEPT ![p] = [r \in Rows |-> 0]]
                 /\ added' = [added EXCEPT ![p] = {}]
                 /\ count' = [count EXCEPT ![p] = 0]

Exit(p, status) == /\ pc' = [pc EXCEPT ![p] = "idle"]
                   /\ exit' = [exit EXCEPT ![p] = status]
                   /\ ResetScope(p)
                   /\ UNCHANGED at

NextScope(p) ==
  \/ /\ at[p] < LastScope(kind[p])
     /\ at' = [at EXCEPT ![p] = @ + 1]
     /\ pc' = [pc EXCEPT ![p] = "fetch"]
     /\ ResetScope(p)
     /\ UNCHANGED exit
  \/ /\ at[p] >= LastScope(kind[p])
     /\ Exit(p, "zero")

Goto(p, step) == pc' = [pc EXCEPT ![p] = step]

(***************************************************************************)
(* The steps of a run.                                                     *)
(***************************************************************************)
Launch(p) == /\ pc[p] = "idle"
             /\ Goto(p, RunOf(kind[p]).first)
             /\ at' = [at EXCEPT ![p] = 1]
             /\ seen' = [seen EXCEPT ![p] = {}]
             /\ exit' = [exit EXCEPT ![p] = "none"]
             /\ UNCHANGED <<bill, table, rates, health, kind, faults, scopeVars>>

\* Settings or the CSV file are missing; aws and llm then return 0 quietly.
LaunchMisconfigured(p) ==
  /\ pc[p] = "idle" /\ kind[p] \notin AzureKinds
  /\ Fault
  /\ seen' = [seen EXCEPT ![p] = {}]
  /\ \/ exit' = [exit EXCEPT ![p] = "one"]
     \/ MainOf(kind[p]).quiet /\ exit' = [exit EXCEPT ![p] = "zero"]
  /\ UNCHANGED <<bill, table, rates, health, kind, pc, at, scopeVars>>

\* The rows arrive and are normalised.  gcp normalises later, row by row.
Fetch(p) ==
  LET k == kind[p]
      rows == Listed(k, at[p])
      good == Good(k, rows)
  IN /\ pc[p] = "fetch"
     /\ RunOf(k).lazy \/ ~Raises(k, rows)
     /\ RunOf(k).nothing = "exit" => good # {}
     /\ todo' = [todo EXCEPT ![p] = {r \in rows : Quality[k][r] # "skip"}]
     /\ snap' = [snap EXCEPT ![p] = [r \in Rows |-> IF r \in rows THEN bill[r] ELSE 0]]
     /\ seen' = [seen EXCEPT ![p] = @ \cup good]
     /\ Goto(p, IF good = {} THEN RunOf(k).nothing ELSE RunOf(k).next)
     /\ UNCHANGED <<bill, table, rates, health, kind, at, tries, added, count,
                    exit, faults>>

\* aws, llm and fx stop here, with no word in extractor_health.
FetchNothing(p) ==
  /\ pc[p] = "fetch" /\ RunOf(kind[p]).nothing = "exit"
  /\ ~Raises(kind[p], Listed(kind[p], at[p]))
  /\ Good(kind[p], Listed(kind[p], at[p])) = {}
  /\ Exit(p, "zero")
  /\ UNCHANGED <<bill, table, rates, health, kind, seen, faults>>

\* An exception before anything was inserted.
AbortFetch(p) ==
  /\ IF RunOf(kind[p]).abort = "exit"
       THEN Exit(p, "one")
       ELSE Goto(p, "failed") /\ UNCHANGED <<at, exit, scopeVars>>
  /\ UNCHANGED <<bill, table, rates, health, kind, seen>>

RowRaises(p) == /\ pc[p] = "fetch" /\ ~RunOf(kind[p]).lazy
                /\ Raises(kind[p], Listed(kind[p], at[p]))
                /\ AbortFetch(p)
                /\ UNCHANGED faults

RetryFetch(p) == /\ pc[p] = "fetch" /\ tries[p] + 1 < FetchOf(kind[p]).attempts
                 /\ Fault
                 /\ tries' = [tries EXCEPT ![p] = @ + 1]
                 /\ UNCHANGED <<bill, table, rates, health, kind, pc, at, todo, snap,
                                seen, added, count, exit>>

\* aws and llm retry every error; the others only those worth retrying.
GiveUpFetch(p) ==
  /\ pc[p] = "fetch"
  /\ FetchOf(kind[p]).every => tries[p] + 1 >= FetchOf(kind[p]).attempts
  /\ Fault
  /\ AbortFetch(p)

\* A connection is opened and, except for azure, the health row is set to
\* 'running'.  A failure here is outside the try block: no 'failed' mark.
MarkStart(p) ==
  /\ pc[p] = "start"
  /\ health' = [health EXCEPT ![OkName(kind[p], at[p])] =
                   [status |-> "running", count |-> 0, rows |-> {}]]
  /\ Goto(p, IF RunOf(kind[p]).first = "start" THEN "fetch"
             ELSE IF todo[p] = {} THEN "finish" ELSE "insert")
  /\ UNCHANGED <<bill, table, rates, kind, at, scopeVars, seen, exit, faults>>

StartFails(p) ==
  /\ pc[p] = "start" /\ Fault
  /\ \/ Exit(p, "one")
     \/ /\ MarksOf(kind[p]).lenient
        /\ Goto(p, "insert") /\ UNCHANGED <<at, exit, scopeVars>>
  /\ UNCHANGED <<bill, table, rates, health, kind, seen>>

\* The next BATCH_SIZE rows, or all that are left; gcp stops before a row it
\* cannot normalise.  fx writes everything in one transaction.
Batches(p) ==
  LET ready == Good(kind[p], todo[p])
  IN IF StoreOf(kind[p]).whole \/ (ready = todo[p] /\ Cardinality(ready) <= BatchSize)
       THEN {ready}
       ELSE {b \in SUBSET ready : Cardinality(b) = BatchSize}

\* Mutant: ON CONFLICT DO UPDATE.
NewIdsOverwrite(p, batch) == {i \in Ids : \E r \in batch : Id(kind[p], r) = i}

\* INSERT ... ON CONFLICT (record_id) DO NOTHING: an id that is taken keeps
\* its record, and the first of two rows with one id in a batch wins.
NewIds(p, batch) == {i \in Ids : /\ table[i] = NoRecord
                                 /\ \E r \in batch : Id(kind[p], r) = i}

Commit(p, batch) ==
  IF kind[p] = "fx"
    THEN /\ rates' = [r \in Rows |-> IF r \in batch THEN snap[p][r] ELSE rates[r]]
         /\ UNCHANGED <<table, added>>
    ELSE /\ \E first \in [NewIds(p, batch) -> batch] :
              /\ \A i \in NewIds(p, batch) : Id(kind[p], first[i]) = i
              /\ table' = [i \in Ids |-> IF i \in NewIds(p, batch)
                                          THEN [row |-> first[i],
                                                amount |-> snap[p][first[i]]]
                                          ELSE table[i]]
         /\ added' = [added EXCEPT ![p] = @ \cup NewIds(p, batch)]
         /\ UNCHANGED rates

\* Mutant: what was sent is taken for what was added.
BatchCountSent(p, batch) == Cardinality(batch)

\* RETURNING lets gcp count what it added; the others count what they sent.
BatchCount(p, batch) == IF StoreOf(kind[p]).counts = "added"
                          THEN Cardinality(NewIds(p, batch)) ELSE Cardinality(batch)

\* Mutant: the rest after the first batch is dropped.
InsertFirstBatchOnly(p) ==
  /\ pc[p] = "insert"
  /\ \E batch \in Batches(p) :
       /\ Commit(p, batch)
       /\ count' = [count EXCEPT ![p] = @ + BatchCount(p, batch)]
       /\ todo' = [todo EXCEPT ![p] = {}]
       /\ Goto(p, "finish")
  /\ UNCHANGED <<bill, health, kind, at, tries, snap, seen, exit, faults>>

InsertBatch(p) ==
  /\ pc[p] = "insert"
  /\ \E batch \in Batches(p) :
       /\ Commit(p, batch)
       /\ count' = [count EXCEPT ![p] = @ + BatchCount(p, batch)]
       /\ todo' = [todo EXCEPT ![p] = @ \ batch]
       /\ Goto(p, IF todo[p] = batch THEN "finish" ELSE "insert")
  /\ UNCHANGED <<bill, health, kind, at, tries, snap, seen, exit, faults>>

\* PostgreSQL fails; the batch may have been committed all the same.  azure's
\* retries come to nothing: they meet the same connection, which is closed or in a
\* failed transaction nobody rolls back, so that the last of them raises.
InsertFails(p) ==
  /\ pc[p] = "insert" /\ Fault
  /\ \/ UNCHANGED <<table, rates, added>>
     \/ \E batch \in Batches(p) : Commit(p, batch)
  /\ Goto(p, "failed")
  /\ UNCHANGED <<bill, health, kind, at, tries, todo, snap, seen, count, exit>>

\* gcp: normalise_row raises in the middle of the loop over the rows.
NormaliseRaises(p) ==
  /\ pc[p] = "insert" /\ Raises(kind[p], todo[p])
  /\ Goto(p, "failed")
  /\ UNCHANGED <<bill, table, rates, health, kind, at, scopeVars, seen, exit, faults>>

\* azure upserts its health row, the others UPDATE the row MarkStart left.
Mark(p, name, mark) ==
  IF MarksOf(kind[p]).write = "upsert" \/ health[name].status # "none"
    THEN [health EXCEPT ![name] = mark] ELSE health

MarkSuccess(p) ==
  Mark(p, OkName(kind[p], at[p]),
       [status |-> "success", count |-> count[p],
        rows |-> seen[p] \cap RowsAt(kind[p], at[p])])

Finish(p) == /\ pc[p] = "finish"
             /\ health' = MarkSuccess(p)
             /\ NextScope(p)
             /\ UNCHANGED <<bill, table, rates, kind, seen, faults>>

\* llm swallows the error, unless the rollback that follows it raises as well.
FinishFails(p) ==
  /\ pc[p] = "finish" /\ Fault
  /\ health' \in {health, MarkSuccess(p)}
  /\ \/ MarksOf(kind[p]).lenient /\ Exit(p, "zero")
     \/ Goto(p, "failed") /\ UNCHANGED <<at, exit, scopeVars>>
  /\ UNCHANGED <<bill, table, rates, kind, seen>>

\* Mutant: sys.exit(1) is missing after the exception was logged.
AfterFailureExitsZero(p) ==
  IF MainOf(kind[p]).failure = "next"
    THEN /\ NextScope(p)
         /\ seen' = [seen EXCEPT ![p] = @ \ RowsAt(kind[p], at[p])]
    ELSE Exit(p, "zero") /\ UNCHANGED seen

\* The exception handler.  azure's main() skips the scope and goes on; the
\* others exit.  The mark itself may fail, which is only logged.
AfterFailure(p) ==
  IF MainOf(kind[p]).failure = "next"
    THEN /\ NextScope(p)
         /\ seen' = [seen EXCEPT ![p] = @ \ RowsAt(kind[p], at[p])]
    ELSE Exit(p, "one") /\ UNCHANGED seen

MarkFailure(p) ==
  /\ pc[p] = "failed"
  /\ LET name == FailName(kind[p], at[p])
     IN health' = Mark(p, name, [status |-> "failed", count |-> health[name].count,
                                 rows |-> {}])
  /\ AfterFailure(p)
  /\ UNCHANGED <<bill, table, rates, kind, faults>>

MarkFailureFails(p) == /\ pc[p] = "failed" /\ Fault
                       /\ AfterFailure(p)
                       /\ UNCHANGED <<bill, table, rates, health, kind>>

\* The runner cancels the run, the job times out or the host goes down.
Kill(p) == /\ pc[p] # "idle" /\ Fault
           /\ Exit(p, "killed")
           /\ UNCHANGED <<bill, table, rates, health, kind, seen>>

\* The provider bills a new row, or more for a row it has billed before.
Bill(r) == /\ bill[r] < MaxBill
           /\ bill' = [bill EXCEPT ![r] = @ + 1]
           /\ UNCHANGED <<table, rates, health, kind, pc, at, scopeVars, seen, exit, faults>>

Step(p) == \/ Fetch(p) \/ FetchNothing(p) \/ RowRaises(p) \/ MarkStart(p)
           \/ InsertBatch(p) \/ NormaliseRaises(p) \/ Finish(p) \/ MarkFailure(p)

Failure(p) == \/ LaunchMisconfigured(p) \/ RetryFetch(p) \/ GiveUpFetch(p)
              \/ StartFails(p) \/ InsertFails(p) \/ FinishFails(p)
              \/ MarkFailureFails(p) \/ Kill(p)

Next == \/ \E p \in Procs : Launch(p) \/ Step(p) \/ Failure(p)
        \/ \E r \in Rows : Bill(r)

Spec == Init /\ [][Next]_vars

\* A live process takes its next step, and the schedule (the cron jobs under
\* deploy/) launches each extractor again and again.
FairSpec == Spec /\ \A p \in Procs : WF_vars(Step(p)) /\ WF_vars(Launch(p))

(***************************************************************************)
(* Properties.                                                             *)
(***************************************************************************)
Records == [row : Rows, amount : 1..MaxBill]

\* Types of the variables, and where a process may be at each step.
TypeOK ==
  /\ bill \in [Rows -> 0..MaxBill]
  /\ table \in [Ids -> Records \cup {NoRecord}]
  /\ rates \in [Rows -> 0..MaxBill]
  /\ health \in [Names -> [status : {"none", "running", "success", "failed"},
                           count : Nat, rows : SUBSET Rows]]
  /\ kind \in Deployments
  /\ pc \in [Procs -> PCs]
  /\ at \in [Procs -> 1..NScopes]
  /\ tries \in [Procs -> 0..3]
  /\ todo \in [Procs -> SUBSET Rows]
  /\ snap \in [Procs -> [Rows -> 0..MaxBill]]
  /\ seen \in [Procs -> SUBSET Rows]
  /\ added \in [Procs -> SUBSET Ids]
  /\ count \in [Procs -> Nat]
  /\ exit \in [Procs -> {"none", "zero", "one", "killed"}]
  /\ faults \in 0..MaxFaults

Stored(k, r) == IF k = "fx" THEN rates[r] > 0 ELSE table[Id(k, r)] # NoRecord

\* extractor_health says 'success' only when every good row that the run it
\* speaks of had fetched is in its table: no batch is lost between the fetch
\* and the mark, whatever was killed, repeated or ran at the same time.
SuccessIsComplete ==
  \A n \in Names : health[n].status = "success" =>
    \A r \in health[n].rows : Stored(n[1], r)

\* A process that exits with 0, which the runner reports as success, has
\* stored every good row it fetched, in all its scopes but those azure skipped.
ExitZeroIsComplete ==
  \A p \in Procs : exit[p] = "zero" => \A r \in seen[p] : Stored(kind[p], r)

\* gcp reports exactly the rows it added; the other extractors report no fewer
\* than they added.
CountIsHonest ==
  \A p \in Procs : pc[p] = "finish" =>
    IF kind[p] = "gcp" THEN count[p] = Cardinality(added[p])
                       ELSE count[p] >= Cardinality(added[p])

\* A rerun is safe over existing data: seen from the tables, the extractors
\* only ever add records of billed rows (ON CONFLICT DO NOTHING).
Ledger == INSTANCE CostLedger
            WITH Owners <- [i \in Ids |-> {r \in Rows : \E v \in Providers : IdOf[v][r] = i}]
RefinesCostLedger == Ledger!LedgerSpec

\* Whatever fails or is killed on the way, the scheduled runs end up storing
\* each good row, unless a row that makes the extractor raise stands before it.
Blocked(k, r) ==
  \E q \in Rows : /\ Quality[k][q] = "raise"
                   /\ \/ k \notin AzureKinds \cup {"gcp"}
                      \/ ScopeOf[q] = ScopeOf[r]
                      \/ k = "gcp" /\ ScopeOf[q] < ScopeOf[r]

RerunRecovers ==
  \A p \in Procs, r \in Rows :
    bill[r] > 0 /\ Quality[kind[p]][r] = "good" /\ ~Blocked(kind[p], r)
      ~> Stored(kind[p], r)
=============================================================================
