# A TLA+ verification of finna-app

finna-app is a FinOps platform: a FastAPI server, cost extractors that run as
processes of their own, a wastage scanner, and PostgreSQL between them. This
project models the parts in which state is shared between threads, handlers,
processes and an unreliable outside, checks them with TLC on small instances, and
proves their safety properties with TLAPS for every instance.

## The system

| Part | Code | State | Operations | Interacts with |
|---|---|---|---|---|
| extractor runner | `backend/app/api/runner.py`, `routes/extractors_registry.py` | `_running_processes`, `_shutdown_event`, `_process_lock`, rows of `extractor_runs` | start, monitor (a thread per run), cancel, shutdown | child processes, connection pool, lifespan hook |
| connection pool | `api/db.py` | slots of the sync pool, the async pool | `get_connection`, `release_connection`, `query_one`, `query_all`, `execute`, `insert_and_return`, `close_pools` | everything that talks to PostgreSQL |
| wastage scanner | `wastage/runner.py`, `extractors/inventory/azure_inventory.py` | `resource_wastage`, `wastage_scan_runs` | `run_scan`: open run, upsert, auto-resolve, close run | a cron job per account, a CLI, the wastage API |
| wastage API | `routes/wastage.py`, `queries/wastage_queries.py` | the same tables | trigger a scan; ack, resolve, ignore; lists | the scanner through the tables |
| OIDC device login | `routes/oidc_device_auth.py`, `api/oidc.py` | `_device_code_store`, `_jwks_cache`, `_discovery_cache`, `auth_users` | start, poll | the identity provider, polling clients |
| OIDC browser login | `routes/oidc_auth.py`, `api/oidc.py` | `_state_store`, `auth_users` | login, callback | the identity provider |
| local login, JWT | `api/auth.py`, `routes/auth.py` | tokens, revocations by expiry only | token, me, azure service account | `auth_users` |
| provider administration | `routes/auth_providers.py` | `auth_providers` | create, update, delete, test | the logins |
| configurations | `routes/config.py`, `utils/encryption.py`, `scripts/migrate_config_encryption.py` | `cloud_config` (encrypted fields), projects | create, read-modify-write, delete, key migration | the runner reads them |
| alerts | `routes/alerts.py` | `alerts` | list, acknowledge, acknowledge all | |
| cost queries | `routes/costs.py` | none | windows, totals, breakdowns, export | `cost_records` |
| cost extractors | `extractors/*.py` | `cost_records`, `extractor_health` | fetch, normalise, insert in batches, mark health | cloud APIs, exchange rates |
| exchange rates | `extractors/exchange_rates.py`, `extractors/common.py` | `exchange_rates` | fetch, store, look up, convert | the extractors |
| wastage rules | `wastage/rules/*.py`, `extractors/inventory/*.py`, `wastage/pricing.py` | none | normalise, evaluate, price | the scanner |
| health check | `extractors/health_check.py` | none | staleness of health rows | |
| rate limiting | `rate_limit.py`, `routes/oidc_*.py` | attempts per address | sliding windows | the logins |

What is hard in it: the runner's monitor threads race with cancel requests and the
shutdown hook for the same rows, entries and connections; a scan derives "missed
N times" from timestamps of runs that may fail half way; a poll of the device
login takes its code out of the store, gives way to other polls three times, and
has to put it back on every path that may be tried again; extractors commit their
batches one by one, are killed between them and run again over what is already
there, sometimes at the same time; two replicas of the API and a migration script read
a row, think, and write all of it back; a restart forgets everything in memory.
`PROJECT.json` lists these hazards by line.

Each part is correct if: a status shown to users is true and final states are
reached (runner); findings are resolved only when they are gone and what users
decided stays (scanner); a login that was approved becomes one session, and no other
does (logins); what was fetched is stored before it is called a success, and a rerun
neither repeats nor changes it (extractors); a secret is never lost or left readable, and
no update undoes another (configurations, providers); the numbers of two endpoints agree
(cost queries); a rescan recognises what it found before (rules).

## Modules

| Module | Role |
|---|---|
| `RunLedger` | abstract: what the table `extractor_runs` promises |
| `ExtractorRuns` | the runner, its threads, its lock and the pool slots it uses; implements `RunLedger` |
| `WastageScan` | scans, findings, run records and the wastage endpoints |
| `OidcDevice` | device login: store, polls, provider, key cache |
| `CostLedger` | abstract: what the table `cost_records` promises its readers |
| `CostExtraction` | the extractor processes, their batches, health rows and exit codes; implements `CostLedger` |
| `ApiStore` | configurations, auth providers, their secrets, alerts; replicas, migration, key change |
| `CostRecords` | what each extractor makes of a row: dates, amounts, tags, `record_id`, exchange rates |
| `WastageRules` | inventory normalisers, the ten rules, prices, finding ids |
| `CostQueries` | the endpoints of `routes/costs.py` over a table of records |
| `Conversions` | hands every bounded input to the three modules above and states what their results must satisfy |
| `MC...` | the instances for TLC: `MCExtractorRuns`, `MCWastageScan`, `MCOidcDevice`, `MCCostExtraction`, `MCConversions`, `MCApiStore` |
| `SetInduction` | lemmas: least numbers, minimal subsets and ranks, which the proofs use for induction |
| `ExtractorRunsProofs`, `WastageScanProofs`, `OidcDeviceProofs`, `CostExtractionProofs`, `ApiStoreProofs` | theorems about the component of that name |
| `CostQueriesProofs` | lemmas: what the sums of the cost queries add up to |
| `ConversionsProofs` | theorems about `CostRecords`, `WastageRules` and `CostQueries` for every input |

Definitions named `...Forgets`, `...OffByOne` and the like, marked "Mutant", are
plausible bugs. Replacing the definition below them by the mutant makes TLC report
the property that `PROJECT.json` pairs it with, which shows that the property
depends on that piece of code. They are not part of the specifications.

### ExtractorRuns

The server is one uvicorn process. Its handlers are `async` but call blocking code
and never await, so that a start, a cancel or the shutdown runs on the event loop to
its end before the next one: variables `pc` and `cur` say where it stands. Between
two of its steps any monitor thread may act (`mon[r]`). `row` is the status column
together with the error message, because 'failed' means four different things
("Exit code", "Monitor thread error", "Cancelled by user", "Server shutdown").
`child` is the real state of the process, `code` what `Popen.returncode` holds, and
they differ until somebody polls or waits: a monitor that leaves its loop because of
the shutdown event reads a `returncode` of `None`. `leaked` counts connections that
were taken and not released. `orphan` records why nobody is left to finish a row;
`cancelled` and `writers` record what was answered and who wrote.

The actions follow the code's order: insert, Popen, register, start thread; read,
write, pop; lock, kill, update, pop; event, lock, kill and update each, clear, close
pools. A new server process (`Restart`, `Crash`) keeps rows and children.

### WastageScan

A scan is named by its `started_at`, so `lastSeen[f] = s` says that `last_seen_at`
was written by scan `s`. A scan opens its run, reads the inventory of one account
(`StreamInventory`; a query, row or rule that fails is skipped, so any part may be
missing, and what is missing is not seen), commits all upserts at once, reads the cutoff (`AtOffset`, the n-th
completed run counted from the latest), resolves, and closes its run. It may raise,
be killed, or fail to close at any point. `wasted` is the truth in the cloud and
changes freely. The user endpoints go through `query_one`, which does not commit:
`SetFindingStatus` changes only what the user was told (`answered`).

### OidcDevice

`store` and `expires` are the in-memory device codes, `idp` and `until` what the
provider knows. A poll takes its code out (`PollTakesCode`), awaits discovery, the
token endpoint and the keys, and ends with an answer. `IdpAnswers` is the moment the
provider acts, so that a response can be lost after the code has been redeemed.
`OIDCError` is the handler that stores the code again; `Lose` marks the paths that do
not, as when a body is no JSON (`PollReadsNoJson`). Keys are numbered; the provider publishes old keys along with the new one, and
a token verifies if the key set in the cache is recent enough. The rate limits of
the endpoints are early returns that leave a login as it is.

### CostExtraction

Six programs share one skeleton and differ in order and in manners, so that there is
one set of actions and a record of policies per program (`AzureRun`, `GcpMarks`, ...),
each mapped to the lines that decide it. azure comes in three kinds because its
`main()` has three modes with different names for their health rows. A process goes
through its scopes (resource groups, subscriptions, projects): `Fetch` with tenacity's
retries, `MarkStart`, `InsertBatch` as often as needed, `Finish`; on an exception
`MarkFailure`, after which azure skips the scope and the others exit. `FetchNothing` is
the quiet exit of aws, llm and fx. `InsertFails` may or may not have committed.
`NormaliseRaises` is gcp's row that cannot be converted in the middle of the loop, after
some of its batches are committed. azure's `_insert_batch` tries three times over the same
connection, closed or in a failed transaction that nobody rolls back, so that the retries
come to nothing and `InsertFails` is the failure they end in. `Kill` is a cancel, a job's time limit or a lost host.

`table` is `cost_records` by `record_id`; two rows may have one id (`IdOf`), because that
is what the ids of azure and gcp do. `bill` is what the provider charges and grows;
`snap` is what a process has fetched of it, which may be old when it is stored. `health`
carries, beside status and count, the rows a 'success' answers for, and `seen` the rows a
run answers for with its exit status: both are history, and no guard reads them.
Quality says which rows an extractor takes, skips or raises on; `CostRecords` computes
the same outcome from the fields of a row.

### ApiStore

A row is what it holds in the clear, its secret, and how the secret is stored: in the
clear, as a string nothing can read, or under a key. `Encrypt` and `Decrypt` follow
`utils/encryption.py`, including that a token under another key is left out silently.
A handler blocks its replica's event loop, so a replica has at most one request under way
(`op`), but a read and a write are two transactions, and the other replica or the
migration may come between: `CliUpdateReads` / `CliUpdateWrites`, `ProviderChecks` /
`ProviderWrites`, `DeleteProviderChecks` / `DeleteProviderWrites`. `Commits` says which
helper of `queries/base.py` commits: `query_one` and `query_all` do not.
The migration is one transaction: it fetches a table, decides row by row, holds the rows
it has written (`Locked`), and commits or rolls back. `lapses` records which write ignored
what a row held, so that `SecretIsKept` and `UpdateIsKept` say exactly by which overlap
something can be lost. `Checked` tells the two schemas apart: alembic has CHECKs that
refuse what `register_azure_service_account` stores, `sql/init_docker.sql` has none. The
run uses the latter, because it allows more.

### CostRecords, WastageRules, CostQueries, Conversions

No state: each function of the code is an operator. Texts are abstract values and a
missing, empty or malformed field is a value of its own, because that is where the
converters differ (azure raises on a null date, gcp takes the current time for it).
A query with a LIMIT is the set of the answers it may give (`FirstRows`, `LargestGroups`),
empty if the request raises.
Money is an integer in units of the last digit kept, rates are scaled by `Scale`, and
rounding is the code's (`ROUND_HALF_EVEN` for amounts, half up for rates). A time is a local
time and an offset, because a `record_id` hashes the written form. A name with a letter
case is a pair, because ids are lower-cased in some places only. `Conversions` takes one
input per behaviour, and its invariants compare results with each other and with reference
statements: two ways to load the same usage and what becomes of its credits (`AsBigQuery`,
`AsCsv`), a billed amount and the stored one, a charge and its refund, a rescan in other
spelling, a remedy and the scan after it, the endpoints with one another, a period and the one
before it. Time in the queries is finer than a second, because `now()` is.

## Runs

| Run | Shows | Bounds |
|---|---|---|
| `extractor_runs` | type, `SuccessMeansExitZero`, `RunningIsOwned`, `LiveChildIsTracked`, `CancelledIsOver`, refinement of `RunLedger` | 2 runs, 4 slots, all faults |
| `extractor_live` | `ExitIsReported`, `ShutdownTerminates` | 2 runs, 7 slots, no faults |
| `wastage_serial` | type, `LastSeenIsLatest`, `ResolvedAfterMisses`, `UserStatusIsKept` | 1 finding, threshold 2, 5 scans, all faults |
| `wastage_exact` | `OpenIsRecent`, `ScanEnds` | the same, but a fault is a query or a rule that fails and no scan is cut short |
| `oidc_device` | type, `OneHolder`, `CodeIsAccounted`, `SessionIsEarned`, `FinalIsForgotten` | 2 codes, 2 polls, 2 ticks, 2 keys, all faults |
| `oidc_device_live` | `LoginCompletes` | 2 codes, 2 polls, no time, no faults |
| `cost_extraction` | type, `SuccessIsComplete`, `ExitZeroIsComplete`, `CountIsHonest`, refinement of `CostLedger`, `RerunRecovers` | 2 processes of each extractor (and gcp with csv), 2 rows in 2 scopes, 2 ids, batches of 1, 1 fault |
| `conversions` | `GcpModesAgree`, `RowsAreConserved`, `RefundCancels`, `RatesAreConsistent`, `RescanFindsTheSame`, `RemedyClears`, `AnswersAgree`, `PeriodsTile` | 25 810 inputs |
| `api_store` | type, `SecretIsKept`, `UpdateIsKept`, `MigratedIsEncrypted`, `NamesAreUnique`, `UsersHaveProvider` | 2 replicas, 1 configuration, 2 providers, 2 keys, 4 requests |

Why the bounds are enough to be interesting. Two runs let the lock, the pool and the
shutdown loop of one get in the way of the other; a third adds no new kind of
conflict. Four slots are exhausted by one start, one update and one more start, so
every action also meets an empty pool; seven is more than two runs can leak in one
server life, so that liveness is not an effect of exhaustion. The threshold 2 with
five scans leaves room for two misses, a failed scan between them, the scan that
resolves and one after it. One finding suffices because findings do not influence
each other. Two codes are needed because a key set cached for one login is what
another one meets after a rotation; a code lives one tick at the provider, none in
the store once it is stored again, so that each can outlive the other within two
ticks. Two processes with two rows and batches of one are enough for a batch of one to fall
between two batches of the other, for a kill between two batches, for two rows that
compete for an id, and for a failed scope before a good one; each kind meets a row of the
quality it treats in its own way. Amounts do not grow in that run (`MaxBill = 1`); with
`MaxBill = 2` the same properties hold over 730 034 states, but it takes longer than five
minutes, and the theorems cover it. Four requests suffice for two overlapping
updates with a migration and a change of key between them. The inputs of `conversions` are
every combination of regular, missing, empty and malformed fields (for gcp with and without
credits, for aws a null amount too), and for the queries every subset of seven records that
sit on the boundaries of the periods, one of them fully discounted, with requests that end on
a whole second and between two. The limits are below the number of records, so that both
sides of each are met.
The theorems remove the bounds for the safety properties they state.

Deadlock is checked everywhere but in `api_store`, where administrators may stop asking, and
`conversions`, where a behaviour ends with its input.

Runs that end in a violation, each of a statement in the repository:

| Run | Statement | What happens |
|---|---|---|
| `extractor_shutdown` | "Cancel all running extractor subprocesses" (`runner.py:307`) | the event is set before the lock is taken; a monitor wakes up, writes 'failed', pops its entry, and its child is never terminated |
| `record_id_unique` | "Unique hash" (`README.md:68`) | azure's hash leaves out the resource group the query groups by; the second of two rows is never stored |
| `api_answer` | "Sets alert status to `ack` and records the acknowledging user and timestamp" (`docs/openapi.yaml:2081`) | the UPDATE runs through `query_one` or `query_all` and is rolled back; so is a PUT of a configuration |

### What the models make plain without a run of their own

* The runner: a cancel that was answered can be followed by 'success', when the child had
  exited with 0 before it was killed (`runner.py:293`); connections taken by
  `start_extractor` and `_update_run_status` are never released (`runner.py:152`, `:201`).
  `RunningIsOwned` names the empty pool as one of the reasons a row may stay 'running'.
* The scanner: a rule or a query that fails is skipped and its scan still ends 'done', so that
  the findings it would have made count as missed and are resolved in the end
  (`wastage/runner.py:191`); the properties are stated on what scans saw. "Absent for N consecutive runs" takes N + 1, because the current run is not
  yet 'done' when the cutoff is read; `OpenIsRecent` has the bound the code keeps. Scans of
  other accounts of the provider count as misses (`wastage/runner.py:104`). A queued scan
  (`TriggerScan`) is never picked up. With overlapping scans (`Overlap = TRUE`) an older
  scan that commits last moves `last_seen_at` back, and a finding every scan has made can
  be resolved.
* Device login: an HTTP error status of the token endpoint is not an `OIDCError`, and neither is
  a discovery document or a key set that is no JSON, so that the code is forgotten although the
  handler means to keep it (`oidc.py:651`, `:79`, `:128`). A code that is stored again gets 300
  new seconds whatever is left of its lifetime at the provider (`oidc_device_auth.py:328`).
* Extractors: azure skips a failed scope and exits with 0, so `ExitZeroIsComplete` answers
  for the other scopes only; a row gcp cannot normalise stops its project, and those after
  it, at every rerun (`Blocked` in `RerunRecovers`); all but gcp count what they
  sent, although `gcp_csv.py:71` says conflicts are excluded.
* Configurations: under a new key, a CLI update writes a configuration back without the secret
  it could not read; an update based on an older copy loses fields; a migration that overlaps
  the update of a provider puts the old secret back. The migration's docstring says that it is
  "rolled back automatically if any row fails to decrypt or re-encrypt"; such rows are skipped
  and the rest is committed.
* GCP's two modes: an export in another zone gets other ids than BigQuery's rows, hence the
  condition in `GcpModesAgree`. Only BigQuery's query reads the credits (`gcp_billing.py:126`),
  so that the net costs of one usage differ by them (`gcp_billing.py:177,209`,
  `gcp_shared.py:265-268`), and because the ids are equal, the mode that is loaded first decides
  which is kept. The account differs too: the project in one mode, the billing account in the
  other (`gcp_billing.py:199`, `gcp_shared.py:260`), and so does the currency. Both modes
  store a cost they cannot read as 0 and go on (`gcp_billing.py:170-173`,
  `gcp_shared.py:232-235`): `RowsAreConserved` says so for gcp, in contrast to the other
  extractors, which skip such a row (aws ends its run on a null amount).
* Currencies: rows of gcp and csv in another currency are stored as dollars, and so are azure's
  where there is no rate. The docstring of `_convert_to_usd_rates` says that the rate of the euro
  is "1 / usd_per_eur" (`exchange_rates.py:147`); the code stores `usd_per_eur`, as its comments
  and the seed data have it, and `RatesAreConsistent` sides with the code: the inverse would
  make a euro worth less than a dollar when it is worth more. It is listed under the findings. The
  price catalogue is in euros and the findings say dollars (`wastage/runner.py:87`).
* Queries: a fully discounted row counts at full cost everywhere (`NULLIF(net, 0)`) but in the
  export, which writes its net cost, 0 (`costs.py:171`); `AnswersAgree` gives the difference. The
  list stops at 1000 rows and the export at 10000 without saying so, and the properties about
  them are for answers below the limit. The list never parses an end date that is given as text, so
  that it raises with a window or without a start (`costs.py:52-57`). The export without dates is
  empty; the list ignores its page; by-sku's "mtd" is all time; the dashboard leaves out aws.
* Compared periods: between the two there is a gap of a second. `7d`, `30d` and `90d` are counted back
  from `now()`, microseconds included (`costs.py:198-213`), so that a usage on a whole second, as
  every daily or hourly row is, may start in the gap and is then counted in neither. `PeriodsTile`
  says that nothing else is left out, and that month-to-date and a period that ends on a whole
  second lose no such usage; the run reaches the case in which one is lost.

## Fairness

`ExtractorRuns!FairSpec`: a handler the event loop has entered goes on; a monitor
whose child has ended sees it (end of file on the pipe), writes and pops. Nothing
makes a child exit, nothing wakes a monitor blocked in `readline()` on a silent
child, nobody has to send a request. This is the operating system's scheduling and
no more. `WastageScan!FairSpec`: a scan's process that was started goes on.
`OidcDevice!FairSpec`: handlers go on, each request to the provider ends (they have
a timeout of ten seconds), and a client keeps polling, as the endpoint's docstring
asks. The latter is strong fairness because polls compete for the model's two slots,
a bound the server does not have. `CostExtraction!FairSpec`: a process that is at work takes
its next step, and the schedule (the cron jobs under `deploy/`) launches each extractor again;
`MaxFaults` bounds how often something fails, so that `RerunRecovers` says what happens once
the failures are over. `ApiStore` and `Conversions` state no liveness.

The liveness runs of the first three exclude the faults that stop the work (`wastage_exact` keeps
failing queries and rules): a failed update, a full pool or a crash does leave
rows 'running' for good, which is what the reasons in `RunningIsOwned` list.

## Proofs

All are of the form `Spec => []P` (or `[][A]_vars`, or the refinement), for every
value of the constants that the named assumptions allow: finite sets are not
required (except the rows of a bill and of a table that is queried), faults are an arbitrary set or number, lifetimes and
thresholds arbitrary numbers.

* **ExtractorRunsProofs.** The properties are not inductive: that a row says
  'success' rightly depends on what a monitor carries in `outcome`, which depends on
  whether `code` agrees with `child`. `IInv` adds: a run without a row has left no
  trace (`FreshRuns`); where the event loop stands says what it knows of its run
  (`LoopState`); what a monitor and the process table know is true
  (`MonitorState`); each writer still has its turn or has had it (`WriterState`,
  needed for the refinement). Theorems `TypeCorrect`, `SuccessIsSound`,
  `RunningHasOwner`, `LiveChildHasEntry`, `CancelIsEffective`, `ImplementsLedger`.
* **WastageScanProofs**, under the assumption that scans do not overlap (with
  overlapping scans `ResolvedAfterMisses` is false, because the order of the starts
  is not the order of the commits; the cron job forbids overlap,
  `deploy/k8s/wastage-extractor-cronjob.yaml:29`, a manual run does not). `IInv`
  adds that one scan is at work at a time and completed ones are older
  (`OneAtATime`, `PastScans`), that what scans have seen is reflected in
  `last_seen_at` (`SeenMarks`, `LastSeenIsLatest`), and that a cutoff that was read is
  still at its offset (`CutoffState`). `CutoffCounts` is the arithmetic core: the
  runs from the cutoff to the latest are `Threshold` many. Theorems `TypeCorrect`,
  `LastSeenIsSound`, `UserStatusStays`, `AutoResolveIsSafe`. The converse, `AutoResolveIsPrompt`,
  also assumes that no scan is cut short (`Faults \subseteq {"partial"}`; a query or a rule may
  fail). Its invariant says that no scan has ended other than 'done' (`Endings`) and counts the
  completed scans since a finding was last made (`Recent`): at most `Threshold`, and one less
  while a scan is between its UPDATE and closing its run, because it is about to become one of
  them. That the UPDATE finds its cutoff whenever there are `Threshold` such scans is
  `RankExists`: in a set of more than n numbers, one has n above it.
* **OidcDeviceProofs.** `IInv` adds that logins that were not started have left no
  trace (`UnknownIsFresh`) and that a response in the hands of a poll is still true
  when it is read (`PollState`): nobody else can redeem the code meanwhile because
  nobody else holds it, so `OneHolder` carries the other properties. Theorems
  `TypeCorrect`, `CodeHasOneHolder`, `CodeIsNeverMislaid`, `SessionIsSound`,
  `FinalIsFinal`.

* **CostExtractionProofs**, for any processes, deployment, rows, ids, scopes, row qualities,
  batch size, bills and number of faults. None of the properties is inductive: when 'success' is
  written, its truth depends on what became of every row since the fetch. `IInv` says for
  each process what it has at hand (`Hand`: rows of its scope at amounts they were billed at,
  nothing before the fetch), that every row it has seen is stored or still owed (`SeenState`,
  `Owed`: the rest of its batches, or the whole scope once it failed), and that its count
  keeps up with what it added (`CountState`, which needs that an id it added is taken and so
  disjoint from the ids of the next batch). `CommitFacts` is the core: a batch leaves all
  records alone, adds records of billed rows, and afterwards all its rows are stored;
  `OthersKeep` carries the rest of the invariant from one process to the others because
  nothing ever leaves the tables. Theorems `TypeCorrect`, `SuccessMeansStored`,
  `ExitZeroMeansStored`, `CountMeansAdded`, and the refinement `ImplementsCostLedger`.
* **ApiStoreProofs**, for any replicas, rows, names, secrets, keys and legacy data, any number of
  requests, migrations and changes of the key, and either schema. `IInv` has two halves. `Core` is about
  the tables: two providers have two names and the migration keeps the name of a row it
  holds (`DistinctNames`); a row that was fetched is sealed, or has been rewritten, or is
  still as it was fetched and to be looked at, and is never created anew (`Sealing`). `Kept` is about what
  administrators were told: every copy in somebody's hands, a CLI update's or the
  migration's, carries the secret given last or a lapse that explains the difference
  (`GoodCopy`, `Copies`). The migration rewrites only what it can decrypt, which is why it
  cannot lose the secret of a configuration: none of the handlers that run while it holds a
  copy stores a new one. The assumptions on the constants are that the marks for
  missing rows are not rows, that keys are not the names of the other forms, and
  `LegacyAssumption`. Theorems `TypeCorrect`, `UniqueNames`, `UsersKeepProvider`,
  `MigrationSeals`, `SecretKept`, `UpdateKept`.

* **ConversionsProofs**, for every input. A behaviour of `Conversions` hands over one input, so
  the inductive invariant is just that it comes from the set of its case (`Handed`), and the work
  is in the operators. Money: half-even rounding is odd, off by at most half a step and exact on
  multiples (`HalfEven`, `HalfEvenExact`, from the division of integers), which gives
  `RefundsCancel` and, with the case analysis of the five converters, `RowsKeepTheirAmount`;
  `RatesConsistent` rests on `HalfUp`. `GcpResults` computes what the two modes make of any usage,
  with or without credits, from what `Aware` does to an instant; `GcpModesAgreeUpToCredits` and the
  gcp part of `RowsKeepTheirAmount` read it off. Resources: the normalisers read the projected columns and the lower-cased names only
  (`SameColumnsSameRow`), which gives `RescansFindTheSame`; changing one column leaves the rest of
  the row (`OneColumn`), which gives `RemediesClear` with one case per rule. The category
  tables, price catalogue, non-production groups and age limit are arbitrary. The assumptions
  are that the marks for missing and malformed fields are no numbers, times or currencies
  (`MarksAssumption`), amounts are numbers or marks (`AmountsAssumption`), an LLM request
  does not end before it starts (`TimesAssumption`), the ECB quotes the dollar and positive rates
  (`EcbAssumption`), a resource has the columns its query projects and what is missing or empty is none of
  the texts rules and remedies look for (`ResourcesAssumption`), a table is finite with whole
  amounts and times (`TablesAssumption`), and a day and a month are whole seconds
  (`QueriesAssumption`).
* **CostQueriesProofs** and, from it, `AnswersAlwaysAgree` and `PeriodsTileAlways`. Every total is a
  fold over a set that takes its members in an order `CHOOSE` decides. `PartialExists` shows that the
  recursive function behind the fold exists, level by level of the number of members;
  `PartialRemove` that any member may be taken first; `PartialUnion` and `PartialAgrees` that sums
  split and depend on the values only. `GroupsAddUp` is the central lemma: the sums of a
  GROUP BY add up to the sum of the rows in those groups. `BelowTheLimit` says when a LIMIT does not
  cut in, `DateOrder` that grouping by day respects the period, and `NetsAddUp` that net costs add up to
  what the other endpoints show less the rows whose net cost is 0 (`PartialOfZeros`).
  `TotalsTile` has no condition on the usages: the two periods are all of the span but the gap.
  `PeriodStartsOnSecond` says when the later period starts on a whole second, and
  `NoMultipleBetween` that a usage on a whole second is then not in the gap.

The provers cannot instantiate the library's induction rules, which take a predicate as a
parameter. Induction is done without: suppose the set of counterexamples is not empty, take its
least number (`LeastOf`) or a minimal subset (`MinimalSubset`), and refute it.

Only model-checked: the liveness properties (`ExitIsReported`, `ShutdownTerminates`,
`ScanEnds`, `LoginCompletes`, `RerunRecovers`), which need fairness. Every invariant and action
property of a passing run is a theorem.

## What is not modelled

Text: log capture and sanitising, record counts parsed from logs, KQL, dashboards.
Library internals: the pool's own threads, slowapi, httpx. Queries without effect on
state, apart from the cost queries. The time a start of a device login spends waiting for
the provider. The discovery cache beyond the fact that discovery may fail. `test_provider` and
`test_config` call the outside and keep nothing that others read. The project endpoints
work on a table nothing else uses.

The OIDC browser login: against PostgreSQL its callback cannot succeed. `UUID(provider["id"])`
in `oidc_auth.py` is given a `UUID`, which psycopg already returns, and raises
`AttributeError`; the callback compares the `str` that
`validate_and_consume_state` returns with a `UUID`; and provisioning leaves out
`hashed_password`, which is NOT NULL in `sql/init_docker.sql:140`. A model of what comes after
would have no reachable state.

Local logins and JWTs: a token is checked against its signature and expiry only, and carries
`is_admin` for as long as it lives; there is no state to model. `health_check.py` is used by its
tests only, `pagination.py` by nothing. `PROJECT.json` gives the reason for each component.

## Plan

1. The exit status of `CostExtraction` composed with the status that `ExtractorRuns` reports.
