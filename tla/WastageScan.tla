----------------------------- MODULE WastageScan -----------------------------
(***************************************************************************)
(* The wastage scanner of backend/app/wastage/runner.py and the endpoints  *)
(* of backend/app/api/routes/wastage.py: scans that read the inventory of  *)
(* one account, upsert the findings they make and resolve the findings     *)
(* nobody has made for a while.                                            *)
(*                                                                         *)
(* A scan is named by its started_at, which is also the last_seen_at of    *)
(* the findings it makes, so that scan 3 started before scan 4.  Scans run *)
(* in processes of their own; what they share is the tables                *)
(* resource_wastage (status, lastSeen) and wastage_scan_runs (run).        *)
(***************************************************************************)
EXTENDS Naturals, FiniteSets

CONSTANTS Findings,   \* finding ids: one per (provider, resource, rule)
          Accounts,   \* the subscriptions the jobs are configured for
          AccountOf,  \* AccountOf[f]: the subscription that holds the resource
          Threshold,  \* consecutive_miss_threshold
          MaxScans,   \* bound: how many scans are started or queued
          Overlap,    \* may a scan be started while another one is at work?
          Faults      \* the failures of the environment that may occur

FaultKinds ==
  {"partial",  \* a Resource Graph query or a rule fails and is skipped
   "db",       \* PostgreSQL refuses a statement of the scan
   "crash"}    \* the scan's process is killed

Scans == 1..MaxScans

ASSUME ThresholdAssumption == Threshold \in Nat \ {0}
ASSUME MaxScansAssumption == MaxScans \in Nat
ASSUME AccountsAssumption == AccountOf \in [Findings -> Accounts]
ASSUME FaultsAssumption == Faults \subseteq FaultKinds
ASSUME OverlapAssumption == Overlap \in BOOLEAN

VARIABLES
  status,    \* resource_wastage.status, "none" where there is no row
  lastSeen,  \* resource_wastage.last_seen_at
  run,       \* wastage_scan_runs.status
  pc,        \* where each scan stands
  account,   \* the account each scan reads
  seen,      \* the findings each scan makes
  cutoff,    \* the cutoff each scan has read, 0 for none
  clock,     \* the last started_at given out
  wasted,    \* the resources that are wasteful right now
  answered   \* the status a user was last told the finding has

vars == <<status, lastSeen, run, pc, account, seen, cutoff, clock, wasted,
          answered>>
findingVars == <<status, lastSeen>>
envVars == <<account, clock, wasted, answered>>

Active(s) == pc[s] \notin {"absent", "queued", "ended"}
Done == {s \in Scans : run[s] = "done"}

\* The findings a deployment starts with come from sql/seed/wastage_demo.sql.
Init == /\ status \in [Findings -> {"none", "open", "acked"}]
        /\ lastSeen = [f \in Findings |-> 0]
        /\ run = [s \in Scans |-> "absent"]
        /\ pc = [s \in Scans |-> "absent"]
        /\ account \in [Scans -> Accounts]
        /\ seen = [s \in Scans |-> {}]
        /\ cutoff = [s \in Scans |-> 0]
        /\ clock = 0
        /\ wasted \in SUBSET Findings
        /\ answered = [f \in Findings |-> "none"]

\* A resource becomes wasteful or stops being so.
CloudChanges(f) ==
  /\ wasted' = IF f \in wasted THEN wasted \ {f} ELSE wasted \cup {f}
  /\ UNCHANGED <<status, lastSeen, run, pc, account, seen, cutoff, clock,
                 answered>>

-----------------------------------------------------------------------------
(* run_scan.                                                               *)

Goto(s, next) == pc' = [pc EXCEPT ![s] = next]

\* The run record is committed as 'running'.
ScanStarts(s) ==
  /\ s = clock + 1
  /\ Overlap \/ \A t \in Scans : ~Active(t)
  /\ clock' = s
  /\ run' = [run EXCEPT ![s] = "running"]
  /\ Goto(s, "read")
  /\ UNCHANGED <<findingVars, account, seen, cutoff, wasted, answered>>

\* stream_inventory of one account, the rules applied to it.  A query, a row or a
\* rule that fails is logged and skipped, and its findings are lost.
StreamInventory(a, lost) == {f \in wasted \ lost : AccountOf[f] = a}

\* The findings of the scan's account; those written so far are not committed.
ScanReads(s) ==
  /\ pc[s] = "read"
  /\ \E lost \in SUBSET wasted :
       /\ lost = {} \/ "partial" \in Faults
       /\ seen' = [seen EXCEPT ![s] = StreamInventory(account[s], lost)]
  /\ Goto(s, "commit")
  /\ UNCHANGED <<findingVars, run, cutoff, envVars>>

\* Mutant: ON CONFLICT DO NOTHING.
ScanCommitsNewOnly(s) ==
  /\ pc[s] = "commit"
  /\ status' = [f \in Findings |->
                  IF f \in seen[s] /\ status[f] = "none" THEN "open" ELSE status[f]]
  /\ lastSeen' = [f \in Findings |->
                    IF f \in seen[s] /\ status[f] = "none" THEN s ELSE lastSeen[f]]
  /\ Goto(s, "cutoff")
  /\ UNCHANGED <<run, seen, cutoff, envVars>>

\* The upserts of the whole scan are committed: a new finding is 'open', an old
\* one keeps its status.
ScanCommits(s) ==
  /\ pc[s] = "commit"
  /\ status' = [f \in Findings |->
                  IF f \in seen[s] /\ status[f] = "none" THEN "open" ELSE status[f]]
  /\ lastSeen' = [f \in Findings |-> IF f \in seen[s] THEN s ELSE lastSeen[f]]
  /\ Goto(s, "cutoff")
  /\ UNCHANGED <<run, seen, cutoff, envVars>>

\* The inventory or an upsert raises: the transaction is rolled back.
ScanRaises(s) ==
  /\ "db" \in Faults
  /\ pc[s] \in {"read", "commit"}
  /\ seen' = [seen EXCEPT ![s] = {}]
  /\ Goto(s, "close error")
  /\ UNCHANGED <<findingVars, run, cutoff, envVars>>

\* Mutants: the offset is one too small or one too large.
AtOffsetShort(n) == {c \in Done : Cardinality({d \in Done : d > c}) = n - 1}
AtOffsetLong(n) == {c \in Done : Cardinality({d \in Done : d > c}) = n + 1}

\* The scan at OFFSET n of the completed ones, latest first.
AtOffset(n) == {c \in Done : Cardinality({d \in Done : d > c}) = n}

\* _auto_resolve_stale looks up started_at of the Threshold-th completed run; its
\* own run is not completed yet.
ScanFindsCutoff(s) ==
  /\ pc[s] = "cutoff"
  /\ \E c \in AtOffset(Threshold - 1) :
       /\ cutoff' = [cutoff EXCEPT ![s] = c]
       /\ Goto(s, "resolve")
  /\ UNCHANGED <<findingVars, run, seen, envVars>>

\* Mutant: the early return leaves run_scan as well.
ScanSkipsResolveAndClose(s) ==
  /\ \/ pc[s] = "cutoff" /\ AtOffset(Threshold - 1) = {}
     \/ pc[s] \in {"cutoff", "resolve"} /\ "db" \in Faults
  /\ Goto(s, "ended")
  /\ UNCHANGED <<findingVars, run, seen, cutoff, envVars>>

\* Fewer than Threshold completed runs, or an error that is swallowed.
ScanSkipsResolve(s) ==
  /\ \/ pc[s] = "cutoff" /\ AtOffset(Threshold - 1) = {}
     \/ pc[s] \in {"cutoff", "resolve"} /\ "db" \in Faults
  /\ Goto(s, "close")
  /\ UNCHANGED <<findingVars, run, seen, cutoff, envVars>>

\* Mutant: the WHERE clause does not ask for status = 'open'.
ScanResolvesAny(s) ==
  /\ pc[s] = "resolve"
  /\ status' = [f \in Findings |->
                  IF status[f] # "none" /\ lastSeen[f] < cutoff[s]
                  THEN "resolved" ELSE status[f]]
  /\ Goto(s, "close")
  /\ UNCHANGED <<lastSeen, run, seen, cutoff, envVars>>

\* Mutant: a status that the enum wastage_status does not have.
ScanResolvesStale(s) ==
  /\ pc[s] = "resolve"
  /\ status' = [f \in Findings |->
                  IF status[f] = "open" /\ lastSeen[f] < cutoff[s]
                  THEN "stale" ELSE status[f]]
  /\ Goto(s, "close")
  /\ UNCHANGED <<lastSeen, run, seen, cutoff, envVars>>

\* UPDATE ... SET status = 'resolved': open findings of the provider that were
\* last seen before the cutoff, whatever their account.
ScanResolves(s) ==
  /\ pc[s] = "resolve"
  /\ status' = [f \in Findings |->
                  IF status[f] = "open" /\ lastSeen[f] < cutoff[s]
                  THEN "resolved" ELSE status[f]]
  /\ Goto(s, "close")
  /\ UNCHANGED <<lastSeen, run, seen, cutoff, envVars>>

\* _close_scan_run; an error in it is swallowed and leaves the run 'running'.
ScanCloses(s) ==
  /\ pc[s] \in {"close", "close error"}
  /\ \/ run' = [run EXCEPT ![s] = IF pc[s] = "close" THEN "done" ELSE "error"]
     \/ "db" \in Faults /\ UNCHANGED run
  /\ Goto(s, "ended")
  /\ UNCHANGED <<findingVars, seen, cutoff, envVars>>

\* The process dies: what it has not committed is lost, its run stays 'running'.
ScanCrashes(s) ==
  /\ "crash" \in Faults
  /\ Active(s)
  /\ seen' = [seen EXCEPT ![s] = IF pc[s] \in {"read", "commit"} THEN {} ELSE @]
  /\ Goto(s, "ended")
  /\ UNCHANGED <<findingVars, run, cutoff, envVars>>

-----------------------------------------------------------------------------
(* The API.                                                                *)

\* POST /wastage/scan: create_scan_run commits a 'running' record of its own, or
\* fails to and the failure is swallowed.  No process ever looks for the record.
TriggerScan(s) ==
  /\ s = clock + 1
  /\ clock' = s
  /\ \/ run' = [run EXCEPT ![s] = "running"]
     \/ "db" \in Faults /\ UNCHANGED run
  /\ Goto(s, "queued")
  /\ UNCHANGED <<findingVars, account, seen, cutoff, wasted, answered>>

\* POST /wastage/{id}/ack, resolve and ignore: set_finding_status runs its UPDATE
\* through query_one, which returns the connection without a commit, and the pool
\* rolls it back; the user is told the new status.
SetFindingStatus(f, new) ==
  /\ status[f] # "none"
  /\ answered' = [answered EXCEPT ![f] = new]
  /\ UNCHANGED <<findingVars, run, pc, account, seen, cutoff, clock, wasted>>

-----------------------------------------------------------------------------
Scan(s) == \/ ScanReads(s) \/ ScanCommits(s) \/ ScanRaises(s)
           \/ ScanFindsCutoff(s) \/ ScanSkipsResolve(s) \/ ScanResolves(s)
           \/ ScanCloses(s) \/ ScanCrashes(s)

Next == \/ \E s \in Scans : ScanStarts(s) \/ TriggerScan(s) \/ Scan(s)
        \/ \E f \in Findings : CloudChanges(f)
        \/ \E f \in Findings, new \in {"acked", "resolved", "ignored"} :
             SetFindingStatus(f, new)

Spec == Init /\ [][Next]_vars

\* A scan's process that has started goes on.
FairSpec == Spec /\ \A s \in Scans : WF_vars(Scan(s))

-----------------------------------------------------------------------------
(* Properties.                                                             *)

TimesOK == /\ lastSeen \in [Findings -> 0..MaxScans]
           /\ cutoff \in [Scans -> 0..MaxScans]
           /\ clock \in 0..MaxScans

TypeOK ==
  /\ TimesOK
  /\ status \in [Findings -> {"none", "open", "acked", "resolved", "ignored"}]
  /\ run \in [Scans -> {"absent", "running", "done", "error"}]
  /\ pc \in [Scans -> {"absent", "queued", "read", "commit", "cutoff", "resolve",
                       "close", "close error", "ended"}]
  /\ account \in [Scans -> Accounts]
  /\ seen \in [Scans -> SUBSET Findings]
  /\ wasted \subseteq Findings
  /\ answered \in [Findings -> {"none", "acked", "resolved", "ignored"}]

\* The completed scans since the last completed one that made the finding.
MissedBy(f) == {d \in Done : \A e \in Done : e >= d => f \notin seen[e]}

\* A scan resolves a finding only if it has not made it itself and at least
\* Threshold completed scans before it, in a row, have not made it either
\* (runner.py:288-293).
ResolvedAfterMisses ==
  [][\A f \in Findings :
       status[f] = "open" /\ status'[f] = "resolved" =>
         /\ Cardinality(MissedBy(f)) >= Threshold
         /\ \E s \in Scans : pc[s] = "resolve" /\ f \notin seen[s]]_vars

\* last_seen_at of a finding is the start of the last scan that committed it,
\* failed, killed and unclosed scans included (runner.py:91-96).
LastSeenIsLatest ==
  \A f \in Findings, s \in Scans :
    /\ f \in seen[s] /\ pc[s] # "commit" => s <= lastSeen[f]
    /\ lastSeen[f] = s => f \in seen[s]

\* A scan never changes the status of a finding that a user has dealt with
\* (runner.py:100).
UserStatusIsKept ==
  [][\A f \in Findings :
       status[f] \in {"acked", "ignored"} => status'[f] = status[f]]_vars

\* If every scan runs to its end, an open finding has been made by one of the last
\* Threshold + 1 completed scans, as long as there are so many (runner.py:281-322).
OpenIsRecent ==
  \A f \in Findings :
    /\ status[f] = "open"
    /\ \A s \in Scans : ~Active(s)
    => Cardinality(MissedBy(f)) <= Threshold

\* A scan that has started ends and closes its run (runner.py:217-227).
ScanEnds == \A s \in Scans : Active(s) ~> run[s] \in {"done", "error"}
=============================================================================
