------------------------------ MODULE RunLedger ------------------------------
(***************************************************************************)
(* What the table extractor_runs promises its readers, with the processes, *)
(* threads and locks of backend/app/api/runner.py hidden: a row is         *)
(* inserted once as 'running', and is rewritten at most twice after that,  *)
(* once by the thread that watches the child process and once by an        *)
(* operator (a cancel request or the server's shutdown).  Only the watcher *)
(* can report success.                                                     *)
(***************************************************************************)
CONSTANTS Runs

VARIABLES row,      \* row[r]: status and error message of the run's row
          writers   \* writers[r]: who has rewritten the row since its INSERT

WatcherOutcomes == {"success", "exit code", "monitor error"}
OperatorOutcomes == {"cancelled", "shutdown"}
Finished == WatcherOutcomes \cup OperatorOutcomes

ledgerVars == <<row, writers>>

LedgerInit == /\ row = [r \in Runs |-> "absent"]
              /\ writers = [r \in Runs |-> {}]

Open(r) == /\ row[r] = "absent"
           /\ row' = [row EXCEPT ![r] = "running"]
           /\ UNCHANGED writers

Report(r, who, outcome) ==
  /\ row[r] # "absent"
  /\ who \notin writers[r]
  /\ row' = [row EXCEPT ![r] = outcome]
  /\ writers' = [writers EXCEPT ![r] = @ \cup {who}]

LedgerNext == \E r \in Runs :
                \/ Open(r)
                \/ \E o \in WatcherOutcomes : Report(r, "watcher", o)
                \/ \E o \in OperatorOutcomes : Report(r, "operator", o)

LedgerSpec == LedgerInit /\ [][LedgerNext]_ledgerVars
=============================================================================
