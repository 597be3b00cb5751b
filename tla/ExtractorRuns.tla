---------------------------- MODULE ExtractorRuns ----------------------------
(***************************************************************************)
(* The extractor runner of backend/app/api/runner.py: extractor            *)
(* subprocesses started, watched, cancelled and shut down by one API       *)
(* server process, and the rows of the table extractor_runs that tell the  *)
(* users what became of them.                                              *)
(*                                                                         *)
(* Two kinds of threads act.  The event loop runs the HTTP handlers and    *)
(* the shutdown hook; those never await, so at most one of them is in      *)
(* progress (variables pc and cur).  Each started run has a monitor thread *)
(* of its own (variable mon) that interleaves with the event loop at every *)
(* step.                                                                   *)
(***************************************************************************)
EXTENDS Naturals, FiniteSets

CONSTANTS Runs,     \* the run ids start_extractor may draw
          NoRun,    \* "the event loop is busy with no run"
          PoolMax,  \* POOL_MAX_CONNS: size of the sync connection pool
          Faults    \* the failures of the environment that may occur

FaultKinds ==
  {"config",  \* the config row of a start request does not exist
   "db",      \* PostgreSQL refuses a statement
   "popen",   \* the child cannot be spawned
   "decode",  \* the monitor raises while it reads the child's output
   "crash"}   \* the server process is killed

ASSUME RunsAssumption == NoRun \notin Runs
ASSUME PoolAssumption == PoolMax \in Nat
ASSUME FaultsAssumption == Faults \subseteq FaultKinds

VARIABLES
  row,         \* extractor_runs: status, and for 'failed' its error_message
  child,       \* the child process: none, alive, or how it ended
  code,        \* Popen.returncode as the server last saw it
  mon,         \* program counter of the run's monitor thread
  outcome,     \* the status and error the monitor is about to write
  registered,  \* keys of _running_processes
  pc,          \* program counter of the event loop
  cur,         \* the run the event loop is working on
  todo,        \* runs shutdown_all has still to stop
  shutdown,    \* _shutdown_event.is_set()
  leaked,      \* pool slots taken by get_connection and never released
  cancelled,   \* runs whose cancel request was answered "cancelled"
  writers,     \* who has rewritten the row (see RunLedger)
  orphan       \* why nobody is left to finish the row or stop the child

vars == <<row, child, code, mon, outcome, registered, pc, cur, todo,
          shutdown, leaked, cancelled, writers, orphan>>

Ledger == INSTANCE RunLedger WITH Runs <- Runs, row <- row, writers <- writers

ExitCodes == {"zero", "nonzero", "signal"}
ServingPCs == {"idle", "insert", "spawn", "cancel kill", "cancel update"}
StoppingPCs == {"shutdown lock", "shutdown kill", "shutdown update", "stopped"}

Init == /\ row = [r \in Runs |-> "absent"]
        /\ child = [r \in Runs |-> "none"]
        /\ code = [r \in Runs |-> "None"]
        /\ mon = [r \in Runs |-> "none"]
        /\ outcome = [r \in Runs |-> "none"]
        /\ registered = {}
        /\ pc = "idle" /\ cur = NoRun /\ todo = {}
        /\ shutdown = FALSE
        /\ leaked = 0
        /\ cancelled = {}
        /\ writers = [r \in Runs |-> {}]
        /\ orphan = [r \in Runs |-> "no"]

-----------------------------------------------------------------------------
(* The sync connection pool, as far as the runner can see it.              *)

\* Mutant: one connection too many.
PoolHasSlotOffByOne == leaked <= PoolMax

\* get_connection() finds a free slot; otherwise it raises PoolTimeout after
\* its three attempts.
PoolHasSlot == leaked < PoolMax

\* A connection is taken and the function returns or raises without
\* release_connection: the slot stays taken.
LeakConnection == PoolHasSlot /\ leaked' = leaked + 1

\* _update_run_status: the UPDATE is committed, the connection is not released.
UpdateRunStatus(r, who, result) ==
  /\ LeakConnection
  /\ row' = [row EXCEPT ![r] = result]
  /\ writers' = [writers EXCEPT ![r] = @ \cup {who}]

\* _update_run_status raises: no slot is free, or the UPDATE fails after the
\* connection has been taken.
UpdateRunStatusRaises ==
  /\ \/ ~PoolHasSlot /\ UNCHANGED leaked
     \/ "db" \in Faults /\ LeakConnection
  /\ UNCHANGED <<row, writers>>

-----------------------------------------------------------------------------
(* start_extractor, on the event loop.                                     *)

\* POST /extractors/run: the config is read on a connection that is never
\* released.
StartExtractor(r) ==
  /\ pc = "idle" /\ row[r] = "absent" /\ child[r] = "none"
  /\ LeakConnection
  /\ pc' = "insert" /\ cur' = r
  /\ UNCHANGED <<row, child, code, mon, outcome, registered, todo, shutdown,
                 cancelled, writers, orphan>>

\* The config is missing or its SELECT fails: the request ends with an error,
\* the slot stays taken all the same.
StartExtractorNoConfig ==
  /\ "config" \in Faults
  /\ pc = "idle"
  /\ LeakConnection
  /\ UNCHANGED <<row, child, code, mon, outcome, registered, pc, cur, todo,
                 shutdown, cancelled, writers, orphan>>

\* insert_and_return commits the row as 'running' and gives its connection
\* back.
InsertRun ==
  /\ pc = "insert"
  /\ PoolHasSlot
  /\ row' = [row EXCEPT ![cur] = "running"]
  /\ pc' = "spawn"
  /\ UNCHANGED <<child, code, mon, outcome, registered, cur, todo, shutdown,
                 leaked, cancelled, writers, orphan>>

\* insert_and_return raises: nothing was inserted.
InsertRunRaises ==
  /\ pc = "insert"
  /\ ~PoolHasSlot \/ "db" \in Faults
  /\ pc' = "idle" /\ cur' = NoRun
  /\ UNCHANGED <<row, child, code, mon, outcome, registered, todo, shutdown,
                 leaked, cancelled, writers, orphan>>

\* Mutant: the entry in _running_processes is forgotten.
SpawnChildUnregistered ==
  /\ pc = "spawn"
  /\ child' = [child EXCEPT ![cur] = "alive"]
  /\ mon' = [mon EXCEPT ![cur] = "read"]
  /\ pc' = "idle" /\ cur' = NoRun
  /\ UNCHANGED <<row, code, outcome, registered, todo, shutdown, leaked,
                 cancelled, writers, orphan>>

\* Popen, the entry in _running_processes and the monitor thread.
SpawnChild ==
  /\ pc = "spawn"
  /\ child' = [child EXCEPT ![cur] = "alive"]
  /\ registered' = registered \cup {cur}
  /\ mon' = [mon EXCEPT ![cur] = "read"]
  /\ pc' = "idle" /\ cur' = NoRun
  /\ UNCHANGED <<row, code, outcome, todo, shutdown, leaked, cancelled,
                 writers, orphan>>

\* Popen raises after the row was committed.
SpawnChildRaises ==
  /\ "popen" \in Faults
  /\ pc = "spawn"
  /\ orphan' = [orphan EXCEPT ![cur] = "spawn"]
  /\ pc' = "idle" /\ cur' = NoRun
  /\ UNCHANGED <<row, child, code, mon, outcome, registered, todo, shutdown,
                 leaked, cancelled, writers>>

\* The extractor ends by itself, with exit code c.
ChildExits(r, c) ==
  /\ child[r] = "alive"
  /\ child' = [child EXCEPT ![r] = c]
  /\ UNCHANGED <<row, code, mon, outcome, registered, pc, cur, todo, shutdown,
                 leaked, cancelled, writers, orphan>>

-----------------------------------------------------------------------------
(* monitor(), one thread per run.                                          *)

\* Mutant: "not returncode" instead of "returncode == 0".
OutcomeOfFalsy(c) == IF c \in {"zero", "None"} THEN "success" ELSE "exit code"

\* The status that monitor derives from a return code.
OutcomeOf(c) == IF c = "zero" THEN "success" ELSE "exit code"

MonitorVars == <<row, child, registered, pc, cur, todo, shutdown, leaked,
                 cancelled, writers, orphan>>

\* Mutant: the thread leaves the loop past the status update.
MonitorSeesExitSilently(r) ==
  /\ mon[r] = "read"
  /\ child[r] # "alive"
  /\ code' = [code EXCEPT ![r] = child[r]]
  /\ mon' = [mon EXCEPT ![r] = "pop"]
  /\ UNCHANGED <<MonitorVars, outcome>>

\* End of output and poll() has seen the child end.
MonitorSeesExit(r) ==
  /\ mon[r] = "read"
  /\ child[r] # "alive"
  /\ code' = [code EXCEPT ![r] = child[r]]
  /\ outcome' = [outcome EXCEPT ![r] = OutcomeOf(child[r])]
  /\ mon' = [mon EXCEPT ![r] = "write"]
  /\ UNCHANGED MonitorVars

\* The loop's test finds the shutdown event set: the return code is whatever
\* the server has seen so far, None included.
MonitorSeesShutdown(r) ==
  /\ mon[r] = "read"
  /\ shutdown
  /\ outcome' = [outcome EXCEPT ![r] = OutcomeOf(code[r])]
  /\ mon' = [mon EXCEPT ![r] = "write"]
  /\ UNCHANGED <<MonitorVars, code>>

\* Mutant: the exception is not caught and ends the thread.
MonitorReadRaisesUncaught(r) ==
  /\ "decode" \in Faults
  /\ mon[r] = "read"
  /\ outcome' = [outcome EXCEPT ![r] = "monitor error"]
  /\ mon' = [mon EXCEPT ![r] = "ended"]
  /\ UNCHANGED <<MonitorVars, code>>

\* Reading raises (undecodable output, a closed pipe): the handler records a
\* failure and the thread goes on, whatever the child is doing.
MonitorReadRaises(r) ==
  /\ "decode" \in Faults
  /\ mon[r] = "read"
  /\ outcome' = [outcome EXCEPT ![r] = "monitor error"]
  /\ mon' = [mon EXCEPT ![r] = "write"]
  /\ UNCHANGED <<MonitorVars, code>>

\* Mutant: an update that has been committed is tried again.
MonitorWritesAgain(r) ==
  /\ mon[r] = "write"
  /\ UpdateRunStatus(r, "watcher", outcome[r])
  /\ UNCHANGED <<child, code, mon, outcome, registered, pc, cur, todo, shutdown,
                 cancelled, orphan>>

MonitorWrites(r) ==
  /\ mon[r] = "write"
  /\ UpdateRunStatus(r, "watcher", outcome[r])
  /\ mon' = [mon EXCEPT ![r] = "pop"]
  /\ UNCHANGED <<child, code, outcome, registered, pc, cur, todo, shutdown,
                 cancelled, orphan>>

\* The exception leaves the thread: the row keeps its status and the entry its
\* place in _running_processes.
MonitorWriteRaises(r) ==
  /\ mon[r] = "write"
  /\ UpdateRunStatusRaises
  /\ mon' = [mon EXCEPT ![r] = "ended"]
  /\ orphan' = [orphan EXCEPT ![r] = "update"]
  /\ UNCHANGED <<child, code, outcome, registered, pc, cur, todo, shutdown,
                 cancelled>>

\* _process_lock is held by cancel_run or shutdown_all across their steps; a
\* monitor holds it only for the length of its pop.
LockHeldByLoop ==
  pc \in {"cancel kill", "cancel update", "shutdown kill", "shutdown update"}

MonitorPops(r) ==
  /\ mon[r] = "pop"
  /\ ~LockHeldByLoop
  /\ registered' = registered \ {r}
  /\ mon' = [mon EXCEPT ![r] = "ended"]
  /\ UNCHANGED <<row, child, code, outcome, pc, cur, todo, shutdown, leaked,
                 cancelled, writers, orphan>>

-----------------------------------------------------------------------------
(* cancel_run, on the event loop, under _process_lock.                     *)

\* The entry is found; for any other run the answer is 404 and nothing changes.
CancelRun(r) ==
  /\ pc = "idle"
  /\ r \in registered
  /\ pc' = "cancel kill" /\ cur' = r
  /\ UNCHANGED <<row, child, code, mon, outcome, registered, todo, shutdown,
                 leaked, cancelled, writers, orphan>>

\* Mutant: wait() without a timeout, and the child ignores SIGTERM.
StopChildWaits(r) ==
  /\ child[r] # "alive"
  /\ code' = [code EXCEPT ![r] = child[r]]
  /\ UNCHANGED child

\* terminate(), wait(timeout), kill(), wait(): the child is dead and reaped.
StopChild(r) ==
  LET end == IF child[r] = "alive" THEN "signal" ELSE child[r]
  IN  /\ child' = [child EXCEPT ![r] = end]
      /\ code' = [code EXCEPT ![r] = end]

CancelStopsChild ==
  /\ pc = "cancel kill"
  /\ StopChild(cur)
  /\ pc' = "cancel update"
  /\ UNCHANGED <<row, mon, outcome, registered, cur, todo, shutdown, leaked,
                 cancelled, writers, orphan>>

\* Mutant: the entry is not popped.
CancelSucceedsKeepsEntry ==
  /\ pc = "cancel update"
  /\ UpdateRunStatus(cur, "operator", "cancelled")
  /\ cancelled' = cancelled \cup {cur}
  /\ pc' = "idle" /\ cur' = NoRun
  /\ UNCHANGED <<child, code, mon, outcome, registered, todo, shutdown, orphan>>

\* The row is rewritten, the entry popped, the answer is "cancelled".
CancelSucceeds ==
  /\ pc = "cancel update"
  /\ UpdateRunStatus(cur, "operator", "cancelled")
  /\ registered' = registered \ {cur}
  /\ cancelled' = cancelled \cup {cur}
  /\ pc' = "idle" /\ cur' = NoRun
  /\ UNCHANGED <<child, code, mon, outcome, todo, shutdown, orphan>>

\* The update raises: the lock is released, the entry stays, the answer is 500.
CancelRaises ==
  /\ pc = "cancel update"
  /\ UpdateRunStatusRaises
  /\ pc' = "idle" /\ cur' = NoRun
  /\ UNCHANGED <<child, code, mon, outcome, registered, todo, shutdown,
                 cancelled, orphan>>

-----------------------------------------------------------------------------
(* shutdown_all and close_pools, on the event loop.                        *)

\* The event is set before the lock is asked for.
ShutdownSignals ==
  /\ pc = "idle"
  /\ shutdown' = TRUE
  /\ pc' = "shutdown lock"
  /\ UNCHANGED <<row, child, code, mon, outcome, registered, cur, todo,
                 leaked, cancelled, writers, orphan>>

\* The lock is taken and the entries are listed.
ShutdownLists ==
  /\ pc = "shutdown lock"
  /\ todo' = registered
  /\ pc' = "shutdown kill"
  /\ UNCHANGED <<row, child, code, mon, outcome, registered, cur, shutdown,
                 leaked, cancelled, writers, orphan>>

ShutdownStopsChild(r) ==
  /\ pc = "shutdown kill"
  /\ r \in todo
  /\ StopChild(r)
  /\ pc' = "shutdown update" /\ cur' = r
  /\ UNCHANGED <<row, mon, outcome, registered, todo, shutdown, leaked,
                 cancelled, writers, orphan>>

ShutdownUpdates ==
  /\ pc = "shutdown update"
  /\ UpdateRunStatus(cur, "operator", "shutdown")
  /\ todo' = todo \ {cur}
  /\ pc' = "shutdown kill" /\ cur' = NoRun
  /\ UNCHANGED <<child, code, mon, outcome, registered, shutdown, cancelled,
                 orphan>>

\* The exception is swallowed and the loop goes on.
ShutdownUpdateRaises ==
  /\ pc = "shutdown update"
  /\ UpdateRunStatusRaises
  /\ todo' = todo \ {cur}
  /\ pc' = "shutdown kill" /\ cur' = NoRun
  /\ UNCHANGED <<child, code, mon, outcome, registered, shutdown, cancelled,
                 orphan>>

\* _running_processes.clear(), then close_pools(): a late monitor gets a new
\* pool from get_sync_pool.
ShutdownEnds ==
  /\ pc = "shutdown kill"
  /\ todo = {}
  /\ registered' = {}
  /\ leaked' = 0
  /\ pc' = "stopped"
  /\ UNCHANGED <<row, child, code, mon, outcome, cur, todo, shutdown,
                 cancelled, writers, orphan>>

-----------------------------------------------------------------------------
(* The server process ends and a new one starts.  Rows and children outlive *)
(* it; everything in memory is gone and nothing at startup looks for rows   *)
(* that are still 'running'.                                                *)

NewServer(reason) ==
  /\ mon' = [r \in Runs |-> IF mon[r] = "none" THEN "none" ELSE "ended"]
  /\ registered' = {}
  /\ pc' = "idle" /\ cur' = NoRun /\ todo' = {}
  /\ shutdown' = FALSE
  /\ leaked' = 0
  /\ orphan' = [r \in Runs |->
                  IF row[r] = "running" \/ child[r] = "alive"
                  THEN reason ELSE orphan[r]]
  /\ UNCHANGED <<row, child, code, outcome, cancelled, writers>>

\* The interpreter leaves once the non-daemon monitor threads have ended.
Restart == /\ pc = "stopped"
           /\ \A r \in Runs : mon[r] \in {"none", "ended"}
           /\ NewServer("restart")

Crash == "crash" \in Faults /\ NewServer("crash")

-----------------------------------------------------------------------------
EventLoop == \/ \E r \in Runs : StartExtractor(r) \/ CancelRun(r)
             \/ StartExtractorNoConfig
             \/ ShutdownSignals

\* What the event loop has begun it goes on with.
EventLoopContinues ==
  \/ InsertRun \/ InsertRunRaises \/ SpawnChild \/ SpawnChildRaises
  \/ CancelStopsChild \/ CancelSucceeds \/ CancelRaises
  \/ ShutdownLists \/ ShutdownUpdates \/ ShutdownUpdateRaises \/ ShutdownEnds
  \/ \E r \in Runs : ShutdownStopsChild(r)

Monitor(r) == \/ MonitorSeesExit(r) \/ MonitorSeesShutdown(r)
              \/ MonitorReadRaises(r)
              \/ MonitorWrites(r) \/ MonitorWriteRaises(r) \/ MonitorPops(r)

Next == \/ EventLoop \/ EventLoopContinues
        \/ \E r \in Runs : Monitor(r)
        \/ \E r \in Runs, c \in {"zero", "nonzero"} : ChildExits(r, c)
        \/ Restart \/ Crash

Spec == Init /\ [][Next]_vars

\* Threads are scheduled: a handler the event loop has entered runs to its end, a
\* monitor whose child has ended sees it, and then writes and pops.  Nothing makes
\* a child exit, a user send a request, or a silent child wake up a monitor that
\* is blocked in readline().
MonitorProceeds(r) == \/ MonitorSeesExit(r) \/ MonitorPops(r)
                      \/ MonitorWrites(r) \/ MonitorWriteRaises(r)

FairSpec == /\ Spec
            /\ WF_vars(EventLoopContinues)
            /\ \A r \in Runs : WF_vars(MonitorProceeds(r))

-----------------------------------------------------------------------------
(* Properties.                                                             *)

\* get_connection never hands out more connections than the pool has.
SlotsInPool == leaked \in 0..PoolMax

TypeOK ==
  /\ row \in [Runs -> {"absent", "running"} \cup Ledger!Finished]
  /\ child \in [Runs -> {"none", "alive"} \cup ExitCodes]
  /\ code \in [Runs -> {"None"} \cup ExitCodes]
  /\ mon \in [Runs -> {"none", "read", "write", "pop", "ended"}]
  /\ outcome \in [Runs -> {"none"} \cup Ledger!WatcherOutcomes]
  /\ registered \subseteq Runs /\ todo \subseteq Runs /\ cancelled \subseteq Runs
  /\ pc \in ServingPCs \cup StoppingPCs
  /\ cur \in Runs \cup {NoRun}
  /\ shutdown \in BOOLEAN
  /\ SlotsInPool
  /\ writers \in [Runs -> SUBSET {"watcher", "operator"}]
  /\ orphan \in [Runs -> {"no", "spawn", "update", "restart", "crash"}]

\* A row says 'success' only for a child that exited with code 0, however the
\* monitor, a cancel and a shutdown interleave (runner.py:260).
SuccessMeansExitZero == \A r \in Runs : row[r] = "success" => child[r] = "zero"

\* A row that says 'running' has somebody who will finish it: the handler that
\* has just inserted it, or a monitor that has not written yet.  The only ways to
\* lose that owner are a failed Popen, a failed status update and the end of the
\* server process (runner.py:219-301).
RunningIsOwned ==
  \A r \in Runs : row[r] = "running" =>
    \/ pc = "spawn" /\ cur = r
    \/ mon[r] \in {"read", "write"}
    \/ orphan[r] # "no"

\* A live child can be found in _running_processes, so that it can be cancelled,
\* except after a monitor that failed while reading, during a shutdown, or when it
\* has outlived the server that started it (runner.py:241, 295).
LiveChildIsTracked ==
  \A r \in Runs : child[r] = "alive" =>
    \/ r \in registered
    \/ outcome[r] = "monitor error"
    \/ shutdown
    \/ orphan[r] \in {"restart", "crash"}

\* When a cancel request has been answered "cancelled", the child is dead, the run
\* can not be cancelled again and its row no longer says 'running', for good
\* (runner.py:365-382).
CancelledIsOver ==
  \A r \in cancelled : /\ child[r] \in ExitCodes
                       /\ r \notin registered
                       /\ row[r] \in Ledger!Finished

\* The rows behave as the ledger promises: inserted once, rewritten at most once
\* by the monitor and at most once by a cancel or a shutdown, across failed
\* updates, repeated cancels, restarts and crashes.
RefinesLedger == Ledger!LedgerSpec

\* A child that has exited is eventually reported in its row (runner.py:293).
ExitIsReported ==
  \A r \in Runs : child[r] \in ExitCodes ~> row[r] \in Ledger!Finished

\* The shutdown hook comes to its end: no monitor can keep it from taking the lock
\* and it keeps none of them from ending (runner.py:306-324).
ShutdownTerminates ==
  shutdown ~> pc = "stopped" /\ \A r \in Runs : mon[r] \in {"none", "ended"}

-----------------------------------------------------------------------------
(* A statement of the repository that the code does not keep.              *)

\* shutdown_all: "Cancel all running extractor subprocesses (call during
\* shutdown)" (runner.py:307): when it is over, no child of this server is alive.
ShutdownStopsEveryChild ==
  pc = "stopped" =>
    \A r \in Runs : child[r] = "alive" => orphan[r] \in {"restart", "crash"}
=============================================================================
