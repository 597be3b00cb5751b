------------------------- MODULE ExtractorRunsProofs -------------------------
(***************************************************************************)
(* Proofs about ExtractorRuns, for every set of runs, pool size and set of *)
(* faults.                                                                 *)
(***************************************************************************)
EXTENDS ExtractorRuns, TLAPS

-----------------------------------------------------------------------------
(* The inductive invariant.                                                *)

\* A run that has no row has left no trace anywhere else.
FreshRuns ==
  \A r \in Runs : row[r] = "absent" =>
    /\ child[r] = "none" /\ code[r] = "None" /\ mon[r] = "none"
    /\ writers[r] = {} /\ orphan[r] = "no"
    /\ r \notin registered

\* Where the event loop stands says what it knows of its current run.
LoopState ==
  /\ pc = "insert" => cur \in Runs /\ row[cur] = "absent"
  /\ pc = "spawn" =>
       /\ cur \in Runs /\ row[cur] = "running"
       /\ child[cur] = "none" /\ code[cur] = "None" /\ mon[cur] = "none"
       /\ writers[cur] = {} /\ orphan[cur] = "no"
       /\ cur \notin registered
  /\ pc \in {"cancel kill", "cancel update"} => cur \in registered
  /\ pc = "cancel update" => child[cur] \in ExitCodes
  /\ pc = "shutdown update" => cur \in todo
  /\ pc \in {"shutdown kill", "shutdown update"} => todo \subseteq registered
  /\ pc \in StoppingPCs => shutdown

\* What a monitor thread and the process table know of the child is true.
MonitorState ==
  \A r \in Runs :
    /\ mon[r] \in {"read", "write", "pop"} => child[r] # "none"
    /\ r \in registered => child[r] # "none"
    /\ code[r] # "None" => code[r] = child[r]
    /\ mon[r] = "write" /\ outcome[r] = "success" => child[r] = "zero"
    /\ mon[r] = "write" => outcome[r] # "none"
    /\ mon[r] \in {"write", "pop"} /\ child[r] = "alive" =>
         outcome[r] = "monitor error" \/ shutdown
    /\ orphan[r] \in {"restart", "crash"} => mon[r] \in {"none", "ended"}

\* Each writer of a row still has its turn to come, or has had it.
WriterState ==
  \A r \in Runs :
    /\ mon[r] \in {"read", "write"} => "watcher" \notin writers[r]
    /\ r \in registered /\ "operator" \in writers[r] =>
         pc \in {"shutdown kill", "shutdown update"} /\ r \notin todo

IInv == /\ TypeOK /\ FreshRuns /\ LoopState /\ MonitorState /\ WriterState
        /\ SuccessMeansExitZero /\ RunningIsOwned /\ LiveChildIsTracked
        /\ CancelledIsOver
-----------------------------------------------------------------------------
(* Every action preserves the invariant.                                   *)

\* The invariant holds when the deployment starts.
LEMMA InitIInv == Init => IInv
<1> SUFFICES ASSUME Init PROVE IInv
  OBVIOUS
<1> USE DEF Init
<1>0. SlotsInPool
  BY PoolAssumption DEF SlotsInPool
<1>1. TypeOK
  BY <1>0 DEF TypeOK, ServingPCs
<1>2. FreshRuns /\ LoopState /\ MonitorState /\ WriterState
  BY DEF FreshRuns, LoopState, MonitorState, WriterState, StoppingPCs
<1>3. /\ SuccessMeansExitZero /\ RunningIsOwned /\ LiveChildIsTracked
      /\ CancelledIsOver
  BY DEF SuccessMeansExitZero, RunningIsOwned, LiveChildIsTracked,
         CancelledIsOver, SlotsInPool
<1> QED
  BY <1>1, <1>2, <1>3 DEF IInv

\* Every step of the event loop, a monitor, a child or the environment keeps the
\* invariant.
LEMMA StepIInv == IInv /\ [Next]_vars => IInv'
<1> SUFFICES ASSUME IInv, [Next]_vars PROVE IInv'
  OBVIOUS
<1> USE RunsAssumption DEF IInv
<1>0. SlotsInPool'
  <2>1. LeakConnection \/ UNCHANGED leaked \/ leaked' = 0
    BY Zenon DEF Next, vars, EventLoop, EventLoopContinues, Monitor, MonitorVars,
       UpdateRunStatus, UpdateRunStatusRaises, NewServer, Restart, Crash,
       StartExtractor, StartExtractorNoConfig, InsertRun, InsertRunRaises,
       SpawnChild, SpawnChildRaises, ChildExits, MonitorSeesExit,
       MonitorSeesShutdown, MonitorReadRaises, MonitorWrites,
       MonitorWriteRaises, MonitorPops, CancelRun, CancelStopsChild,
       CancelSucceeds, CancelRaises, ShutdownSignals, ShutdownLists,
       ShutdownStopsChild, ShutdownUpdates, ShutdownUpdateRaises, ShutdownEnds
  <2> QED
    BY <2>1, PoolAssumption DEF LeakConnection, PoolHasSlot, TypeOK, SlotsInPool
<1>1. ASSUME NEW r \in Runs, StartExtractor(r) PROVE IInv'
  <2>1. TypeOK'
      BY <1>1, <1>0 DEF StartExtractor, TypeOK, ServingPCs, StoppingPCs
  <2>2. FreshRuns'
    BY <1>1 DEF StartExtractor, FreshRuns
  <2>3. LoopState'
    BY <1>1 DEF StartExtractor, LoopState, ServingPCs, StoppingPCs
  <2>4. MonitorState'
    BY <1>1 DEF StartExtractor, MonitorState
  <2>5. WriterState'
    BY <1>1 DEF StartExtractor, WriterState
  <2>6. SuccessMeansExitZero'
    BY <1>1 DEF StartExtractor, SuccessMeansExitZero
  <2>7. RunningIsOwned'
    BY <1>1 DEF StartExtractor, RunningIsOwned
  <2>8. LiveChildIsTracked'
    BY <1>1 DEF StartExtractor, LiveChildIsTracked
  <2>9. CancelledIsOver'
    BY <1>1 DEF StartExtractor, CancelledIsOver
  <2> QED
    BY <2>1, <2>2, <2>3, <2>4, <2>5, <2>6, <2>7, <2>8, <2>9
<1>2. CASE StartExtractorNoConfig
  <2>1. TypeOK'
      BY <1>2, <1>0 DEF StartExtractorNoConfig, TypeOK
  <2>2. FreshRuns'
    BY <1>2 DEF StartExtractorNoConfig, FreshRuns
  <2>3. LoopState'
    BY <1>2 DEF StartExtractorNoConfig, LoopState
  <2>4. MonitorState'
    BY <1>2 DEF StartExtractorNoConfig, MonitorState
  <2>5. WriterState'
    BY <1>2 DEF StartExtractorNoConfig, WriterState
  <2>6. SuccessMeansExitZero'
    BY <1>2 DEF StartExtractorNoConfig, SuccessMeansExitZero
  <2>7. RunningIsOwned'
    BY <1>2 DEF StartExtractorNoConfig, RunningIsOwned
  <2>8. LiveChildIsTracked'
    BY <1>2 DEF StartExtractorNoConfig, LiveChildIsTracked
  <2>9. CancelledIsOver'
    BY <1>2 DEF StartExtractorNoConfig, CancelledIsOver
  <2> QED
    BY <2>1, <2>2, <2>3, <2>4, <2>5, <2>6, <2>7, <2>8, <2>9
<1>3. CASE InsertRun
  <2>1. TypeOK'
      BY <1>3, <1>0 DEF InsertRun, TypeOK, ServingPCs, StoppingPCs
  <2>2. FreshRuns'
    BY <1>3 DEF InsertRun, FreshRuns
  <2>3. LoopState'
    BY <1>3 DEF InsertRun, TypeOK, FreshRuns, LoopState, ServingPCs,
       StoppingPCs
  <2>4. MonitorState'
    BY <1>3 DEF InsertRun, MonitorState
  <2>5. WriterState'
    BY <1>3 DEF InsertRun, WriterState
  <2>6. SuccessMeansExitZero'
    BY <1>3 DEF InsertRun, SuccessMeansExitZero
  <2>7. RunningIsOwned'
    BY <1>3 DEF InsertRun, RunningIsOwned
  <2>8. LiveChildIsTracked'
    BY <1>3 DEF InsertRun, LiveChildIsTracked
  <2>9. CancelledIsOver'
    <3>1. row[cur] = "absent" /\ cur \in Runs
      BY <1>3 DEF InsertRun, LoopState
    <3>2. cur \notin cancelled
      BY <3>1 DEF CancelledIsOver, Ledger!Finished,
         Ledger!WatcherOutcomes, Ledger!OperatorOutcomes
    <3>3. \A s \in cancelled : row'[s] = row[s]
      BY <1>3, <3>2 DEF InsertRun
    <3>4. /\ cancelled' = cancelled /\ child' = child
          /\ registered' = registered
      BY <1>3 DEF InsertRun
    <3> QED
      BY <3>3, <3>4 DEF CancelledIsOver
  <2> QED
    BY <2>1, <2>2, <2>3, <2>4, <2>5, <2>6, <2>7, <2>8, <2>9
<1>4. CASE InsertRunRaises
  <2>1. TypeOK'
      BY <1>4, <1>0 DEF InsertRunRaises, TypeOK, ServingPCs, StoppingPCs
  <2>2. FreshRuns'
    BY <1>4 DEF InsertRunRaises, FreshRuns
  <2>3. LoopState'
    BY <1>4 DEF InsertRunRaises, LoopState, ServingPCs, StoppingPCs
  <2>4. MonitorState'
    BY <1>4 DEF InsertRunRaises, MonitorState
  <2>5. WriterState'
    BY <1>4 DEF InsertRunRaises, WriterState
  <2>6. SuccessMeansExitZero'
    BY <1>4 DEF InsertRunRaises, SuccessMeansExitZero
  <2>7. RunningIsOwned'
    BY <1>4 DEF InsertRunRaises, RunningIsOwned
  <2>8. LiveChildIsTracked'
    BY <1>4 DEF InsertRunRaises, LiveChildIsTracked
  <2>9. CancelledIsOver'
    BY <1>4 DEF InsertRunRaises, CancelledIsOver
  <2> QED
    BY <2>1, <2>2, <2>3, <2>4, <2>5, <2>6, <2>7, <2>8, <2>9
<1>5. CASE SpawnChild
  <2>1. TypeOK'
      BY <1>5, <1>0 DEF SpawnChild, TypeOK, LoopState, ServingPCs,
         StoppingPCs
  <2>2. FreshRuns'
    BY <1>5 DEF SpawnChild, FreshRuns, LoopState
  <2>3. LoopState'
    BY <1>5 DEF SpawnChild, LoopState, ServingPCs, StoppingPCs
  <2>4. MonitorState'
    BY <1>5 DEF SpawnChild, TypeOK, LoopState, MonitorState
  <2>5. WriterState'
    BY <1>5 DEF SpawnChild, LoopState, WriterState
  <2>6. SuccessMeansExitZero'
    BY <1>5 DEF SpawnChild, LoopState, SuccessMeansExitZero
  <2>7. RunningIsOwned'
    BY <1>5 DEF SpawnChild, TypeOK, RunningIsOwned
  <2>8. LiveChildIsTracked'
    BY <1>5 DEF SpawnChild, TypeOK, LiveChildIsTracked
  <2>9. CancelledIsOver'
    BY <1>5 DEF SpawnChild, LoopState, ExitCodes, CancelledIsOver
  <2> QED
    BY <2>1, <2>2, <2>3, <2>4, <2>5, <2>6, <2>7, <2>8, <2>9
<1>6. CASE SpawnChildRaises
  <2>1. TypeOK'
      BY <1>6, <1>0 DEF SpawnChildRaises, TypeOK, ServingPCs, StoppingPCs
  <2>2. FreshRuns'
    BY <1>6 DEF SpawnChildRaises, FreshRuns, LoopState
  <2>3. LoopState'
    BY <1>6 DEF SpawnChildRaises, LoopState, ServingPCs, StoppingPCs
  <2>4. MonitorState'
    BY <1>6 DEF SpawnChildRaises, TypeOK, MonitorState
  <2>5. WriterState'
    BY <1>6 DEF SpawnChildRaises, WriterState
  <2>6. SuccessMeansExitZero'
    BY <1>6 DEF SpawnChildRaises, SuccessMeansExitZero
  <2>7. RunningIsOwned'
    BY <1>6 DEF SpawnChildRaises, TypeOK, RunningIsOwned
  <2>8. LiveChildIsTracked'
    BY <1>6 DEF SpawnChildRaises, TypeOK, LoopState, LiveChildIsTracked
  <2>9. CancelledIsOver'
    BY <1>6 DEF SpawnChildRaises, CancelledIsOver
  <2> QED
    BY <2>1, <2>2, <2>3, <2>4, <2>5, <2>6, <2>7, <2>8, <2>9
<1>7. ASSUME NEW r \in Runs, NEW c \in {"zero", "nonzero"}, ChildExits(r, c)
      PROVE IInv'
  <2>1. TypeOK'
      BY <1>7, <1>0 DEF ChildExits, TypeOK, ExitCodes
  <2>2. FreshRuns'
    BY <1>7 DEF ChildExits, FreshRuns
  <2>3. LoopState'
    BY <1>7 DEF ChildExits, TypeOK, LoopState, ExitCodes
  <2>4. MonitorState'
    <3>1. child[r] = "alive" /\ child'[r] = c /\ c # "none" /\ c # "alive"
      BY <1>7 DEF ChildExits, TypeOK
    <3>2. code[r] = "None"
      BY <1>7, <3>1 DEF MonitorState, TypeOK, ExitCodes
    <3>3. ~(mon[r] = "write" /\ outcome[r] = "success")
      BY <1>7, <3>1 DEF MonitorState
    <3>4. ASSUME NEW s \in Runs, s # r PROVE child'[s] = child[s]
      BY <1>7, <3>4 DEF ChildExits
    <3> QED
      BY <1>7, <3>1, <3>2, <3>3, <3>4 DEF ChildExits, MonitorState
  <2>5. WriterState'
    BY <1>7 DEF ChildExits, WriterState
  <2>6. SuccessMeansExitZero'
    BY <1>7 DEF ChildExits, SuccessMeansExitZero
  <2>7. RunningIsOwned'
    BY <1>7 DEF ChildExits, RunningIsOwned
  <2>8. LiveChildIsTracked'
    BY <1>7 DEF ChildExits, TypeOK, LiveChildIsTracked
  <2>9. CancelledIsOver'
    BY <1>7 DEF ChildExits, CancelledIsOver, ExitCodes
  <2> QED
    BY <2>1, <2>2, <2>3, <2>4, <2>5, <2>6, <2>7, <2>8, <2>9
<1>8. ASSUME NEW r \in Runs, MonitorSeesExit(r) PROVE IInv'
  <2>1. TypeOK'
      BY <1>8, <1>0 DEF MonitorSeesExit, MonitorVars, OutcomeOf, TypeOK,
         MonitorState, Ledger!Finished, Ledger!WatcherOutcomes,
         Ledger!OperatorOutcomes
  <2>2. FreshRuns'
    <3>1. row[r] # "absent" /\ row' = row
      BY <1>8 DEF MonitorSeesExit, MonitorVars, FreshRuns
    <3>2. ASSUME NEW s \in Runs, s # r
          PROVE  code'[s] = code[s] /\ mon'[s] = mon[s]
      BY <1>8, <3>2 DEF MonitorSeesExit
    <3> QED
      BY <1>8, <3>1, <3>2 DEF MonitorSeesExit, MonitorVars, FreshRuns
  <2>3. LoopState'
    BY <1>8 DEF MonitorSeesExit, MonitorVars, OutcomeOf, TypeOK, LoopState
  <2>4. MonitorState'
    <3>1. /\ child[r] # "none" /\ child[r] # "alive"
          /\ code'[r] = child[r] /\ mon'[r] = "write"
          /\ outcome'[r] = OutcomeOf(child[r])
          /\ orphan[r] \notin {"restart", "crash"}
      BY <1>8 DEF MonitorSeesExit, TypeOK, MonitorState
    <3>2. ASSUME NEW s \in Runs, s # r
          PROVE  /\ code'[s] = code[s] /\ mon'[s] = mon[s]
                 /\ outcome'[s] = outcome[s]
      BY <1>8, <3>2 DEF MonitorSeesExit
    <3>3. /\ outcome'[r] # "none"
          /\ outcome'[r] = "success" => child[r] = "zero"
      BY <3>1 DEF OutcomeOf
    <3>4. /\ child' = child /\ registered' = registered
          /\ shutdown' = shutdown /\ orphan' = orphan
      BY <1>8 DEF MonitorSeesExit, MonitorVars
    <3> QED
      BY <3>1, <3>2, <3>3, <3>4 DEF MonitorState
  <2>5. WriterState'
    BY <1>8 DEF MonitorSeesExit, MonitorVars, OutcomeOf, TypeOK,
       WriterState
  <2>6. SuccessMeansExitZero'
    BY <1>8 DEF MonitorSeesExit, MonitorVars, OutcomeOf,
       SuccessMeansExitZero
  <2>7. RunningIsOwned'
    BY <1>8 DEF MonitorSeesExit, MonitorVars, OutcomeOf, TypeOK,
       RunningIsOwned
  <2>8. LiveChildIsTracked'
    BY <1>8 DEF MonitorSeesExit, MonitorVars, OutcomeOf, TypeOK,
       LiveChildIsTracked
  <2>9. CancelledIsOver'
    BY <1>8 DEF MonitorSeesExit, MonitorVars, OutcomeOf, CancelledIsOver
  <2> QED
    BY <2>1, <2>2, <2>3, <2>4, <2>5, <2>6, <2>7, <2>8, <2>9
<1>9. ASSUME NEW r \in Runs, MonitorSeesShutdown(r) PROVE IInv'
  <2>1. TypeOK'
      BY <1>9, <1>0 DEF MonitorSeesShutdown, MonitorVars, OutcomeOf,
         TypeOK, Ledger!Finished, Ledger!WatcherOutcomes,
         Ledger!OperatorOutcomes
  <2>2. FreshRuns'
    <3>1. row[r] # "absent" /\ row' = row
      BY <1>9 DEF MonitorSeesShutdown, MonitorVars, FreshRuns
    <3>2. ASSUME NEW s \in Runs, s # r
          PROVE  mon'[s] = mon[s]
      BY <1>9, <3>2 DEF MonitorSeesShutdown
    <3> QED
      BY <1>9, <3>1, <3>2 DEF MonitorSeesShutdown, MonitorVars, FreshRuns
  <2>3. LoopState'
    BY <1>9 DEF MonitorSeesShutdown, MonitorVars, OutcomeOf, TypeOK,
       LoopState
  <2>4. MonitorState'
    <3>1. /\ child[r] # "none" /\ shutdown
          /\ mon'[r] = "write" /\ outcome'[r] = OutcomeOf(code[r])
          /\ orphan[r] \notin {"restart", "crash"}
      BY <1>9 DEF MonitorSeesShutdown, TypeOK, MonitorState
    <3>2. ASSUME NEW s \in Runs, s # r
          PROVE  mon'[s] = mon[s] /\ outcome'[s] = outcome[s]
      BY <1>9, <3>2 DEF MonitorSeesShutdown
    <3>3. /\ outcome'[r] # "none"
          /\ outcome'[r] = "success" => code[r] = "zero"
      BY <3>1 DEF OutcomeOf
    <3>4. /\ child' = child /\ registered' = registered /\ code' = code
          /\ shutdown' = shutdown /\ orphan' = orphan
      BY <1>9 DEF MonitorSeesShutdown, MonitorVars
    <3> QED
      BY <3>1, <3>2, <3>3, <3>4 DEF MonitorState
  <2>5. WriterState'
    BY <1>9 DEF MonitorSeesShutdown, MonitorVars, OutcomeOf, TypeOK,
       WriterState
  <2>6. SuccessMeansExitZero'
    BY <1>9 DEF MonitorSeesShutdown, MonitorVars, OutcomeOf,
       SuccessMeansExitZero
  <2>7. RunningIsOwned'
    BY <1>9 DEF MonitorSeesShutdown, MonitorVars, OutcomeOf, TypeOK,
       RunningIsOwned
  <2>8. LiveChildIsTracked'
    BY <1>9 DEF MonitorSeesShutdown, MonitorVars, OutcomeOf,
       LiveChildIsTracked
  <2>9. CancelledIsOver'
    BY <1>9 DEF MonitorSeesShutdown, MonitorVars, OutcomeOf,
       CancelledIsOver
  <2> QED
    BY <2>1, <2>2, <2>3, <2>4, <2>5, <2>6, <2>7, <2>8, <2>9
<1>10. ASSUME NEW r \in Runs, MonitorReadRaises(r) PROVE IInv'
  <2>1. TypeOK'
      BY <1>10, <1>0 DEF MonitorReadRaises, MonitorVars, TypeOK,
         Ledger!Finished, Ledger!WatcherOutcomes, Ledger!OperatorOutcomes
  <2>2. FreshRuns'
    <3>1. row[r] # "absent" /\ row' = row
      BY <1>10 DEF MonitorReadRaises, MonitorVars, FreshRuns
    <3>2. ASSUME NEW s \in Runs, s # r
          PROVE  mon'[s] = mon[s]
      BY <1>10, <3>2 DEF MonitorReadRaises, TypeOK
    <3> QED
      BY <1>10, <3>1, <3>2 DEF MonitorReadRaises, MonitorVars, FreshRuns
  <2>3. LoopState'
    BY <1>10 DEF MonitorReadRaises, MonitorVars, TypeOK, LoopState
  <2>4. MonitorState'
    BY <1>10 DEF MonitorReadRaises, MonitorVars, TypeOK, MonitorState
  <2>5. WriterState'
    BY <1>10 DEF MonitorReadRaises, MonitorVars, TypeOK, WriterState
  <2>6. SuccessMeansExitZero'
    BY <1>10 DEF MonitorReadRaises, MonitorVars, SuccessMeansExitZero
  <2>7. RunningIsOwned'
    BY <1>10 DEF MonitorReadRaises, MonitorVars, TypeOK, RunningIsOwned
  <2>8. LiveChildIsTracked'
    BY <1>10 DEF MonitorReadRaises, MonitorVars, TypeOK,
       LiveChildIsTracked
  <2>9. CancelledIsOver'
    BY <1>10 DEF MonitorReadRaises, MonitorVars, CancelledIsOver
  <2> QED
    BY <2>1, <2>2, <2>3, <2>4, <2>5, <2>6, <2>7, <2>8, <2>9
<1>11. ASSUME NEW r \in Runs, MonitorWrites(r) PROVE IInv'
  <2>1. TypeOK'
      BY <1>11, <1>0 DEF MonitorWrites, UpdateRunStatus, TypeOK,
         MonitorState, Ledger!Finished, Ledger!WatcherOutcomes,
         Ledger!OperatorOutcomes
  <2>2. FreshRuns'
    <3>1. row'[r] # "absent"
      BY <1>11 DEF MonitorWrites, UpdateRunStatus, TypeOK,
         Ledger!WatcherOutcomes
    <3>2. ASSUME NEW s \in Runs, s # r
          PROVE  row'[s] = row[s] /\ mon'[s] = mon[s] /\ writers'[s] = writers[s]
      BY <1>11, <3>2 DEF MonitorWrites, UpdateRunStatus
    <3> QED
      BY <1>11, <3>1, <3>2 DEF MonitorWrites, FreshRuns
  <2>3. LoopState'
    BY <1>11 DEF MonitorWrites, UpdateRunStatus, TypeOK, FreshRuns,
       LoopState
  <2>4. MonitorState'
    <3>1. mon[r] = "write" /\ mon'[r] = "pop"
      BY <1>11 DEF MonitorWrites, TypeOK
    <3>2. ASSUME NEW s \in Runs, s # r PROVE mon'[s] = mon[s]
      BY <1>11, <3>2 DEF MonitorWrites
    <3> QED
      BY <1>11, <3>1, <3>2 DEF MonitorWrites, MonitorState
  <2>5. WriterState'
    BY <1>11 DEF MonitorWrites, UpdateRunStatus, TypeOK, WriterState
  <2>6. SuccessMeansExitZero'
    BY <1>11 DEF MonitorWrites, UpdateRunStatus, TypeOK, MonitorState,
       SuccessMeansExitZero
  <2>7. RunningIsOwned'
    BY <1>11 DEF MonitorWrites, UpdateRunStatus, TypeOK, RunningIsOwned,
       Ledger!Finished, Ledger!WatcherOutcomes, Ledger!OperatorOutcomes
  <2>8. LiveChildIsTracked'
    BY <1>11 DEF MonitorWrites, UpdateRunStatus, LiveChildIsTracked
  <2>9. CancelledIsOver'
    <3>1. outcome[r] \in Ledger!Finished
      BY <1>11 DEF MonitorWrites, TypeOK, MonitorState, Ledger!Finished
    <3> QED
      BY <1>11, <3>1 DEF MonitorWrites, UpdateRunStatus, CancelledIsOver
  <2> QED
    BY <2>1, <2>2, <2>3, <2>4, <2>5, <2>6, <2>7, <2>8, <2>9
<1>12. ASSUME NEW r \in Runs, MonitorWriteRaises(r) PROVE IInv'
  <2>1. TypeOK'
      BY <1>12, <1>0 DEF MonitorWriteRaises, UpdateRunStatusRaises, TypeOK
  <2>2. FreshRuns'
    BY <1>12 DEF MonitorWriteRaises, UpdateRunStatusRaises, FreshRuns
  <2>3. LoopState'
    BY <1>12 DEF MonitorWriteRaises, UpdateRunStatusRaises, TypeOK,
       LoopState
  <2>4. MonitorState'
    BY <1>12 DEF MonitorWriteRaises, UpdateRunStatusRaises, TypeOK,
       MonitorState
  <2>5. WriterState'
    BY <1>12 DEF MonitorWriteRaises, UpdateRunStatusRaises, TypeOK,
       WriterState
  <2>6. SuccessMeansExitZero'
    BY <1>12 DEF MonitorWriteRaises, UpdateRunStatusRaises,
       SuccessMeansExitZero
  <2>7. RunningIsOwned'
    BY <1>12 DEF MonitorWriteRaises, UpdateRunStatusRaises, TypeOK,
       RunningIsOwned
  <2>8. LiveChildIsTracked'
    BY <1>12 DEF MonitorWriteRaises, UpdateRunStatusRaises, TypeOK,
       MonitorState, LiveChildIsTracked
  <2>9. CancelledIsOver'
    BY <1>12 DEF MonitorWriteRaises, UpdateRunStatusRaises,
       CancelledIsOver
  <2> QED
    BY <2>1, <2>2, <2>3, <2>4, <2>5, <2>6, <2>7, <2>8, <2>9
<1>13. ASSUME NEW r \in Runs, MonitorPops(r) PROVE IInv'
  <2>1. TypeOK'
      BY <1>13, <1>0 DEF MonitorPops, LockHeldByLoop, TypeOK
  <2>2. FreshRuns'
    BY <1>13 DEF MonitorPops, LockHeldByLoop, TypeOK, FreshRuns
  <2>3. LoopState'
    BY <1>13 DEF MonitorPops, LockHeldByLoop, TypeOK, LoopState
  <2>4. MonitorState'
    BY <1>13 DEF MonitorPops, LockHeldByLoop, TypeOK, MonitorState
  <2>5. WriterState'
    BY <1>13 DEF MonitorPops, LockHeldByLoop, TypeOK, WriterState
  <2>6. SuccessMeansExitZero'
    BY <1>13 DEF MonitorPops, LockHeldByLoop, SuccessMeansExitZero
  <2>7. RunningIsOwned'
    BY <1>13 DEF MonitorPops, LockHeldByLoop, TypeOK, RunningIsOwned
  <2>8. LiveChildIsTracked'
    BY <1>13 DEF MonitorPops, LockHeldByLoop, MonitorState,
       LiveChildIsTracked
  <2>9. CancelledIsOver'
    BY <1>13 DEF MonitorPops, LockHeldByLoop, CancelledIsOver
  <2> QED
    BY <2>1, <2>2, <2>3, <2>4, <2>5, <2>6, <2>7, <2>8, <2>9
<1>14. ASSUME NEW r \in Runs, CancelRun(r) PROVE IInv'
  <2>1. TypeOK'
      BY <1>14, <1>0 DEF CancelRun, TypeOK, ServingPCs, StoppingPCs
  <2>2. FreshRuns'
    BY <1>14 DEF CancelRun, FreshRuns
  <2>3. LoopState'
    BY <1>14 DEF CancelRun, LoopState, ServingPCs, StoppingPCs
  <2>4. MonitorState'
    BY <1>14 DEF CancelRun, MonitorState
  <2>5. WriterState'
    BY <1>14 DEF CancelRun, WriterState
  <2>6. SuccessMeansExitZero'
    BY <1>14 DEF CancelRun, SuccessMeansExitZero
  <2>7. RunningIsOwned'
    BY <1>14 DEF CancelRun, RunningIsOwned
  <2>8. LiveChildIsTracked'
    BY <1>14 DEF CancelRun, LiveChildIsTracked
  <2>9. CancelledIsOver'
    BY <1>14 DEF CancelRun, CancelledIsOver
  <2> QED
    BY <2>1, <2>2, <2>3, <2>4, <2>5, <2>6, <2>7, <2>8, <2>9
<1>15. CASE CancelStopsChild
  <2>1. TypeOK'
      BY <1>15, <1>0 DEF CancelStopsChild, StopChild, TypeOK, LoopState,
         MonitorState, ExitCodes, ServingPCs, StoppingPCs
  <2>2. FreshRuns'
    BY <1>15 DEF CancelStopsChild, StopChild, TypeOK, FreshRuns, LoopState
  <2>3. LoopState'
    BY <1>15 DEF CancelStopsChild, StopChild, TypeOK, LoopState,
       MonitorState, ExitCodes, ServingPCs, StoppingPCs
  <2>4. MonitorState'
    <3>1. /\ cur \in Runs /\ child[cur] # "none"
          /\ code'[cur] = child'[cur]
          /\ child'[cur] # "none" /\ child'[cur] # "alive"
          /\ child[cur] = "zero" => child'[cur] = "zero"
      BY <1>15 DEF CancelStopsChild, StopChild, TypeOK, LoopState,
         MonitorState
    <3>2. ASSUME NEW s \in Runs, s # cur
          PROVE  child'[s] = child[s] /\ code'[s] = code[s]
      BY <1>15, <3>2 DEF CancelStopsChild, StopChild, TypeOK
    <3>3. /\ mon' = mon /\ outcome' = outcome /\ registered' = registered
          /\ shutdown' = shutdown /\ orphan' = orphan
      BY <1>15 DEF CancelStopsChild
    <3> QED
      BY <3>1, <3>2, <3>3 DEF MonitorState
  <2>5. WriterState'
    BY <1>15 DEF CancelStopsChild, StopChild, WriterState
  <2>6. SuccessMeansExitZero'
    BY <1>15 DEF CancelStopsChild, StopChild, TypeOK, SuccessMeansExitZero
  <2>7. RunningIsOwned'
    BY <1>15 DEF CancelStopsChild, StopChild, RunningIsOwned
  <2>8. LiveChildIsTracked'
    BY <1>15 DEF CancelStopsChild, StopChild, TypeOK, LiveChildIsTracked
  <2>9. CancelledIsOver'
    <3>1. cur \in Runs /\ child'[cur] \in ExitCodes
      BY <1>15 DEF CancelStopsChild, StopChild, TypeOK, LoopState, MonitorState, ExitCodes
    <3>2. ASSUME NEW s \in Runs, s # cur PROVE child'[s] = child[s]
      BY <1>15, <3>2 DEF CancelStopsChild, StopChild, TypeOK
    <3> QED
      BY <1>15, <3>1, <3>2 DEF CancelStopsChild, TypeOK, CancelledIsOver
  <2> QED
    BY <2>1, <2>2, <2>3, <2>4, <2>5, <2>6, <2>7, <2>8, <2>9
<1>16. CASE CancelSucceeds
  <2>1. TypeOK'
      BY <1>16, <1>0 DEF CancelSucceeds, UpdateRunStatus, TypeOK,
         LoopState, ServingPCs, StoppingPCs, Ledger!Finished,
         Ledger!WatcherOutcomes, Ledger!OperatorOutcomes
  <2>2. FreshRuns'
    BY <1>16 DEF CancelSucceeds, UpdateRunStatus, TypeOK, FreshRuns
  <2>3. LoopState'
    BY <1>16 DEF CancelSucceeds, UpdateRunStatus, LoopState, ServingPCs,
       StoppingPCs
  <2>4. MonitorState'
    BY <1>16 DEF CancelSucceeds, UpdateRunStatus, MonitorState
  <2>5. WriterState'
    BY <1>16 DEF CancelSucceeds, UpdateRunStatus, TypeOK, WriterState
  <2>6. SuccessMeansExitZero'
    BY <1>16 DEF CancelSucceeds, UpdateRunStatus, TypeOK,
       SuccessMeansExitZero
  <2>7. RunningIsOwned'
    BY <1>16 DEF CancelSucceeds, UpdateRunStatus, TypeOK, RunningIsOwned
  <2>8. LiveChildIsTracked'
    BY <1>16 DEF CancelSucceeds, UpdateRunStatus, LoopState,
       LiveChildIsTracked, ExitCodes
  <2>9. CancelledIsOver'
    <3>1. cur \in Runs /\ child[cur] \in ExitCodes
      BY <1>16 DEF CancelSucceeds, TypeOK, LoopState
    <3>2. row'[cur] = "cancelled" /\ "cancelled" \in Ledger!Finished
      BY <1>16, <3>1 DEF CancelSucceeds, UpdateRunStatus, TypeOK,
         Ledger!Finished, Ledger!OperatorOutcomes
    <3>3. ASSUME NEW s \in Runs, s # cur PROVE row'[s] = row[s]
      BY <1>16, <3>3 DEF CancelSucceeds, UpdateRunStatus, TypeOK
    <3> QED
      BY <1>16, <3>1, <3>2, <3>3 DEF CancelSucceeds, TypeOK, CancelledIsOver
  <2> QED
    BY <2>1, <2>2, <2>3, <2>4, <2>5, <2>6, <2>7, <2>8, <2>9
<1>17. CASE CancelRaises
  <2>1. TypeOK'
      BY <1>17, <1>0 DEF CancelRaises, UpdateRunStatusRaises, TypeOK,
         ServingPCs, StoppingPCs
  <2>2. FreshRuns'
    BY <1>17 DEF CancelRaises, UpdateRunStatusRaises, FreshRuns
  <2>3. LoopState'
    BY <1>17 DEF CancelRaises, UpdateRunStatusRaises, LoopState,
       ServingPCs, StoppingPCs
  <2>4. MonitorState'
    BY <1>17 DEF CancelRaises, UpdateRunStatusRaises, MonitorState
  <2>5. WriterState'
    BY <1>17 DEF CancelRaises, UpdateRunStatusRaises, WriterState
  <2>6. SuccessMeansExitZero'
    BY <1>17 DEF CancelRaises, UpdateRunStatusRaises, SuccessMeansExitZero
  <2>7. RunningIsOwned'
    BY <1>17 DEF CancelRaises, UpdateRunStatusRaises, RunningIsOwned
  <2>8. LiveChildIsTracked'
    BY <1>17 DEF CancelRaises, UpdateRunStatusRaises, LiveChildIsTracked
  <2>9. CancelledIsOver'
    BY <1>17 DEF CancelRaises, UpdateRunStatusRaises, CancelledIsOver
  <2> QED
    BY <2>1, <2>2, <2>3, <2>4, <2>5, <2>6, <2>7, <2>8, <2>9
<1>18. CASE ShutdownSignals
  <2>1. TypeOK'
      BY <1>18, <1>0 DEF ShutdownSignals, TypeOK, ServingPCs, StoppingPCs
  <2>2. FreshRuns'
    BY <1>18 DEF ShutdownSignals, FreshRuns
  <2>3. LoopState'
    BY <1>18 DEF ShutdownSignals, LoopState
  <2>4. MonitorState'
    BY <1>18 DEF ShutdownSignals, MonitorState
  <2>5. WriterState'
    BY <1>18 DEF ShutdownSignals, WriterState
  <2>6. SuccessMeansExitZero'
    BY <1>18 DEF ShutdownSignals, SuccessMeansExitZero
  <2>7. RunningIsOwned'
    BY <1>18 DEF ShutdownSignals, RunningIsOwned
  <2>8. LiveChildIsTracked'
    BY <1>18 DEF ShutdownSignals, LiveChildIsTracked
  <2>9. CancelledIsOver'
    BY <1>18 DEF ShutdownSignals, CancelledIsOver
  <2> QED
    BY <2>1, <2>2, <2>3, <2>4, <2>5, <2>6, <2>7, <2>8, <2>9
<1>19. CASE ShutdownLists
  <2>1. TypeOK'
      BY <1>19, <1>0 DEF ShutdownLists, TypeOK, ServingPCs, StoppingPCs
  <2>2. FreshRuns'
    BY <1>19 DEF ShutdownLists, FreshRuns
  <2>3. LoopState'
    BY <1>19 DEF ShutdownLists, LoopState, ServingPCs, StoppingPCs
  <2>4. MonitorState'
    BY <1>19 DEF ShutdownLists, MonitorState
  <2>5. WriterState'
    BY <1>19 DEF ShutdownLists, WriterState
  <2>6. SuccessMeansExitZero'
    BY <1>19 DEF ShutdownLists, SuccessMeansExitZero
  <2>7. RunningIsOwned'
    BY <1>19 DEF ShutdownLists, RunningIsOwned
  <2>8. LiveChildIsTracked'
    BY <1>19 DEF ShutdownLists, LiveChildIsTracked
  <2>9. CancelledIsOver'
    BY <1>19 DEF ShutdownLists, CancelledIsOver
  <2> QED
    BY <2>1, <2>2, <2>3, <2>4, <2>5, <2>6, <2>7, <2>8, <2>9
<1>20. ASSUME NEW r \in Runs, ShutdownStopsChild(r) PROVE IInv'
  <2>1. TypeOK'
      BY <1>20, <1>0 DEF ShutdownStopsChild, StopChild, TypeOK, LoopState,
         MonitorState, ExitCodes, ServingPCs, StoppingPCs
  <2>2. FreshRuns'
    <3>1. row[r] # "absent" /\ row' = row
      BY <1>20 DEF ShutdownStopsChild, FreshRuns, LoopState
    <3>2. ASSUME NEW s \in Runs, s # r
          PROVE  child'[s] = child[s] /\ code'[s] = code[s]
      BY <1>20, <3>2 DEF ShutdownStopsChild, StopChild, TypeOK
    <3> QED
      BY <1>20, <3>1, <3>2 DEF ShutdownStopsChild, FreshRuns
  <2>3. LoopState'
    BY <1>20 DEF ShutdownStopsChild, StopChild, LoopState, ServingPCs,
       StoppingPCs
  <2>4. MonitorState'
    BY <1>20 DEF ShutdownStopsChild, StopChild, TypeOK, MonitorState
  <2>5. WriterState'
    BY <1>20 DEF ShutdownStopsChild, StopChild, WriterState
  <2>6. SuccessMeansExitZero'
    BY <1>20 DEF ShutdownStopsChild, StopChild, TypeOK,
       SuccessMeansExitZero
  <2>7. RunningIsOwned'
    BY <1>20 DEF ShutdownStopsChild, StopChild, RunningIsOwned
  <2>8. LiveChildIsTracked'
    BY <1>20 DEF ShutdownStopsChild, StopChild, TypeOK, LiveChildIsTracked
  <2>9. CancelledIsOver'
    <3>1. r \in Runs /\ child'[r] \in ExitCodes
      BY <1>20 DEF ShutdownStopsChild, StopChild, TypeOK, LoopState, MonitorState, ExitCodes
    <3>2. ASSUME NEW s \in Runs, s # r PROVE child'[s] = child[s]
      BY <1>20, <3>2 DEF ShutdownStopsChild, StopChild, TypeOK
    <3> QED
      BY <1>20, <3>1, <3>2 DEF ShutdownStopsChild, TypeOK, CancelledIsOver
  <2> QED
    BY <2>1, <2>2, <2>3, <2>4, <2>5, <2>6, <2>7, <2>8, <2>9
<1>21. CASE ShutdownUpdates
  <2>1. TypeOK'
      BY <1>21, <1>0 DEF ShutdownUpdates, UpdateRunStatus, TypeOK,
         ServingPCs, StoppingPCs, Ledger!Finished, Ledger!WatcherOutcomes,
         Ledger!OperatorOutcomes
  <2>2. FreshRuns'
    BY <1>21 DEF ShutdownUpdates, UpdateRunStatus, TypeOK, FreshRuns
  <2>3. LoopState'
    BY <1>21 DEF ShutdownUpdates, UpdateRunStatus, LoopState, ServingPCs,
       StoppingPCs
  <2>4. MonitorState'
    BY <1>21 DEF ShutdownUpdates, UpdateRunStatus, MonitorState
  <2>5. WriterState'
    BY <1>21 DEF ShutdownUpdates, UpdateRunStatus, TypeOK, WriterState
  <2>6. SuccessMeansExitZero'
    BY <1>21 DEF ShutdownUpdates, UpdateRunStatus, TypeOK,
       SuccessMeansExitZero
  <2>7. RunningIsOwned'
    BY <1>21 DEF ShutdownUpdates, UpdateRunStatus, TypeOK, RunningIsOwned
  <2>8. LiveChildIsTracked'
    BY <1>21 DEF ShutdownUpdates, UpdateRunStatus, LiveChildIsTracked
  <2>9. CancelledIsOver'
    <3>1. cur \in Runs
      BY <1>21 DEF ShutdownUpdates, TypeOK, LoopState
    <3>2. row'[cur] = "shutdown" /\ "shutdown" \in Ledger!Finished
      BY <1>21, <3>1 DEF ShutdownUpdates, UpdateRunStatus, TypeOK,
         Ledger!Finished, Ledger!OperatorOutcomes
    <3>3. ASSUME NEW s \in Runs, s # cur PROVE row'[s] = row[s]
      BY <1>21, <3>3 DEF ShutdownUpdates, UpdateRunStatus, TypeOK
    <3> QED
      BY <1>21, <3>2, <3>3 DEF ShutdownUpdates, TypeOK, CancelledIsOver
  <2> QED
    BY <2>1, <2>2, <2>3, <2>4, <2>5, <2>6, <2>7, <2>8, <2>9
<1>22. CASE ShutdownUpdateRaises
  <2>1. TypeOK'
      BY <1>22, <1>0 DEF ShutdownUpdateRaises, UpdateRunStatusRaises,
         TypeOK, ServingPCs, StoppingPCs
  <2>2. FreshRuns'
    BY <1>22 DEF ShutdownUpdateRaises, UpdateRunStatusRaises, FreshRuns
  <2>3. LoopState'
    BY <1>22 DEF ShutdownUpdateRaises, UpdateRunStatusRaises, LoopState,
       ServingPCs, StoppingPCs
  <2>4. MonitorState'
    BY <1>22 DEF ShutdownUpdateRaises, UpdateRunStatusRaises, MonitorState
  <2>5. WriterState'
    BY <1>22 DEF ShutdownUpdateRaises, UpdateRunStatusRaises, WriterState
  <2>6. SuccessMeansExitZero'
    BY <1>22 DEF ShutdownUpdateRaises, UpdateRunStatusRaises,
       SuccessMeansExitZero
  <2>7. RunningIsOwned'
    BY <1>22 DEF ShutdownUpdateRaises, UpdateRunStatusRaises,
       RunningIsOwned
  <2>8. LiveChildIsTracked'
    BY <1>22 DEF ShutdownUpdateRaises, UpdateRunStatusRaises,
       LiveChildIsTracked
  <2>9. CancelledIsOver'
    BY <1>22 DEF ShutdownUpdateRaises, UpdateRunStatusRaises,
       CancelledIsOver
  <2> QED
    BY <2>1, <2>2, <2>3, <2>4, <2>5, <2>6, <2>7, <2>8, <2>9
<1>23. CASE ShutdownEnds
  <2>1. TypeOK'
      BY <1>23, <1>0 DEF ShutdownEnds, TypeOK, ServingPCs, StoppingPCs
  <2>2. FreshRuns'
    BY <1>23 DEF ShutdownEnds, FreshRuns
  <2>3. LoopState'
    BY <1>23 DEF ShutdownEnds, LoopState, ServingPCs, StoppingPCs
  <2>4. MonitorState'
    BY <1>23 DEF ShutdownEnds, MonitorState
  <2>5. WriterState'
    BY <1>23 DEF ShutdownEnds, WriterState
  <2>6. SuccessMeansExitZero'
    BY <1>23 DEF ShutdownEnds, SuccessMeansExitZero
  <2>7. RunningIsOwned'
    BY <1>23 DEF ShutdownEnds, RunningIsOwned
  <2>8. LiveChildIsTracked'
    BY <1>23 DEF ShutdownEnds, LoopState, LiveChildIsTracked, StoppingPCs
  <2>9. CancelledIsOver'
    BY <1>23 DEF ShutdownEnds, CancelledIsOver
  <2> QED
    BY <2>1, <2>2, <2>3, <2>4, <2>5, <2>6, <2>7, <2>8, <2>9
<1>24. CASE Restart
  <2>1. TypeOK'
      BY <1>24, <1>0 DEF Restart, NewServer, TypeOK, ServingPCs,
         StoppingPCs
  <2>2. FreshRuns'
    BY <1>24 DEF Restart, NewServer, FreshRuns
  <2>3. LoopState'
    BY <1>24 DEF Restart, NewServer, LoopState, ServingPCs, StoppingPCs
  <2>4. MonitorState'
    BY <1>24 DEF Restart, NewServer, MonitorState
  <2>5. WriterState'
    BY <1>24 DEF Restart, NewServer, WriterState
  <2>6. SuccessMeansExitZero'
    BY <1>24 DEF Restart, NewServer, SuccessMeansExitZero
  <2>7. RunningIsOwned'
    BY <1>24 DEF Restart, NewServer, RunningIsOwned
  <2>8. LiveChildIsTracked'
    BY <1>24 DEF Restart, NewServer, LiveChildIsTracked
  <2>9. CancelledIsOver'
    BY <1>24 DEF Restart, NewServer, CancelledIsOver
  <2> QED
    BY <2>1, <2>2, <2>3, <2>4, <2>5, <2>6, <2>7, <2>8, <2>9
<1>25. CASE Crash
  <2>1. TypeOK'
      BY <1>25, <1>0 DEF Crash, NewServer, TypeOK, ServingPCs, StoppingPCs
  <2>2. FreshRuns'
    BY <1>25 DEF Crash, NewServer, FreshRuns
  <2>3. LoopState'
    BY <1>25 DEF Crash, NewServer, LoopState, ServingPCs, StoppingPCs
  <2>4. MonitorState'
    BY <1>25 DEF Crash, NewServer, MonitorState
  <2>5. WriterState'
    BY <1>25 DEF Crash, NewServer, WriterState
  <2>6. SuccessMeansExitZero'
    BY <1>25 DEF Crash, NewServer, SuccessMeansExitZero
  <2>7. RunningIsOwned'
    BY <1>25 DEF Crash, NewServer, RunningIsOwned
  <2>8. LiveChildIsTracked'
    BY <1>25 DEF Crash, NewServer, LiveChildIsTracked
  <2>9. CancelledIsOver'
    BY <1>25 DEF Crash, NewServer, CancelledIsOver
  <2> QED
    BY <2>1, <2>2, <2>3, <2>4, <2>5, <2>6, <2>7, <2>8, <2>9
<1>26. CASE UNCHANGED vars
  BY <1>26 DEF vars, TypeOK, FreshRuns, LoopState, MonitorState, WriterState,
     SuccessMeansExitZero, RunningIsOwned, LiveChildIsTracked, CancelledIsOver, SlotsInPool
<1> QED
  BY <1>1, <1>2, <1>3, <1>4, <1>5, <1>6, <1>7, <1>8, <1>9, <1>10, <1>11,
     <1>12, <1>13, <1>14, <1>15, <1>16, <1>17, <1>18, <1>19, <1>20, <1>21,
     <1>22, <1>23, <1>24, <1>25, <1>26
     DEF Next, EventLoop, EventLoopContinues, Monitor

-----------------------------------------------------------------------------
(* The theorems.                                                           *)

\* The strengthened invariant holds of every reachable state.
LEMMA Invariance == Spec => []IInv
BY InitIInv, StepIInv, PTL DEF Spec

\* Every variable of the runner keeps its type; in particular get_connection
\* never counts more connections out than the pool has (db.py:211).
THEOREM TypeCorrect == Spec => []TypeOK
<1>1. IInv => TypeOK
  BY DEF IInv
<1> QED
  BY Invariance, <1>1, PTL

\* A row says 'success' only if the child exited with code 0: the return code a
\* monitor, a cancel or a shutdown has seen is the child's (runner.py:260).
THEOREM SuccessIsSound == Spec => []SuccessMeansExitZero
<1>1. IInv => SuccessMeansExitZero
  BY DEF IInv
<1> QED
  BY Invariance, <1>1, PTL

\* A row is left 'running' without an owner only by a failed Popen, a failed
\* status update or the end of the server process (runner.py:219-301).
THEOREM RunningHasOwner == Spec => []RunningIsOwned
<1>1. IInv => RunningIsOwned
  BY DEF IInv
<1> QED
  BY Invariance, <1>1, PTL

\* A live child can be cancelled, but for a monitor that failed, a shutdown in
\* progress, or a server that is gone (runner.py:241, 295).
THEOREM LiveChildHasEntry == Spec => []LiveChildIsTracked
<1>1. IInv => LiveChildIsTracked
  BY DEF IInv
<1> QED
  BY Invariance, <1>1, PTL

\* After the answer "cancelled" the child is dead, the entry gone and the row
\* finished, in every later state (runner.py:365-382).
THEOREM CancelIsEffective == Spec => []CancelledIsOver
<1>1. IInv => CancelledIsOver
  BY DEF IInv
<1> QED
  BY Invariance, <1>1, PTL

\* The runner implements the ledger: the insertion of a row is Open, a
\* committed status update is Report by the watcher or by an operator who has not
\* reported before, and every other step leaves the ledger alone.
THEOREM ImplementsLedger == Spec => RefinesLedger
<1>1. Init => Ledger!LedgerInit
  BY DEF Init, Ledger!LedgerInit
<1>2. IInv /\ [Next]_vars => [Ledger!LedgerNext]_(Ledger!ledgerVars)
  <2> SUFFICES ASSUME IInv, [Next]_vars
               PROVE  [Ledger!LedgerNext]_(Ledger!ledgerVars)
    OBVIOUS
  <2> USE DEF IInv, Ledger!LedgerNext, Ledger!ledgerVars
  <2>1. CASE InsertRun
    BY <2>1 DEF InsertRun, LoopState, Ledger!Open
  <2>2. ASSUME NEW r \in Runs, MonitorWrites(r)
        PROVE  Ledger!LedgerNext
    <3>1. outcome[r] \in Ledger!WatcherOutcomes
      BY <2>2 DEF MonitorWrites, TypeOK, MonitorState
    <3>2. row[r] # "absent" /\ "watcher" \notin writers[r]
      BY <2>2 DEF MonitorWrites, FreshRuns, WriterState
    <3> QED
      BY <2>2, <3>1, <3>2 DEF MonitorWrites, UpdateRunStatus, Ledger!Report
  <2>3. ASSUME CancelSucceeds \/ ShutdownUpdates
        PROVE  Ledger!LedgerNext
    <3>1. cur \in Runs /\ row[cur] # "absent" /\ "operator" \notin writers[cur]
      BY <2>3 DEF CancelSucceeds, ShutdownUpdates, TypeOK, LoopState, FreshRuns,
                  WriterState
    <3> QED
      BY <2>3, <3>1 DEF CancelSucceeds, ShutdownUpdates, UpdateRunStatus,
                        Ledger!Report, Ledger!OperatorOutcomes
  <2>4. \/ InsertRun \/ CancelSucceeds \/ ShutdownUpdates
        \/ \E r \in Runs : MonitorWrites(r)
        \/ UNCHANGED <<row, writers>>
    BY Zenon DEF Next, vars, EventLoop, EventLoopContinues, Monitor, MonitorVars,
       UpdateRunStatusRaises, NewServer, Restart, Crash,
       StartExtractor, StartExtractorNoConfig, InsertRunRaises, SpawnChild,
       SpawnChildRaises, ChildExits, MonitorSeesExit, MonitorSeesShutdown,
       MonitorReadRaises, MonitorWriteRaises, MonitorPops, CancelRun,
       CancelStopsChild, CancelRaises, ShutdownSignals, ShutdownLists,
       ShutdownStopsChild, ShutdownUpdateRaises, ShutdownEnds
  <2> QED
    BY <2>1, <2>2, <2>3, <2>4
<1> QED
  BY Invariance, <1>1, <1>2, PTL DEF Spec, RefinesLedger, Ledger!LedgerSpec
=============================================================================
