-------------------------- MODULE WastageScanProofs --------------------------
(***************************************************************************)
(* Proofs about WastageScan for scans that do not overlap, as the cron     *)
(* job's concurrencyPolicy Forbid schedules them: for every set of         *)
(* findings and accounts, threshold, number of scans and set of faults.    *)
(***************************************************************************)
EXTENDS WastageScan, SetInduction

Serial == ~Overlap

-----------------------------------------------------------------------------
(* The inductive invariant.                                                *)

\* At most one scan is at work, and it is the latest of those that have run.
OneAtATime ==
  \A s \in Scans : Active(s) =>
    /\ \A t \in Scans : Active(t) => t = s
    /\ \A d \in Done : d < s

\* What has been started lies in the past.
PastScans ==
  /\ \A s \in Scans : pc[s] # "absent" => s <= clock
  /\ \A f \in Findings : lastSeen[f] <= clock
  /\ \A s \in Scans : run[s] = "done" => pc[s] = "ended"

\* A finding carries the mark of a scan exactly if the scan has committed it.
SeenMark(s) ==
  /\ pc[s] \in {"absent", "queued", "read", "close error"} => seen[s] = {}
  /\ pc[s] \in {"read", "commit"} => \A f \in Findings : lastSeen[f] < s
  /\ Active(s) => \A f \in Findings : lastSeen[f] <= s

SeenMarks == \A s \in Scans : SeenMark(s)

\* The cutoff a scan is about to apply has Threshold - 1 completed scans after it.
CutoffState ==
  \A s \in Scans : pc[s] = "resolve" =>
    /\ cutoff[s] \in Done
    /\ Cardinality({d \in Done : d > cutoff[s]}) = Threshold - 1

IInv == /\ TypeOK /\ OneAtATime /\ PastScans /\ SeenMarks /\ CutoffState
        /\ LastSeenIsLatest

-----------------------------------------------------------------------------
\* The numbers of the model are natural numbers.
LEMMA Times ==
  ASSUME TimesOK
  PROVE  /\ clock \in Nat
         /\ \A f \in Findings : lastSeen[f] \in Nat
         /\ \A s \in Scans : s \in Nat /\ cutoff[s] \in Nat
BY MaxScansAssumption DEF TimesOK, Scans

\* The invariant holds when the deployment starts.
LEMMA InitIInv == Init => IInv
<1> SUFFICES ASSUME Init PROVE IInv
  OBVIOUS
<1> USE MaxScansAssumption DEF Init
<1>1. TimesOK
  BY DEF TimesOK
<1>2. TypeOK
  BY <1>1 DEF TypeOK
<1>3. OneAtATime /\ PastScans /\ SeenMarks /\ CutoffState
  BY DEF OneAtATime, PastScans, SeenMarks, SeenMark, CutoffState, Active, Scans
<1>4. LastSeenIsLatest
  BY DEF LastSeenIsLatest, Scans
<1> QED
  BY <1>2, <1>3, <1>4 DEF IInv

\* Every step keeps the invariant, as long as scans do not overlap.
LEMMA StepIInv == ASSUME Serial PROVE IInv /\ [Next]_vars => IInv'
<1> SUFFICES ASSUME IInv, [Next]_vars PROVE IInv'
  OBVIOUS
<1> USE DEF IInv, Goto, findingVars, envVars
<1>T. TimesOK
  BY DEF TypeOK
<1>t. /\ clock \in Nat
      /\ \A f \in Findings : lastSeen[f] \in Nat
      /\ \A s \in Scans : s \in Nat /\ cutoff[s] \in Nat
  BY Times DEF TypeOK
<1>1. ASSUME NEW s \in Scans, ScanStarts(s) PROVE IInv'
  <2>p. \A t \in Scans : pc'[t] = IF t = s THEN "read" ELSE pc[t]
    BY <1>1 DEF ScanStarts, TypeOK
  <2>q. pc[s] = "absent" /\ run[s] # "done" /\ ~(s <= clock)
    BY <1>1, <1>t DEF ScanStarts, PastScans
  <2>d. Done' = Done
    BY <1>1, <2>q DEF ScanStarts, Done, TypeOK
  <2>1. TimesOK'
    BY <1>1, <1>T, MaxScansAssumption DEF ScanStarts, TimesOK, Scans
  <2>2. TypeOK'
    BY <1>1, <2>1 DEF ScanStarts, TypeOK
  <2>3. OneAtATime'
    BY <1>1, <1>t, <2>p, <2>q, <2>d DEF ScanStarts, Serial, OneAtATime,
       Active, PastScans, Done
  <2>4. PastScans'
    <3>1. clock' = s /\ clock < s
      BY <1>1, <1>t DEF ScanStarts
    <3>2. \A t \in Scans : pc'[t] # "absent" => t <= clock'
      BY <3>1, <1>t, <2>p DEF PastScans
    <3>3. \A g \in Findings : lastSeen'[g] <= clock'
      BY <1>1, <3>1, <1>t DEF ScanStarts, PastScans
    <3>4. \A t \in Scans : run'[t] = "done" => pc'[t] = "ended"
      BY <1>1, <2>p DEF ScanStarts, TypeOK, PastScans
    <3> QED
      BY <3>2, <3>3, <3>4 DEF PastScans
  <2>5. SeenMarks'
    <3>1. SeenMark(s)'
      <4>1. pc'[s] = "read"
        BY <2>p
      <4>2. SeenMark(s)
        BY DEF SeenMarks
      <4>3. seen'[s] = {}
        BY <1>1, <4>2, <2>q DEF ScanStarts, SeenMark, Active, PastScans
      <4>4. \A g \in Findings : lastSeen'[g] < s /\ lastSeen'[g] <= s
        BY <1>1, <4>2, <2>q, <1>t DEF ScanStarts, SeenMark, Active, PastScans
      <4> QED
        BY <4>1, <4>3, <4>4, Zenon DEF SeenMark, Active
    <3>2. ASSUME NEW t \in Scans, t # s PROVE SeenMark(t)'
      BY <1>1, <1>t, <3>2, <2>p, <2>q DEF ScanStarts, SeenMarks, SeenMark,
       Active
    <3> QED
      BY <3>1, <3>2 DEF SeenMarks
  <2>6. CutoffState'
    BY <1>1, <1>t, <2>p, <2>q, <2>d DEF ScanStarts, CutoffState
  <2>7. LastSeenIsLatest'
    <3> SUFFICES ASSUME NEW g \in Findings, NEW t \in Scans
                 PROVE  /\ g \in seen'[t] /\ pc'[t] # "commit" => t <= lastSeen'[g]
                        /\ lastSeen'[g] = t => g \in seen'[t]
      BY DEF LastSeenIsLatest
    <3>1. CASE t = s
      BY <1>1, <1>t, <3>1, <2>p, <2>q DEF ScanStarts, LastSeenIsLatest,
       SeenMarks, SeenMark, Active
    <3>2. CASE t # s
      BY <1>1, <1>t, <3>2, <2>p, <2>q DEF ScanStarts, LastSeenIsLatest,
       SeenMarks, SeenMark
    <3> QED
      BY <3>1, <3>2
  <2> QED
    BY <2>2, <2>3, <2>4, <2>5, <2>6, <2>7
<1>2. ASSUME NEW s \in Scans, TriggerScan(s) PROVE IInv'
  <2>p. \A t \in Scans : pc'[t] = IF t = s THEN "queued" ELSE pc[t]
    BY <1>2 DEF TriggerScan, TypeOK
  <2>q. pc[s] = "absent" /\ run[s] # "done" /\ ~(s <= clock)
    BY <1>2, <1>t DEF TriggerScan, PastScans
  <2>d. Done' = Done
    BY <1>2, <2>q DEF TriggerScan, Done, TypeOK
  <2>1. TimesOK'
    BY <1>2, <1>T, MaxScansAssumption DEF TriggerScan, TimesOK, Scans
  <2>2. TypeOK'
    BY <1>2, <2>1 DEF TriggerScan, TypeOK
  <2>3. OneAtATime'
    BY <1>2, <1>t, <2>p, <2>q, <2>d DEF TriggerScan, OneAtATime, Active,
       PastScans, Done
  <2>4. PastScans'
    <3>1. clock' = s /\ clock < s
      BY <1>2, <1>t DEF TriggerScan
    <3>2. \A t \in Scans : pc'[t] # "absent" => t <= clock'
      BY <3>1, <1>t, <2>p DEF PastScans
    <3>3. \A g \in Findings : lastSeen'[g] <= clock'
      BY <1>2, <3>1, <1>t DEF TriggerScan, PastScans
    <3>4. \A t \in Scans : run'[t] = "done" => pc'[t] = "ended"
      BY <1>2, <2>p, <2>q DEF TriggerScan, TypeOK, PastScans
    <3> QED
      BY <3>2, <3>3, <3>4 DEF PastScans
  <2>5. SeenMarks'
    <3>1. SeenMark(s)'
      <4>1. pc'[s] = "queued"
        BY <2>p
      <4>2. SeenMark(s)
        BY DEF SeenMarks
      <4>3. seen'[s] = {}
        BY <1>2, <4>2, <2>q DEF TriggerScan, SeenMark, Active, PastScans
      <4> QED
        BY <4>1, <4>3, Zenon DEF SeenMark, Active
    <3>2. ASSUME NEW t \in Scans, t # s PROVE SeenMark(t)'
      BY <1>2, <1>t, <3>2, <2>p, <2>q DEF TriggerScan, SeenMarks, SeenMark,
       Active
    <3> QED
      BY <3>1, <3>2 DEF SeenMarks
  <2>6. CutoffState'
    BY <1>2, <1>t, <2>p, <2>q, <2>d DEF TriggerScan, CutoffState
  <2>7. LastSeenIsLatest'
    <3> SUFFICES ASSUME NEW g \in Findings, NEW t \in Scans
                 PROVE  /\ g \in seen'[t] /\ pc'[t] # "commit" => t <= lastSeen'[g]
                        /\ lastSeen'[g] = t => g \in seen'[t]
      BY DEF LastSeenIsLatest
    <3>1. CASE t = s
      BY <1>2, <1>t, <3>1, <2>p, <2>q DEF TriggerScan, LastSeenIsLatest,
       SeenMarks, SeenMark, Active
    <3>2. CASE t # s
      BY <1>2, <1>t, <3>2, <2>p, <2>q DEF TriggerScan, LastSeenIsLatest,
       SeenMarks, SeenMark
    <3> QED
      BY <3>1, <3>2
  <2> QED
    BY <2>2, <2>3, <2>4, <2>5, <2>6, <2>7
<1>3. ASSUME NEW s \in Scans, ScanReads(s) PROVE IInv'
  <2>p. \A t \in Scans : pc'[t] = IF t = s THEN "commit" ELSE pc[t]
    BY <1>3 DEF ScanReads, TypeOK
  <2>q. \A t \in Scans \ {s} : seen'[t] = seen[t]
    BY <1>3 DEF ScanReads, TypeOK
  <2>d. Done' = Done
    BY <1>3 DEF ScanReads, Done
  <2>1. TimesOK'
    BY <1>3, <1>T, MaxScansAssumption DEF ScanReads, TimesOK, Scans
  <2>2. TypeOK'
    BY <1>3, <2>1 DEF ScanReads, StreamInventory, TypeOK
  <2>3. OneAtATime'
    BY <1>3, <1>t, <2>p, <2>q, <2>d DEF ScanReads, OneAtATime, Active
  <2>4. PastScans'
    BY <1>3, <1>t, <2>p, <2>q DEF ScanReads, PastScans
  <2>5. SeenMarks'
    <3>1. SeenMark(s)'
      <4>1. pc'[s] = "commit"
        BY <2>p
      <4>2. SeenMark(s)
        BY DEF SeenMarks
      <4>3. \A g \in Findings : lastSeen'[g] < s /\ lastSeen'[g] <= s
        BY <1>3, <4>2, <1>t DEF ScanReads, SeenMark, Active
      <4> QED
        BY <4>1, <4>3, Zenon DEF SeenMark, Active
    <3>2. ASSUME NEW t \in Scans, t # s PROVE SeenMark(t)'
      BY <1>3, <1>t, <3>2, <2>p, <2>q DEF ScanReads, SeenMarks, SeenMark,
       Active
    <3> QED
      BY <3>1, <3>2 DEF SeenMarks
  <2>6. CutoffState'
    <3>1. cutoff' = cutoff
      BY <1>3 DEF ScanReads
    <3> QED
      BY <2>p, <2>d, <3>1, Zenon DEF CutoffState
  <2>7. LastSeenIsLatest'
    <3> SUFFICES ASSUME NEW g \in Findings, NEW t \in Scans
                 PROVE  /\ g \in seen'[t] /\ pc'[t] # "commit" => t <= lastSeen'[g]
                        /\ lastSeen'[g] = t => g \in seen'[t]
      BY DEF LastSeenIsLatest
    <3>1. CASE t = s
      BY <1>3, <1>t, <3>1, <2>p, <2>q DEF ScanReads, LastSeenIsLatest,
       SeenMarks, SeenMark, Active
    <3>2. CASE t # s
      BY <1>3, <1>t, <3>2, <2>p, <2>q DEF ScanReads, LastSeenIsLatest,
       SeenMarks, SeenMark
    <3> QED
      BY <3>1, <3>2
  <2> QED
    BY <2>2, <2>3, <2>4, <2>5, <2>6, <2>7
<1>4. ASSUME NEW s \in Scans, ScanCommits(s) PROVE IInv'
  <2>p. \A t \in Scans : pc'[t] = IF t = s THEN "cutoff" ELSE pc[t]
    BY <1>4 DEF ScanCommits, TypeOK
  <2>d. Done' = Done
    BY <1>4 DEF ScanCommits, Done
  <2>1. TimesOK'
    BY <1>4, <1>T, MaxScansAssumption DEF ScanCommits, TimesOK, Scans
  <2>2. TypeOK'
    BY <1>4, <2>1 DEF ScanCommits, TypeOK
  <2>3. OneAtATime'
    BY <1>4, <1>t, <2>p, <2>d DEF ScanCommits, OneAtATime, Active
  <2>4. PastScans'
    BY <1>4, <1>t, <2>p DEF ScanCommits, PastScans
  <2>5. SeenMarks'
    <3>1. SeenMark(s)'
      <4>1. pc'[s] = "cutoff"
        BY <2>p
      <4>2. SeenMark(s)
        BY DEF SeenMarks
      <4>3. \A g \in Findings : lastSeen'[g] <= s
        BY <1>4, <4>2, <1>t DEF ScanCommits, SeenMark, Active
      <4> QED
        BY <4>1, <4>3, Zenon DEF SeenMark, Active
    <3>2. ASSUME NEW t \in Scans, t # s PROVE SeenMark(t)'
      BY <1>4, <1>t, <3>2, <2>p DEF ScanCommits, SeenMarks, SeenMark, Active,
       OneAtATime
    <3> QED
      BY <3>1, <3>2 DEF SeenMarks
  <2>6. CutoffState'
    BY <1>4, <1>t, <2>p, <2>d DEF ScanCommits, CutoffState
  <2>7. LastSeenIsLatest'
    <3> SUFFICES ASSUME NEW g \in Findings, NEW t \in Scans
                 PROVE  /\ g \in seen[t] /\ pc'[t] # "commit" => t <= lastSeen'[g]
                        /\ lastSeen'[g] = t => g \in seen[t]
      BY <1>4 DEF LastSeenIsLatest, ScanCommits
    <3>1. lastSeen'[g] = IF g \in seen[s] THEN s ELSE lastSeen[g]
      BY <1>4 DEF ScanCommits
    <3>2. lastSeen[g] < s
      BY <1>4 DEF ScanCommits, SeenMarks, SeenMark
    <3>3. /\ g \in seen[t] /\ pc[t] # "commit" => t <= lastSeen[g]
          /\ lastSeen[g] = t => g \in seen[t]
      BY DEF LastSeenIsLatest
    <3>4. t # s => pc[t] # "commit"
      BY <1>4 DEF ScanCommits, OneAtATime, Active
    <3> QED
      BY <1>t, <3>1, <3>2, <3>3, <3>4
  <2> QED
    BY <2>2, <2>3, <2>4, <2>5, <2>6, <2>7
<1>5. ASSUME NEW s \in Scans, ScanRaises(s) PROVE IInv'
  <2>p. \A t \in Scans : pc'[t] = IF t = s THEN "close error" ELSE pc[t]
    BY <1>5 DEF ScanRaises, TypeOK
  <2>q. \A t \in Scans :
          seen'[t] = IF t = s THEN {} ELSE seen[t]
    BY <1>5 DEF ScanRaises, TypeOK
  <2>d. Done' = Done
    BY <1>5 DEF ScanRaises, Done
  <2>1. TimesOK'
    BY <1>5, <1>T, MaxScansAssumption DEF ScanRaises, TimesOK, Scans
  <2>2. TypeOK'
    BY <1>5, <2>1 DEF ScanRaises, TypeOK
  <2>3. OneAtATime'
    BY <1>5, <1>t, <2>p, <2>q, <2>d DEF ScanRaises, OneAtATime, Active
  <2>4. PastScans'
    BY <1>5, <1>t, <2>p, <2>q DEF ScanRaises, PastScans
  <2>5. SeenMarks'
    <3>1. SeenMark(s)'
      <4>1. pc'[s] = "close error"
        BY <2>p
      <4>2. SeenMark(s)
        BY DEF SeenMarks
      <4>3. seen'[s] = {}
        BY <1>5, <4>2, <2>q DEF ScanRaises, SeenMark, Active
      <4>4. \A g \in Findings : lastSeen'[g] <= s
        BY <1>5, <4>2, <2>q, <1>t DEF ScanRaises, SeenMark, Active
      <4> QED
        BY <4>1, <4>3, <4>4, Zenon DEF SeenMark, Active
    <3>2. ASSUME NEW t \in Scans, t # s PROVE SeenMark(t)'
      BY <1>5, <1>t, <3>2, <2>p, <2>q DEF ScanRaises, SeenMarks, SeenMark,
       Active
    <3> QED
      BY <3>1, <3>2 DEF SeenMarks
  <2>6. CutoffState'
    <3>1. cutoff' = cutoff
      BY <1>5 DEF ScanRaises
    <3> QED
      BY <2>p, <2>d, <3>1, Zenon DEF CutoffState
  <2>7. LastSeenIsLatest'
    <3> SUFFICES ASSUME NEW g \in Findings, NEW t \in Scans
                 PROVE  /\ g \in seen'[t] /\ pc'[t] # "commit" => t <= lastSeen[g]
                        /\ lastSeen[g] = t => g \in seen'[t]
      BY <1>5 DEF LastSeenIsLatest, ScanRaises
    <3>1. /\ g \in seen[t] /\ pc[t] # "commit" => t <= lastSeen[g]
          /\ lastSeen[g] = t => g \in seen[t]
      BY DEF LastSeenIsLatest
    <3>2. pc[s] \in {"read", "commit"} => lastSeen[g] # s
      <4>1. pc[s] \in {"read", "commit"} => lastSeen[g] < s
        BY Zenon DEF SeenMarks, SeenMark
      <4> QED
        BY <1>t, <4>1
    <3>3. CASE t = s
      <4>1. seen'[t] = {}
        BY <2>q, <3>3
      <4>2. lastSeen[g] # t
        BY <1>5, <3>2, <3>3 DEF ScanRaises
      <4> QED
        BY <4>1, <4>2
    <3>4. CASE t # s
      BY <2>p, <2>q, <3>1, <3>4
    <3> QED
      BY <3>3, <3>4
  <2> QED
    BY <2>2, <2>3, <2>4, <2>5, <2>6, <2>7
<1>6. ASSUME NEW s \in Scans, ScanFindsCutoff(s) PROVE IInv'
  <2>p. \A t \in Scans : pc'[t] = IF t = s THEN "resolve" ELSE pc[t]
    BY <1>6 DEF ScanFindsCutoff, TypeOK
  <2>d. Done' = Done
    BY <1>6 DEF ScanFindsCutoff, Done
  <2>1. TimesOK'
    <3>1. PICK c \in Done : cutoff' = [cutoff EXCEPT ![s] = c]
      BY <1>6 DEF ScanFindsCutoff, AtOffset
    <3>2. c \in 0..MaxScans
      BY MaxScansAssumption DEF Done, Scans
    <3> QED
      BY <1>6, <1>T, <3>1, <3>2 DEF ScanFindsCutoff, TimesOK
  <2>2. TypeOK'
    BY <1>6, <2>1 DEF ScanFindsCutoff, TypeOK
  <2>3. OneAtATime'
    BY <1>6, <1>t, <2>p, <2>d DEF ScanFindsCutoff, OneAtATime, Active
  <2>4. PastScans'
    BY <1>6, <1>t, <2>p DEF ScanFindsCutoff, PastScans
  <2>5. SeenMarks'
    <3>1. SeenMark(s)'
      <4>1. pc'[s] = "resolve"
        BY <2>p
      <4>2. SeenMark(s)
        BY DEF SeenMarks
      <4>3. \A g \in Findings : lastSeen'[g] <= s
        BY <1>6, <4>2, <1>t DEF ScanFindsCutoff, SeenMark, Active
      <4> QED
        BY <4>1, <4>3, Zenon DEF SeenMark, Active
    <3>2. ASSUME NEW t \in Scans, t # s PROVE SeenMark(t)'
      BY <1>6, <1>t, <3>2, <2>p DEF ScanFindsCutoff, SeenMarks, SeenMark,
       Active
    <3> QED
      BY <3>1, <3>2 DEF SeenMarks
  <2>6. CutoffState'
    <3>1. PICK c \in AtOffset(Threshold - 1) : cutoff' = [cutoff EXCEPT ![s] = c]
      BY <1>6 DEF ScanFindsCutoff
    <3>2. \A t \in Scans : cutoff'[t] = IF t = s THEN c ELSE cutoff[t]
      BY <1>T, <3>1 DEF TimesOK
    <3>3. /\ c \in Done
          /\ Cardinality({d \in Done : d > c}) = Threshold - 1
      BY <3>1 DEF AtOffset
    <3> QED
      BY <2>p, <2>d, <3>2, <3>3 DEF CutoffState
  <2>7. LastSeenIsLatest'
    <3> SUFFICES ASSUME NEW g \in Findings, NEW t \in Scans
                 PROVE  /\ g \in seen'[t] /\ pc'[t] # "commit" => t <= lastSeen'[g]
                        /\ lastSeen'[g] = t => g \in seen'[t]
      BY DEF LastSeenIsLatest
    <3>1. CASE t = s
      BY <1>6, <1>t, <3>1, <2>p DEF ScanFindsCutoff, LastSeenIsLatest,
       SeenMarks, SeenMark, Active
    <3>2. CASE t # s
      BY <1>6, <1>t, <3>2, <2>p DEF ScanFindsCutoff, LastSeenIsLatest,
       SeenMarks, SeenMark
    <3> QED
      BY <3>1, <3>2
  <2> QED
    BY <2>2, <2>3, <2>4, <2>5, <2>6, <2>7
<1>7. ASSUME NEW s \in Scans, ScanSkipsResolve(s) PROVE IInv'
  <2>p. \A t \in Scans : pc'[t] = IF t = s THEN "close" ELSE pc[t]
    BY <1>7 DEF ScanSkipsResolve, TypeOK
  <2>d. Done' = Done
    BY <1>7 DEF ScanSkipsResolve, Done
  <2>1. TimesOK'
    BY <1>7, <1>T, MaxScansAssumption DEF ScanSkipsResolve, TimesOK, Scans
  <2>2. TypeOK'
    BY <1>7, <2>1 DEF ScanSkipsResolve, TypeOK
  <2>3. OneAtATime'
    BY <1>7, <1>t, <2>p, <2>d DEF ScanSkipsResolve, OneAtATime, Active
  <2>4. PastScans'
    BY <1>7, <1>t, <2>p DEF ScanSkipsResolve, PastScans
  <2>5. SeenMarks'
    <3>1. SeenMark(s)'
      <4>1. pc'[s] = "close"
        BY <2>p
      <4>2. SeenMark(s)
        BY DEF SeenMarks
      <4>3. \A g \in Findings : lastSeen'[g] <= s
        BY <1>7, <4>2, <1>t DEF ScanSkipsResolve, SeenMark, Active
      <4> QED
        BY <4>1, <4>3, Zenon DEF SeenMark, Active
    <3>2. ASSUME NEW t \in Scans, t # s PROVE SeenMark(t)'
      BY <1>7, <1>t, <3>2, <2>p DEF ScanSkipsResolve, SeenMarks, SeenMark,
       Active
    <3> QED
      BY <3>1, <3>2 DEF SeenMarks
  <2>6. CutoffState'
    BY <1>7, <1>t, <2>p, <2>d DEF ScanSkipsResolve, CutoffState
  <2>7. LastSeenIsLatest'
    <3> SUFFICES ASSUME NEW g \in Findings, NEW t \in Scans
                 PROVE  /\ g \in seen'[t] /\ pc'[t] # "commit" => t <= lastSeen'[g]
                        /\ lastSeen'[g] = t => g \in seen'[t]
      BY DEF LastSeenIsLatest
    <3>1. CASE t = s
      BY <1>7, <1>t, <3>1, <2>p DEF ScanSkipsResolve, LastSeenIsLatest,
       SeenMarks, SeenMark, Active
    <3>2. CASE t # s
      BY <1>7, <1>t, <3>2, <2>p DEF ScanSkipsResolve, LastSeenIsLatest,
       SeenMarks, SeenMark
    <3> QED
      BY <3>1, <3>2
  <2> QED
    BY <2>2, <2>3, <2>4, <2>5, <2>6, <2>7
<1>8. ASSUME NEW s \in Scans, ScanResolves(s) PROVE IInv'
  <2>p. \A t \in Scans : pc'[t] = IF t = s THEN "close" ELSE pc[t]
    BY <1>8 DEF ScanResolves, TypeOK
  <2>d. Done' = Done
    BY <1>8 DEF ScanResolves, Done
  <2>1. TimesOK'
    BY <1>8, <1>T, MaxScansAssumption DEF ScanResolves, TimesOK, Scans
  <2>2. TypeOK'
    BY <1>8, <2>1 DEF ScanResolves, TypeOK
  <2>3. OneAtATime'
    BY <1>8, <1>t, <2>p, <2>d DEF ScanResolves, OneAtATime, Active
  <2>4. PastScans'
    BY <1>8, <1>t, <2>p DEF ScanResolves, PastScans
  <2>5. SeenMarks'
    <3>1. SeenMark(s)'
      <4>1. pc'[s] = "close"
        BY <2>p
      <4>2. SeenMark(s)
        BY DEF SeenMarks
      <4>3. \A g \in Findings : lastSeen'[g] <= s
        BY <1>8, <4>2, <1>t DEF ScanResolves, SeenMark, Active
      <4> QED
        BY <4>1, <4>3, Zenon DEF SeenMark, Active
    <3>2. ASSUME NEW t \in Scans, t # s PROVE SeenMark(t)'
      BY <1>8, <1>t, <3>2, <2>p DEF ScanResolves, SeenMarks, SeenMark, Active
    <3> QED
      BY <3>1, <3>2 DEF SeenMarks
  <2>6. CutoffState'
    BY <1>8, <1>t, <2>p, <2>d DEF ScanResolves, CutoffState
  <2>7. LastSeenIsLatest'
    <3> SUFFICES ASSUME NEW g \in Findings, NEW t \in Scans
                 PROVE  /\ g \in seen'[t] /\ pc'[t] # "commit" => t <= lastSeen'[g]
                        /\ lastSeen'[g] = t => g \in seen'[t]
      BY DEF LastSeenIsLatest
    <3>1. CASE t = s
      BY <1>8, <1>t, <3>1, <2>p DEF ScanResolves, LastSeenIsLatest, SeenMarks,
       SeenMark, Active
    <3>2. CASE t # s
      BY <1>8, <1>t, <3>2, <2>p DEF ScanResolves, LastSeenIsLatest, SeenMarks,
       SeenMark
    <3> QED
      BY <3>1, <3>2
  <2> QED
    BY <2>2, <2>3, <2>4, <2>5, <2>6, <2>7
<1>9. ASSUME NEW s \in Scans, ScanCloses(s) PROVE IInv'
  <2>p. \A t \in Scans : pc'[t] = IF t = s THEN "ended" ELSE pc[t]
    BY <1>9 DEF ScanCloses, TypeOK
  <2>1. TimesOK'
    BY <1>9, <1>T, MaxScansAssumption DEF ScanCloses, TimesOK, Scans
  <2>2. TypeOK'
    BY <1>9, <2>1 DEF ScanCloses, TypeOK
  <2>3. OneAtATime'
    <3>1. \A t \in Scans : ~Active(t)'
      BY <1>9 DEF ScanCloses, TypeOK, OneAtATime, Active
    <3> QED
      BY <3>1 DEF OneAtATime
  <2>4. PastScans'
    BY <1>9, <1>t, <2>p DEF ScanCloses, PastScans, TypeOK
  <2>5. SeenMarks'
    <3>1. SeenMark(s)'
      <4>1. pc'[s] = "ended"
        BY <2>p
      <4>2. SeenMark(s)
        BY DEF SeenMarks
      <4> QED
        BY <4>1, Zenon DEF SeenMark, Active
    <3>2. ASSUME NEW t \in Scans, t # s PROVE SeenMark(t)'
      BY <1>9, <1>t, <3>2, <2>p DEF ScanCloses, SeenMarks, SeenMark, Active
    <3> QED
      BY <3>1, <3>2 DEF SeenMarks
  <2>6. CutoffState'
    <3>1. \A t \in Scans : ~Active(t)'
      BY <1>9 DEF ScanCloses, TypeOK, OneAtATime, Active
    <3> QED
      BY <3>1 DEF CutoffState, Active
  <2>7. LastSeenIsLatest'
    <3> SUFFICES ASSUME NEW g \in Findings, NEW t \in Scans
                 PROVE  /\ g \in seen'[t] /\ pc'[t] # "commit" => t <= lastSeen'[g]
                        /\ lastSeen'[g] = t => g \in seen'[t]
      BY DEF LastSeenIsLatest
    <3>1. CASE t = s
      BY <1>9, <1>t, <3>1, <2>p DEF ScanCloses, LastSeenIsLatest, SeenMarks,
       SeenMark, Active
    <3>2. CASE t # s
      BY <1>9, <1>t, <3>2, <2>p DEF ScanCloses, LastSeenIsLatest, SeenMarks,
       SeenMark
    <3> QED
      BY <3>1, <3>2
  <2> QED
    BY <2>2, <2>3, <2>4, <2>5, <2>6, <2>7
<1>10. ASSUME NEW s \in Scans, ScanCrashes(s) PROVE IInv'
  <2>p. \A t \in Scans : pc'[t] = IF t = s THEN "ended" ELSE pc[t]
    BY <1>10 DEF ScanCrashes, TypeOK
  <2>q. \A t \in Scans :
          seen'[t] = IF t = s THEN IF pc[s] \in {"read", "commit"} THEN {} ELSE seen[s] ELSE seen[t]
    BY <1>10 DEF ScanCrashes, TypeOK
  <2>d. Done' = Done
    BY <1>10 DEF ScanCrashes, Done
  <2>1. TimesOK'
    BY <1>10, <1>T, MaxScansAssumption DEF ScanCrashes, TimesOK, Scans
  <2>2. TypeOK'
    BY <1>10, <2>1 DEF ScanCrashes, TypeOK
  <2>3. OneAtATime'
    BY <1>10, <1>t, <2>p, <2>q, <2>d DEF ScanCrashes, OneAtATime, Active
  <2>4. PastScans'
    BY <1>10, <2>p DEF ScanCrashes, PastScans, Active
  <2>5. SeenMarks'
    <3>1. SeenMark(s)'
      <4>1. pc'[s] = "ended"
        BY <2>p
      <4>2. SeenMark(s)
        BY DEF SeenMarks
      <4> QED
        BY <4>1, Zenon DEF SeenMark, Active
    <3>2. ASSUME NEW t \in Scans, t # s PROVE SeenMark(t)'
      BY <1>10, <1>t, <3>2, <2>p, <2>q DEF ScanCrashes, SeenMarks, SeenMark,
       Active
    <3> QED
      BY <3>1, <3>2 DEF SeenMarks
  <2>6. CutoffState'
    BY <1>10, <1>t, <2>p, <2>q, <2>d DEF ScanCrashes, CutoffState
  <2>7. LastSeenIsLatest'
    <3> SUFFICES ASSUME NEW g \in Findings, NEW t \in Scans
                 PROVE  /\ g \in seen'[t] /\ pc'[t] # "commit" => t <= lastSeen[g]
                        /\ lastSeen[g] = t => g \in seen'[t]
      BY <1>10 DEF LastSeenIsLatest, ScanCrashes
    <3>1. /\ g \in seen[t] /\ pc[t] # "commit" => t <= lastSeen[g]
          /\ lastSeen[g] = t => g \in seen[t]
      BY DEF LastSeenIsLatest
    <3>2. pc[s] \in {"read", "commit"} => lastSeen[g] # s
      <4>1. pc[s] \in {"read", "commit"} => lastSeen[g] < s
        BY Zenon DEF SeenMarks, SeenMark
      <4> QED
        BY <1>t, <4>1
    <3> QED
      BY <1>10, <2>p, <2>q, <3>1, <3>2 DEF ScanCrashes
  <2> QED
    BY <2>2, <2>3, <2>4, <2>5, <2>6, <2>7
<1>11. ASSUME NEW f \in Findings, CloudChanges(f) PROVE IInv'
  <2>d. Done' = Done
    BY <1>11 DEF CloudChanges, Done
  <2>1. TimesOK'
    BY <1>11, <1>T, MaxScansAssumption DEF CloudChanges, TimesOK, Scans
  <2>2. TypeOK'
    BY <1>11, <2>1 DEF CloudChanges, TypeOK
  <2>3. OneAtATime'
    BY <1>11, <1>t, <2>d DEF CloudChanges, OneAtATime, Active
  <2>4. PastScans'
    BY <1>11, <1>t DEF CloudChanges, PastScans
  <2>5. SeenMarks'
    BY <1>11, <1>t DEF CloudChanges, SeenMarks, SeenMark, Active
  <2>6. CutoffState'
    BY <1>11, <1>t, <2>d DEF CloudChanges, CutoffState
  <2>7. LastSeenIsLatest'
    BY <1>11, <1>t DEF CloudChanges, LastSeenIsLatest, SeenMarks
  <2> QED
    BY <2>2, <2>3, <2>4, <2>5, <2>6, <2>7
<1>12. ASSUME NEW f \in Findings, NEW new \in {"acked", "resolved", "ignored"},
             SetFindingStatus(f, new)
      PROVE  IInv'
  <2>d. Done' = Done
    BY <1>12 DEF SetFindingStatus, Done
  <2>1. TimesOK'
    BY <1>12, <1>T, MaxScansAssumption DEF SetFindingStatus, TimesOK, Scans
  <2>2. TypeOK'
    BY <1>12, <2>1 DEF SetFindingStatus, TypeOK
  <2>3. OneAtATime'
    BY <1>12, <1>t, <2>d DEF SetFindingStatus, OneAtATime, Active
  <2>4. PastScans'
    BY <1>12, <1>t DEF SetFindingStatus, PastScans
  <2>5. SeenMarks'
    BY <1>12, <1>t DEF SetFindingStatus, SeenMarks, SeenMark, Active
  <2>6. CutoffState'
    BY <1>12, <1>t, <2>d DEF SetFindingStatus, CutoffState
  <2>7. LastSeenIsLatest'
    BY <1>12, <1>t DEF SetFindingStatus, LastSeenIsLatest, SeenMarks
  <2> QED
    BY <2>2, <2>3, <2>4, <2>5, <2>6, <2>7
<1>13. CASE UNCHANGED vars
  <2>d. Done' = Done
    BY <1>13 DEF vars, Done
  <2>1. TypeOK' /\ OneAtATime' /\ PastScans'
    BY <1>13, <2>d DEF vars, TypeOK, TimesOK, OneAtATime, PastScans, Active
  <2>2. SeenMarks' /\ CutoffState' /\ LastSeenIsLatest'
    BY <1>13, <2>d DEF vars, SeenMarks, SeenMark, CutoffState,
       LastSeenIsLatest, Active
  <2> QED
    BY <2>1, <2>2
<1> QED
  BY <1>1, <1>2, <1>3, <1>4, <1>5, <1>6, <1>7, <1>8, <1>9, <1>10, <1>11,
     <1>12, <1>13
     DEF Next, Scan

\* Without overlapping scans, the strengthened invariant holds of every state.
LEMMA Invariance == ASSUME Serial PROVE Spec => []IInv
<1>1. Init => IInv
  BY InitIInv
<1>2. IInv /\ [Next]_vars => IInv'
  BY StepIInv
<1> QED
  BY <1>1, <1>2, PTL DEF Spec

\* Whatever fails, the tables and the local state of the scans stay well-formed
\* (the enum wastage_status and the values run_scan writes).
THEOREM TypeCorrect == ASSUME Serial PROVE Spec => []TypeOK
<1>1. IInv => TypeOK
  BY DEF IInv
<1> QED
  BY <1>1, Invariance, PTL

\* last_seen_at is the start of the last scan that committed the finding, for any
\* number of scans and findings and whichever of them fail (runner.py:91-96).
THEOREM LastSeenIsSound == ASSUME Serial PROVE Spec => []LastSeenIsLatest
<1>1. IInv => LastSeenIsLatest
  BY DEF IInv
<1> QED
  BY <1>1, Invariance, PTL

\* No step changes the status of a finding that a user has dealt with: the upsert
\* leaves the column alone and the UPDATE asks for status = 'open' (runner.py:100).
THEOREM UserStatusStays == ASSUME Serial PROVE Spec => UserStatusIsKept
<1> DEFINE Kept == \A f \in Findings :
             status[f] \in {"acked", "ignored"} => status'[f] = status[f]
<1>1. IInv /\ [Next]_vars => [Kept]_vars
  <2> SUFFICES ASSUME Next PROVE Kept
    OBVIOUS
  <2> QED
    BY DEF Next, Scan, ScanStarts, TriggerScan, ScanReads, ScanCommits, ScanRaises,
       ScanFindsCutoff, ScanSkipsResolve, ScanResolves, ScanCloses, ScanCrashes,
       CloudChanges, SetFindingStatus, findingVars
<1> QED
  BY <1>1, Invariance, PTL DEF Spec, UserStatusIsKept

-----------------------------------------------------------------------------
\* The completed scans from the cutoff on are Threshold many, and none of them has
\* made a finding that was last seen before the cutoff.
LEMMA CutoffCounts ==
  ASSUME IInv, NEW s \in Scans, pc[s] = "resolve",
         NEW f \in Findings, lastSeen[f] < cutoff[s]
  PROVE  /\ Cardinality(MissedBy(f)) >= Threshold
         /\ f \notin seen[s]
<1> DEFINE After == {d \in Done : d > cutoff[s]}
<1>t. /\ lastSeen[f] \in Nat
      /\ cutoff[s] \in Nat
      /\ \A d \in Scans : d \in Nat
  BY Times DEF IInv, TypeOK
<1>1. cutoff[s] \in Done /\ Cardinality(After) = Threshold - 1
  BY DEF IInv, CutoffState
<1>2. cutoff[s] < s
  BY <1>1 DEF IInv, OneAtATime, Active
<1>3. ASSUME NEW e \in Done, e >= cutoff[s] PROVE f \notin seen[e]
  <2>1. e \in Scans /\ pc[e] = "ended"
    BY DEF IInv, PastScans, Done
  <2>2. f \in seen[e] => e <= lastSeen[f]
    BY <2>1 DEF IInv, LastSeenIsLatest
  <2> QED
    BY <1>3, <1>t, <2>1, <2>2
<1>4. After \cup {cutoff[s]} \subseteq MissedBy(f)
  <2>1. ASSUME NEW d \in After \cup {cutoff[s]} PROVE d \in MissedBy(f)
    <3>1. d \in Done /\ d >= cutoff[s] /\ d \in Nat
      BY <1>1, <1>t DEF Done
    <3>2. ASSUME NEW e \in Done, e >= d PROVE f \notin seen[e]
      <4>1. e \in Nat
        BY <1>t DEF Done
      <4>2. e >= cutoff[s]
        BY <4>1, <3>1, <3>2, <1>t
      <4> QED
        BY <4>2, <1>3
    <3> QED
      BY <3>1, <3>2 DEF MissedBy
  <2> QED
    BY <2>1
<1>5. IsFiniteSet(Done) /\ IsFiniteSet(MissedBy(f)) /\ IsFiniteSet(After)
  <2>1. IsFiniteSet(Scans)
    BY FS_Interval, MaxScansAssumption DEF Scans
  <2> QED
    BY <2>1, FS_Subset DEF Done, MissedBy
<1>6. cutoff[s] \notin After
  BY <1>t
<1>7. Cardinality(After \cup {cutoff[s]}) = Threshold
  <2>1. Cardinality(After \cup {cutoff[s]}) = Cardinality(After) + 1
    BY <1>5, <1>6, FS_AddElement
  <2> QED
    BY <2>1, <1>1, ThresholdAssumption
<1>8. Cardinality(MissedBy(f)) >= Threshold
  <2>1. Cardinality(After \cup {cutoff[s]}) <= Cardinality(MissedBy(f))
    BY <1>4, <1>5, FS_Subset
  <2>2. Cardinality(MissedBy(f)) \in Nat
    BY <1>5, FS_CardinalityType
  <2> QED
    BY <2>1, <2>2, <1>7, ThresholdAssumption
<1>9. f \notin seen[s]
  <2>1. f \in seen[s] => s <= lastSeen[f]
    BY DEF IInv, LastSeenIsLatest
  <2> QED
    BY <2>1, <1>2, <1>t
<1> QED
  BY <1>8, <1>9

\* Among scans that do not overlap, auto-resolve is safe for every threshold and
\* every pattern of failures: a scan resolves a finding only if it has not made it
\* and neither have the last Threshold completed scans (runner.py:281-322).
THEOREM AutoResolveIsSafe == ASSUME Serial PROVE Spec => ResolvedAfterMisses
<1> DEFINE Missed(f) == /\ Cardinality(MissedBy(f)) >= Threshold
                        /\ \E s \in Scans : pc[s] = "resolve" /\ f \notin seen[s]
           Safe == \A f \in Findings :
                     status[f] = "open" /\ status'[f] = "resolved" => Missed(f)
<1>1. IInv /\ [Next]_vars => [Safe]_vars
  <2> SUFFICES ASSUME IInv, Next,
                      NEW f \in Findings, status[f] = "open", status'[f] = "resolved"
               PROVE  Missed(f)
    OBVIOUS
  <2>1. PICK s \in Scans : ScanResolves(s)
    BY DEF Next, Scan, ScanStarts, TriggerScan, ScanReads, ScanCommits, ScanRaises,
       ScanFindsCutoff, ScanSkipsResolve, ScanCloses, ScanCrashes, CloudChanges,
       SetFindingStatus, findingVars
  <2>2. pc[s] = "resolve" /\ lastSeen[f] < cutoff[s]
    BY <2>1 DEF ScanResolves
  <2> QED
    BY <2>2, CutoffCounts
<1> QED
  BY <1>1, Invariance, PTL DEF Spec, ResolvedAfterMisses

-----------------------------------------------------------------------------
(* Auto-resolve is live enough: what stays open has been made lately, as    *)
(* long as scans run to their end.  A query or a rule may fail all the same. *)

Completing == Faults \subseteq {"partial"}

\* A scan that has ended is completed.
Endings == \A s \in Scans : pc[s] # "close error" /\ (pc[s] = "ended" => run[s] = "done")

\* The completed scans since the finding was last made.
Since(f) == {d \in Done : d > lastSeen[f]}

\* An open finding has been made lately, and a scan that is past the UPDATE has left
\* room for itself.
Recent ==
  \A f \in Findings : status[f] = "open" =>
    /\ Cardinality(Since(f)) <= Threshold
    /\ \A s \in Scans : pc[s] = "close" => Cardinality(Since(f)) < Threshold

\* Sets of completed scans are finite.
LEMMA SinceIsFinite ==
  /\ IsFiniteSet(Done) /\ Cardinality(Done) \in Nat
  /\ \A f : IsFiniteSet(Since(f)) /\ Cardinality(Since(f)) \in Nat
<1>1. IsFiniteSet(Scans)
  BY FS_Interval, MaxScansAssumption DEF Scans
<1>2. IsFiniteSet(Done) /\ \A f : IsFiniteSet(Since(f))
  BY <1>1, FS_Subset DEF Done, Since
<1> QED
  BY <1>2, FS_CardinalityType

\* A step that leaves the findings and the completed scans alone.
LEMMA RecentStays ==
  ASSUME Recent, UNCHANGED findingVars, Done' = Done,
         \A s \in Scans : pc'[s] = "close" => pc[s] = "close"
  PROVE  Recent'
BY DEF Recent, Since, findingVars

\* If there is no run at the offset, there are not so many.
LEMMA NoCutoffMeansFew ==
  ASSUME AtOffset(Threshold - 1) = {}
  PROVE  Cardinality(Done) < Threshold
<1>1. Done \in SUBSET (0..MaxScans) /\ MaxScans \in Nat
  BY MaxScansAssumption DEF Done, Scans
<1>2. Threshold - 1 \in Nat /\ Threshold \in Nat
  BY ThresholdAssumption
<1>3. ASSUME Threshold - 1 < Cardinality(Done) PROVE FALSE
  <2>1. \E c \in Done : Cardinality({d \in Done : d > c}) = Threshold - 1
    BY <1>1, <1>2, <1>3, RankExists
  <2> QED
    BY <2>1 DEF AtOffset
<1> QED
  BY <1>2, <1>3, SinceIsFinite

\* Every step of scans that complete keeps open findings recent.
LEMMA StepRecent ==
  ASSUME Completing, IInv, Endings, Recent, [Next]_vars
  PROVE  Endings' /\ Recent'
<1> USE DEF Goto, findingVars, envVars
<1>0. TypeOK /\ Threshold \in Nat /\ Threshold > 0
  BY ThresholdAssumption DEF IInv
<1>t. \A s \in Scans : s \in Nat /\ cutoff[s] \in Nat
  BY Times DEF IInv, TypeOK
<1>1. ASSUME NEW s \in Scans, ScanStarts(s) \/ TriggerScan(s) PROVE Endings' /\ Recent'
  <2>1. pc[s] = "absent" /\ run[s] # "done"
    <3>1. s = clock + 1 /\ clock \in Nat
      BY <1>1, Times DEF ScanStarts, TriggerScan, IInv, TypeOK
    <3> QED
      BY <3>1 DEF IInv, PastScans
  <2>2. /\ \A t \in Scans : pc'[t] = IF t = s THEN pc'[s] ELSE pc[t]
        /\ pc'[s] \in {"read", "queued"}
        /\ \A t \in Scans : run'[t] = IF t = s THEN run'[s] ELSE run[t]
        /\ run'[s] # "done"
    BY <1>1, <2>1, <1>0 DEF ScanStarts, TriggerScan, TypeOK
  <2>3. Done' = Done
    BY <2>1, <2>2 DEF Done
  <2>4. Endings'
    BY <2>2 DEF Endings
  <2>5. UNCHANGED findingVars
    BY <1>1 DEF ScanStarts, TriggerScan
  <2> QED
    BY <2>2, <2>3, <2>4, <2>5, RecentStays
<1>2. ASSUME NEW s \in Scans, ScanReads(s) \/ ScanFindsCutoff(s) PROVE Endings' /\ Recent'
  <2>1. /\ \A t \in Scans : pc'[t] = IF t = s THEN pc'[s] ELSE pc[t]
        /\ pc'[s] \in {"commit", "resolve"} /\ UNCHANGED run /\ UNCHANGED findingVars
    BY <1>2, <1>0 DEF ScanReads, ScanFindsCutoff, TypeOK
  <2>2. Done' = Done
    BY <2>1 DEF Done
  <2>3. Endings'
    BY <2>1 DEF Endings
  <2> QED
    BY <2>1, <2>2, <2>3, RecentStays
<1>3. ASSUME NEW s \in Scans, ScanCommits(s) PROVE Endings' /\ Recent'
  <2>1. /\ \A t \in Scans : pc'[t] = IF t = s THEN "cutoff" ELSE pc[t]
        /\ UNCHANGED run /\ pc[s] = "commit"
    BY <1>3, <1>0 DEF ScanCommits, TypeOK
  <2>2. Done' = Done
    BY <2>1 DEF Done
  <2>3. Endings'
    BY <2>1 DEF Endings
  <2>4. \A d \in Done : d < s /\ d \in Nat
    BY <2>1, <1>t DEF IInv, OneAtATime, Active, Done
  <2>5. ASSUME NEW f \in Findings, status'[f] = "open"
        PROVE  /\ Cardinality(Since(f)') <= Threshold
               /\ \A t \in Scans : pc'[t] = "close" => Cardinality(Since(f)') < Threshold
    <3>1. CASE f \in seen[s]
      <4>1. lastSeen'[f] = s
        BY <1>3, <3>1 DEF ScanCommits
      <4>2. Since(f)' = {}
        BY <2>2, <2>4, <4>1, <1>t DEF Since
      <4> QED
        BY <4>2, <1>0, FS_EmptySet
    <3>2. CASE f \notin seen[s]
      <4>1. status[f] = "open" /\ Since(f)' = Since(f)
        BY <1>3, <2>2, <2>5, <3>2 DEF ScanCommits, Since
      <4> QED
        BY <4>1, <2>1 DEF Recent
    <3> QED
      BY <3>1, <3>2
  <2> QED
    BY <2>3, <2>5 DEF Recent
<1>4. ASSUME NEW s \in Scans, ScanSkipsResolve(s) PROVE Endings' /\ Recent'
  <2>1. /\ \A t \in Scans : pc'[t] = IF t = s THEN "close" ELSE pc[t]
        /\ UNCHANGED run /\ UNCHANGED findingVars /\ AtOffset(Threshold - 1) = {}
    BY <1>4, <1>0 DEF ScanSkipsResolve, TypeOK, Completing
  <2>2. Done' = Done
    BY <2>1 DEF Done
  <2>3. Endings'
    BY <2>1 DEF Endings
  <2>4. ASSUME NEW f \in Findings PROVE Cardinality(Since(f)') < Threshold
    <3>1. Since(f)' = Since(f) /\ Since(f) \subseteq Done
      BY <2>1, <2>2 DEF Since
    <3>2. Cardinality(Since(f)) <= Cardinality(Done)
      BY <3>1, SinceIsFinite, FS_Subset
    <3>3. Cardinality(Done) < Threshold
      BY <2>1, NoCutoffMeansFew
    <3> QED
      BY <3>1, <3>2, <3>3, <1>0, SinceIsFinite
  <2>5. ASSUME NEW f \in Findings PROVE Cardinality(Since(f)') <= Threshold
    <3>1. Cardinality(Since(f)') \in Nat /\ Cardinality(Since(f)') < Threshold
      <4>1. Since(f)' = Since(f)
        BY <2>1, <2>2 DEF Since
      <4> QED
        BY <4>1, <2>4, SinceIsFinite
    <3> QED
      BY <3>1, <1>0
  <2> QED
    BY <2>3, <2>4, <2>5 DEF Recent
<1>5. ASSUME NEW s \in Scans, ScanResolves(s) PROVE Endings' /\ Recent'
  <2>1. /\ \A t \in Scans : pc'[t] = IF t = s THEN "close" ELSE pc[t]
        /\ UNCHANGED <<run, lastSeen>> /\ pc[s] = "resolve"
    BY <1>5, <1>0 DEF ScanResolves, TypeOK
  <2>2. Done' = Done
    BY <2>1 DEF Done
  <2>3. Endings'
    BY <2>1 DEF Endings
  <2>4. Cardinality({d \in Done : d > cutoff[s]}) = Threshold - 1
    BY <2>1 DEF IInv, CutoffState
  <2>5. ASSUME NEW f \in Findings, status'[f] = "open"
        PROVE  Cardinality(Since(f)') < Threshold /\ Cardinality(Since(f)') <= Threshold
    <3>1. ~(lastSeen[f] < cutoff[s]) /\ lastSeen[f] \in Nat
      BY <1>5, <2>5, Times DEF ScanResolves, IInv, TypeOK
    <3>2. Since(f)' = Since(f)
      BY <2>1, <2>2 DEF Since
    <3>3. Since(f) \subseteq {d \in Done : d > cutoff[s]}
      <4>1. \A d \in Done : d > lastSeen[f] => d > cutoff[s]
        BY <3>1, <1>t DEF Done
      <4> QED
        BY <4>1 DEF Since
    <3>4. IsFiniteSet({d \in Done : d > cutoff[s]})
      BY SinceIsFinite, FS_Subset
    <3>5. Cardinality(Since(f)) <= Threshold - 1
      BY <2>4, <3>3, <3>4, FS_Subset
    <3> QED
      BY <3>2, <3>5, <1>0, SinceIsFinite
  <2> QED
    BY <2>3, <2>5 DEF Recent
<1>6. ASSUME NEW s \in Scans, ScanCloses(s) PROVE Endings' /\ Recent'
  <2>1. pc[s] = "close"
    BY <1>6 DEF ScanCloses, Endings
  <2>2. /\ \A t \in Scans : pc'[t] = IF t = s THEN "ended" ELSE pc[t]
        /\ \A t \in Scans : run'[t] = IF t = s THEN "done" ELSE run[t]
        /\ UNCHANGED findingVars
    BY <1>6, <2>1, <1>0 DEF ScanCloses, TypeOK, Completing
  <2>3. Endings'
    BY <2>2 DEF Endings
  <2>4. \A t \in Scans : pc'[t] # "close"
    BY <2>1, <2>2 DEF IInv, OneAtATime, Active
  <2>5. Done' = Done \cup {s}
    BY <2>2 DEF Done
  <2>6. ASSUME NEW f \in Findings, status'[f] = "open"
        PROVE  Cardinality(Since(f)') <= Threshold
    <3>1. Cardinality(Since(f)) < Threshold
      BY <2>1, <2>2, <2>6 DEF Recent
    <3>2. Since(f)' \subseteq Since(f) \cup {s}
      BY <2>2, <2>5 DEF Since
    <3>3. /\ IsFiniteSet(Since(f) \cup {s})
          /\ Cardinality(Since(f) \cup {s}) <= Cardinality(Since(f)) + 1
      <4>1. Cardinality(Since(f)) \in Nat
        BY SinceIsFinite
      <4>2. /\ IsFiniteSet(Since(f) \cup {s})
            /\ Cardinality(Since(f) \cup {s})
                 = IF s \in Since(f) THEN Cardinality(Since(f)) ELSE Cardinality(Since(f)) + 1
        BY SinceIsFinite, FS_AddElement
      <4> QED
        BY <4>1, <4>2
    <3>4. Cardinality(Since(f)') <= Cardinality(Since(f) \cup {s})
      BY <3>2, <3>3, FS_Subset
    <3>5. Cardinality(Since(f)') \in Nat /\ Cardinality(Since(f) \cup {s}) \in Nat
      BY <3>2, <3>3, FS_Subset, FS_CardinalityType
    <3> QED
      BY <3>1, <3>3, <3>4, <3>5, <1>0, SinceIsFinite
  <2> QED
    BY <2>3, <2>4, <2>6 DEF Recent
<1>7. ASSUME NEW s \in Scans PROVE ~ScanRaises(s) /\ ~ScanCrashes(s)
  BY DEF ScanRaises, ScanCrashes, Completing
<1>8. CASE \/ UNCHANGED vars \/ \E f \in Findings : CloudChanges(f)
           \/ \E f \in Findings, new \in {"acked", "resolved", "ignored"} :
                SetFindingStatus(f, new)
  <2>1. UNCHANGED <<run, pc>> /\ UNCHANGED findingVars
    BY <1>8 DEF vars, CloudChanges, SetFindingStatus
  <2>2. Endings' /\ Done' = Done
    BY <2>1 DEF Endings, Done
  <2> QED
    BY <2>1, <2>2, RecentStays
<1> QED
  BY <1>1, <1>2, <1>3, <1>4, <1>5, <1>6, <1>7, <1>8 DEF Next, Scan

\* Once no scan is at work, the scans that have missed an open finding came after it
\* was last made.
LEMMA RecentMeansFewMisses == IInv /\ Endings /\ Recent => OpenIsRecent
<1> SUFFICES ASSUME IInv, Endings, Recent, NEW f \in Findings, status[f] = "open",
                    \A s \in Scans : ~Active(s)
             PROVE  Cardinality(MissedBy(f)) <= Threshold
  BY DEF OpenIsRecent
<1>t. /\ lastSeen[f] \in Nat /\ \A s \in Scans : s \in Nat
      /\ lastSeen[f] <= MaxScans /\ MaxScans \in Nat
  <2>1. TimesOK
    BY DEF IInv, TypeOK
  <2> QED
    BY <2>1, Times, MaxScansAssumption DEF TimesOK
<1>1. ASSUME NEW d \in MissedBy(f) PROVE d \in Since(f)
  <2>1. d \in Done /\ d \in Scans /\ \A e \in Done : e >= d => f \notin seen[e]
    BY DEF MissedBy, Done
  <2>2. ASSUME ~(d > lastSeen[f]) PROVE FALSE
    <3>1. lastSeen[f] \in Scans /\ lastSeen[f] >= d
      BY <2>1, <2>2, <1>t DEF Scans
    <3>2. PICK l \in Scans : l = lastSeen[f]
      BY <3>1
    <3>3. f \in seen[l]
      BY <3>2 DEF IInv, LastSeenIsLatest
    <3>4. pc[l] = "ended"
      <4>1. pc[l] \in {"absent", "queued", "ended"} /\ SeenMark(l)
        BY DEF Active, IInv, SeenMarks
      <4> QED
        BY <4>1, <3>3 DEF SeenMark
    <3>5. l \in Done
      BY <3>4 DEF Endings, Done
    <3> QED
      BY <3>1, <3>2, <3>3, <3>5, <2>1
  <2> QED
    BY <2>1, <2>2 DEF Since
<1>2. Cardinality(MissedBy(f)) <= Cardinality(Since(f))
  BY <1>1, SinceIsFinite, FS_Subset
<1>3. Cardinality(Since(f)) <= Threshold
  BY DEF Recent
<1>4. Cardinality(MissedBy(f)) \in Nat
  <2>1. IsFiniteSet(MissedBy(f))
    BY <1>1, SinceIsFinite, FS_Subset
  <2> QED
    BY <2>1, FS_CardinalityType
<1> QED
  BY <1>2, <1>3, <1>4, SinceIsFinite, ThresholdAssumption

\* If scans do not overlap and each runs to its end, every open finding has been made by
\* one of the last Threshold + 1 completed scans, for every threshold and number of
\* scans, even where a query or a rule fails now and then (runner.py:281-322).
THEOREM AutoResolveIsPrompt == ASSUME Serial, Completing PROVE Spec => []OpenIsRecent
<1>1. Init => Endings /\ Recent
  <2> SUFFICES ASSUME Init PROVE Endings /\ Recent
    OBVIOUS
  <2>1. Endings /\ Done = {} /\ \A s \in Scans : pc[s] # "close"
    BY DEF Init, Endings, Done
  <2>2. \A f \in Findings : Since(f) = {}
    BY <2>1 DEF Since
  <2> QED
    BY <2>1, <2>2, FS_EmptySet, ThresholdAssumption DEF Recent
<1>2. IInv /\ Endings /\ Recent /\ [Next]_vars => Endings' /\ Recent'
  BY StepRecent
<1> QED
  BY <1>1, <1>2, Invariance, RecentMeansFewMisses, PTL DEF Spec
=============================================================================
