---------------------------- MODULE ScanProofs -----------------------------
(***************************************************************************)
(* Proofs about Scan for every finite set of jobs, any number of hosts and *)
(* risk types, and every choice of filters, limits and sizes.              *)
(*                                                                         *)
(* The inductive invariant is TypeOK /\ WorkerInv /\ LatestInv /\          *)
(* LifeInv /\ AccountInv.  WorkerInv follows a worker through its          *)
(* statements: which rows are there when it has come this far.  LatestInv  *)
(* says whose they are.  LifeInv relates the control point of a job to its *)
(* status and to the wait group, which is what the shutdown looks at.      *)
(* AccountInv counts the hosts a run has dealt with, and those its query   *)
(* selects: FirstGrows says why imports never make them fewer.             *)
(***************************************************************************)
EXTENDS Scan, FiniteSetTheorems, TLAPS

\* A verdict row exists for the risk type r of host h.
Judged(h, r) == verdict[h][r] # NoJob

\* What a worker that has come this far, or a stored result, relies on.
WorkerInv ==
    \A j \in Jobs, h \in Hosts :
        /\ place[j][h] \in {"todo", "snapshot"} => risk[j][h] = 1
        /\ place[j][h] \in {"find", "insert", "update", "result"} => h \in snapshot[j]
        /\ place[j][h] \in {"find", "insert", "update"} =>
              risk[j][h] \in Risks /\ \A r \in 1..(risk[j][h] - 1) : Judged(h, r)
        /\ place[j][h] = "update" => Judged(h, risk[j][h])
        /\ place[j][h] = "result" => \A r \in Risks : Judged(h, r)
        /\ h \in result[j] => h \in snapshot[j] /\ \A r \in Risks : Judged(h, r)

\* What the control point of a job says of its row and of the wait group.
LifeInv ==
    /\ \A j \in Jobs :
        /\ pc[j] = "none" => status[j] = "none" /\ stop[j] # "write"
        /\ pc[j] = "over" => status[j] \notin Open
        /\ j \in wg <=> pc[j] \in {"queued"} \cup Slotted
    /\ server = "drained" => wg = {} /\ \A j \in Jobs : pc[j] # "created"

\* A host scanned by one job at a time shows, verdict by verdict, how far the
\* last of them has come.
LatestAt(h) ==
    /\ \A k \in Jobs : h \in result[k] => place[k][h] \in {"count", "done"}
    /\ h \notin overlapped =>
         /\ \A k \in Jobs : place[k][h] \in Active => lastScan[h] = k
         /\ \A j \in Jobs : lastScan[h] = j =>
              /\ place[j][h] \in {"find", "insert", "update"} =>
                    \A r \in 1..(risk[j][h] - 1) : verdict[h][r] = j
              /\ place[j][h] = "insert" => verdict[h][risk[j][h]] = NoJob
              /\ place[j][h] = "result" \/ h \in result[j] => \A r \in Risks : verdict[h][r] = j

LatestInv == \A h \in Hosts : LatestAt(h)

\* What a run has counted, and what it will count at least.
Done(j) == {h \in Hosts : place[j][h] = "done"}
DoneSuspicious(j) == {h \in Done(j) : found[j][h] # {}}

AccountAt(j) ==
    /\ tally[j].processed = Cardinality(Done(j))
    /\ tally[j].suspicious = Cardinality(DoneSuspicious(j))
    /\ \A h \in Hosts \ chosen[j] : place[j][h] = "todo"
    /\ pc[j] \notin {"spawn", "over"} => chosen[j] = {}
    /\ pc[j] \in {"created", "queued", "hosts"} => total[j] =< Cardinality(HostSet(j))
    /\ pc[j] \in {"spawn", "over"} => total[j] =< Cardinality(chosen[j])
    /\ pc[j] = "over" => shown[j] = tally[j] /\ chosen[j] \subseteq Done(j)

AccountInv == \A j \in Jobs : AccountAt(j)

IInv == TypeOK /\ WorkerInv /\ LatestInv /\ LifeInv /\ AccountInv

-----------------------------------------------------------------------------
LEMMA HostSets ==
    ASSUME NEW j \in Jobs
    PROVE  HostSet(j) \in SUBSET Hosts /\ Cardinality(HostSet(j)) \in Nat
<1>1. HostSet(j) \in SUBSET Hosts
  BY ScanAssumption DEF HostSet
<1>2. IsFiniteSet(Hosts)
  BY ScanAssumption, FS_Interval DEF Hosts
<1>3. QED
  BY <1>1, <1>2, FS_Subset, FS_CardinalityType

LEMMA InitInv == Init => IInv
<1> SUFFICES ASSUME Init PROVE IInv
  OBVIOUS
<1>1. TypeOK
  BY ScanAssumption DEF Init, TypeOK, Counts, Zero, Hosts, Risks
<1>2. WorkerInv
  BY DEF Init, WorkerInv
<1>3. LifeInv
  BY DEF Init, LifeInv, Slotted
<1>4. LatestInv
  BY ScanAssumption DEF Init, LatestInv, LatestAt, Active, Writing
<1>5. AccountInv
  <2> SUFFICES ASSUME NEW j \in Jobs PROVE AccountAt(j)
    BY DEF AccountInv
  <2>1. Done(j) = {} /\ DoneSuspicious(j) = {}
    BY DEF Init, Done, DoneSuspicious
  <2>2. QED
    BY <2>1, FS_EmptySet DEF Init, AccountAt, Zero
<1>6. QED
  BY <1>1, <1>2, <1>3, <1>4, <1>5 DEF IInv

-----------------------------------------------------------------------------
(* Types.                                                                  *)

LEMMA TypeJob ==
    ASSUME TypeOK, NEW j \in Jobs,
           CreateJob(j) \/ Start(j) \/ Launch(j) \/ LoadHosts(j) \/ Finish(j)
    PROVE  TypeOK'
<1>1. CASE CreateJob(j)
  BY <1>1, HostSets DEF TypeOK, CreateJob, Goto, Open, Slotted, envVars, hostVars
<1>2. CASE Start(j)
  BY <1>2 DEF TypeOK, Start, Goto, Open, Slotted, envVars, hostVars
<1>3. CASE Launch(j)
  BY <1>3 DEF TypeOK, Launch, Goto, Slotted, envVars, hostVars
<1>4. CASE LoadHosts(j)
  BY <1>4, HostSets DEF TypeOK, LoadHosts, Goto, Slotted, envVars, hostVars
<1>5. CASE Finish(j)
  BY <1>5 DEF TypeOK, Finish, Goto, Open, Slotted, envVars, hostVars
<1>6. QED
  BY <1>1, <1>2, <1>3, <1>4, <1>5

LEMMA TypeEnvironment ==
    ASSUME TypeOK,
           \/ \E j \in Jobs : StopRead(j) \/ StopWrite(j)
           \/ \E h \in Hosts : ImportHost(h)
           \/ OtherEnds \/ Shutdown
    PROVE  TypeOK'
<1>1. ASSUME NEW j \in Jobs, StopRead(j) PROVE TypeOK'
  BY <1>1 DEF TypeOK, StopRead, envVars, jobVars, hostVars
<1>2. ASSUME NEW j \in Jobs, StopWrite(j) PROVE TypeOK'
  BY <1>2 DEF TypeOK, StopWrite, Open, envVars, hostVars
<1>3. ASSUME NEW h \in Hosts, ImportHost(h) PROVE TypeOK'
  BY <1>3 DEF TypeOK, ImportHost, jobVars, hostVars
<1>4. CASE OtherEnds
  BY <1>4, ScanAssumption DEF TypeOK, OtherEnds, jobVars, hostVars
<1>5. CASE Shutdown
  BY <1>5 DEF TypeOK, Shutdown, jobVars, hostVars
<1>6. QED
  BY <1>1, <1>2, <1>3, <1>4, <1>5

LEMMA TypeWorker ==
    ASSUME TypeOK, WorkerInv, NEW j \in Jobs, NEW h \in Hosts, Spawn(j, h) \/ Work(j, h)
    PROVE  TypeOK'
<1>1. CASE Spawn(j, h)
  <2>1. PICK f \in Findings[j] : found' = [found EXCEPT ![j][h] = f]
    BY <1>1 DEF Spawn
  <2>2. f \in SUBSET Risks
    BY ScanAssumption
  <2>3. found' \in [Jobs -> [Hosts -> SUBSET Risks]]
    BY <2>1, <2>2 DEF TypeOK
  <2>4. place' \in [Jobs -> [Hosts -> {"todo", "done"} \cup Active]]
    BY <1>1 DEF TypeOK, Spawn, Active, Writing
  <2>5. lastScan' \in [Hosts -> Jobs \cup {NoJob}] /\ overlapped' \subseteq Hosts
    BY <1>1 DEF TypeOK, Spawn
  <2>6. QED
    BY <1>1, <2>3, <2>4, <2>5 DEF TypeOK, Spawn, envVars, jobVars
<1>2. CASE StoreSnapshot(j, h)
  BY <1>2 DEF TypeOK, StoreSnapshot, Move, Active, Writing, envVars, jobVars
<1>3. CASE FindVerdict(j, h)
  BY <1>3 DEF TypeOK, FindVerdict, Move, Active, Writing, envVars, jobVars
<1>4. CASE InsertVerdict(j, h)
  <2>1. risk[j][h] \in Risks
    BY <1>4 DEF WorkerInv, InsertVerdict, Move
  <2>2. risk' \in [Jobs -> [Hosts -> 1..(NumRisks + 1)]]
    BY <1>4, <2>1, ScanAssumption DEF TypeOK, InsertVerdict, NextRisk, Risks
  <2>3. verdict' \in [Hosts -> [Risks -> Jobs \cup {NoJob}]]
    BY <1>4 DEF TypeOK, InsertVerdict
  <2>4. place' \in [Jobs -> [Hosts -> {"todo", "done"} \cup Active]]
    BY <1>4 DEF TypeOK, InsertVerdict, Move, AfterRisk, Active, Writing
  <2>5. QED
    BY <1>4, <2>2, <2>3, <2>4 DEF TypeOK, InsertVerdict, envVars, jobVars
<1>5. CASE UpdateVerdict(j, h)
  <2>1. risk[j][h] \in Risks
    BY <1>5 DEF WorkerInv, UpdateVerdict, Move
  <2>2. risk' \in [Jobs -> [Hosts -> 1..(NumRisks + 1)]]
    BY <1>5, <2>1, ScanAssumption DEF TypeOK, UpdateVerdict, NextRisk, Risks
  <2>3. verdict' \in [Hosts -> [Risks -> Jobs \cup {NoJob}]]
    BY <1>5 DEF TypeOK, UpdateVerdict
  <2>4. place' \in [Jobs -> [Hosts -> {"todo", "done"} \cup Active]]
    BY <1>5 DEF TypeOK, UpdateVerdict, Move, AfterRisk, Active, Writing
  <2>5. QED
    BY <1>5, <2>2, <2>3, <2>4 DEF TypeOK, UpdateVerdict, envVars, jobVars
<1>6. CASE StoreResult(j, h)
  BY <1>6 DEF TypeOK, StoreResult, Move, Active, Writing, envVars, jobVars
<1>7. CASE HostTimeout(j, h)
  BY <1>7 DEF TypeOK, HostTimeout, Move, Active, Writing, envVars, jobVars
<1>8. CASE Count(j, h)
  <2>1. Added(j, h) \in Counts
    BY DEF TypeOK, Counts, Added
  <2>2. tally' \in [Jobs -> Counts] /\ shown' \in [Jobs -> Counts]
    BY <1>8, <2>1 DEF TypeOK, Count
  <2>3. place' \in [Jobs -> [Hosts -> {"todo", "done"} \cup Active]]
    BY <1>8 DEF TypeOK, Count, Move
  <2>4. QED
    BY <1>8, <2>2, <2>3 DEF TypeOK, Count, envVars
<1>9. QED
  BY <1>1, <1>2, <1>3, <1>4, <1>5, <1>6, <1>7, <1>8 DEF Work

-----------------------------------------------------------------------------
(* Workers.                                                                *)

\* Verdict rows are never deleted.
LEMMA VerdictsStay ==
    ASSUME TypeOK, NEW j \in Jobs, NEW h \in Hosts, Work(j, h),
           NEW g \in Hosts, NEW r \in Risks, Judged(g, r)
    PROVE  Judged(g, r)'
<1>1. j # NoJob
  BY ScanAssumption
<1>2. CASE InsertVerdict(j, h)
  BY <1>1, <1>2 DEF InsertVerdict, Judged, TypeOK
<1>3. CASE UpdateVerdict(j, h)
  BY <1>1, <1>3 DEF UpdateVerdict, Judged, TypeOK
<1>4. CASE verdict' = verdict
  BY <1>4 DEF Judged
<1>5. QED
  BY <1>2, <1>3, <1>4 DEF Work, StoreSnapshot, FindVerdict, StoreResult, HostTimeout, Count

\* The part of WorkerInv about host h of job j.
WorkerAt(j, h) ==
    /\ place[j][h] \in {"todo", "snapshot"} => risk[j][h] = 1
    /\ place[j][h] \in {"find", "insert", "update", "result"} => h \in snapshot[j]
    /\ place[j][h] \in {"find", "insert", "update"} =>
          risk[j][h] \in Risks /\ \A r \in 1..(risk[j][h] - 1) : Judged(h, r)
    /\ place[j][h] = "update" => Judged(h, risk[j][h])
    /\ place[j][h] = "result" => \A r \in Risks : Judged(h, r)
    /\ h \in result[j] => h \in snapshot[j] /\ \A r \in Risks : Judged(h, r)

LEMMA WorkerParts == WorkerInv <=> \A j \in Jobs, h \in Hosts : WorkerAt(j, h)
BY DEF WorkerInv, WorkerAt

\* What a worker has relied on is not taken away by another one.
LEMMA OthersKeep ==
    ASSUME TypeOK, WorkerInv, NEW j \in Jobs, NEW h \in Hosts, Work(j, h),
           NEW k \in Jobs, NEW g \in Hosts, <<k, g>> # <<j, h>>
    PROVE  WorkerAt(k, g)'
<1>1. WorkerAt(k, g)
  BY WorkerParts
<1>2. place'[k][g] = place[k][g] /\ risk'[k][g] = risk[k][g]
  BY DEF Work, StoreSnapshot, FindVerdict, InsertVerdict, UpdateVerdict, StoreResult,
         HostTimeout, Count, Move, NextRisk, TypeOK
<1>3. g \in snapshot[k] => g \in snapshot'[k]
  BY DEF Work, StoreSnapshot, FindVerdict, InsertVerdict, UpdateVerdict, StoreResult,
         HostTimeout, Count, TypeOK
<1>4. g \in result'[k] => g \in result[k]
  BY DEF Work, StoreSnapshot, FindVerdict, InsertVerdict, UpdateVerdict, StoreResult,
         HostTimeout, Count, TypeOK
<1>5. \A r \in Risks : Judged(g, r) => Judged(g, r)'
  BY VerdictsStay
<1>6. risk[k][g] \in Risks => 1..(risk[k][g] - 1) \subseteq Risks
  BY ScanAssumption DEF Risks
<1>7. QED
  BY <1>1, <1>2, <1>3, <1>4, <1>5, <1>6 DEF WorkerAt

\* A worker that has dealt with the verdict of its risk type goes on.
LEMMA OneMoreVerdict ==
    ASSUME TypeOK, WorkerInv, NEW j \in Jobs, NEW h \in Hosts,
           place[j][h] \in {"insert", "update"},
           InsertVerdict(j, h) \/ UpdateVerdict(j, h)
    PROVE  WorkerAt(j, h)'
<1>1. WorkerAt(j, h) /\ Work(j, h)
  BY WorkerParts DEF Work
<1>2. risk[j][h] \in Risks /\ h \in snapshot[j]
  BY <1>1 DEF WorkerAt
<1>3. \A r \in Risks : r = risk[j][h] => Judged(h, r)'
  BY <1>2, ScanAssumption DEF InsertVerdict, UpdateVerdict, Judged, TypeOK
<1>4. \A r \in Risks : Judged(h, r) => Judged(h, r)'
  BY <1>1, VerdictsStay
<1>5. \A r \in 1..risk[j][h] : Judged(h, r)'
  <2>1. \A r \in 1..(risk[j][h] - 1) : Judged(h, r)
    BY <1>1 DEF WorkerAt
  <2>2. \A r \in 1..risk[j][h] : r \in Risks /\ (r = risk[j][h] \/ r \in 1..(risk[j][h] - 1))
    BY <1>2, ScanAssumption DEF Risks
  <2>3. QED
    BY <2>1, <2>2, <1>3, <1>4
<1>6. risk'[j][h] = risk[j][h] + 1 /\ place'[j][h] = AfterRisk(j, h)
  BY DEF InsertVerdict, UpdateVerdict, NextRisk, Move, TypeOK
<1>7. snapshot' = snapshot /\ result' = result
  BY DEF InsertVerdict, UpdateVerdict
<1>8. CASE risk[j][h] = NumRisks
  <2>1. place'[j][h] = "result"
    BY <1>6, <1>8 DEF AfterRisk
  <2>2. QED
    BY <2>1, <1>2, <1>5, <1>7, <1>8, ScanAssumption DEF WorkerAt, Risks
<1>9. CASE risk[j][h] # NumRisks
  <2>1. place'[j][h] = "find"
    BY <1>6, <1>9 DEF AfterRisk
  <2>2. risk'[j][h] \in Risks /\ risk'[j][h] - 1 = risk[j][h]
    BY <1>2, <1>6, <1>9, ScanAssumption DEF Risks
  <2>3. h \in result[j] => \A r \in Risks : Judged(h, r)'
    BY <1>1, <1>4 DEF WorkerAt
  <2>4. QED
    BY <2>1, <2>2, <2>3, <1>2, <1>5, <1>7 DEF WorkerAt
<1>10. QED
  BY <1>8, <1>9

LEMMA WorkerMoves ==
    ASSUME TypeOK, WorkerInv, NEW j \in Jobs, NEW h \in Hosts, Work(j, h)
    PROVE  WorkerAt(j, h)'
<1>1. WorkerAt(j, h)
  BY WorkerParts
<1>2. CASE StoreSnapshot(j, h)
  <2>1. place[j][h] = "snapshot" /\ place'[j][h] = "find" /\ h \in snapshot'[j]
    BY <1>2 DEF StoreSnapshot, Move, TypeOK
  <2>2. risk' = risk /\ result' = result /\ verdict' = verdict
    BY <1>2 DEF StoreSnapshot
  <2>3. QED
    BY <1>1, <2>1, <2>2, ScanAssumption DEF WorkerAt, Judged, Risks
<1>3. CASE FindVerdict(j, h)
  <2>1. place'[j][h] = IF verdict[h][risk[j][h]] = NoJob THEN "insert" ELSE "update"
    BY <1>3 DEF FindVerdict, Move, TypeOK
  <2>2. place[j][h] = "find" /\ UNCHANGED <<risk, snapshot, result, verdict>>
    BY <1>3 DEF FindVerdict, Move
  <2>3. QED
    BY <1>1, <2>1, <2>2 DEF WorkerAt, Judged
<1>4. CASE InsertVerdict(j, h) \/ UpdateVerdict(j, h)
  BY <1>4, OneMoreVerdict DEF InsertVerdict, UpdateVerdict, Move
<1>5. CASE StoreResult(j, h)
  <2>1. place[j][h] = "result" /\ place'[j][h] = "count"
    BY <1>5 DEF StoreResult, Move, TypeOK
  <2>2. UNCHANGED <<risk, snapshot, verdict>>
    BY <1>5 DEF StoreResult
  <2>3. QED
    BY <1>1, <2>1, <2>2 DEF WorkerAt, Judged
<1>6. CASE HostTimeout(j, h)
  <2>1. place'[j][h] = "count"
    BY <1>6 DEF HostTimeout, Move, TypeOK
  <2>2. UNCHANGED <<snapshot, result, verdict>>
    BY <1>6 DEF HostTimeout
  <2>3. QED
    BY <1>1, <2>1, <2>2 DEF WorkerAt, Judged
<1>7. CASE Count(j, h)
  <2>1. place'[j][h] = "done"
    BY <1>7 DEF Count, Move, TypeOK
  <2>2. UNCHANGED <<snapshot, result, verdict>>
    BY <1>7 DEF Count
  <2>3. QED
    BY <1>1, <2>1, <2>2 DEF WorkerAt, Judged
<1>8. QED
  BY <1>2, <1>3, <1>4, <1>5, <1>6, <1>7 DEF Work

LEMMA WorkerSpawn ==
    ASSUME TypeOK, WorkerInv, NEW j \in Jobs, NEW h \in Hosts, Spawn(j, h)
    PROVE  WorkerInv'
<1> SUFFICES ASSUME NEW k \in Jobs, NEW g \in Hosts PROVE WorkerAt(k, g)'
  BY DEF WorkerInv, WorkerAt
<1>1. WorkerAt(k, g)
  BY WorkerParts
<1>2. UNCHANGED <<risk, snapshot, result, verdict>>
  BY DEF Spawn
<1>3. CASE k = j /\ g = h
  <2>1. place[k][g] = "todo" /\ place'[k][g] = "snapshot"
    BY <1>3 DEF Spawn, Waiting, TypeOK
  <2>2. QED
    BY <1>1, <1>2, <2>1 DEF WorkerAt, Judged
<1>4. CASE ~ (k = j /\ g = h)
  <2>1. place'[k][g] = place[k][g]
    BY <1>4 DEF Spawn, TypeOK
  <2>2. QED
    BY <1>1, <1>2, <2>1 DEF WorkerAt, Judged
<1>5. QED
  BY <1>3, <1>4

LEMMA WorkerStep ==
    ASSUME TypeOK, WorkerInv, NEW j \in Jobs, NEW h \in Hosts, Work(j, h)
    PROVE  WorkerInv'
<1> SUFFICES ASSUME NEW k \in Jobs, NEW g \in Hosts PROVE WorkerAt(k, g)'
  BY DEF WorkerInv, WorkerAt
<1>1. CASE <<k, g>> = <<j, h>>
  BY <1>1, WorkerMoves
<1>2. CASE <<k, g>> # <<j, h>>
  BY <1>2, OthersKeep
<1>3. QED
  BY <1>1, <1>2

LEMMA WorkerIdle ==
    ASSUME WorkerInv, UNCHANGED <<place, risk, snapshot, result, verdict>>
    PROVE  WorkerInv'
BY DEF WorkerInv, Judged

-----------------------------------------------------------------------------
(* The latest scan of a host.                                              *)

LEMMA LatestSpawn ==
    ASSUME TypeOK, LatestInv, NEW j \in Jobs, NEW h \in Hosts, Spawn(j, h)
    PROVE  LatestInv'
<1> SUFFICES ASSUME NEW g \in Hosts PROVE LatestAt(g)'
  BY DEF LatestInv
<1>1. LatestAt(g)
  BY DEF LatestInv
<1>2. UNCHANGED <<risk, snapshot, result, verdict>>
  BY DEF Spawn
<1>3. CASE g # h
  <2>1. \A k \in Jobs : place'[k][g] = place[k][g]
    BY <1>3 DEF Spawn, TypeOK
  <2>2. lastScan'[g] = lastScan[g] /\ (g \in overlapped' <=> g \in overlapped)
    BY <1>3 DEF Spawn, TypeOK
  <2>3. QED
    BY <1>1, <1>2, <2>1, <2>2 DEF LatestAt
<1>4. CASE g = h
  <2>1. place[j][g] = "todo" /\ place'[j][g] = "snapshot" /\ lastScan'[g] = j
    BY <1>4 DEF Spawn, Waiting, TypeOK
  <2>2. \A k \in Jobs \ {j} : place'[k][g] = place[k][g]
    BY <1>4 DEF Spawn, TypeOK
  <2>3. g \notin overlapped' => \A k \in Jobs \ {j} : place[k][g] \notin Active
    BY <1>4 DEF Spawn
  <2>4. g \notin result[j]
    BY <1>1, <2>1 DEF LatestAt
  <2>5. QED
    BY <1>1, <1>2, <2>1, <2>2, <2>3, <2>4 DEF LatestAt
<1>5. QED
  BY <1>3, <1>4

\* A step of a worker leaves the other hosts, and the other jobs' places, alone.
LEMMA StepIsLocal ==
    ASSUME TypeOK, NEW j \in Jobs, NEW h \in Hosts, Work(j, h)
    PROVE  /\ UNCHANGED <<lastScan, overlapped>>
           /\ place[j][h] \in Active
           /\ \A k \in Jobs, g \in Hosts : <<k, g>> # <<j, h>> =>
                 /\ place'[k][g] = place[k][g]
                 /\ risk'[k][g] = risk[k][g]
                 /\ g \in result'[k] <=> g \in result[k]
           /\ \A g \in Hosts \ {h} : verdict'[g] = verdict[g]
<1>1. CASE StoreSnapshot(j, h)
  BY <1>1 DEF StoreSnapshot, Move, TypeOK, Active, Writing
<1>2. CASE FindVerdict(j, h)
  BY <1>2 DEF FindVerdict, Move, TypeOK, Active, Writing
<1>3. CASE InsertVerdict(j, h)
  BY <1>3 DEF InsertVerdict, NextRisk, Move, TypeOK, Active, Writing
<1>4. CASE UpdateVerdict(j, h)
  BY <1>4 DEF UpdateVerdict, NextRisk, Move, TypeOK, Active, Writing
<1>5. CASE StoreResult(j, h)
  BY <1>5 DEF StoreResult, Move, TypeOK, Active, Writing
<1>6. CASE HostTimeout(j, h)
  BY <1>6 DEF HostTimeout, Move, TypeOK, Active, Writing
<1>7. CASE Count(j, h)
  BY <1>7 DEF Count, Move, TypeOK, Active, Writing
<1>8. QED
  BY <1>1, <1>2, <1>3, <1>4, <1>5, <1>6, <1>7 DEF Work

\* The job that was the last to begin deals with the verdict of a risk type.
LEMMA LatestVerdict ==
    ASSUME TypeOK, WorkerInv, NEW j \in Jobs, NEW h \in Hosts, LatestAt(h),
           h \notin overlapped, lastScan[h] = j, h \notin result[j],
           InsertVerdict(j, h) \/ UpdateVerdict(j, h)
    PROVE  /\ place'[j][h] \in {"find", "insert", "update"} =>
                 \A r \in 1..(risk'[j][h] - 1) : verdict'[h][r] = j
           /\ place'[j][h] \in {"find", "result"}
           /\ place'[j][h] = "result" => \A r \in Risks : verdict'[h][r] = j
<1>1. place[j][h] \in {"insert", "update"}
  BY DEF InsertVerdict, UpdateVerdict, Move
<1>2. risk[j][h] \in Risks
  BY <1>1 DEF WorkerInv
<1>3. verdict'[h][risk[j][h]] = j
  BY <1>1, <1>2 DEF InsertVerdict, UpdateVerdict, Move, LatestAt, TypeOK
<1>4. \A r \in Risks : verdict[h][r] = j => verdict'[h][r] = j
  BY <1>2 DEF InsertVerdict, UpdateVerdict, TypeOK
<1>5. \A r \in 1..(risk[j][h] - 1) : r \in Risks /\ verdict[h][r] = j
  BY <1>1, <1>2, ScanAssumption DEF LatestAt, Risks
<1>6. \A r \in 1..risk[j][h] : verdict'[h][r] = j
  <2>1. \A r \in 1..risk[j][h] : r = risk[j][h] \/ r \in 1..(risk[j][h] - 1)
    BY <1>2, ScanAssumption DEF Risks
  <2>2. QED
    BY <2>1, <1>3, <1>4, <1>5
<1>7. risk'[j][h] = risk[j][h] + 1 /\ place'[j][h] = AfterRisk(j, h)
  BY DEF InsertVerdict, UpdateVerdict, NextRisk, Move, TypeOK
<1>8. CASE risk[j][h] = NumRisks
  BY <1>6, <1>7, <1>8 DEF AfterRisk, Risks
<1>9. CASE risk[j][h] # NumRisks
  <2>1. risk'[j][h] - 1 = risk[j][h]
    BY <1>2, <1>7, ScanAssumption DEF Risks
  <2>2. QED
    BY <2>1, <1>6, <1>7, <1>9 DEF AfterRisk
<1>10. QED
  BY <1>8, <1>9

LEMMA LatestStep ==
    ASSUME TypeOK, WorkerInv, LatestInv, NEW j \in Jobs, NEW h \in Hosts, Work(j, h)
    PROVE  LatestInv'
<1> SUFFICES ASSUME NEW g \in Hosts PROVE LatestAt(g)'
  BY DEF LatestInv
<1>1. LatestAt(g) /\ LatestAt(h)
  BY DEF LatestInv
<1>2. CASE g # h
  BY <1>1, <1>2, StepIsLocal DEF LatestAt
<1>3. CASE g = h
  <2>1. /\ UNCHANGED <<lastScan, overlapped>>
        /\ place[j][h] \in Active
        /\ \A k \in Jobs \ {j} : /\ place'[k][h] = place[k][h]
                                 /\ risk'[k][h] = risk[k][h]
                                 /\ h \in result'[k] <=> h \in result[k]
    BY StepIsLocal
  <2>2. h \notin overlapped => lastScan[h] = j
    BY <1>1, <2>1 DEF LatestAt
  <2>3. h \in result'[j] => place'[j][h] \in {"count", "done"}
    BY <1>1 DEF LatestAt, TypeOK, Work, StoreSnapshot, FindVerdict, InsertVerdict, UpdateVerdict,
           StoreResult, HostTimeout, Count, Move, Writing
  <2>4. ASSUME h \notin overlapped
        PROVE  /\ place'[j][h] \in {"find", "insert", "update"} =>
                     \A r \in 1..(risk'[j][h] - 1) : verdict'[h][r] = j
               /\ place'[j][h] = "insert" => verdict'[h][risk'[j][h]] = NoJob
               /\ place'[j][h] = "result" \/ h \in result'[j] =>
                     \A r \in Risks : verdict'[h][r] = j
    <3>1. CASE StoreSnapshot(j, h)
      <4>1. /\ place[j][h] = "snapshot" /\ place'[j][h] = "find"
            /\ UNCHANGED <<risk, result>>
        BY <3>1 DEF StoreSnapshot, Move, TypeOK
      <4>2. risk[j][h] = 1 /\ h \notin result[j]
        BY <1>1, <4>1 DEF WorkerInv, LatestAt
      <4>3. 1..(risk'[j][h] - 1) = {}
        BY <4>1, <4>2
      <4>4. QED
        BY <4>1, <4>2, <4>3
    <3>2. CASE FindVerdict(j, h)
      <4>1. place[j][h] = "find" /\ UNCHANGED <<risk, result, verdict>>
        BY <3>2 DEF FindVerdict, Move
      <4>2. place'[j][h] = IF verdict[h][risk[j][h]] = NoJob THEN "insert" ELSE "update"
        BY <3>2 DEF FindVerdict, Move, TypeOK
      <4>3. QED
        BY <1>1, <2>2, <2>4, <4>1, <4>2 DEF LatestAt
    <3>3. CASE InsertVerdict(j, h) \/ UpdateVerdict(j, h)
      <4>1. h \notin result[j] /\ result' = result
        BY <1>1, <3>3 DEF InsertVerdict, UpdateVerdict, Move, LatestAt
      <4>2. QED
        BY <1>1, <2>2, <2>4, <3>3, <4>1, LatestVerdict
    <3>4. CASE StoreResult(j, h)
      <4>1. place[j][h] = "result" /\ place'[j][h] = "count" /\ verdict' = verdict
        BY <3>4 DEF StoreResult, Move, TypeOK
      <4>2. QED
        BY <1>1, <2>2, <2>4, <4>1 DEF LatestAt
    <3>5. CASE HostTimeout(j, h)
      <4>1. place'[j][h] = "count" /\ UNCHANGED <<result, verdict>>
        BY <3>5 DEF HostTimeout, Move, TypeOK
      <4>2. QED
        BY <1>1, <2>2, <2>4, <4>1 DEF LatestAt
    <3>6. CASE Count(j, h)
      <4>1. place'[j][h] = "done" /\ UNCHANGED <<result, verdict>>
        BY <3>6 DEF Count, Move, TypeOK
      <4>2. QED
        BY <1>1, <2>2, <2>4, <4>1 DEF LatestAt
    <3>7. QED
      BY <3>1, <3>2, <3>3, <3>4, <3>5, <3>6 DEF Work
  <2>5. \A k \in Jobs : h \in result'[k] => place'[k][h] \in {"count", "done"}
    BY <1>1, <2>1, <2>3 DEF LatestAt
  <2>6. h \notin overlapped => \A k \in Jobs : place'[k][h] \in Active => lastScan[h] = k
    BY <1>1, <2>1, <2>2 DEF LatestAt
  <2>7. QED
    BY <1>3, <2>1, <2>2, <2>4, <2>5, <2>6 DEF LatestAt
<1>4. QED
  BY <1>2, <1>3

LEMMA LatestIdle ==
    ASSUME LatestInv, UNCHANGED <<place, risk, result, verdict, lastScan, overlapped>>
    PROVE  LatestInv'
BY DEF LatestInv, LatestAt

-----------------------------------------------------------------------------
(* Jobs, wait group and shutdown.                                          *)

LEMMA LifeJob ==
    ASSUME TypeOK, LifeInv, NEW j \in Jobs,
           CreateJob(j) \/ Start(j) \/ Launch(j) \/ LoadHosts(j) \/ Finish(j)
    PROVE  LifeInv'
<1>1. CASE CreateJob(j)
  BY <1>1 DEF TypeOK, LifeInv, CreateJob, Goto, Open, Slotted, envVars
<1>2. CASE Start(j)
  BY <1>2 DEF TypeOK, LifeInv, Start, Goto, Open, Slotted, Alive, envVars
<1>3. CASE Launch(j)
  BY <1>3 DEF TypeOK, LifeInv, Launch, Goto, Open, Slotted, Alive, envVars
<1>4. CASE LoadHosts(j)
  BY <1>4 DEF TypeOK, LifeInv, LoadHosts, Goto, Open, Slotted, Alive, envVars
<1>5. CASE Finish(j)
  BY <1>5 DEF TypeOK, LifeInv, Finish, Goto, Open, Slotted, Alive, envVars
<1>6. QED
  BY <1>1, <1>2, <1>3, <1>4, <1>5

LEMMA LifeEnvironment ==
    ASSUME TypeOK, LifeInv,
           \/ \E j \in Jobs : StopRead(j) \/ StopWrite(j)
           \/ \E h \in Hosts : ImportHost(h)
           \/ OtherEnds \/ Shutdown
    PROVE  LifeInv'
<1>1. ASSUME NEW j \in Jobs, StopRead(j) PROVE LifeInv'
  BY <1>1 DEF TypeOK, LifeInv, StopRead, envVars, jobVars
<1>2. ASSUME NEW j \in Jobs, StopWrite(j) PROVE LifeInv'
  BY <1>2 DEF TypeOK, LifeInv, StopWrite, Open, Slotted, envVars
<1>3. ASSUME NEW h \in Hosts, ImportHost(h) PROVE LifeInv'
  BY <1>3 DEF LifeInv, ImportHost, jobVars
<1>4. CASE OtherEnds
  BY <1>4 DEF LifeInv, OtherEnds, jobVars
<1>5. CASE Shutdown
  BY <1>5 DEF TypeOK, LifeInv, Shutdown, Handling, jobVars
<1>6. QED
  BY <1>1, <1>2, <1>3, <1>4, <1>5

LEMMA LifeWorker ==
    ASSUME LifeInv, NEW j \in Jobs, NEW h \in Hosts, Spawn(j, h) \/ Work(j, h)
    PROVE  LifeInv'
BY DEF LifeInv, Spawn, Work, StoreSnapshot, FindVerdict, InsertVerdict, UpdateVerdict,
       StoreResult, HostTimeout, Count, envVars, jobVars

-----------------------------------------------------------------------------
(* How many hosts a query selects when the library grows.                  *)

Before(S, h) == {g \in S : g < h}

\* The first n of the hosts S, by id; all of them if n is 0.
FirstOf(S, n) == {h \in S : n = 0 \/ Cardinality(Before(S, h)) < n}

LEMMA HostSetIsFirst ==
    ASSUME NEW j \in Jobs
    PROVE  HostSet(j) = FirstOf(Selected[j] \cap enabled, LimitOf[j])
BY DEF HostSet, FirstOf, Before

LEMMA SetsOfHosts ==
    ASSUME NEW S \in SUBSET Hosts
    PROVE  IsFiniteSet(S) /\ Cardinality(S) \in Nat
<1>1. IsFiniteSet(Hosts)
  BY ScanAssumption, FS_Interval DEF Hosts
<1>2. QED
  BY <1>1, FS_Subset, FS_CardinalityType

LEMMA FewerHosts ==
    ASSUME NEW T \in SUBSET Hosts, NEW S \in SUBSET T
    PROVE  Cardinality(S) =< Cardinality(T)
BY SetsOfHosts, FS_Subset

\* Of two hosts, fewer come before the smaller one.
LEMMA BeforeSmaller ==
    ASSUME NEW S \in SUBSET Hosts, NEW g \in S, NEW h \in Hosts, g < h
    PROVE  Cardinality(Before(S, g)) < Cardinality(Before(S, h))
<1>1. /\ Before(S, h) \in SUBSET Hosts
      /\ Before(S, g) \cup {g} \in SUBSET Before(S, h)
      /\ Before(S, g) \in SUBSET Hosts
      /\ g \notin Before(S, g)
  <2>1. \A x \in Hosts : x \in Int
    BY DEF Hosts
  <2>2. \A x \in S : x < g => x < h
    BY <2>1
  <2>3. g \in Int /\ ~ (g < g)
    BY <2>1
  <2>4. QED
    BY <2>2, <2>3 DEF Before
<1>2. Cardinality(Before(S, g) \cup {g}) = Cardinality(Before(S, g)) + 1
  BY <1>1, SetsOfHosts, FS_AddElement
<1>3. Cardinality(Before(S, g) \cup {g}) =< Cardinality(Before(S, h))
  BY <1>1, FewerHosts
<1>4. Cardinality(Before(S, g)) \in Nat /\ Cardinality(Before(S, h)) \in Nat
  BY <1>1, SetsOfHosts
<1>5. QED
  BY <1>2, <1>3, <1>4

\* A new host takes the place of at most one other.
LEMMA FirstGrows ==
    ASSUME NEW S \in SUBSET Hosts, NEW g \in Hosts \ S, NEW n \in Nat
    PROVE  Cardinality(FirstOf(S, n)) =< Cardinality(FirstOf(S \cup {g}, n))
<1> DEFINE T == S \cup {g}
<1>1. /\ FirstOf(S, n) \in SUBSET Hosts /\ FirstOf(T, n) \in SUBSET Hosts
      /\ T \in SUBSET Hosts
  BY DEF FirstOf
<1>2. CASE n = 0
  <2>1. FirstOf(S, n) \in SUBSET FirstOf(T, n)
    BY <1>2 DEF FirstOf
  <2>2. QED
    BY <1>1, <2>1, FewerHosts
<1>3. CASE n # 0
  <2>1. \A h \in Hosts : h =< g => Before(T, h) = Before(S, h)
    BY DEF Before, Hosts
  <2>2. \A h \in S : h > g => Cardinality(Before(T, h)) = Cardinality(Before(S, h)) + 1
    <3> SUFFICES ASSUME NEW h \in S, h > g
                 PROVE  Cardinality(Before(T, h)) = Cardinality(Before(S, h)) + 1
      OBVIOUS
    <3>1. Before(T, h) = Before(S, h) \cup {g} /\ g \notin Before(S, h)
      BY DEF Before, Hosts
    <3>2. Before(S, h) \in SUBSET Hosts
      BY DEF Before
    <3>3. QED
      BY <3>1, <3>2, SetsOfHosts, FS_AddElement
  <2>3. \A h \in Hosts : Cardinality(Before(S, h)) \in Nat
    <3> SUFFICES ASSUME NEW h \in Hosts PROVE Cardinality(Before(S, h)) \in Nat
      OBVIOUS
    <3>1. Before(S, h) \in SUBSET Hosts
      BY DEF Before
    <3>2. QED
      BY <3>1, SetsOfHosts
  <2> DEFINE out == {h \in S : h > g /\ Cardinality(Before(S, h)) = n - 1}
  <2>4. FirstOf(S, n) \ out \in SUBSET FirstOf(T, n)
    <3> SUFFICES ASSUME NEW h \in S, Cardinality(Before(S, h)) < n, h \notin out
                 PROVE  Cardinality(Before(T, h)) < n
      BY <1>3 DEF FirstOf
    <3>1. h \in Hosts /\ g \in Hosts /\ Cardinality(Before(S, h)) \in Nat
      BY <2>3
    <3>2. CASE h =< g
      <4>1. Before(T, h) = Before(S, h)
        BY <2>1, <3>1, <3>2
      <4>2. QED
        BY <4>1
    <3>3. CASE h > g
      <4>1. Cardinality(Before(T, h)) = Cardinality(Before(S, h)) + 1
        BY <2>2, <3>3
      <4>2. Cardinality(Before(S, h)) # n - 1
        BY <3>3
      <4>3. QED
        BY <3>1, <4>1, <4>2
    <3>4. QED
      BY <3>1, <3>2, <3>3 DEF Hosts
  <2>5. CASE out = {}
    <3>1. FirstOf(S, n) \in SUBSET FirstOf(T, n)
      BY <2>4, <2>5
    <3>2. QED
      BY <1>1, <3>1, FewerHosts
  <2>6. CASE out # {}
    <3>1. PICK k \in out : TRUE
      BY <2>6
    <3>2. k \in S /\ k \in Hosts /\ k > g /\ Cardinality(Before(S, k)) = n - 1
      BY <3>1
    <3>3. \A h \in out : h = k
      <4> SUFFICES ASSUME NEW h \in out, h # k PROVE FALSE
        OBVIOUS
      <4>1. h \in S /\ h \in Hosts /\ Cardinality(Before(S, h)) = n - 1
        OBVIOUS
      <4>2. h < k \/ k < h
        BY <3>2, <4>1 DEF Hosts
      <4>3. Cardinality(Before(S, h)) < Cardinality(Before(S, k))
            \/ Cardinality(Before(S, k)) < Cardinality(Before(S, h))
        BY <3>2, <4>1, <4>2, BeforeSmaller
      <4>4. QED
        BY <3>2, <4>1, <4>3
    <3>4. g \in FirstOf(T, n)
      <4>1. Before(T, g) = Before(S, g)
        BY <2>1 DEF Hosts
      <4>2. Before(S, g) \in SUBSET Before(S, k) /\ Before(S, k) \in SUBSET Hosts
        <5>1. \A x \in Hosts : x \in Int
          BY DEF Hosts
        <5>2. \A x \in S : x < g => x < k
          BY <3>2, <5>1
        <5>3. QED
          BY <5>2 DEF Before
      <4>3. Cardinality(Before(S, g)) =< Cardinality(Before(S, k))
        BY <4>2, FewerHosts
      <4>4. Cardinality(Before(T, g)) < n
        BY <2>3, <3>2, <4>1, <4>3
      <4>5. QED
        BY <4>4 DEF FirstOf
    <3>5. /\ k \in FirstOf(S, n)
          /\ g \notin FirstOf(S, n)
      <4>1. Cardinality(Before(S, k)) < n
        BY <3>2
      <4>2. QED
        BY <3>2, <4>1 DEF FirstOf
    <3> DEFINE kept == FirstOf(S, n) \ {k}
    <3>6. /\ kept \cup {g} \in SUBSET FirstOf(T, n)
          /\ kept \in SUBSET Hosts /\ g \notin kept
      BY <1>1, <2>4, <3>3, <3>4, <3>5
    <3>7. Cardinality(kept) = Cardinality(FirstOf(S, n)) - 1
      BY <1>1, <3>5, SetsOfHosts, FS_RemoveElement
    <3>8. IsFiniteSet(kept) /\ Cardinality(kept) \in Nat
      BY <3>6, SetsOfHosts
    <3>9. Cardinality(kept \cup {g}) = Cardinality(kept) + 1
      BY <3>6, <3>8, FS_AddElement
    <3>10. Cardinality(kept \cup {g}) =< Cardinality(FirstOf(T, n))
      BY <1>1, <3>6, FewerHosts
    <3>11. Cardinality(FirstOf(S, n)) \in Nat /\ Cardinality(FirstOf(T, n)) \in Nat
      BY <1>1, SetsOfHosts
    <3>12. QED
      BY <3>7, <3>8, <3>9, <3>10, <3>11
  <2>7. QED
    BY <2>5, <2>6
<1>4. QED
  BY <1>2, <1>3

\* An import takes nothing away from what a job would select.
LEMMA ImportsOnlyAdd ==
    ASSUME TypeOK, NEW h \in Hosts, ImportHost(h), NEW j \in Jobs
    PROVE  Cardinality(HostSet(j)) =< Cardinality(HostSet(j)')
<1> DEFINE S == Selected[j] \cap enabled
<1>1. S \in SUBSET Hosts /\ LimitOf[j] \in Nat /\ h \notin S
  BY ScanAssumption DEF ImportHost
<1>2. HostSet(j) = FirstOf(S, LimitOf[j])
  BY HostSetIsFirst
<1>3. HostSet(j)' = FirstOf(Selected[j] \cap enabled', LimitOf[j])
  BY DEF HostSet, FirstOf, Before
<1>4. Selected[j] \cap enabled' = S \/ Selected[j] \cap enabled' = S \cup {h}
  BY DEF ImportHost
<1>5. CASE Selected[j] \cap enabled' = S
  BY <1>2, <1>3, <1>5, HostSets
<1>6. CASE Selected[j] \cap enabled' = S \cup {h}
  BY <1>1, <1>2, <1>3, <1>6, FirstGrows
<1>7. QED
  BY <1>4, <1>5, <1>6

-----------------------------------------------------------------------------
(* What a run counts.                                                      *)

\* Steps that leave job j alone; the hosts it would select may become more.
LEMMA AccountKept ==
    ASSUME TypeOK, NEW j \in Jobs, AccountAt(j),
           pc'[j] = pc[j], total'[j] = total[j], tally'[j] = tally[j], shown'[j] = shown[j],
           chosen'[j] = chosen[j], place'[j] = place[j], found'[j] = found[j],
           Cardinality(HostSet(j)) =< Cardinality(HostSet(j)'), Cardinality(HostSet(j)') \in Nat
    PROVE  AccountAt(j)'
<1>1. Done(j)' = Done(j) /\ DoneSuspicious(j)' = DoneSuspicious(j)
  BY DEF Done, DoneSuspicious
<1>2. total[j] \in Nat /\ Cardinality(HostSet(j)) \in Nat
  BY HostSets DEF TypeOK
<1>3. total[j] =< Cardinality(HostSet(j)) => total[j] =< Cardinality(HostSet(j)')
  BY <1>2
<1>4. QED
  BY <1>1, <1>3 DEF AccountAt

LEMMA SameSelection ==
    ASSUME enabled' = enabled, NEW j \in Jobs
    PROVE  /\ HostSet(j)' = HostSet(j)
           /\ Cardinality(HostSet(j)) =< Cardinality(HostSet(j)')
           /\ Cardinality(HostSet(j)') \in Nat
<1>1. HostSet(j)' = HostSet(j)
  BY DEF HostSet
<1>2. QED
  BY <1>1, HostSets

LEMMA AccountJob ==
    ASSUME TypeOK, AccountInv, NEW j \in Jobs,
           CreateJob(j) \/ Start(j) \/ Launch(j) \/ LoadHosts(j) \/ Finish(j)
    PROVE  AccountInv'
<1> SUFFICES ASSUME NEW k \in Jobs PROVE AccountAt(k)'
  BY DEF AccountInv
<1>1. AccountAt(k)
  BY DEF AccountInv
<1>2. UNCHANGED <<enabled, tally, place, found>>
  BY DEF CreateJob, Start, Launch, LoadHosts, Finish, envVars, hostVars
<1>3. /\ HostSet(k)' = HostSet(k)
      /\ Cardinality(HostSet(k)) =< Cardinality(HostSet(k)')
      /\ Cardinality(HostSet(k)') \in Nat
  BY <1>2, SameSelection
<1>4. Done(k)' = Done(k) /\ DoneSuspicious(k)' = DoneSuspicious(k)
  BY <1>2 DEF Done, DoneSuspicious
<1>5. CASE k # j
  <2>1. /\ pc'[k] = pc[k] /\ total'[k] = total[k] /\ shown'[k] = shown[k]
        /\ chosen'[k] = chosen[k]
    BY <1>5 DEF CreateJob, Start, Launch, LoadHosts, Finish, Goto, TypeOK
  <2>2. QED
    BY <1>1, <1>2, <1>3, <2>1, AccountKept
<1>6. CASE k = j
  <2>1. CASE CreateJob(j)
    <3>1. /\ pc[k] = "none" /\ pc'[k] = "created"
          /\ total'[k] = Cardinality(HostSet(k)) /\ chosen' = chosen
      BY <1>6, <2>1 DEF CreateJob, Goto, TypeOK
    <3>2. QED
      BY <1>1, <1>2, <1>3, <1>4, <3>1 DEF AccountAt
  <2>2. CASE Launch(j) \/ Start(j)
    <3>1. /\ pc[k] \in {"created", "queued"} /\ pc'[k] \in {"queued", "hosts"}
          /\ UNCHANGED <<total, chosen>>
      BY <1>6, <2>2 DEF Launch, Start, Goto, TypeOK
    <3>2. QED
      BY <1>1, <1>2, <1>3, <1>4, <3>1 DEF AccountAt
  <2>3. CASE LoadHosts(j)
    <3>1. /\ pc[k] = "hosts" /\ pc'[k] = "spawn"
          /\ chosen'[k] = HostSet(k) /\ total' = total
      BY <1>6, <2>3 DEF LoadHosts, Goto, TypeOK
    <3>2. chosen[k] = {} /\ total[k] =< Cardinality(HostSet(k))
      BY <1>1, <3>1 DEF AccountAt
    <3>3. QED
      BY <1>1, <1>2, <1>4, <3>1, <3>2 DEF AccountAt
  <2>4. CASE Finish(j)
    <3>1. /\ pc[k] = "spawn" /\ pc'[k] = "over" /\ shown'[k] = tally[k]
          /\ Waiting(k) = {} /\ Workers(k) = {}
          /\ UNCHANGED <<total, chosen>>
      BY <1>6, <2>4 DEF Finish, Goto, TypeOK
    <3>2. chosen[k] \subseteq Done(k)
      <4>1. chosen[k] \subseteq Hosts
        BY DEF TypeOK
      <4>2. \A h \in Hosts : place[k][h] \in {"todo", "done"} \cup Active
        BY DEF TypeOK
      <4>3. QED
        BY <3>1, <4>1, <4>2 DEF Waiting, Workers, Done
    <3>3. total[k] =< Cardinality(chosen[k])
      BY <1>1, <3>1 DEF AccountAt
    <3>4. QED
      BY <1>1, <1>2, <1>4, <3>1, <3>2, <3>3 DEF AccountAt
  <2>5. QED
    BY <2>1, <2>2, <2>3, <2>4
<1>7. QED
  BY <1>5, <1>6

LEMMA AccountEnvironment ==
    ASSUME TypeOK, AccountInv,
           \/ \E j \in Jobs : StopRead(j) \/ StopWrite(j)
           \/ \E h \in Hosts : ImportHost(h)
           \/ OtherEnds \/ Shutdown
    PROVE  AccountInv'
<1> SUFFICES ASSUME NEW k \in Jobs PROVE AccountAt(k)'
  BY DEF AccountInv
<1>1. AccountAt(k)
  BY DEF AccountInv
<1>2. UNCHANGED <<pc, total, tally, shown, chosen, place, found>>
  BY DEF StopRead, StopWrite, ImportHost, OtherEnds, Shutdown, jobVars, hostVars
<1>3. /\ Cardinality(HostSet(k)) =< Cardinality(HostSet(k)')
      /\ Cardinality(HostSet(k)') \in Nat
  <2>1. ASSUME NEW h \in Hosts, ImportHost(h)
        PROVE  /\ Cardinality(HostSet(k)) =< Cardinality(HostSet(k)')
               /\ Cardinality(HostSet(k)') \in Nat
    <3>1. HostSet(k)' \in SUBSET Hosts
      BY ScanAssumption DEF HostSet
    <3>2. QED
      BY <2>1, <3>1, ImportsOnlyAdd, SetsOfHosts
  <2>2. CASE enabled' = enabled
    BY <2>2, SameSelection
  <2>3. QED
    BY <2>1, <2>2 DEF StopRead, StopWrite, OtherEnds, Shutdown, envVars
<1>4. QED
  BY <1>1, <1>2, <1>3, AccountKept

LEMMA AccountSpawn ==
    ASSUME TypeOK, AccountInv, NEW j \in Jobs, NEW h \in Hosts, Spawn(j, h)
    PROVE  AccountInv'
<1> SUFFICES ASSUME NEW k \in Jobs PROVE AccountAt(k)'
  BY DEF AccountInv
<1>1. AccountAt(k)
  BY DEF AccountInv
<1>2. UNCHANGED <<enabled, pc, total, tally, shown, chosen>>
  BY DEF Spawn, envVars, jobVars
<1>3. HostSet(k)' = HostSet(k)
  BY <1>2, SameSelection
<1>4. /\ place' = [place EXCEPT ![j][h] = "snapshot"]
      /\ \E f \in Findings[j] : found' = [found EXCEPT ![j][h] = f]
      /\ place[j][h] = "todo" /\ h \in chosen[j] /\ pc[j] = "spawn"
  BY DEF Spawn, Waiting
<1>5. \A g \in Hosts : place[k][g] = "done" =>
         place'[k][g] = "done" /\ found'[k][g] = found[k][g]
  BY <1>4 DEF TypeOK
<1>6. \A g \in Hosts : place'[k][g] = "done" => place[k][g] = "done"
  BY <1>4 DEF TypeOK
<1>7. Done(k)' = Done(k) /\ DoneSuspicious(k)' = DoneSuspicious(k)
  BY <1>5, <1>6 DEF Done, DoneSuspicious
<1>8. \A g \in Hosts \ chosen[k] : place'[k][g] = "todo"
  BY <1>1, <1>4 DEF AccountAt, TypeOK
<1>9. QED
  BY <1>1, <1>2, <1>3, <1>7, <1>8 DEF AccountAt

\* A host is done when it has been counted, and not before.
LEMMA AccountWork ==
    ASSUME TypeOK, AccountInv, NEW j \in Jobs, NEW h \in Hosts, Work(j, h)
    PROVE  AccountInv'
<1> SUFFICES ASSUME NEW k \in Jobs PROVE AccountAt(k)'
  BY DEF AccountInv
<1>1. AccountAt(k) /\ AccountAt(j)
  BY DEF AccountInv
<1>2. UNCHANGED <<enabled, pc, total, chosen, found>>
  BY DEF Work, StoreSnapshot, FindVerdict, InsertVerdict, UpdateVerdict, StoreResult,
         HostTimeout, Count, envVars, jobVars
<1>3. HostSet(k)' = HostSet(k)
  BY <1>2, SameSelection
<1>4. place[j][h] \in Active
  BY StepIsLocal
<1>5. h \in chosen[j] /\ pc[j] = "spawn" /\ place[j][h] # "done"
  <2>1. place[j][h] \notin {"todo", "done"}
    BY <1>4 DEF Active, Writing
  <2>2. h \in chosen[j]
    BY <1>1, <2>1 DEF AccountAt
  <2>3. h \notin Done(j)
    BY <2>1 DEF Done
  <2>4. QED
    BY <1>1, <2>1, <2>2, <2>3 DEF AccountAt
<1>6. \A g \in Hosts : <<k, g>> # <<j, h>> => place'[k][g] = place[k][g]
  BY StepIsLocal
<1>7. \A g \in Hosts \ chosen[k] : place'[k][g] = "todo"
  BY <1>1, <1>5, <1>6 DEF AccountAt
<1>8. CASE k # j
  <2>1. Done(k)' = Done(k) /\ DoneSuspicious(k)' = DoneSuspicious(k)
    BY <1>2, <1>6, <1>8 DEF Done, DoneSuspicious
  <2>2. tally'[k] = tally[k] /\ shown'[k] = shown[k]
    BY <1>8 DEF Work, StoreSnapshot, FindVerdict, InsertVerdict, UpdateVerdict, StoreResult,
                HostTimeout, Count, jobVars, TypeOK
  <2>3. QED
    BY <1>1, <1>2, <1>3, <1>7, <2>1, <2>2 DEF AccountAt
<1>9. CASE k = j /\ ~ Count(j, h)
  <2>1. place'[j][h] # "done"
    BY <1>9 DEF Work, StoreSnapshot, FindVerdict, InsertVerdict, UpdateVerdict, StoreResult,
                HostTimeout, Move, AfterRisk, TypeOK
  <2>2. Done(k)' = Done(k)
    BY <1>5, <1>6, <1>9, <2>1 DEF Done
  <2>3. DoneSuspicious(k)' = DoneSuspicious(k)
    BY <1>2, <2>2 DEF DoneSuspicious
  <2>4. UNCHANGED <<tally, shown>>
    BY <1>9 DEF Work, StoreSnapshot, FindVerdict, InsertVerdict, UpdateVerdict, StoreResult,
                HostTimeout, jobVars
  <2>5. QED
    BY <1>1, <1>2, <1>3, <1>7, <2>2, <2>3, <2>4 DEF AccountAt
<1>10. CASE k = j /\ Count(j, h)
  <2>1. place'[j][h] = "done" /\ tally'[j] = Added(j, h)
    BY <1>10 DEF Count, Move, TypeOK
  <2>2. /\ Done(j)' = Done(j) \cup {h}
        /\ h \notin Done(j) /\ Done(j) \in SUBSET Hosts
    BY <1>5, <1>6, <1>10, <2>1 DEF Done
  <2>3. Cardinality(Done(j)') = Cardinality(Done(j)) + 1
    BY <2>2, SetsOfHosts, FS_AddElement
  <2>4. Cardinality(DoneSuspicious(j)') =
           Cardinality(DoneSuspicious(j)) + (IF found[j][h] = {} THEN 0 ELSE 1)
    <3>1. DoneSuspicious(j) \in SUBSET Hosts /\ h \notin DoneSuspicious(j)
      BY <2>2 DEF DoneSuspicious
    <3>2. DoneSuspicious(j)' =
             IF found[j][h] = {} THEN DoneSuspicious(j) ELSE DoneSuspicious(j) \cup {h}
      BY <1>2, <2>2 DEF DoneSuspicious
    <3>3. IsFiniteSet(DoneSuspicious(j)) /\ Cardinality(DoneSuspicious(j)) \in Nat
      BY <3>1, SetsOfHosts
    <3>4. CASE found[j][h] = {}
      BY <3>2, <3>3, <3>4
    <3>5. CASE found[j][h] # {}
      <4>1. Cardinality(DoneSuspicious(j) \cup {h}) = Cardinality(DoneSuspicious(j)) + 1
        BY <3>1, <3>3, FS_AddElement
      <4>2. QED
        BY <3>2, <3>5, <4>1
    <3>6. QED
      BY <3>4, <3>5
  <2>5. /\ tally'[j].processed = tally[j].processed + 1
        /\ tally'[j].suspicious = tally[j].suspicious + (IF found[j][h] = {} THEN 0 ELSE 1)
    BY <2>1 DEF Added
  <2>6. QED
    BY <1>1, <1>2, <1>3, <1>5, <1>7, <1>10, <2>3, <2>4, <2>5 DEF AccountAt
<1>11. QED
  BY <1>8, <1>9, <1>10

-----------------------------------------------------------------------------
(* The theorems.                                                           *)

LEMMA StepInv == IInv /\ [Next]_vars => IInv'
<1> SUFFICES ASSUME TypeOK, WorkerInv, LatestInv, LifeInv, AccountInv, [Next]_vars PROVE IInv'
  BY DEF IInv
<1>1. ASSUME NEW j \in Jobs,
             CreateJob(j) \/ Start(j) \/ Launch(j) \/ LoadHosts(j) \/ Finish(j)
      PROVE  IInv'
  <2>1. UNCHANGED hostVars
    BY <1>1 DEF CreateJob, Start, Launch, LoadHosts, Finish
  <2>2. QED
    BY <1>1, <2>1, TypeJob, WorkerIdle, LatestIdle, LifeJob, AccountJob DEF IInv, hostVars
<1>2. CASE \/ \E j \in Jobs : StopRead(j) \/ StopWrite(j)
           \/ \E h \in Hosts : ImportHost(h)
           \/ OtherEnds \/ Shutdown
  <2>1. UNCHANGED hostVars
    BY <1>2 DEF StopRead, StopWrite, ImportHost, OtherEnds, Shutdown
  <2>2. QED
    BY <1>2, <2>1, TypeEnvironment, WorkerIdle, LatestIdle, LifeEnvironment, AccountEnvironment
       DEF IInv, hostVars
<1>3. ASSUME NEW j \in Jobs, NEW h \in Hosts, Spawn(j, h) PROVE IInv'
  BY <1>3, TypeWorker, WorkerSpawn, LatestSpawn, LifeWorker, AccountSpawn DEF IInv
<1>4. ASSUME NEW j \in Jobs, NEW h \in Hosts, Work(j, h) PROVE IInv'
  BY <1>4, TypeWorker, WorkerStep, LatestStep, LifeWorker, AccountWork DEF IInv
<1>5. CASE UNCHANGED vars
  <2>1. TypeOK'
    BY <1>5 DEF TypeOK, vars, envVars, jobVars, hostVars
  <2>2. WorkerInv' /\ LatestInv'
    BY <1>5, WorkerIdle, LatestIdle DEF vars, hostVars
  <2>3. LifeInv'
    BY <1>5 DEF LifeInv, vars, envVars, jobVars
  <2>4. AccountInv'
    <3> SUFFICES ASSUME NEW j \in Jobs PROVE AccountAt(j)'
      BY DEF AccountInv
    <3>1. AccountAt(j)
      BY DEF AccountInv
    <3>2. UNCHANGED <<enabled, pc, total, tally, shown, chosen, place, found>>
      BY <1>5 DEF vars, envVars, jobVars, hostVars
    <3>3. QED
      BY <3>1, <3>2, SameSelection, AccountKept
  <2>5. QED
    BY <2>1, <2>2, <2>3, <2>4 DEF IInv
<1>6. QED
  BY <1>1, <1>2, <1>3, <1>4, <1>5 DEF Next, Proceed, Run

\* The invariant holds in every reachable state.
THEOREM InductiveInvariant == Spec => []IInv
<1>1. QED
  BY InitInv, StepInv, PTL DEF Spec

\* Every variable of the scanner keeps its type (scanner.go 22-599).
THEOREM TypeCorrect == Spec => []TypeOK
<1>1. IInv => TypeOK
  BY DEF IInv
<1>2. QED
  BY <1>1, InductiveInvariant, PTL

\* For any number of scans racing for the rows of a host, with any of their
\* statements cut off by a timeout, a result row comes with its snapshot and a
\* verdict for every risk type (scanner.go 442-530).
THEOREM ResultsAreWhole == Spec => []ResultIsWhole
<1>1. IInv => ResultIsWhole
  <2> SUFFICES ASSUME IInv, NEW j \in Jobs, NEW h \in result[j]
               PROVE  h \in snapshot[j] /\ \A r \in Risks : verdict[h][r] # NoJob
    BY DEF ResultIsWhole
  <2>1. h \in Hosts
    BY DEF IInv, TypeOK
  <2>2. QED
    BY <2>1 DEF IInv, WorkerInv, Judged
<1>2. QED
  BY <1>1, InductiveInvariant, PTL

\* For any number of scans of a host: the verdict rows are those of the scan that
\* began last, once it has stored its result, unless it began while another was
\* at that host (scanner.go 463-475).
THEOREM LatestIsShown == Spec => []LatestUnlessOverlapped
<1>1. IInv => LatestUnlessOverlapped
  <2> SUFFICES ASSUME IInv, NEW j \in Jobs, NEW h \in result[j] \ overlapped, lastScan[h] = j
               PROVE  \A r \in Risks : verdict[h][r] = j
    BY DEF LatestUnlessOverlapped
  <2>1. h \in Hosts
    BY DEF IInv, TypeOK
  <2>2. QED
    BY <2>1 DEF IInv, LatestInv, LatestAt
<1>2. QED
  BY <1>1, InductiveInvariant, PTL

\* However many scans are accepted, queued, running or being stopped when the
\* server is told to stop: once it has drained, none is left pending or running
\* (server/main.go 107-116, tasks.go 71-79, scanner.go 98-106).
THEOREM DrainIsClean == Spec => []DrainedLosesNothing
<1>1. IInv => DrainedLosesNothing
  <2> SUFFICES ASSUME IInv, server = "drained", NEW j \in Jobs PROVE status[j] \notin Open
    BY DEF DrainedLosesNothing
  <2>1. pc[j] \in {"none", "over"}
    BY DEF IInv, TypeOK, LifeInv
  <2>2. QED
    BY <2>1 DEF IInv, LifeInv, Open
<1>2. QED
  BY <1>1, InductiveInvariant, PTL

\* However its workers, the timeouts of hosts, stop requests and imports
\* interleave: a run that is over shows each host it loaded once, the
\* suspicious ones among them, and no fewer than its creation announced,
\* because a host that imports add takes the place of at most one other under
\* the limit of the query (scanner.go 85, 231-292).
THEOREM RunsAccount == Spec => []CompletedAccounts
<1>1. IInv => CompletedAccounts
  <2> SUFFICES ASSUME IInv, NEW j \in Jobs, pc[j] = "over"
               PROVE  /\ shown[j].processed = Cardinality(chosen[j])
                      /\ shown[j].suspicious = Cardinality({h \in chosen[j] : found[j][h] # {}})
                      /\ shown[j].processed >= total[j]
    BY DEF CompletedAccounts
  <2>1. AccountAt(j) /\ TypeOK
    BY DEF IInv, AccountInv
  <2>2. Done(j) = chosen[j]
    BY <2>1 DEF AccountAt, Done, TypeOK
  <2>3. DoneSuspicious(j) = {h \in chosen[j] : found[j][h] # {}}
    BY <2>2 DEF DoneSuspicious
  <2>4. shown[j] = tally[j] /\ total[j] =< Cardinality(chosen[j])
    BY <2>1 DEF AccountAt
  <2>5. total[j] \in Nat /\ Cardinality(chosen[j]) \in Nat
    BY <2>1, SetsOfHosts DEF TypeOK
  <2>6. QED
    BY <2>1, <2>2, <2>3, <2>4, <2>5 DEF AccountAt
<1>2. QED
  BY <1>1, InductiveInvariant, PTL
=============================================================================
