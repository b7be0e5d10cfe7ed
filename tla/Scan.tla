------------------------------- MODULE Scan --------------------------------
(***************************************************************************)
(* Scan jobs of internal/service/scanner.go inside one server: creation,   *)
(* the pool goroutine that runs a job, the worker of each host with its    *)
(* statements, stop requests, imports into the trust library meanwhile, and*)
(* the shutdown that waits for the runs.                                   *)
(*                                                                         *)
(* A verdict row is represented by the job that wrote it last: its text    *)
(* is what that job found.  scanHost never returns the status error, so    *)
(* successHosts equals processedHosts and errorHosts is 0.                 *)
(***************************************************************************)
EXTENDS Integers, FiniteSets

CONSTANTS
    Jobs,           \* scan jobs
    NoJob,          \* no verdict row
    NumHosts,       \* trusted hosts, by id
    NumRisks,       \* risk types, in the order Evaluate lists them
    Selected,       \* job -> hosts its filters select
    LimitOf,        \* job -> limit of the request, 0 for none
    Concurrency,    \* job -> hosts scanned at a time
    Findings,       \* job -> sets of risk types its observations may show
    ProgressEvery,  \* hosts between two updates of the progress
    Stoppable,      \* bound: jobs a stop is requested for
    PoolSize,       \* slots shared with the other runs of the server
    MaxOthers,      \* bound: slots that other runs hold initially
    NewHosts        \* hosts that imports insert meanwhile

Hosts == 1..NumHosts
Risks == 1..NumRisks

ASSUME ScanAssumption ==
    /\ NoJob \notin Jobs
    /\ IsFiniteSet(Jobs)
    /\ NumHosts \in Nat /\ NumRisks \in Nat \ {0}
    /\ Selected \in [Jobs -> SUBSET Hosts]
    /\ LimitOf \in [Jobs -> Nat]
    /\ Concurrency \in [Jobs -> Nat \ {0}]
    /\ Findings \in [Jobs -> SUBSET SUBSET Risks]
    /\ Stoppable \subseteq Jobs
    /\ ProgressEvery \in Nat \ {0}
    /\ NewHosts \subseteq Hosts
    /\ PoolSize \in Nat /\ MaxOthers \in Nat

VARIABLES
    server,     \* life of the process
    enabled,    \* hosts enabled in the trust library
    others,     \* slots held by single, batch and build runs
    wg,         \* jobs counted by the wait group
    pc,         \* job -> control point of its request, then of its run
    stop,       \* job -> control point of a stop request
    status,     \* job -> scan_job.status, "none" before the insert
    total,      \* job -> scan_job.total_hosts
    shown,      \* job -> counts in the row
    tally,      \* job -> counts of the run, guarded by mu
    chosen,     \* job -> hosts the run has loaded
    place,      \* job -> host -> control point of the worker
    risk,       \* job -> host -> risk type whose verdict is being stored
    found,      \* job -> host -> suspicious risk types
    snapshot,   \* job -> hosts with a snapshot row
    result,     \* job -> hosts with a result row
    verdict,    \* host -> risk type -> job whose verdict the row shows
    lastScan,   \* history: host -> job that began to scan it last
    overlapped  \* history: hosts whose last scan began during another

jobVars == <<wg, pc, status, total, shown, tally, chosen>>
hostVars == <<place, risk, found, snapshot, result, verdict, lastScan, overlapped>>
envVars == <<server, enabled, others>>
vars == <<envVars, jobVars, hostVars, stop>>

Counts == [processed : Nat, suspicious : Nat]
Zero == [processed |-> 0, suspicious |-> 0]
Open == {"pending", "running"}
Slotted == {"hosts", "spawn"}               \* the run has a slot of the pool
Writing == {"snapshot", "find", "insert", "update", "result"}
Active == Writing \cup {"count"}

TypeOK ==
    /\ server \in {"serving", "stopping", "drained"}
    /\ enabled \subseteq Hosts
    /\ others \in 0..MaxOthers
    /\ wg \subseteq Jobs
    /\ pc \in [Jobs -> {"none", "created", "queued", "over"} \cup Slotted]
    /\ stop \in [Jobs -> {"idle", "write", "done"}]
    /\ status \in [Jobs -> {"none", "completed", "failed"} \cup Open]
    /\ total \in [Jobs -> Nat]
    /\ shown \in [Jobs -> Counts]
    /\ tally \in [Jobs -> Counts]
    /\ chosen \in [Jobs -> SUBSET Hosts]
    /\ place \in [Jobs -> [Hosts -> {"todo", "done"} \cup Active]]
    /\ risk \in [Jobs -> [Hosts -> 1..(NumRisks + 1)]]
    /\ found \in [Jobs -> [Hosts -> SUBSET Risks]]
    /\ snapshot \in [Jobs -> SUBSET Hosts]
    /\ result \in [Jobs -> SUBSET Hosts]
    /\ verdict \in [Hosts -> [Risks -> Jobs \cup {NoJob}]]
    /\ lastScan \in [Hosts -> Jobs \cup {NoJob}]
    /\ overlapped \subseteq Hosts

Init ==
    /\ server = "serving"
    /\ enabled = Hosts \ NewHosts
    /\ others \in 0..MaxOthers
    /\ wg = {}
    /\ pc = [j \in Jobs |-> "none"]
    /\ stop = [j \in Jobs |-> "idle"]
    /\ status = [j \in Jobs |-> "none"]
    /\ total = [j \in Jobs |-> 0]
    /\ shown = [j \in Jobs |-> Zero]
    /\ tally = [j \in Jobs |-> Zero]
    /\ chosen = [j \in Jobs |-> {}]
    /\ place = [j \in Jobs |-> [h \in Hosts |-> "todo"]]
    /\ risk = [j \in Jobs |-> [h \in Hosts |-> 1]]
    /\ found = [j \in Jobs |-> [h \in Hosts |-> {}]]
    /\ snapshot = [j \in Jobs |-> {}]
    /\ result = [j \in Jobs |-> {}]
    /\ verdict = [h \in Hosts |-> [r \in Risks |-> NoJob]]
    /\ lastScan = [h \in Hosts |-> NoJob]
    /\ overlapped = {}

Alive == server # "drained"
Goto(j, from, to) == pc[j] = from /\ pc' = [pc EXCEPT ![j] = to]

\* The query of creation and run: enabled hosts that pass the filters, by id.
HostSet(j) ==
    LET hits == Selected[j] \cap enabled
    IN  {h \in hits : LimitOf[j] = 0 \/ Cardinality({g \in hits : g < h}) < LimitOf[j]}

-----------------------------------------------------------------------------
(* CreateScanJob, in the request's handler.                                *)

\* The row states how many hosts were selected; selecting none is refused.
CreateJob(j) ==
    /\ server = "serving"
    /\ HostSet(j) # {}
    /\ Goto(j, "none", "created")
    /\ total' = [total EXCEPT ![j] = Cardinality(HostSet(j))]
    /\ status' = [status EXCEPT ![j] = "pending"]
    /\ UNCHANGED <<envVars, hostVars, stop, wg, shown, tally, chosen>>

\* Mutant: wg.Add is left to the goroutine.
LaunchUncounted(j) ==
    /\ Alive
    /\ Goto(j, "created", "queued")
    /\ UNCHANGED <<envVars, hostVars, stop, wg, status, total, shown, tally, chosen>>

Launch(j) ==
    /\ Alive
    /\ Goto(j, "created", "queued")
    /\ wg' = wg \cup {j}
    /\ UNCHANGED <<envVars, hostVars, stop, status, total, shown, tally, chosen>>

-----------------------------------------------------------------------------
(* RunScanJob, in a goroutine of the pool.                                 *)

\* A slot of the pool, then the status is set, whatever it was.
Start(j) ==
    /\ Alive
    /\ others + Cardinality({k \in Jobs : pc[k] \in Slotted}) < PoolSize
    /\ Goto(j, "queued", "hosts")
    /\ status' = [status EXCEPT ![j] = "running"]
    /\ UNCHANGED <<envVars, hostVars, stop, wg, total, shown, tally, chosen>>

\* The hosts are selected again: the library may have changed since creation.
LoadHosts(j) ==
    /\ Alive
    /\ Goto(j, "hosts", "spawn")
    /\ chosen' = [chosen EXCEPT ![j] = HostSet(j)]
    /\ UNCHANGED <<envVars, hostVars, stop, wg, status, total, shown, tally>>

Workers(j) == {h \in Hosts : place[j][h] \in Active}
Waiting(j) == {h \in chosen[j] : place[j][h] = "todo"}

\* The loop blocks in sem when Concurrency workers are at work.  What the
\* queries of a worker will show, and Evaluate makes of it, is fixed here.
Spawn(j, h) ==
    /\ Alive
    /\ pc[j] = "spawn"
    /\ h \in Waiting(j) /\ \A g \in Waiting(j) : h =< g
    /\ Cardinality(Workers(j)) < Concurrency[j]
    /\ place' = [place EXCEPT ![j][h] = "snapshot"]
    /\ \E f \in Findings[j] : found' = [found EXCEPT ![j][h] = f]
    /\ lastScan' = [lastScan EXCEPT ![h] = j]
    /\ overlapped' = IF \E k \in Jobs \ {j} : place[k][h] \in Active
                     THEN overlapped \cup {h} ELSE overlapped \ {h}
    /\ UNCHANGED <<envVars, jobVars, stop, risk, snapshot, result, verdict>>

\* Mutants: the summary is written without wg.Wait; the run ends when the
\* total stated at creation has been processed.
FinishEarly(j) ==
    /\ Alive
    /\ Waiting(j) = {}
    /\ Goto(j, "spawn", "over")
    /\ status' = [status EXCEPT ![j] = "completed"]
    /\ shown' = [shown EXCEPT ![j] = tally[j]]
    /\ wg' = wg \ {j}
    /\ UNCHANGED <<envVars, hostVars, stop, total, tally, chosen>>

FinishAtTotal(j) ==
    /\ Alive
    /\ Waiting(j) = {} /\ Workers(j) = {} /\ tally[j].processed = total[j]
    /\ Goto(j, "spawn", "over")
    /\ status' = [status EXCEPT ![j] = "completed"]
    /\ shown' = [shown EXCEPT ![j] = tally[j]]
    /\ wg' = wg \ {j}
    /\ UNCHANGED <<envVars, hostVars, stop, total, tally, chosen>>

\* wg.Wait, then the summary; the slot and the wait group are released.
Finish(j) ==
    /\ Alive
    /\ Waiting(j) = {} /\ Workers(j) = {}
    /\ Goto(j, "spawn", "over")
    /\ status' = [status EXCEPT ![j] = "completed"]
    /\ shown' = [shown EXCEPT ![j] = tally[j]]
    /\ wg' = wg \ {j}
    /\ UNCHANGED <<envVars, hostVars, stop, total, tally, chosen>>

-----------------------------------------------------------------------------
(* scanHost, in a worker, and what its caller counts.                      *)

Move(j, h, from, to) ==
    /\ Alive
    /\ place[j][h] = from
    /\ place' = [place EXCEPT ![j][h] = to]

StoreSnapshot(j, h) ==
    /\ Move(j, h, "snapshot", "find")
    /\ snapshot' = [snapshot EXCEPT ![j] = @ \cup {h}]
    /\ UNCHANGED <<envVars, jobVars, stop, risk, found, result, verdict, lastScan, overlapped>>

\* FirstOrCreate: look for the row, then create or update it.
FindVerdict(j, h) ==
    /\ Move(j, h, "find", IF verdict[h][risk[j][h]] = NoJob THEN "insert" ELSE "update")
    /\ UNCHANGED <<envVars, jobVars, stop, risk, found, snapshot, result, verdict, lastScan, overlapped>>

AfterRisk(j, h) == IF risk[j][h] = NumRisks THEN "result" ELSE "find"
NextRisk(j, h) == risk' = [risk EXCEPT ![j][h] = @ + 1]

\* A row that another scan has created since violates uq_verdict: no effect.
InsertVerdict(j, h) ==
    /\ Move(j, h, "insert", AfterRisk(j, h))
    /\ NextRisk(j, h)
    /\ verdict' = IF verdict[h][risk[j][h]] = NoJob
                  THEN [verdict EXCEPT ![h][risk[j][h]] = j] ELSE verdict
    /\ UNCHANGED <<envVars, jobVars, stop, found, snapshot, result, lastScan, overlapped>>

\* Mutant: FirstOrCreate without Assign.
KeepVerdict(j, h) ==
    /\ Move(j, h, "update", AfterRisk(j, h))
    /\ NextRisk(j, h)
    /\ UNCHANGED <<envVars, jobVars, stop, found, snapshot, result, verdict, lastScan, overlapped>>

UpdateVerdict(j, h) ==
    /\ Move(j, h, "update", AfterRisk(j, h))
    /\ NextRisk(j, h)
    /\ verdict' = [verdict EXCEPT ![h][risk[j][h]] = j]
    /\ UNCHANGED <<envVars, jobVars, stop, found, snapshot, result, lastScan, overlapped>>

StoreResult(j, h) ==
    /\ Move(j, h, "result", "count")
    /\ result' = [result EXCEPT ![j] = @ \cup {h}]
    /\ UNCHANGED <<envVars, jobVars, stop, risk, found, snapshot, verdict, lastScan, overlapped>>

\* Mutant: the result is stored outside the context of the host.
TimeoutStoresResult(j, h) ==
    /\ \E p \in Writing : Move(j, h, p, "count")
    /\ result' = [result EXCEPT ![j] = @ \cup {h}]
    /\ UNCHANGED <<envVars, jobVars, stop, risk, found, snapshot, verdict, lastScan, overlapped>>

\* The 60 seconds of the host are over: the statement at hand and all that
\* follow fail, and the host is counted like any other.
HostTimeout(j, h) ==
    /\ \E p \in Writing : Move(j, h, p, "count")
    /\ UNCHANGED <<envVars, jobVars, stop, risk, found, snapshot, result, verdict, lastScan, overlapped>>

Added(j, h) ==
    [processed  |-> tally[j].processed + 1,
     suspicious |-> tally[j].suspicious + IF found[j][h] = {} THEN 0 ELSE 1]

\* Under mu: count, and every ProgressEvery hosts write the counts.
Count(j, h) ==
    /\ Move(j, h, "count", "done")
    /\ tally' = [tally EXCEPT ![j] = Added(j, h)]
    /\ shown' = IF \/ Added(j, h).processed % ProgressEvery = 0
                   \/ Added(j, h).processed = Cardinality(chosen[j])
                THEN [shown EXCEPT ![j] = Added(j, h)] ELSE shown
    /\ UNCHANGED <<envVars, stop, wg, pc, status, total, chosen, risk, found, snapshot,
                   result, verdict, lastScan, overlapped>>

-----------------------------------------------------------------------------
(* Stop requests, the trust library, the other runs, shutdown.             *)

StopRead(j) ==
    /\ server = "serving"
    /\ j \in Stoppable
    /\ stop[j] = "idle" /\ status[j] # "none"
    /\ stop' = [stop EXCEPT ![j] = IF status[j] \in Open THEN "write" ELSE "done"]
    /\ UNCHANGED <<envVars, jobVars, hostVars>>

\* Mutant: the status that a stopped batch gets.
StopCancels(j) ==
    /\ Alive
    /\ stop[j] = "write"
    /\ stop' = [stop EXCEPT ![j] = "done"]
    /\ status' = [status EXCEPT ![j] = "cancelled"]
    /\ UNCHANGED <<envVars, hostVars, wg, pc, total, shown, tally, chosen>>

StopWrite(j) ==
    /\ Alive
    /\ stop[j] = "write"
    /\ stop' = [stop EXCEPT ![j] = "done"]
    /\ status' = [status EXCEPT ![j] = "failed"]
    /\ UNCHANGED <<envVars, hostVars, wg, pc, total, shown, tally, chosen>>

\* ImportTrustManifest: hosts are created enabled (the column defaults to true),
\* and never disabled.  Nobody looks once all jobs have loaded theirs.
ImportHost(h) ==
    /\ server = "serving"
    /\ h \notin enabled
    /\ \E j \in Jobs : pc[j] \notin {"spawn", "over"}
    /\ enabled' = enabled \cup {h}
    /\ UNCHANGED <<server, others, jobVars, hostVars, stop>>

\* A single, batch or build run returns its slot.
OtherEnds ==
    /\ Alive
    /\ others > 0 /\ others' = others - 1
    /\ UNCHANGED <<server, enabled, jobVars, hostVars, stop>>

Handling(j) == pc[j] = "created" \/ stop[j] = "write"

\* SIGTERM: Shutdown accepts no request any more and waits for the handlers,
\* then Close waits for the wait group.  A crash, or a wait that takes more than its 60
\* seconds, is not an action: nothing follows it.
Shutdown ==
    /\ \/ server = "serving" /\ server' = "stopping"
       \/ /\ server = "stopping" /\ server' = "drained"
          /\ \A j \in Jobs : ~ Handling(j)
          /\ wg = {} /\ others = 0
    /\ UNCHANGED <<enabled, others, jobVars, hostVars, stop>>

-----------------------------------------------------------------------------
Run(j) ==
    \/ LoadHosts(j) \/ Finish(j)
    \/ \E h \in Hosts : Spawn(j, h)

Work(j, h) ==
    \/ StoreSnapshot(j, h)
    \/ FindVerdict(j, h) \/ InsertVerdict(j, h) \/ UpdateVerdict(j, h)
    \/ StoreResult(j, h) \/ HostTimeout(j, h) \/ Count(j, h)

Proceed(j) == Launch(j) \/ Run(j) \/ \E h \in Hosts : Work(j, h)

Next ==
    \/ \E j \in Jobs :
        \/ CreateJob(j) \/ Start(j) \/ Proceed(j)
        \/ StopRead(j) \/ StopWrite(j)
    \/ \E h \in Hosts : ImportHost(h)
    \/ OtherEnds \/ Shutdown

Spec == Init /\ [][Next]_vars

(* A request that was accepted and a run that can proceed do: queries and  *)
(* statements are bounded by the host's context.  The channel of the pool  *)
(* serves blocked goroutines in turn, hence strong fairness.               *)
Fairness == \A j \in Jobs : WF_vars(Proceed(j)) /\ SF_vars(Start(j))

FairSpec == Spec /\ Fairness

-----------------------------------------------------------------------------
(* Properties.                                                             *)

\* A run that is over has reported each host it loaded once, suspicious or
\* not, whatever its workers, timeouts and stop requests did; and never fewer
\* than creation announced, for the library only grows (scanner.go 85, 231-292).
CompletedAccounts ==
    \A j \in Jobs : pc[j] = "over" =>
        /\ shown[j].processed = Cardinality(chosen[j])
        /\ shown[j].suspicious = Cardinality({h \in chosen[j] : found[j][h] # {}})
        /\ shown[j].processed >= total[j]

\* A result row is the last thing stored for a host: whoever reads one finds
\* the snapshot it refers to, and a verdict for every risk type, although
\* errors of single statements are ignored and scans of the same host race
\* for the rows (scanner.go 442-530).
ResultIsWhole ==
    \A j \in Jobs : \A h \in result[j] :
        /\ h \in snapshot[j]
        /\ \A r \in Risks : verdict[h][r] # NoJob

\* dns_risk_verdict_latest shows the latest scan of a host once its result is
\* stored, unless that scan began while another was at the host: only then may
\* rows be mixed or older (scanner.go 463-475).
LatestUnlessOverlapped ==
    \A j \in Jobs : \A h \in result[j] \ overlapped :
        lastScan[h] = j => \A r \in Risks : verdict[h][r] = j

\* A server that has drained, without running into its timeouts, leaves no
\* job behind that looks as if it were still to come or running (server/main.go
\* 107-116, tasks.go 71-79).
DrainedLosesNothing == server = "drained" => \A j \in Jobs : status[j] \notin Open

\* A scan that was accepted is run to its end as long as the process lives,
\* although pool and semaphore are shared, the library changes under it and
\* the server is told to stop (scanner.go 98-106, 184-241).
ScansEnd == <>[](\A j \in Jobs : pc[j] \in {"none", "over"})
=============================================================================
