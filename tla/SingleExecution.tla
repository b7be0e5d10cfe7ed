-------------------------- MODULE SingleExecution --------------------------
(***************************************************************************)
(* One execution of a single-target probe task: the deliveries that run it *)
(* (Service.RunSingleExecution), the bridge processes that apply the       *)
(* results of remote probes (Service.ApplyProbeJobResult), and the status  *)
(* summary both of them write (Service.refreshExecutionStatus).            *)
(*                                                                         *)
(* An actor is a delivery <<a>> or the handling of the result of a's job   *)
(* for region r by bridge b, <<b, a, r>>: the MQTT client runs every       *)
(* message handler in a goroutine of its own (SetOrderMatters(false)).     *)
(*                                                                         *)
(* Abstracted: what is probed, node choice (a region's node is local or    *)
(* remote), latencies and details.  Result messages may be lost.  Database *)
(* reads and single updates succeed.                                       *)
(***************************************************************************)
EXTENDS Integers, FiniteSets

CONSTANTS
    Runners,        \* deliveries of the execution to RunSingleExecution
    First, Second,  \* the delivery by the service, the one by the HTTP handler
    Bridges,        \* processes with a bridge: the server, and each worker
    NumRegions,     \* rows of the execution
    Origins,        \* who created it: "create" (HTTP) or "schedule"
    Transports      \* transports of the nodes that may be chosen

ASSUME SingleAssumption ==
    /\ NumRegions \in Nat \ {0}
    /\ First \in Runners /\ Second \in Runners
    /\ Origins \subseteq {"create", "schedule"}
    /\ Transports \subseteq {"local", "mqtt"}

Regions == 1..NumRegions
Jobs == Runners \X Regions
Deliveries == {<<a>> : a \in Runners}
Appliers == {<<b, j[1], j[2]>> : b \in Bridges, j \in Jobs}
Actors == Deliveries \cup Appliers

VARIABLES
    row,            \* region -> execution_region.status
    execStatus,     \* execution.status
    taskStatus,     \* task.status
    job,            \* <<a, r>> -> probe_job.status
    report,         \* <<a, r>> -> what the agent answers
    handler,        \* the HTTP create handler: "dispatching" or "done"
    dispatched,     \* deliveries handed to a pool or to the queue
    pc,             \* actor -> control point
    next,           \* delivery -> index of the row it is at
    loaded,         \* delivery -> row statuses as loaded
    summary         \* actor -> verdict it has computed and not yet written

vars == <<row, execStatus, taskStatus, job, report, handler, dispatched, pc, next, loaded, summary>>

Final == {"success", "partial", "failed"}
Ended == {"success", "failed"}
RowStatuses == {"pending", "running", "success", "failed"}
Points == {"idle", "markExec", "markTask", "load", "rows", "local", "mqtt", "published",
           "complete", "persist", "refresh", "refreshExec", "refreshTask", "done"}

TypeOK ==
    /\ row \in [Regions -> RowStatuses]
    /\ execStatus \in Final \cup {"pending", "running"}
    /\ taskStatus \in Final \cup {"pending", "running"}
    /\ job \in [Jobs -> {"none", "queued", "published", "completed"}]
    /\ report \in [Jobs -> Ended]
    /\ handler \in {"dispatching", "done"}
    /\ dispatched \subseteq Runners
    /\ pc \in [Actors -> Points]
    /\ next \in [Deliveries -> 1..(NumRegions + 1)]
    /\ loaded \in [Deliveries -> [Regions -> RowStatuses]]
    /\ summary \in [Actors -> Final \cup {"running"}]

\* The execution and its rows exist; CreateTask or RunDueSchedules has handed
\* it to the in-process pool.  What an agent will answer is fixed beforehand.
Init ==
    /\ row = [r \in Regions |-> "pending"]
    /\ execStatus = "pending"
    /\ taskStatus = "pending"
    /\ job = [j \in Jobs |-> "none"]
    /\ report \in [Jobs -> Ended]
    /\ \E origin \in Origins : handler = IF origin = "create" THEN "dispatching" ELSE "done"
    /\ dispatched = {First}
    /\ pc = [a \in Actors |-> "idle"]
    /\ next = [d \in Deliveries |-> 1]
    /\ loaded = [d \in Deliveries |-> [r \in Regions |-> "pending"]]
    /\ summary = [a \in Actors |-> "running"]

Goto(a, from, to) == pc[a] = from /\ pc' = [pc EXCEPT ![a] = to]

\* The create handler calls dispatchSingle for the execution CreateTask has
\* just dispatched: to the queue, or in-process a second time.
HandlerDispatch ==
    /\ handler = "dispatching"
    /\ handler' = "done"
    /\ dispatched' = dispatched \cup {Second}
    /\ UNCHANGED <<row, execStatus, taskStatus, job, report, pc, next, loaded, summary>>

-----------------------------------------------------------------------------
(* RunSingleExecution by delivery d = <<a>>.                               *)

Start(d) ==
    /\ d[1] \in dispatched
    /\ Goto(d, "idle", "markExec")
    /\ UNCHANGED <<row, execStatus, taskStatus, job, report, handler, dispatched, next, loaded, summary>>

MarkExecRunning(d) ==
    /\ Goto(d, "markExec", "markTask")
    /\ execStatus' = "running"
    /\ UNCHANGED <<row, taskStatus, job, report, handler, dispatched, next, loaded, summary>>

MarkTaskRunning(d) ==
    /\ Goto(d, "markTask", "load")
    /\ taskStatus' = "running"
    /\ UNCHANGED <<row, execStatus, job, report, handler, dispatched, next, loaded, summary>>

LoadRows(d) ==
    /\ Goto(d, "load", "rows")
    /\ loaded' = [loaded EXCEPT ![d] = row]
    /\ UNCHANGED <<row, execStatus, taskStatus, job, report, handler, dispatched, next, summary>>

AtRow(d) == next[d] \in Regions
NextRow(d) == next' = [next EXCEPT ![d] = @ + 1]

\* Mutant: a row is marked running before it is looked at.
SkipMarkedRow(d) ==
    /\ AtRow(d)
    /\ loaded[d][next[d]] = "success"
    /\ Goto(d, "rows", "rows")
    /\ row' = [row EXCEPT ![next[d]] = "running"]
    /\ NextRow(d)
    /\ UNCHANGED <<execStatus, taskStatus, job, report, handler, dispatched, loaded, summary>>

\* A row that had already succeeded when the rows were loaded is skipped.
SkipRow(d) ==
    /\ AtRow(d)
    /\ loaded[d][next[d]] = "success"
    /\ Goto(d, "rows", "rows")
    /\ NextRow(d)
    /\ UNCHANGED <<row, execStatus, taskStatus, job, report, handler, dispatched, loaded, summary>>

BeginRow(d) ==
    /\ AtRow(d)
    /\ loaded[d][next[d]] # "success"
    /\ \E transport \in Transports : Goto(d, "rows", transport)
    /\ row' = [row EXCEPT ![next[d]] = "running"]
    /\ UNCHANGED <<execStatus, taskStatus, job, report, handler, dispatched, next, loaded, summary>>

\* executeProtocol and persistRegionResult.
LocalResult(d) ==
    /\ Goto(d, "local", "rows")
    /\ \E v \in Ended : row' = [row EXCEPT ![next[d]] = v]
    /\ NextRow(d)
    /\ UNCHANGED <<execStatus, taskStatus, job, report, handler, dispatched, loaded, summary>>

\* dispatchSingleToAgent finds no online agent or cannot publish.
AgentUnavailable(d) ==
    /\ Goto(d, "mqtt", "rows")
    /\ row' = [row EXCEPT ![next[d]] = "failed"]
    /\ NextRow(d)
    /\ UNCHANGED <<execStatus, taskStatus, job, report, handler, dispatched, loaded, summary>>

\* Mutant: a publication that times out counts as a failure although the
\* message is on its way.
PublishTimesOut(d) ==
    /\ Goto(d, "mqtt", "mqtt")
    /\ job' = [job EXCEPT ![<<d[1], next[d]>>] = "queued"]
    /\ UNCHANGED <<row, execStatus, taskStatus, report, handler, dispatched, next, loaded, summary>>

\* The job is published before its status says so.
PublishJob(d) ==
    /\ Goto(d, "mqtt", "published")
    /\ job' = [job EXCEPT ![<<d[1], next[d]>>] = "queued"]
    /\ UNCHANGED <<row, execStatus, taskStatus, report, handler, dispatched, next, loaded, summary>>

MarkPublished(d) ==
    /\ Goto(d, "published", "rows")
    /\ job' = [job EXCEPT ![<<d[1], next[d]>>] = "published"]
    /\ NextRow(d)
    /\ UNCHANGED <<row, execStatus, taskStatus, report, handler, dispatched, loaded, summary>>

\* Mutant: the run ends without refreshing the summary.
RowsDoneNoRefresh(d) ==
    /\ ~ AtRow(d)
    /\ Goto(d, "rows", "done")
    /\ UNCHANGED <<row, execStatus, taskStatus, job, report, handler, dispatched, next, loaded, summary>>

RowsDone(d) ==
    /\ ~ AtRow(d)
    /\ Goto(d, "rows", "refresh")
    /\ UNCHANGED <<row, execStatus, taskStatus, job, report, handler, dispatched, next, loaded, summary>>

-----------------------------------------------------------------------------
(* ApplyProbeJobResult by p = <<b, a, r>>.                                 *)

JobOf(p) == <<p[2], p[3]>>

\* A completed job is left alone; the check and the update are two queries.
ReceiveResult(p) ==
    /\ job[JobOf(p)] # "none"
    /\ Goto(p, "idle", IF job[JobOf(p)] = "completed" THEN "done" ELSE "complete")
    /\ UNCHANGED <<row, execStatus, taskStatus, job, report, handler, dispatched, next, loaded, summary>>

CompleteJob(p) ==
    /\ Goto(p, "complete", "persist")
    /\ job' = [job EXCEPT ![JobOf(p)] = "completed"]
    /\ UNCHANGED <<row, execStatus, taskStatus, report, handler, dispatched, next, loaded, summary>>

\* Mutant: the status of the job is written to the region row.
PersistJobStatus(p) ==
    /\ Goto(p, "persist", "refresh")
    /\ row' = [row EXCEPT ![p[3]] = job[JobOf(p)]]
    /\ UNCHANGED <<execStatus, taskStatus, job, report, handler, dispatched, next, loaded, summary>>

PersistResult(p) ==
    /\ Goto(p, "persist", "refresh")
    /\ row' = [row EXCEPT ![p[3]] = report[JobOf(p)]]
    /\ UNCHANGED <<execStatus, taskStatus, job, report, handler, dispatched, next, loaded, summary>>

-----------------------------------------------------------------------------
(* refreshExecutionStatus by either kind of actor: read the rows, write    *)
(* the execution, write the task, without a transaction.                   *)

\* Mutants: pending regions are not counted as open; one success is enough.
SummaryIgnoresPending ==
    IF \E r \in Regions : row[r] = "running" THEN "running"
    ELSE IF \A r \in Regions : row[r] = "success" THEN "success"
    ELSE IF \E r \in Regions : row[r] = "success" THEN "partial"
    ELSE "failed"

SummaryAnySuccess ==
    IF \E r \in Regions : row[r] \in {"pending", "running"} THEN "running"
    ELSE IF \E r \in Regions : row[r] = "success" THEN "success"
    ELSE "failed"

Summary ==
    IF \E r \in Regions : row[r] \in {"pending", "running"} THEN "running"
    ELSE IF \A r \in Regions : row[r] = "success" THEN "success"
    ELSE IF \E r \in Regions : row[r] = "success" THEN "partial"
    ELSE "failed"

RefreshRead(a) ==
    /\ Goto(a, "refresh", "refreshExec")
    /\ summary' = [summary EXCEPT ![a] = Summary]
    /\ UNCHANGED <<row, execStatus, taskStatus, job, report, handler, dispatched, next, loaded>>

RefreshExec(a) ==
    /\ Goto(a, "refreshExec", "refreshTask")
    /\ execStatus' = summary[a]
    /\ UNCHANGED <<row, taskStatus, job, report, handler, dispatched, next, loaded, summary>>

RefreshTask(a) ==
    /\ Goto(a, "refreshTask", "done")
    /\ taskStatus' = summary[a]
    /\ UNCHANGED <<row, execStatus, job, report, handler, dispatched, next, loaded, summary>>

-----------------------------------------------------------------------------
Run(d) ==
    \/ Start(d) \/ MarkExecRunning(d) \/ MarkTaskRunning(d) \/ LoadRows(d)
    \/ SkipRow(d) \/ BeginRow(d) \/ LocalResult(d)
    \/ AgentUnavailable(d) \/ PublishJob(d) \/ MarkPublished(d) \/ RowsDone(d)

Apply(p) == CompleteJob(p) \/ PersistResult(p)

Refresh(a) == RefreshRead(a) \/ RefreshExec(a) \/ RefreshTask(a)

Next ==
    \/ HandlerDispatch
    \/ \E d \in Deliveries : Run(d)
    \/ \E p \in Appliers : ReceiveResult(p) \/ Apply(p)
    \/ \E a \in Actors : Refresh(a)

Spec == Init /\ [][Next]_vars

(* A dispatched delivery and a result handler that has started run to      *)
(* their end; a result need not arrive.                                    *)
Fairness ==
    /\ WF_vars(HandlerDispatch)
    /\ \A d \in Deliveries : WF_vars(Run(d) \/ Refresh(d))
    /\ \A p \in Appliers : WF_vars(Apply(p) \/ Refresh(p))

FairSpec == Spec /\ Fairness

-----------------------------------------------------------------------------
(* Properties.                                                             *)

\* The region rows support the verdict v.
Supports(v) ==
    /\ \A r \in Regions : row[r] \in Ended
    /\ v = "success" <=> \A r \in Regions : row[r] = "success"
    /\ v = "failed" <=> \A r \in Regions : row[r] = "failed"

\* A final verdict, once shown, is the one the region rows support: no
\* execution is declared over while a region is pending or running, although
\* rows are written by the run and by the bridges (scheduling.go 343-383).
FinalVerdictIsTrue ==
    /\ execStatus \in Final => Supports(execStatus)
    /\ taskStatus \in Final => Supports(taskStatus)

\* Every variable has its type, and what is shown is true (scheduling.go 343-383).
VerdictInv == TypeOK /\ FinalVerdictIsTrue

\* With a single delivery a region's result is final: neither a second bridge
\* nor the run itself replaces it (probe.go 297-343, tasks.go 319-335).
ResultsAreFinal ==
    [][\A r \in Regions : row[r] \in Ended => row'[r] = row[r]]_vars

\* When nobody is at work any more and every region has its result, execution
\* and task show the summary of the rows (scheduling.go:330-331).
Quiet == (\A a \in Actors : pc[a] \in {"idle", "done"}) /\ (\A r \in Regions : row[r] \in Ended)
QuiescentSummary ==
    Quiet => execStatus \in Final /\ Supports(execStatus) /\ taskStatus = execStatus

\* Whatever deliveries run the local regions of an execution, in whatever
\* interleaving, every region is left with a result: a row that one of them
\* has set back to running is finished by it (tasks.go 304-336).
AllRegionsEnd == <>[](\A r \in Regions : row[r] \in Ended)

\* router.go:171 and :27: Asynq when Redis is configured, otherwise
\* in-process.  An execution is run by one delivery.
RunByOneDelivery == Cardinality({d \in Deliveries : pc[d] # "idle"}) =< 1

\* The execution implements the promise of ExecutionVerdict: rows that are not
\* ended are open results, and statuses that are not final an open verdict.
V == INSTANCE ExecutionVerdict WITH
        result  <- [r \in Regions |-> IF row[r] \in Ended THEN row[r] ELSE "open"],
        verdict <- IF execStatus \in Final THEN execStatus ELSE "open"

KeepsPromise == V!FairPromise
=============================================================================
