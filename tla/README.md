# dnsss in TLA+

dnsss measures domains: single-target and batch probes from several regions, a
library of trusted DNS records, a scanner that judges what it observes against
it, and a board that shows the anomalies. This directory specifies the parts of it
where several goroutines, processes or messages meet, and the decisions it takes on
data. Paths are relative to `src/`; `service/`, `httpapi/`, `bridge/`, `engine/` and
`risk/` are under `internal/`.

## 1. The system

Two programs share one MySQL database. `dnsss-server` serves the HTTP API,
runs the schedule loop and runs work in-process; `dnsss-worker` consumes two
Asynq queues in Redis. Each of them starts an MQTT bridge when a broker is
configured. Any number of `agent` programs probe from elsewhere and are reached
through the broker only. There is no lock, and no transaction, around anything
that more than one of them writes: single `UPDATE` statements are all the
atomicity there is.

| Component | State | Operations | Interacts with | Correct when |
|---|---|---|---|---|
| Batch engine (`service/batch.go`) | `batch_execution`, `batch_task`, result rows; per run two counters, a semaphore, a channel, a buffer | run, flush, progress update, stop check, finish, cancel | queue, requests (through the database only) | what is reported is what was stored; a stop takes effect soon; a run ends |
| Batch requests (`httpapi/batch.go`, `queue/`) | the same rows, the queue | create, rerun, stop, dispatch | engine | each accepted request is run to a verdict; a stop stays |
| Single execution (`service/tasks.go`, `scheduling.go`) | `execution`, `task`, region rows | run, persist a result, refresh the summary | bridges (region rows), dispatch | the verdict is the one the region rows support, and is reached |
| Execution dispatch (`httpapi/router.go`) | pool, queue | `CreateTask`, `dispatchSingle`, `RunDueSchedules` | single execution | one run per execution |
| Probe jobs (`service/probe.go`, `bridge/`, `cmd/agent`) | `probe_job`, lease, retry count, the agent's `seenJobs` | publish, apply a result, requeue, give up | broker, single execution | bounded retries, no result lost or replaced, jobs end |
| Agent registry (`service/probe.go`, `bridge/`, `cmd/agent`) | `probe_agent`, `node`, the broker's retained status | register, heartbeat, last will, reconnect, enable, disable | node selection, jobs | only live agents are chosen |
| Node selection (`service/scheduling.go`) | none (reads nodes) | `normalizeRegionCodes`, `getDefaultNode`, `getSingleExecutionNode` | single execution | the best usable node |
| Schedule loop (`service/tasks.go`) | `next_run_at`, `is_enabled` | scan due, enable, disable, edit, delete | dispatch | a due task runs once per occurrence; a disabled one stays quiet |
| Pool and shutdown (`service/tasks.go`) | pool slots, wait group | acquire, release, `Close` | every in-process run | slots are returned; shutdown is bounded |
| Scanner (`service/scanner.go`) | scan jobs, observations, verdicts, profiles | create, run, stop | trust library, risk engine | verdicts agree with the last scan |
| Trust library (`service/trust.go`) | domains, hosts, candidates, baselines, build jobs | import, discover, review, build, retry | scanner | reviewed records, and only they, form the baseline |
| Risk engine (`risk/`) | none | `Evaluate` | scanner | what answers as approved is normal, what does not answer is not |
| Probers, DNS client (`engine/`) | none | clean options, plan, run, trace | single and batch execution | options mean what was asked, evidence is kept |
| Batch input, metrics (`service/batch.go`) | daily metric rows | parse, aggregate | batch requests | every row is accounted for |
| Risk board, set analysis (`service/riskboard*.go`, `scan_reporting.go`) | a 30 s cache | read-only pages | stored rows | a failure is shown, the pages agree |
| Alerts, other lists, reports, HTTP layer, auth, config, seed | none | I/O, encoding | – | – |

The behaviours that are hard, and at which lines, are the hazards of
`PROJECT.json`.

## 2. Plan

Done: the batch engine with requests and queue (`BatchExecution`), single executions
implementing an abstract promise (`SingleExecution`, `ExecutionVerdict`), remote jobs
(`ProbeJob`), the scanner (`Scan`), the trust library (`TrustLibrary`), the schedule loop
(`Schedule`), the agent registry (`AgentLink`), and the decisions on data (`Rules` over
the modules of operators in section 3); proofs of every safety invariant a run checks, of
every action property, and of the safety part of the refinement (section 6).

Open, in order:

1. `Pool` – slots shared by single, batch, build and scan runs, and `Close`.
2. Redelivery of a single execution by the queue after a crash of its worker.

## 3. Modules and how they correspond to the code

`PROJECT.json` maps every definition to its lines. Common conventions: an action
is what happens between two points at which another goroutine, process or
message could observe or change something – a database statement, a channel
operation, an atomic counter, a publication. Local variables of a run appear
only if they survive such a point. Each `MC...` module gives the model values
for TLC; the specification modules know nothing of bounds except the constants
named `Max...` and those commented *bound*. Definitions commented *Mutant* are
plausible bugs of the definition that follows them and are not part of the
specification.

### BatchExecution

For each execution `e`: the request that creates it (`submitter`), a stop
request (`stopper`: read, then an unconditional write), the message or goroutine
that carries it (`delivery`), the main goroutine (`pc`), the worker goroutine of
each item, and the writer. An item is in exactly one `place`:

    todo -> probing -> probed -> sending -> channel -> buffer -> stored | lost
            (probe)   (doneCount) (successCount) (resultCh)      (CreateInBatches)

`InFlight` is the number of semaphore slots taken: a worker releases its slot
after it has sent its row. The writer's control points are its `select`
(`receive`: a row, the 500 ms tick, the closed channel), the full buffer, and
the two loads of the progress update. `CreateInBatches` never gets more than
`FlushSize` rows, hence is one transaction: all rows or none. `Crash` stands
for a dead process and for Asynq's task deadline, which cancels the context of
every statement; both lead to redelivery, `MaxRetry` times at most, then to the
archive. A run started in-process is never redelivered.

History variables: `late` (items submitted after the stop was recorded),
`outcome` (how the last attempt ended).

Abstracted: probes (an item passes or fails), latencies, texts, timestamps.
Left out: reads and single-row updates that fail; two attempts of the same
execution at once; deletion of a task; the error exits for tasks without
targets or regions, which creation refuses.

### ExecutionVerdict and SingleExecution

`ExecutionVerdict` is what a user is promised: each region reports once, then
one verdict is concluded from the reports, and neither changes.
`SingleExecution` has the deliveries that run `RunSingleExecution` over the
regions in order, the handlers that apply results of remote probes (one per
bridge and job: the MQTT client runs handlers concurrently), and
`refreshExecutionStatus` as three steps of either: read rows, write execution,
write task. `Init` is the state after `CreateTask` or `RunDueSchedules` has
dispatched the execution in-process; `HandlerDispatch` is the second dispatch
of the HTTP handler. The refinement maps a row that is not ended to an open
report and a status that is not final to an open verdict.

Left out: crash and redelivery of a delivery, requeues (see ProbeJob), failed
statements, edits of the task meanwhile. What an agent will answer is chosen
initially.

### ProbeJob

One job per region row: the dispatcher (create, publish, mark published), the
agent with its in-memory `seenJobs`, and in each bridge the result handlers and
the requeue loop (scan, then for each job: give up, or publish and mark). The
broker loses and duplicates: a publication without an error may reach nobody
(the ten-second wait in `PublishJob` is not an error when it expires), a
delivered message may stay, a result reaches any subset of the bridges.
In-flight messages are sets because copies are indistinguishable. The retry
limit 3 is the constant `RetryLimit`.

Left out: jobs with several steps (dispatch creates one), disabled agents, two
handlers of one bridge for the same job at once (two bridges show the same
races), the LIMIT of a scan, the other columns of a job.

### Scan

Scan jobs of one server: the request that creates a job (`CreateJob`, `Launch`), the
run (`Start`: a slot, then `running`; `LoadHosts`; the loop's `Spawn`; `Finish`) and one
worker per host. A worker is at a `place` between two of its statements:

    todo -> snapshot -> find -> insert | update -> ... -> result -> count -> done

`find` and the write after it are the two halves of `FirstOrCreate`, once per risk
type; an insert after another scan's insert violates `uq_verdict` and has no
effect. `HostTimeout` is the expired context of the host: all remaining statements
fail and the host is counted all the same, as a success. A verdict row is
represented by the job that wrote it, which determines its text. `Count` is the
critical section of `mu`, progress update included. `LimitOf` and the host set being
computed twice, at creation and in the run, are the code's; imports
(`ImportHost`) fall between the two. `Shutdown` waits for handlers, then for the
wait group; a crash, or a wait that exceeds its 60 seconds, is simply the end of a
behaviour, because nothing recovers a scan.

History variables: `lastScan`, `overlapped`. Abstracted: what a query returns (a set
of suspicious risk types is fixed when the worker starts), the texts. `scanHost`
never returns the status `error`, so `error_hosts` is 0 and `success_hosts` equals
`processed_hosts`; neither is a variable. Left out: failing reads, and monitor
profiles, which `RunDueMonitorProfiles` would run but nothing calls.

A stop request only writes the row. The run never reads it, contrary to the
comment at scanner.go:586: `Start` and `Finish` overwrite the stop, and a stop that
has read `running` may overwrite `completed`. The properties of the run hold
whatever a stop does.

### TrustLibrary

Users (one request each) and runs of one build job are *actors* with a control point
`pc` and local variables; each step is one statement. Import goes row by row: look for
the row, insert it or update it; discovery creates a batch, then candidates; a review,
single or of a whole batch, approves a host in four statements (delete the baseline,
insert the new one, mark the host, mark the records) and then recomputes the status of
the batch. A build job imports, discovers and, if asked to, approves chunk by chunk and
writes its progress after each. `FirstOrCreate` matches a row on all its columns: a row
that exists with another value is not found, and the insert violates the unique key
(`RefuseRow`), which ends the import. `RetryRead` and `RetryWrite` are the two halves of
`RetryTrustBuildJob`. A record is represented by the batch that discovered it.

History variables: `disputed` (hosts with overlapping or cut approvals), `mingled`
(batches likewise), `crowded` (two runs at once), `created`. The properties that need
them say when the code keeps its promise: it has no transaction that would keep it
always. Left out: the filters of requests, several environments in one library, failing
statements other than unique-key refusals, the counts shown as a summary. NS rows are
created with the names that are resolved; the run's first read and the update of its
status are one step; the wait group and the pool only delay a run.

### Schedule

One server: the minute (`now`), the ticker, the scan statement by statement (`Load`,
`ReadDue`, for each task build the execution, hand it over, advance `next_run_at`), the
requests, and the executions handed over, as far as they write the task: load, set
running, set the verdict, refresh the task. `Parses` and `NextOf` stand for the cron
library; an expression may not parse or never occur. `Crash` ends everything,
`Terminate` (SIGTERM) the loop: its context is cancelled between any two statements,
while the pool drains. History variables: `slot` (the `next_run_at` an execution was
started for), `usable`, `quiet`, `stray`, `cuts`. Left out: regions (SingleExecution
has them; a partial verdict is folded into the two others), a second server on the same
database, a task run at the same time as another in one slot of the pool.

### AgentLink

One agent, its broker and one bridge; time counts heartbeats of 30 s and messages are
handled within a period. The agent registers (two updates), connects, subscribes once,
beats, loses and regains its connection, dies or exits; the broker keeps the retained
status and owes the will of a connection that broke; the bridge's handlers run
concurrently, two updates each, and stamp a status with the time they handle it; an
administrator switches the agent (two updates). A row's heartbeat is its age, which
stops growing when it is too old for everybody. History variables: `silent`,
`replayed`, `lost`, `crossed`.

### Rules and the modules of operators

`Rules` is a machine with one step: given an input of some kind, compute what the code
computes. Its properties compare the results with what they are to mean, without the
code's steps. The operators are in

| Module | Code | Abstracted |
|---|---|---|
| `Ordering` | the sorts and filters (`sort.Slice`, `ORDER BY`, `WHERE`, `LIMIT`) of the others | a sort is given by the place each row gets; equal keys are told apart by ids |
| `NodeSelection` | regions of a task, default node, node of a region and mode | ids are numbers; a heartbeat is fresh, minutes old, or old; a region is never empty |
| `RiskRules` | risk catalog, `Evaluate` | names and addresses are model values, normalised already |
| `HostScan` | `RunQuery`'s outcomes, query plan of a host, observation, verdict | what happens to a query is given |
| `ProbeOptions` | `cleanSingleBatchOptions`, the probers' cleaning, DNS plans, time budgets | timeouts in tenths of a second |
| `DnsTrace` | `TraceResolutionPath`, `ExecuteDNS` | a name is its number of labels; an oracle answers; no value repeats in an answer |
| `BatchInput` | text and CSV rows, `ParseBatchInput`, daily metrics, percentiles | a value is a name and its trailing dots |
| `Manifest` | the line-by-line YAML reader, normalisation | a line is its indent, dash, key and value; empty lines and comments are left out, and none comes first |
| `ProbeReport` | results of the probers, API names of their fields, anomalies of the board | what a command saw is a record; stars beside a time are dropped by the parser |
| `RiskBoard` | events, overview, node distribution | no cache, time line, environment |
| `SetReport` | set analysis of scan results | hosts and risk types are numbers in the order of their names |

## 4. Runs

Deadlock is not checked (`CHECK_DEADLOCK FALSE`): in all
specifications the system stops when the work is done, and a crash or lost
message may legitimately end it early. That nothing waits for ever is what the
liveness properties say. A property that joins several names its parts; each part has
a comment of its own at its definition.

| Run | Instance | Shows |
|---|---|---|
| batch_pipeline | 1 execution, 3 items, 2 slots, buffer 2, 1 redelivery, 1 fault, fair | `BatchInv` (types, `PipelineInv`), `FinishedIsComplete`, `CountsAreTrue` (`ProgressIsSane`, `CancelledCountsMatchRows`, `FirstAttemptCountsMatchRows`), `StopIsPrompt`, `TaskAgrees`, `Settles` |
| batch_reruns | 2 executions of 1 item, symmetric | `TaskReflectsAnExecution` |
| single_remote | 1 delivery, 2 regions local or remote, 2 bridges | `VerdictInv` (types, `FinalVerdictIsTrue`), `ResultsAreFinal` |
| single_local | 1 delivery, 3 local regions, fair | `QuiescentSummary`, `KeepsPromise` (refinement, with liveness) |
| single_create | 2 deliveries of 2 local regions, fair | `AllRegionsEnd` |
| probe_requeue | 1 job, 2 bridges, retry limit 1, 1 restart, 1 crash, fair | `JobInv` (types, `RequeueInv`), `RetryBounded`, `GivesUpLast`, `CompletedHasResult`, `UnavailableIsFinal`, `JobSettles` |
| scan_jobs | 2 jobs over 2 hosts, one limited to 1 host; 1 risk type; an import, a stop, a shutdown, another run in the pool, fair | types, `CompletedAccounts`, `ResultIsWhole`, `LatestUnlessOverlapped`, `DrainedLosesNothing`, `ScansEnd` |
| trust_library | 2 domains, 3 hosts, one of them a name server; 1 user, 2 runs of a build job over 1 or 2 chunks, 3 batches, 1 crash, fair | `BatchesAgree` (types, `DecidedHasNoDraft`, `BatchStatusAgrees`), `BaselineIsReviewed` (`BaselineIsApproved`, `ApprovedHasBaseline`), `BuildProgress` (`BuildAccounts`, `ProgressKept`), `BuildSettles` |
| schedule | 1 task, 4 expressions (one that never occurs, one that does not parse), 3 minutes, 3 edits, 1 end of the server, fair | `OncePerSlot`, `DisabledStaysQuiet` (`QuietStaysDisabled`, `OneStrayExecution`), `StatusIsTrue` (types, `RunningHasRun`, `HandedOverEnds`), `ScheduleIsServed` (`DueIsServed`, `RunsEnd`) |
| agents | 1 agent with 2 starts, 2 handlers, 1 loss, 1 outage, 2 switches, graces 1 and 2, fair | `PresenceIsTrue` (types, `OnlineIsRecent`, `RowsAgree`, `ReadyIsSubscribed`), `AbsenceIsNoticed` (`GoneIsNoticed`, `DeathIsRecorded`) |
| rules | all inputs of `MCInputs`, about a million | `PlacementIsBest`, `HostIsJudged`, `ProbesAreSound`, `InputIsRead`, `BoardIsTrue`, `SetsAccount`, with their parts listed at the end of `Rules` |
| batch_dns_target | the same inputs | counterexample to `BatchDnsAsksTheTarget` |

Why these bounds. Three items and two slots are the least with a full group, a
partial group, an item waiting for a slot, a full buffer and a remainder for the
last flush; two executions are the least that interleave a rerun; a second
redelivery repeats the first. Two bridges show every race between processes that
share no lock; one job is enough because jobs share nothing but a bridge's scan,
whose entries are handled independently. With a retry limit of 1 every kind of
scan entry occurs (below, at and above the limit); the theorems of section 6
hold for the code's 3. Two scans of a common host are the least that race for a
verdict row; several risk types repeat the race per type, and the theorems of
section 6 hold for any number. Each job scans one host at a time there: workers of
one job meet only under `mu`, and a limit of one makes the loop wait for its
semaphore. Importing host 1 late makes the limited job's choice of host, and the
number of hosts of the other, differ between creation and run. Three regions have
every verdict, partial included, in more than one way.

Two runs and a user are the least with a retry that overlaps its predecessor while
somebody reviews by hand; two chunks the least whose progress can be lost between; at
most two actors are at work at a time, because a race needs two. Three minutes let an
occurrence be missed, found late and found again. Three edits are the least that
disable, enable and disable a task within one scan. Grace periods of one and two keep the
order of the code's 3 and 10 heartbeats; a restart needs two starts, crossing writers two
handlers or a handler beside a request.

The inputs of `rules`: two nodes with all attributes and three with fewer, two to three
regions; plans of up to four queries with every outcome of each; options below, at and
above each bound; DNS plans of up to two steps repeated twice; traces of up to four labels
with every set of silent servers, for a default of three hops instead of the code's eight, so
that there are names with more labels than that; up to four lines of text, three CSV records, 42 samples;
manifests of two items with two hosts; routes of up to three lines and of 19 to 21 hops, up
to six pings; boards of two single and three batch rows, of which two are looked at;
three scan results, of which two are looked at. Each bound lets the boundary in the code
(first and second of a kind, the limit, one beyond it) happen.

`CancelledCountsMatchRows` and `FirstAttemptCountsMatchRows` say exactly when the
counts agree with the table; after a redelivery they do not. `TaskAgrees` is limited to a
single execution because a rerun may finish first. `CompletedHasResult` is claimed only
while no handler has died between the two updates: that hazard is real and nothing in the
code repairs it. `QuiescentSummary` holds for local regions and fails as soon as a region
is remote (below).

### Where the code and its documentation, or itself, disagree

The run `batch_dns_target` ends with a counterexample: `cleanSingleBatchOptions`
(service/batch.go:197) plans for `example.com`, the plan is stored with its names, and the
prober keeps the names of a stored plan, so every DNS probe of a batch asks for
`example.com`. engine/prober/dns_test.go:19 requires a plan to ask for its target.

The next six are kept as definitions that no run lists; adding one to the `.cfg` of the
run named shows its counterexample.

| Definition | Run | Statement | What happens |
|---|---|---|---|
| `RowsMatchExpected` | batch_pipeline | README.md:84, completed == expected == DB rows | a redelivered attempt inserts its rows beside those already stored |
| `StopIsFinal` | batch_pipeline | README.md:84, cancelled immediately after stop | a stop between the engine's read and its update to running is shown, then undone |
| `QuiescentSummary` | single_remote | scheduling.go:330, the status summarises the regions | the run's stale summary overwrites the bridge's final one; the execution shows running for ever |
| `RunByOneDelivery` | single_create | router.go:171 and :27, the queue or else in-process | CreateTask dispatches in-process and the handler dispatches again |
| `BackfillIdempotent` | probe_requeue | cmd/server/main.go:83, back-filling is idempotent | two bridges applying different results replace a recorded one |
| `ImportUpserts` | trust_library | trust.go:311 and :352, an import upserts | a row that exists with other values is inserted again and refused |

Met while modelling, each visible in the definitions named by `map`:

* Jobs and agents. `bridge.go:3` and `:165` say that a job is requeued at most three times;
  with two bridges it may be four, and `RetryBounded` is the bound that holds. An agent
  that exits in order logs that its last will announces it (cmd/agent/main.go:127), but
  `Disconnect` discards the will: only ageing tells. The node of a disabled agent is set
  online by its next heartbeat.
* Schedule. An edited expression is neither checked nor is `next_run_at` computed anew; one
  that does not parse, or never occurs, is executed at every scan. Nothing runs
  scheduled batch tasks or monitor profiles (`RunDueMonitorProfiles` has no caller).
* Trust library. Retrying a build job that has approved a host fails at the import of that
  host, because its row no longer equals the one to be created. Columns that default to
  true store TRUE when a request says false (`auto_approve`, `enabled`). A job for the lab
  environment imports domains of prod. Bare hosts under `key_hosts` are dropped, and fields of an item
  that follow its `key_hosts` go to its last host.
* Metrics. `AggregateDailyMetrics` scans two queries into one slice (batch.go:828): the groups
  of single executions are lost.
* Scan. A host that answers exactly as approved may be reported all the same
  (`ApprovedIsNormal` names each case): its TTLs are held to the bounds of its other
  addresses, of both types, so an address approved without bounds gets some; the approved
  name servers are those of all NS records, the observed ones those of the zone only; every
  additional address counts as one of a name server when it is seen, but not when it is
  approved. Four of the catalog's risks (zone transfer, latency, trace and route) are never
  raised by a scan, which observes nothing of the kind. Failures after the first query lose
  their kind. Severity and confidence of a risk type are tables kept by hand.
* DNS. The fields of an SOA are read from its last occurrence (prober/dns.go:343);
  `random_label` is ignored without a plan; a trace takes labels off at the left while the path
  leads down, so that one with hops for every label ends broken or short of the authority
  (`TraceFallsShort`), whichever servers answer.
* Time. The context of the caller cuts probes short: the timeout plus one second, or 11 s,
  for a single probe (tasks.go:344), 30 s in a batch (batch.go:498), 60 s at an agent, although
  ping waits its timeout per packet and traceroute per hop and query.
* Board. Rows that are still pending or running appear as failures of high severity
  (riskboard.go:258-278 filters no status) and count against the success rate of the last
  24 hours. The loss mtr measures never reaches the board; the label for HTTP 5xx is
  unreachable, since these rows have failed already; the page's protocol filter `dns` always shows
  nothing; one page counts regions by name, the other by code, and names need not differ.
* Routes. An IPv6 address in a traceroute line is not recognised as one; an mtr that does
  not reach its target may name `???` as its last node, with latency 0.
* Sets. The difference of three sets is the first without the intersection of all. A host's
  row shows its newest result only, which may not have the risk it was found for.

## 5. Fairness

`BatchExecution`: weak fairness of a handler that has begun to create or
dispatch, of taking a delivery, of the main goroutine, the writer and each
worker (the Go scheduler runs runnable goroutines; probes have a 30 s timeout;
a queue with a live worker delivers). A blocked send or semaphore is simply not
enabled, so nothing is assumed about who gets a slot. Stops, reruns and faults
are never forced.

`SingleExecution`: weak fairness of each delivery that has been dispatched and of
each handler once it has started; results need not arrive.

`ProbeJob`: weak fairness of dispatch, of time, and of the requeue loop's steps;
strong fairness of the successful publication of a requeue, because a bridge
reconnects automatically, so a publication that is tried again and again is
accepted again and again. `JobSettles` needs it: with a bridge that is never
connected when it tries, the job is scanned for ever. Nothing is assumed about
the agent or delivery: the give-up ends the job.

`Scan`: weak fairness of each accepted job's handler, run and workers together (their
statements are bounded by contexts), strong fairness of getting a slot (a Go
channel serves blocked senders in turn). Stops, imports, other runs and the
shutdown are never forced; `ScansEnd` needs none of them. A run in the pool that
never ends holds one slot only, so another remains.

`TrustLibrary`: weak fairness of each run of the build job (statements and queries end, and
the pool gives it a slot). Users need not finish anything, and a crash ends what was
running.

`Schedule`: weak fairness of the clock, of the scan (one goroutine, whose statements end)
and, for each task, of its executions together, which run in the pool. Requests and ends of
the server are never forced.

`AgentLink`: weak fairness of the clock, of handlers and requests that have begun, of the
broker (it publishes the will, and the bridge reconnects) and of the agent's own steps, a
reconnection included. Losses, deaths, outages and switches are never forced; `GoneIsNoticed`
needs the clock only.

`Rules` has no fairness and no liveness property.

## 6. Proofs

The modules `...Proofs` are checked by TLAPS, for every value of the constants that
satisfies the assumptions named in the modules: positive sizes and limits, finite sets of
bridges, handlers and jobs, a `NextOf` that only leads forward, node tables with one id per
node. No theorem assumes anything about the number of crashes, losses, edits or retries
beyond its being a number. The theorems, with the properties they state, are
listed in `PROJECT.json`; what follows is the argument of each.

* `BatchExecutionProofs`: the inductive invariant of `InductiveInvariant` and `NothingLost` is
  `BatchInv == TypeOK /\ PipelineInv`.
  `FinishedIsComplete` alone is not inductive: that a finished run has stored every item
  depends on where the items were when the channel was closed, on the writer having emptied
  channel and buffer before it reports done, and on a lost item having set `writeErr`.
  `PipelineInv` states this control point by control point and is preserved by
  every step. `ExecInv`, on top of it and for each execution, has five parts: `FlowInv`, which
  control points and statuses go together over the attempts; `CounterInv`, which items the two
  counters have counted; `TableInv`, what attempts have left in the table; `ShownInv`, what
  the row of the execution shows, and that it is the table after a cancellation and after a first
  attempt; `LateInv`, how many items can pass between two looks at the stop, which is arithmetic
  modulo the group size. From it follow
  `CountsShownAreTrue` and `StopsArePrompt`. `TaskFollowsItsExecution` assumes what
  `TaskAgrees` needs, a task with a single execution (of two, the older may finish last);
  `TaskShowsSomeVerdict` needs one execution at least.
* `SingleExecutionProofs`: `IInv == TypeOK /\ RowInv /\ SummaryInv /\ FinalVerdictIsTrue`. `RowInv`
  follows a region from the rows the run has not come to, over the one it is at, to those that
  have a local result or are in the hands of the bridges; `SummaryInv` says of every actor between
  the read of the rows and the two writes that a final summary it has computed is still supported. Theorems
  `VerdictsAreTrue` and `ResultsStay` assume `OneDelivery` (`Runners = {First}`), the rule
  router.go:171 and :27 state; under two deliveries, which `CreateTask` and its handler make,
  both runs write every row and a verdict need not be the one the rows support.
  `SummaryAtRest` and `PromiseIsKept` also assume `NoBridges` (`Bridges = {}`): with a bridge
  the stale summary of section 4 breaks them. `PromiseIsKept` is the safety part of the
  refinement: the initial states and every step of `SingleExecution` map to those of
  `ExecutionVerdict`, or to a stutter. The set of transports is free in all of them.
* `ProbeJobProofs`: `IInv == TypeOK /\ RequeueInv /\ GivesUpLast /\ UnavailableInv /\ ResultInv`.
  The bound on
  `retryCount` is not inductive because a bridge increments after it has decided.
  `RequeueInv` adds the bridges that have decided and not yet counted,
  `AboutToRequeue`: while the count is below the limit nothing needs saying; once it
  has reached it no bridge can join the set, and each that leaves pays its one
  increment. Theorems: `RequeuesCounted`, `RequeuesBounded` (retryCount is at most
  RetryLimit - 1 + |Bridges|, so exactly the documented limit with one bridge),
  `GivesUpOnlyAtLimit`. `UnavailableInv` says of a job whose dispatcher has not
  published it, or failed to, that no message, scan or handler knows of it; from it
  follows `UnavailableStays`. `ResultInv` follows a result from the agent over a handler's two
  updates: `CompletedJobsAnswered`, as long as no handler has died between them.
* `ScanProofs`: `IInv == TypeOK /\ WorkerInv /\ LatestInv /\ LifeInv /\ AccountInv`.
  `ResultIsWhole` needs
  `WorkerInv`: how many verdicts a worker has dealt with at each of its places, and
  that no statement of any scan removes a row. `LatestUnlessOverlapped` needs
  `LatestInv`: while a host is not `overlapped`, only its last scan is active there,
  finds no row that appears under its hands, and owns all verdicts up to its risk
  index. `LifeInv` ties control points, status and wait group together, so that an
  empty wait group without active handlers means that no job is open. `AccountInv` counts the
  workers that are done against `processed`, and the hosts the run selected against those
  selected at creation, which imports only ever add to. Theorems:
  `TypeCorrect`, `ResultsAreWhole`, `LatestIsShown`, `DrainIsClean`, `RunsAccount`, for any number
  of jobs, hosts, risk types and slots.
* `TrustLibraryProofs`: `IInv == TypeOK /\ ActorInv /\ BatchInv /\ AgreeInv /\ BaselineInv`.
  `ActorInv` says what an actor at a control point has in its local variables; `BatchInv`
  relates batches, records and the counts taken of them; `AgreeInv` says who still has to
  write the status of a batch that does not agree with its records, unless reviews of it
  `mingled`; `BaselineInv` follows an approval through delete, insert and the two updates
  while its host is not `disputed`. Theorems `BatchesAlwaysAgree` and `BaselinesAreReviewed`. `BuildInv`
  (`JobAt`, `RunAt`, `AloneAt`) relates the row of the build job to its runs: none claims more hosts
  than were created, and a run that is the only one to have begun claims them all; it gives `BuildProgresses`,
  whose second half is an action property.
* `ScheduleProofs`: `IInv == TypeOK /\ ScanInv /\ RunInv /\ QuietInv /\ SlotInv`. `ExecutedOncePerSlot`
  needs `SlotInv`: unless a server ended in between, `next_run_at` of an expression that recurs is
  later than every scan that executed the task, but for the task the scan has in its hands, and
  so is the copy of it a scan has read. `DisabledTasksStayQuiet` needs `StrayIsRead`: a
  disabled task has had its one stray execution only if the scan has no copy of it left.
  `StatusOfTasks` needs `RunInv`, which relates the status of a task to its executions, also
  when it is deleted or they have been summarised.
* `AgentLinkProofs`: `IInv == TypeOK /\ HandlerInv /\ RecentInv /\ RowsInv /\ ReadyIsSubscribed`,
  theorem `Presence`. `RecentInv` says that the node's heartbeat is no younger than what gave rise
  to it, a beat of the agent or the replay of a retained one; `RowsInv` says for a single writer between its two
  updates which of the two rows has the new value already.
* `RulesProofs`: `IInv` says that a result is what the operators give; the theorems rest on
  lemmas about the operators, for tables, plans and names of any size. `PlacementsAreBest`: a
  sort by a key returns each element once and in order (`InOrderSorts`), and the filters and
  fallbacks of the selection amount to one ordering (`SelectionRanks`). `ProbesAreAlwaysSound`: what
  is cleaned twice is cleaned once (`StoredIsUsed`, `PlansAlike`), where a trace is at each hop
  (`TraceEnds`), what more queries add to the evidence (`EvidenceGrows`, `TransferHasZone`).
  `HostsAreAlwaysJudged`: what the results of a scan add up to (`SnapshotShows`: the first failure,
  with its kind only if it was the first result) and which rules an observation that equals the
  approved records can meet (`ApprovedAddresses`, `ApprovedNames`, `ApprovedGlue`,
  `ApprovedAnswers`). `RulesAssumption` says what the code's types, decoders and unique keys grant of
  inputs (numbers where there are numbers, ids that tell nodes apart, finite tables).
  - `InputIsAlwaysRead`: the rows of a text or of the chosen CSV column are kept in their order
    (`KeptIs`, `PlacesAscend`), each of them valid, invalid or a duplicate of an earlier one. A
    manifest is followed line by line from item to item (`ManifestIsReadBack`); `Written` is the
    form documented at service/trust.go:107, with any number of items and hosts. `ManifestNormal` says what
    normalisation makes of the items that were read. A percentile is one of the day's samples.
  - `SetsAlwaysAccount`: `OperationsAre` relates the four operations to the sets of hosts that have
    a risk, for any list of risks asked for; pages put together show each element once.
  - `BoardIsAlwaysTrue`: `ReportShown` follows, for each protocol, what a command saw over the
    fields that are stored and the names the board reads them by to a severity; an average has a
    sample that is no greater. `LookedIs` and `EventsAre` say which rows become events, and
    `BoardTold` that they are listed latest first. Counts by protocol and by severity add up
    (`SharesAdd`), and the two pages agree (`PagesAgree`) because the events of both come from
    the same rows and a region has one name (`SourceIs`, `NamesTell`). It assumes what the unique
    index on the code of a region grants.

Facts about data of any size are proved by the least counterexample (`LeastNumber`), because
the library's induction theorems take an operator as a parameter, which the provers used here
cannot instantiate.

Proving corrected the model in places that no instance had shown: `ApprovedIsNormal` was stated
too strongly, a ttl of 0 stood for the absence of a bound, which in the code is a null pointer;
`TraceFallsShort` was wrong for a request of 0 hops and a name of more labels than the default; two CASE
expressions (`NamedLevel`, `ReadLine`) had overlapping guards; an empty CSV file had no place in
`CsvIsOneColumn`; `NormalManifest` did not say that a host without a name is dropped; and what commands can have
seen was implicit: a ping has sent something, and a traceroute line with an address has a time.
Sorts and filters were written with `SelectSeq`, `SortSeq` and folds, whose operator arguments no prover can
expand; `Ordering` gives them by places instead.

Only model-checked:

* All liveness: `Settles`, `AllRegionsEnd`, `JobSettles`, `ScansEnd`, `BuildSettles`,
  `ScheduleIsServed`, `AbsenceIsNoticed`, and the liveness of `KeepsPromise`. It is out of the
  prover's reach, as are statements with ENABLED and modules with RECURSIVE operators, of which
  there are none here.
* The counterexamples of section 4.

## 7. Not modelled

The components marked `not_modelled` in `PROJECT.json`, each with its reason: HTTP routing,
authentication and encoding, documents, configuration, migrations and seed are I/O or
presentation; passive alerts are demonstration data. The packets and commands of the probers
are represented by what they saw. Of the modelled components, the notes in `PROJECT.json` and
section 3 say what is left out; the pool's own bookkeeping and the redelivery of single
executions are still to come (section 2). The database is assumed to answer and to make each
statement atomic.
