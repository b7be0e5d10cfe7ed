------------------------------ MODULE ProbeJob ------------------------------
(***************************************************************************)
(* Jobs of remote probes: a run creates and publishes a job                *)
(* (Service.dispatchSingleToAgent), the agent executes it and publishes    *)
(* the result, every bridge process applies the results it receives        *)
(* (ApplyProbeJobResult) and once a minute republishes the jobs whose      *)
(* lease has expired (Bridge.RequeueStale).                                *)
(*                                                                         *)
(* MQTT is external: a publication may reach nobody although it reports    *)
(* no error, a message may be delivered more than once, and results reach  *)
(* every subscribed bridge or only some.  Copies of the same message are   *)
(* indistinguishable, so what is in flight is a set.                       *)
(*                                                                         *)
(* Abstracted: payloads and deadlines (the agent ignores them), steps      *)
(* other than the first, the LIMIT 50 of a scan.  Agents stay enabled.     *)
(***************************************************************************)
EXTENDS Integers, FiniteSets

CONSTANTS
    Jobs,           \* one job per region row sent to an agent
    Bridges,        \* processes that run a bridge: the server, each worker
    RetryLimit,     \* the literal 3 of RequeueStale
    MaxRestarts,    \* bound: restarts of the agent process
    MaxCrashes      \* bound: crashes of dispatchers and result handlers

ASSUME ProbeAssumption ==
    /\ IsFiniteSet(Bridges)
    /\ RetryLimit \in Nat \ {0}
    /\ MaxRestarts \in Nat
    /\ MaxCrashes \in Nat

VARIABLES
    \* rows of the database
    status,     \* j -> probe_job.status, "none" before the row exists
    retryCount, \* j -> probe_job.retry_count
    leased,     \* j -> lease_until is in the future
    row,        \* j -> status of the region row the job reports to
    \* processes
    dispatcher, \* j -> control point of dispatchSingleToAgent
    stale,      \* b -> the scanned jobs still to be handled, with their retry_count
    requeued,   \* b -> jobs republished and not yet marked (at most one)
    applying,   \* b -> j -> control point of ApplyProbeJobResult
    answer,     \* b -> j -> the result being applied
    seen,       \* the agent's seenJobs
    \* MQTT
    jobMsgs,    \* job messages on their way to the agent
    resultMsgs, \* b -> results <<j, v>> on their way to bridge b
    \* bounds
    restarts, crashes

dbVars     == <<status, retryCount, leased, row>>
bridgeVars == <<stale, requeued, applying, answer>>
vars == <<dbVars, dispatcher, bridgeVars, seen, jobMsgs, resultMsgs, restarts, crashes>>

Ended == {"success", "failed"}

TypeOK ==
    /\ status \in [Jobs -> {"none", "queued", "published", "completed", "failed"}]
    /\ retryCount \in [Jobs -> Nat]
    /\ leased \in [Jobs -> BOOLEAN]
    /\ row \in [Jobs -> {"running", "success", "failed"}]
    /\ dispatcher \in [Jobs -> {"create", "publish", "mark", "refused", "unavailable", "done"}]
    /\ stale \in [Bridges -> SUBSET (Jobs \X Nat)]
    /\ requeued \in [Bridges -> SUBSET Jobs]
    /\ applying \in [Bridges -> [Jobs -> {"idle", "complete", "persist"}]]
    /\ answer \in [Bridges -> [Jobs -> Ended]]
    /\ seen \subseteq Jobs
    /\ jobMsgs \subseteq Jobs
    /\ resultMsgs \in [Bridges -> SUBSET (Jobs \X Ended)]
    /\ restarts \in 0..MaxRestarts
    /\ crashes \in 0..MaxCrashes

\* RunSingleExecution has set the row to running and found the agent online.
Init ==
    /\ status = [j \in Jobs |-> "none"]
    /\ retryCount = [j \in Jobs |-> 0]
    /\ leased = [j \in Jobs |-> FALSE]
    /\ row = [j \in Jobs |-> "running"]
    /\ dispatcher = [j \in Jobs |-> "create"]
    /\ stale = [b \in Bridges |-> {}]
    /\ requeued = [b \in Bridges |-> {}]
    /\ applying = [b \in Bridges |-> [j \in Jobs |-> "idle"]]
    /\ answer = [b \in Bridges |-> [j \in Jobs |-> "failed"]]
    /\ seen = {}
    /\ jobMsgs = {}
    /\ resultMsgs = [b \in Bridges |-> {}]
    /\ restarts = 0
    /\ crashes = 0

-----------------------------------------------------------------------------
(* dispatchSingleToAgent, for job j.                                       *)

CreateJob(j) ==
    /\ dispatcher[j] = "create"
    /\ dispatcher' = [dispatcher EXCEPT ![j] = "publish"]
    /\ status' = [status EXCEPT ![j] = "queued"]
    /\ leased' = [leased EXCEPT ![j] = TRUE]
    /\ UNCHANGED <<retryCount, row, bridgeVars, seen, jobMsgs, resultMsgs, restarts, crashes>>

\* PublishJob without an error: the message may still reach nobody, since the
\* ten-second wait reports no error and the agent may be disconnected.
Published(j) == jobMsgs' \in {jobMsgs, jobMsgs \cup {j}}

PublishOk(j) ==
    /\ dispatcher[j] = "publish"
    /\ dispatcher' = [dispatcher EXCEPT ![j] = "mark"]
    /\ Published(j)
    /\ UNCHANGED <<dbVars, bridgeVars, seen, resultMsgs, restarts, crashes>>

\* The client is not connected, or could not hand the message to the broker.
PublishError(j) ==
    /\ dispatcher[j] = "publish"
    /\ dispatcher' = [dispatcher EXCEPT ![j] = "refused"]
    /\ UNCHANGED <<dbVars, bridgeVars, seen, jobMsgs, resultMsgs, restarts, crashes>>

\* The update is unconditional: it may come after the result.
MarkPublished(j) ==
    /\ dispatcher[j] = "mark"
    /\ dispatcher' = [dispatcher EXCEPT ![j] = "done"]
    /\ status' = [status EXCEPT ![j] = "published"]
    /\ UNCHANGED <<retryCount, leased, row, bridgeVars, seen, jobMsgs, resultMsgs, restarts, crashes>>

\* RunSingleExecution records agent_unavailable.
RecordUnavailable(j) ==
    /\ dispatcher[j] = "refused"
    /\ dispatcher' = [dispatcher EXCEPT ![j] = "unavailable"]
    /\ row' = [row EXCEPT ![j] = "failed"]
    /\ UNCHANGED <<status, retryCount, leased, bridgeVars, seen, jobMsgs, resultMsgs, restarts, crashes>>

DispatcherCrash(j) ==
    /\ dispatcher[j] \notin {"unavailable", "done"}
    /\ crashes < MaxCrashes
    /\ crashes' = crashes + 1
    /\ dispatcher' = [dispatcher EXCEPT ![j] = "done"]
    /\ UNCHANGED <<dbVars, bridgeVars, seen, jobMsgs, resultMsgs, restarts>>

-----------------------------------------------------------------------------
(* The agent.  It remembers, in memory only, the jobs it has started, and  *)
(* publishes a result without waiting for its delivery.                    *)

\* A copy of the message may remain (QoS 1).
Consumed(j) == jobMsgs' \in {jobMsgs, jobMsgs \ {j}}

AgentRuns(j) ==
    /\ j \in jobMsgs \ seen
    /\ Consumed(j)
    /\ seen' = seen \cup {j}
    /\ \E v \in Ended, reached \in SUBSET Bridges :
          resultMsgs' = [b \in Bridges |->
                            IF b \in reached THEN resultMsgs[b] \cup {<<j, v>>} ELSE resultMsgs[b]]
    /\ UNCHANGED <<dbVars, dispatcher, bridgeVars, restarts, crashes>>

AgentIgnores(j) ==
    /\ j \in jobMsgs \cap seen
    /\ Consumed(j)
    /\ UNCHANGED <<dbVars, dispatcher, bridgeVars, seen, resultMsgs, restarts, crashes>>

AgentRestart ==
    /\ restarts < MaxRestarts
    /\ restarts' = restarts + 1
    /\ seen' = {}
    /\ UNCHANGED <<dbVars, dispatcher, bridgeVars, jobMsgs, resultMsgs, crashes>>

-----------------------------------------------------------------------------
(* ApplyProbeJobResult by bridge b.  Handlers run concurrently; of two for *)
(* the same job the second waits here.                                     *)

ReceiveResult(b, j) ==
    /\ applying[b][j] = "idle"
    /\ \E v \in Ended :
          /\ <<j, v>> \in resultMsgs[b]
          /\ resultMsgs' \in {resultMsgs, [resultMsgs EXCEPT ![b] = @ \ {<<j, v>>}]}
          /\ IF status[j] = "completed"
             THEN UNCHANGED <<applying, answer>>
             ELSE /\ applying' = [applying EXCEPT ![b][j] = "complete"]
                  /\ answer' = [answer EXCEPT ![b][j] = v]
    /\ UNCHANGED <<dbVars, dispatcher, stale, requeued, seen, jobMsgs, restarts, crashes>>

\* Mutant: the job is completed before its result is parsed, and an invalid
\* result ends the handler there.
CompleteAndStop(b, j) ==
    /\ applying[b][j] = "complete"
    /\ applying' = [applying EXCEPT ![b][j] = IF answer[b][j] = "failed" THEN "idle" ELSE "persist"]
    /\ status' = [status EXCEPT ![j] = "completed"]
    /\ UNCHANGED <<retryCount, leased, row, dispatcher, stale, requeued, answer, seen, jobMsgs,
                   resultMsgs, restarts, crashes>>

CompleteJob(b, j) ==
    /\ applying[b][j] = "complete"
    /\ applying' = [applying EXCEPT ![b][j] = "persist"]
    /\ status' = [status EXCEPT ![j] = "completed"]
    /\ UNCHANGED <<retryCount, leased, row, dispatcher, stale, requeued, answer, seen, jobMsgs,
                   resultMsgs, restarts, crashes>>

\* Mutant: the status of the job is written to the region row.
PersistJobStatus(b, j) ==
    /\ applying[b][j] = "persist"
    /\ applying' = [applying EXCEPT ![b][j] = "idle"]
    /\ row' = [row EXCEPT ![j] = status[j]]
    /\ UNCHANGED <<status, retryCount, leased, dispatcher, stale, requeued, answer, seen, jobMsgs,
                   resultMsgs, restarts, crashes>>

PersistRow(b, j) ==
    /\ applying[b][j] = "persist"
    /\ applying' = [applying EXCEPT ![b][j] = "idle"]
    /\ row' = [row EXCEPT ![j] = answer[b][j]]
    /\ UNCHANGED <<status, retryCount, leased, dispatcher, stale, requeued, answer, seen, jobMsgs,
                   resultMsgs, restarts, crashes>>

ApplierCrash(b, j) ==
    /\ applying[b][j] # "idle"
    /\ crashes < MaxCrashes
    /\ crashes' = crashes + 1
    /\ applying' = [applying EXCEPT ![b][j] = "idle"]
    /\ UNCHANGED <<dbVars, dispatcher, stale, requeued, answer, seen, jobMsgs, resultMsgs, restarts>>

-----------------------------------------------------------------------------
(* RequeueStale by bridge b: one query, then the jobs one after the other. *)

LeaseExpires(j) ==
    /\ leased[j]
    /\ leased' = [leased EXCEPT ![j] = FALSE]
    /\ UNCHANGED <<status, retryCount, row, dispatcher, bridgeVars, seen, jobMsgs, resultMsgs,
                   restarts, crashes>>

\* Mutant: jobs that were never published are stale too.
StaleOrQueued == {j \in Jobs : status[j] \in {"queued", "published"} /\ ~ leased[j]}

StaleJobs == {j \in Jobs : status[j] = "published" /\ ~ leased[j]}

RequeueScan(b) ==
    /\ stale[b] = {} /\ requeued[b] = {}
    /\ StaleJobs # {}
    /\ stale' = [stale EXCEPT ![b] = {<<j, retryCount[j]>> : j \in StaleJobs}]
    /\ UNCHANGED <<dbVars, dispatcher, requeued, applying, answer, seen, jobMsgs, resultMsgs,
                   restarts, crashes>>

\* The next job of the scan, s = <<j, retry_count as scanned>>.
Take(b, s) ==
    /\ s \in stale[b]
    /\ requeued[b] = {}
    /\ stale' = [stale EXCEPT ![b] = @ \ {s}]

\* Mutants: the limit is off by one, in either direction.
GiveUpEarly(b, s) ==
    /\ Take(b, s)
    /\ s[2] >= RetryLimit - 1
    /\ status' = [status EXCEPT ![s[1]] = "failed"]
    /\ UNCHANGED <<retryCount, leased, row, dispatcher, requeued, applying, answer, seen, jobMsgs,
                   resultMsgs, restarts, crashes>>

GiveUp(b, s) ==
    /\ Take(b, s)
    /\ s[2] >= RetryLimit
    /\ status' = [status EXCEPT ![s[1]] = "failed"]
    /\ UNCHANGED <<retryCount, leased, row, dispatcher, requeued, applying, answer, seen, jobMsgs,
                   resultMsgs, restarts, crashes>>

RepublishOnceMore(b, s) ==
    /\ Take(b, s)
    /\ s[2] =< RetryLimit
    /\ Published(s[1])
    /\ requeued' = [requeued EXCEPT ![b] = {s[1]}]
    /\ UNCHANGED <<dbVars, dispatcher, applying, answer, seen, resultMsgs, restarts, crashes>>

Republish(b, s) ==
    /\ Take(b, s)
    /\ s[2] < RetryLimit
    /\ Published(s[1])
    /\ requeued' = [requeued EXCEPT ![b] = {s[1]}]
    /\ UNCHANGED <<dbVars, dispatcher, applying, answer, seen, resultMsgs, restarts, crashes>>

RepublishError(b, s) ==
    /\ Take(b, s)
    /\ s[2] < RetryLimit
    /\ UNCHANGED <<dbVars, dispatcher, requeued, applying, answer, seen, jobMsgs, resultMsgs,
                   restarts, crashes>>

\* Mutant: the retry is not counted.
MarkUncounted(b, j) ==
    /\ j \in requeued[b]
    /\ requeued' = [requeued EXCEPT ![b] = {}]
    /\ status' = [status EXCEPT ![j] = "published"]
    /\ leased' = [leased EXCEPT ![j] = TRUE]
    /\ UNCHANGED <<retryCount, row, dispatcher, stale, applying, answer, seen, jobMsgs, resultMsgs,
                   restarts, crashes>>

\* One statement, whatever the job's status is by now.
MarkRequeued(b, j) ==
    /\ j \in requeued[b]
    /\ requeued' = [requeued EXCEPT ![b] = {}]
    /\ retryCount' = [retryCount EXCEPT ![j] = @ + 1]
    /\ status' = [status EXCEPT ![j] = "published"]
    /\ leased' = [leased EXCEPT ![j] = TRUE]
    /\ UNCHANGED <<row, dispatcher, stale, applying, answer, seen, jobMsgs, resultMsgs, restarts,
                   crashes>>

-----------------------------------------------------------------------------
Dispatch(j) ==
    CreateJob(j) \/ PublishOk(j) \/ PublishError(j) \/ MarkPublished(j) \/ RecordUnavailable(j)

Agent == AgentRestart \/ \E j \in Jobs : AgentRuns(j) \/ AgentIgnores(j)

Apply(b, j) == CompleteJob(b, j) \/ PersistRow(b, j)

RequeueStep(b, s) == GiveUp(b, s) \/ Republish(b, s) \/ RepublishError(b, s)

Next ==
    \/ \E j \in Jobs : Dispatch(j) \/ DispatcherCrash(j) \/ LeaseExpires(j)
    \/ Agent
    \/ \E b \in Bridges :
          \/ RequeueScan(b)
          \/ \E s \in stale[b] : RequeueStep(b, s)
          \/ \E j \in Jobs : MarkRequeued(b, j) \/ ReceiveResult(b, j) \/ Apply(b, j) \/ ApplierCrash(b, j)

Spec == Init /\ [][Next]_vars

(* Handlers that have started go on, time passes, every bridge keeps its   *)
(* one-minute loop, and is connected to the broker again and again.        *)
(* Neither the agent nor the delivery of any message is fair.              *)
Fairness ==
    /\ \A j \in Jobs : WF_vars(Dispatch(j)) /\ WF_vars(LeaseExpires(j))
    /\ \A b \in Bridges :
          /\ WF_vars(RequeueScan(b))
          /\ WF_vars(\E s \in stale[b] : RequeueStep(b, s))
          /\ \A j \in Jobs :
                /\ WF_vars(Apply(b, j)) /\ WF_vars(MarkRequeued(b, j))
                /\ SF_vars(\E n \in 0..RetryLimit : Republish(b, <<j, n>>))

FairSpec == Spec /\ Fairness

-----------------------------------------------------------------------------
(* Properties.                                                             *)

\* A job is requeued at most RetryLimit times, plus once for every further
\* bridge: each bridge decides on the retry_count of its own scan, and the
\* increment comes after the publication (bridge.go 188-213).
RetryBounded == \A j \in Jobs : retryCount[j] =< RetryLimit - 1 + Cardinality(Bridges)

\* A job is given up on only after RetryLimit requeues, however old the
\* snapshot the bridge decides on (bridge.go 200-203).
GivesUpLast == \A j \in Jobs : status[j] = "failed" => retryCount[j] >= RetryLimit

\* Why the two hold, as an inductive invariant.  The bridges about to requeue j
\* have scanned it below the limit or have republished it; a bridge handles a
\* job once per scan and what it scanned is at most out of date (bridge.go
\* 188-214).
AboutToRequeue(j) ==
    {b \in Bridges : j \in requeued[b] \/ \E s \in stale[b] : s[1] = j /\ s[2] < RetryLimit}

RequeueInv ==
    /\ \A b \in Bridges :
          /\ \A s \in stale[b] : s[2] =< retryCount[s[1]] /\ s[1] \notin requeued[b]
          /\ \A s, t \in stale[b] : s[1] = t[1] => s = t
          /\ \A i, j \in requeued[b] : i = j
    /\ \A j \in Jobs :
          \/ retryCount[j] < RetryLimit
          \/ retryCount[j] + Cardinality(AboutToRequeue(j)) =< RetryLimit - 1 + Cardinality(Bridges)

\* Types and the bookkeeping of the requeues (bridge.go 166-216).
JobInv == TypeOK /\ RequeueInv

\* When no handler is at work, the region row of a completed job has its
\* result: completing comes first, but is always followed by the row
\* (probe.go 301-340).  A handler that dies in between leaves the row behind.
CompletedHasResult ==
    \A j \in Jobs :
        status[j] = "completed" /\ crashes = 0 /\ (\A b \in Bridges : applying[b][j] = "idle")
            => row[j] \in Ended

\* A region recorded as agent_unavailable keeps that result: a job whose
\* publication failed stays queued, which no scan looks at
\* (probe.go 273-276, tasks.go 326-331, bridge.go 192).
UnavailableIsFinal ==
    \A j \in Jobs : dispatcher[j] = "unavailable" => row[j] = "failed"

\* A published job does not wait for ever: it is completed, or its lease
\* expires often enough for a bridge to give it up (bridge.go 166-216).
JobSettles == \A j \in Jobs : status[j] = "published" ~> status[j] \in {"completed", "failed"}

\* cmd/server/main.go:83: back-filling a result is idempotent.  Once a region
\* has a result, applying another copy of the job's results does not change it.
BackfillIdempotent ==
    [][\A j \in Jobs : row[j] \in Ended => row'[j] = row[j]]_vars
=============================================================================
