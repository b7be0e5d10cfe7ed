--------------------------- MODULE BatchExecution ---------------------------
(***************************************************************************)
(* The batch probing engine: Service.RunBatchExecution (service/batch.go), *)
(* the handlers that create, rerun and stop an execution, and the two ways *)
(* an execution reaches the engine: the Asynq queue (at-least-once, at     *)
(* most MaxRetry redeliveries) or an in-process goroutine (one attempt).   *)
(*                                                                         *)
(* All executions belong to one batch task.  An execution e probes the     *)
(* work items 1..NumItems in order; every item has its own goroutine, a    *)
(* semaphore bounds how many run, and one writer goroutine per attempt     *)
(* receives the rows from a bounded channel and inserts them in batches.   *)
(*                                                                         *)
(* Abstracted: what is probed and how (an item only succeeds or fails),    *)
(* latencies, timestamps and messages.  The database answers every read    *)
(* and single-row update; the bulk insert of result rows may fail.         *)
(***************************************************************************)
EXTENDS Integers, FiniteSets

CONSTANTS
    Execs,              \* the executions of the task (first run and reruns)
    NumItems,           \* len(workItems)
    LocalConcurrency,   \* cfg.BatchLocalConcurrency
    FlushSize,          \* cfg.BatchFlushSize
    MaxRetry,           \* asynq.MaxRetry of the enqueued message
    MaxFaults           \* bound: crashes plus failed bulk inserts, per execution

ASSUME SizesAssumption ==
    /\ NumItems \in Nat \ {0}
    /\ LocalConcurrency \in Nat \ {0}
    /\ FlushSize \in Nat \ {0}
    /\ MaxRetry \in Nat
    /\ MaxFaults \in Nat

Items == 1..NumItems

VARIABLES
    \* rows of the database
    taskStatus,     \* batch_task.status
    status,         \* e -> batch_execution.status, "none" before the row exists
    stopRequested,  \* e -> stop_requested_at / cancelled_at are set
    counts,         \* e -> success_count and failed_count
    rows,           \* e -> how many result rows are in the table, by success
    \* HTTP handlers
    submitter,      \* e -> progress of the create or rerun request
    stopper,        \* e -> progress of a stop request
    \* delivery of an execution to the engine
    delivery,       \* e -> waiting in "queue" or "inproc", "taken" from either, or "archived"
    tries,          \* e -> attempts started so far
    faults,         \* e -> crashes and failed inserts so far
    \* local variables of the current attempt
    pc,             \* e -> control point of RunBatchExecution
    outcome,        \* e -> how the last attempt ended
    cursor,         \* e -> next work item of the submit loop
    place,          \* e -> item -> where the item is
    passed,         \* e -> item -> the probe's verdict, once known
    successCount, doneCount,    \* e -> the two atomic counters
    writer,         \* e -> control point of the writer goroutine
    loadedSuccess,  \* e -> successCount as read by the progress update
    writeErr,       \* e -> a bulk insert of this attempt failed
    \* history
    late            \* e -> items submitted after the stop was recorded

dbVars      == <<taskStatus, status, stopRequested, counts, rows>>
handlerVars == <<submitter, stopper>>
queueVars   == <<delivery, tries>>
poolVars    == <<place, passed, successCount, doneCount>>
writerVars  == <<writer, loadedSuccess, writeErr>>
mainVars    == <<pc, outcome, cursor, late>>
vars == <<dbVars, handlerVars, queueVars, faults, mainVars, poolVars, writerVars>>

Statuses == {"pending", "running", "success", "partial", "failed", "cancelled"}
Places == {"todo", "probing", "probed", "sending", "channel", "buffer", "stored", "lost"}
Outcomes == {"none", "finished", "cancelled", "error", "crashed"}
Points == {"idle", "load", "markTask", "markExec", "loop", "submit", "wait", "drain", "check",
           "finishExec", "finishTask", "cancelExec", "cancelTask"}
WriterPoints == {"off", "receive", "full", "loadSuccess", "progress", "done"}
Tally == [ok : Nat, fail : Int]

TypeOK ==
    /\ taskStatus \in Statuses
    /\ status \in [Execs -> Statuses \cup {"none"}]
    /\ stopRequested \in [Execs -> BOOLEAN]
    /\ counts \in [Execs -> Tally]
    /\ rows \in [Execs -> Tally]
    /\ submitter \in [Execs -> {"none", "created", "ready", "done"}]
    /\ stopper \in [Execs -> {"idle", "read"}]
    /\ delivery \in [Execs -> {"none", "queue", "inproc", "taken", "takenInproc", "archived"}]
    /\ tries \in [Execs -> Nat]
    /\ faults \in [Execs -> 0..MaxFaults]
    /\ pc \in [Execs -> Points]
    /\ outcome \in [Execs -> Outcomes]
    /\ cursor \in [Execs -> 1..(NumItems + 1)]
    /\ place \in [Execs -> [Items -> Places]]
    /\ passed \in [Execs -> [Items -> BOOLEAN]]
    /\ successCount \in [Execs -> Nat]
    /\ doneCount \in [Execs -> Nat]
    /\ writer \in [Execs -> WriterPoints]
    /\ loadedSuccess \in [Execs -> Nat]
    /\ writeErr \in [Execs -> BOOLEAN]
    /\ late \in [Execs -> Nat]

Zero == [ok |-> 0, fail |-> 0]

Init ==
    /\ taskStatus = "pending"
    /\ status = [e \in Execs |-> "none"]
    /\ stopRequested = [e \in Execs |-> FALSE]
    /\ counts = [e \in Execs |-> Zero]
    /\ rows = [e \in Execs |-> Zero]
    /\ submitter = [e \in Execs |-> "none"]
    /\ stopper = [e \in Execs |-> "idle"]
    /\ delivery = [e \in Execs |-> "none"]
    /\ tries = [e \in Execs |-> 0]
    /\ faults = [e \in Execs |-> 0]
    /\ pc = [e \in Execs |-> "idle"]
    /\ outcome = [e \in Execs |-> "none"]
    /\ cursor = [e \in Execs |-> 1]
    /\ place = [e \in Execs |-> [i \in Items |-> "todo"]]
    /\ passed = [e \in Execs |-> [i \in Items |-> FALSE]]
    /\ successCount = [e \in Execs |-> 0]
    /\ doneCount = [e \in Execs |-> 0]
    /\ writer = [e \in Execs |-> "off"]
    /\ loadedSuccess = [e \in Execs |-> 0]
    /\ writeErr = [e \in Execs |-> FALSE]
    /\ late = [e \in Execs |-> 0]

At(e, p) == {i \in Items : place[e][i] = p}
InFlight(e) == At(e, "probing") \cup At(e, "probed") \cup At(e, "sending")

-----------------------------------------------------------------------------
(* Requests.  The first execution is created together with its task, which *)
(* is already pending; a rerun creates the execution row first and resets  *)
(* the task in a second update.  The request is then dispatched: to Redis, *)
(* or in-process when Redis is absent or the enqueue fails.                *)

CreateExecution(e) ==
    /\ submitter[e] = "none"
    /\ status' = [status EXCEPT ![e] = "pending"]
    /\ submitter' = [submitter EXCEPT ![e] =
                        IF \A d \in Execs : status[d] = "none" THEN "ready" ELSE "created"]
    /\ UNCHANGED <<taskStatus, stopRequested, counts, rows, stopper, queueVars, faults,
                   mainVars, poolVars, writerVars>>

RerunResetTask(e) ==
    /\ submitter[e] = "created"
    /\ submitter' = [submitter EXCEPT ![e] = "ready"]
    /\ taskStatus' = "pending"
    /\ UNCHANGED <<status, stopRequested, counts, rows, stopper, queueVars, faults,
                   mainVars, poolVars, writerVars>>

\* Mutant: a rerun is dispatched without waiting for the reset of its task.
DispatchBeforeReset(e) ==
    /\ submitter[e] \in {"created", "ready"}
    /\ delivery[e] = "none"
    /\ submitter' = [submitter EXCEPT ![e] = IF @ = "created" THEN "created" ELSE "done"]
    /\ \E way \in {"queue", "inproc"} : delivery' = [delivery EXCEPT ![e] = way]
    /\ UNCHANGED <<dbVars, stopper, tries, faults, mainVars, poolVars, writerVars>>

Dispatch(e) ==
    /\ submitter[e] = "ready"
    /\ submitter' = [submitter EXCEPT ![e] = "done"]
    /\ \E way \in {"queue", "inproc"} : delivery' = [delivery EXCEPT ![e] = way]
    /\ UNCHANGED <<dbVars, stopper, tries, faults, mainVars, poolVars, writerVars>>

(* RequestBatchStop reads the execution and, if it is pending or running,  *)
(* writes the stop in a separate, unconditional update.                    *)
StopRead(e) ==
    /\ stopper[e] = "idle"
    /\ status[e] \in {"pending", "running"}
    /\ stopper' = [stopper EXCEPT ![e] = "read"]
    /\ UNCHANGED <<dbVars, submitter, queueVars, faults, mainVars, poolVars, writerVars>>

StopWrite(e) ==
    /\ stopper[e] = "read"
    /\ stopper' = [stopper EXCEPT ![e] = "idle"]
    /\ stopRequested' = [stopRequested EXCEPT ![e] = TRUE]
    /\ status' = [status EXCEPT ![e] = "cancelled"]
    /\ UNCHANGED <<taskStatus, counts, rows, submitter, queueVars, faults,
                   mainVars, poolVars, writerVars>>

-----------------------------------------------------------------------------
(* Delivery.  A queued message is taken by a worker, an in-process one by  *)
(* its goroutine.  An attempt that returns an error or dies is redelivered *)
(* by Asynq while retries are left and archived after that; in-process it  *)
(* is only logged.                                                         *)

\* The local variables of an attempt that has not started.
FreshLocals(e) ==
    /\ cursor' = [cursor EXCEPT ![e] = 1]
    /\ place' = [place EXCEPT ![e] = [i \in Items |-> "todo"]]
    /\ passed' = [passed EXCEPT ![e] = [i \in Items |-> FALSE]]
    /\ successCount' = [successCount EXCEPT ![e] = 0]
    /\ doneCount' = [doneCount EXCEPT ![e] = 0]
    /\ writer' = [writer EXCEPT ![e] = "off"]
    /\ loadedSuccess' = [loadedSuccess EXCEPT ![e] = 0]
    /\ writeErr' = [writeErr EXCEPT ![e] = FALSE]

Start(e) ==
    /\ delivery[e] \in {"queue", "inproc"}
    /\ delivery' = [delivery EXCEPT ![e] = IF @ = "queue" THEN "taken" ELSE "takenInproc"]
    /\ tries' = [tries EXCEPT ![e] = @ + 1]
    /\ pc' = [pc EXCEPT ![e] = "load"]
    /\ FreshLocals(e)
    /\ outcome' = [outcome EXCEPT ![e] = "none"]
    /\ UNCHANGED <<dbVars, handlerVars, faults, late>>

\* What becomes of the delivery when the attempt did not return nil.
Redelivery(e) ==
    IF delivery[e] = "taken" /\ tries[e] =< MaxRetry THEN "queue" ELSE "archived"

\* The attempt returns to its caller: nil acknowledges the message.
ReturnNil(e, how) ==
    /\ pc' = [pc EXCEPT ![e] = "idle"]
    /\ outcome' = [outcome EXCEPT ![e] = how]
    /\ UNCHANGED <<delivery, tries, cursor, late>>

ReturnError(e) ==
    /\ pc' = [pc EXCEPT ![e] = "idle"]
    /\ outcome' = [outcome EXCEPT ![e] = "error"]
    /\ delivery' = [delivery EXCEPT ![e] = Redelivery(e)]
    /\ UNCHANGED <<tries, cursor, late>>

\* The process dies, or Asynq's task deadline expires: nothing the attempt
\* would still do reaches the database.
Crash(e) ==
    /\ pc[e] # "idle"
    /\ faults[e] < MaxFaults
    /\ faults' = [faults EXCEPT ![e] = @ + 1]
    /\ pc' = [pc EXCEPT ![e] = "idle"]
    /\ outcome' = [outcome EXCEPT ![e] = "crashed"]
    /\ delivery' = [delivery EXCEPT ![e] = Redelivery(e)]
    /\ FreshLocals(e)
    /\ UNCHANGED <<dbVars, handlerVars, tries, late>>

-----------------------------------------------------------------------------
(* RunBatchExecution, main goroutine.                                      *)

\* A step of the main goroutine that changes no shared state.
Jump(e, from, to) ==
    /\ pc[e] = from
    /\ pc' = [pc EXCEPT ![e] = to]
    /\ UNCHANGED <<dbVars, handlerVars, queueVars, faults, outcome, cursor, late, poolVars, writerVars>>

\* The stop columns are looked at once, in the snapshot loaded first.
Load(e) == Jump(e, "load", IF stopRequested[e] THEN "cancelExec" ELSE "markTask")

MarkTaskRunning(e) ==
    /\ pc[e] = "markTask"
    /\ pc' = [pc EXCEPT ![e] = "markExec"]
    /\ taskStatus' = "running"
    /\ UNCHANGED <<status, stopRequested, counts, rows, handlerVars, queueVars, faults,
                   outcome, cursor, late, poolVars, writerVars>>

\* The update is unconditional: a stop recorded since Load is overwritten.
\* The writer goroutine starts with the submit loop.
MarkExecRunning(e) ==
    /\ pc[e] = "markExec"
    /\ pc' = [pc EXCEPT ![e] = "loop"]
    /\ status' = [status EXCEPT ![e] = "running"]
    /\ writer' = [writer EXCEPT ![e] = "receive"]
    /\ UNCHANGED <<taskStatus, stopRequested, counts, rows, handlerVars, queueVars, faults,
                   outcome, cursor, late, poolVars, loadedSuccess, writeErr>>

\* Mutant: the stop is looked at before the first item only.
CheckFirstOnly(e) == cursor[e] = 1

\* stopCheck is consulted before the first item of every group of
\* LocalConcurrency items, and before the wait for the semaphore.
CheckDue(e) == (cursor[e] - 1) % LocalConcurrency = 0

\* Mutant: the loop runs one item too far.
LoopOneTooFar(e) ==
    /\ cursor[e] \in 1..(NumItems + 1)
    /\ ~ (CheckDue(e) /\ stopRequested[e])
    /\ Jump(e, "loop", "submit")

LoopGoesOn(e) ==
    /\ cursor[e] \in Items
    /\ ~ (CheckDue(e) /\ stopRequested[e])
    /\ Jump(e, "loop", "submit")

\* Mutant: a stop seen by the loop cancels at once, without joining the pool.
LoopCancelsAtOnce(e) ==
    /\ cursor[e] > NumItems \/ (CheckDue(e) /\ stopRequested[e])
    /\ Jump(e, "loop", IF stopRequested[e] THEN "cancelExec" ELSE "wait")

LoopEnds(e) ==
    /\ cursor[e] > NumItems \/ (CheckDue(e) /\ stopRequested[e])
    /\ Jump(e, "loop", "wait")

SubmitItem(e) ==
    /\ pc[e] = "submit"
    /\ Cardinality(InFlight(e)) < LocalConcurrency
    /\ place' = [place EXCEPT ![e][cursor[e]] = "probing"]
    /\ pc' = [pc EXCEPT ![e] = "loop"]
    /\ cursor' = [cursor EXCEPT ![e] = @ + 1]
    /\ late' = [late EXCEPT ![e] = IF stopRequested[e] THEN @ + 1 ELSE @]
    /\ UNCHANGED <<dbVars, handlerVars, queueVars, faults, outcome, passed,
                   successCount, doneCount, writerVars>>

\* wg.Wait, then close(resultCh).
WorkersJoined(e) ==
    /\ InFlight(e) = {}
    /\ Jump(e, "wait", "drain")

WriterJoined(e) ==
    /\ writer[e] = "done"
    /\ Jump(e, "drain", "check")

\* "stopped" implies the stop is still recorded, so the second stopCheck
\* covers both disjuncts of the condition.
FinalCheckStopped(e) ==
    /\ stopRequested[e]
    /\ Jump(e, "check", "cancelExec")

FinalCheckWriteErr(e) ==
    /\ pc[e] = "check"
    /\ ~ stopRequested[e]
    /\ writeErr[e]
    /\ ReturnError(e)
    /\ UNCHANGED <<dbVars, handlerVars, faults, poolVars, writerVars>>

\* Mutant: a failed bulk insert is not looked at.
FinalCheckIgnoresErr(e) ==
    /\ ~ stopRequested[e]
    /\ Jump(e, "check", "finishExec")

FinalCheckOK(e) ==
    /\ ~ stopRequested[e]
    /\ ~ writeErr[e]
    /\ Jump(e, "check", "finishExec")

Verdict(n) == IF n = NumItems THEN "success" ELSE IF n > 0 THEN "partial" ELSE "failed"

FinishExec(e) ==
    /\ pc[e] = "finishExec"
    /\ pc' = [pc EXCEPT ![e] = "finishTask"]
    /\ status' = [status EXCEPT ![e] = Verdict(successCount[e])]
    /\ counts' = [counts EXCEPT ![e] = [ok |-> successCount[e], fail |-> NumItems - successCount[e]]]
    /\ UNCHANGED <<taskStatus, stopRequested, rows, handlerVars, queueVars, faults,
                   outcome, cursor, late, poolVars, writerVars>>

\* Mutant: the task knows no partial success.
FinishTaskNoPartial(e) ==
    /\ pc[e] = "finishTask"
    /\ taskStatus' = IF successCount[e] > 0 THEN "success" ELSE "failed"
    /\ ReturnNil(e, "finished")
    /\ UNCHANGED <<status, stopRequested, counts, rows, handlerVars, faults, poolVars, writerVars>>

FinishTask(e) ==
    /\ pc[e] = "finishTask"
    /\ taskStatus' = Verdict(successCount[e])
    /\ ReturnNil(e, "finished")
    /\ UNCHANGED <<status, stopRequested, counts, rows, handlerVars, faults, poolVars, writerVars>>

\* markBatchCancelled counts the rows that reached the table.
CancelExec(e) ==
    /\ pc[e] = "cancelExec"
    /\ pc' = [pc EXCEPT ![e] = "cancelTask"]
    /\ status' = [status EXCEPT ![e] = "cancelled"]
    /\ stopRequested' = [stopRequested EXCEPT ![e] = TRUE]
    /\ counts' = [counts EXCEPT ![e] = rows[e]]
    /\ UNCHANGED <<taskStatus, rows, handlerVars, queueVars, faults, outcome, cursor, late,
                   poolVars, writerVars>>

CancelTask(e) ==
    /\ pc[e] = "cancelTask"
    /\ taskStatus' = "cancelled"
    /\ ReturnNil(e, "cancelled")
    /\ UNCHANGED <<status, stopRequested, counts, rows, handlerVars, faults, poolVars, writerVars>>

-----------------------------------------------------------------------------
(* The goroutine of one work item: probe, doneCount++, successCount++ if   *)
(* the probe passed, send the row, release the semaphore.                  *)

\* Mutant: doneCount counts the failures only.
ProbeCountsFailures(e, i) ==
    /\ pc[e] # "idle"
    /\ place[e][i] = "probing"
    /\ \E ok \in BOOLEAN :
        /\ passed' = [passed EXCEPT ![e][i] = ok]
        /\ doneCount' = [doneCount EXCEPT ![e] = IF ok THEN @ ELSE @ + 1]
    /\ place' = [place EXCEPT ![e][i] = "probed"]
    /\ UNCHANGED <<dbVars, handlerVars, queueVars, faults, mainVars, successCount, writerVars>>

ProbeReturns(e, i) ==
    /\ pc[e] # "idle"
    /\ place[e][i] = "probing"
    /\ \E ok \in BOOLEAN : passed' = [passed EXCEPT ![e][i] = ok]
    /\ doneCount' = [doneCount EXCEPT ![e] = @ + 1]
    /\ place' = [place EXCEPT ![e][i] = "probed"]
    /\ UNCHANGED <<dbVars, handlerVars, queueVars, faults, mainVars, successCount, writerVars>>

CountSuccess(e, i) ==
    /\ pc[e] # "idle"
    /\ place[e][i] = "probed"
    /\ successCount' = [successCount EXCEPT ![e] = IF passed[e][i] THEN @ + 1 ELSE @]
    /\ place' = [place EXCEPT ![e][i] = "sending"]
    /\ UNCHANGED <<dbVars, handlerVars, queueVars, faults, mainVars, passed, doneCount, writerVars>>

SendRow(e, i) ==
    /\ pc[e] # "idle"
    /\ place[e][i] = "sending"
    /\ Cardinality(At(e, "channel")) < 2 * FlushSize
    /\ place' = [place EXCEPT ![e][i] = "channel"]
    /\ UNCHANGED <<dbVars, handlerVars, queueVars, faults, mainVars, passed, successCount,
                   doneCount, writerVars>>

-----------------------------------------------------------------------------
(* The writer goroutine.                                                   *)

Receive(e, i) ==
    /\ writer[e] = "receive"
    /\ place[e][i] = "channel"
    /\ place' = [place EXCEPT ![e][i] = "buffer"]
    /\ writer' = [writer EXCEPT ![e] =
                    IF Cardinality(At(e, "buffer")) + 1 >= FlushSize THEN "full" ELSE "receive"]
    /\ UNCHANGED <<dbVars, handlerVars, queueVars, faults, mainVars, passed, successCount,
                   doneCount, loadedSuccess, writeErr>>

\* CreateInBatches inserts the buffer (never more than FlushSize rows) in one
\* transaction: all of it or nothing.  The buffer is emptied either way.
InsertSucceeds(e) ==
    LET inserted == At(e, "buffer") IN
    /\ place' = [place EXCEPT ![e] =
                    [i \in Items |-> IF i \in inserted THEN "stored" ELSE @[i]]]
    /\ rows' = [rows EXCEPT ![e] =
                    [ok   |-> @.ok   + Cardinality({i \in inserted : passed[e][i]}),
                     fail |-> @.fail + Cardinality({i \in inserted : ~ passed[e][i]})]]
    /\ UNCHANGED <<faults, writeErr>>

InsertFails(e) ==
    /\ At(e, "buffer") # {}
    /\ faults[e] < MaxFaults
    /\ faults' = [faults EXCEPT ![e] = @ + 1]
    /\ writeErr' = [writeErr EXCEPT ![e] = TRUE]
    /\ place' = [place EXCEPT ![e] =
                    [i \in Items |-> IF @[i] = "buffer" THEN "lost" ELSE @[i]]]
    /\ UNCHANGED rows

Flush(e) == InsertSucceeds(e) \/ InsertFails(e)

\* Mutant: the writer gives up on a failed insert without closing writerDone.
FlushFullGivesUp(e) ==
    /\ writer[e] = "full"
    /\ Flush(e)
    /\ writer' = [writer EXCEPT ![e] = IF writeErr'[e] THEN "off" ELSE "loadSuccess"]
    /\ UNCHANGED <<taskStatus, status, stopRequested, counts, handlerVars, queueVars, mainVars,
                   passed, successCount, doneCount, loadedSuccess>>

FlushFull(e) ==
    /\ writer[e] = "full"
    /\ Flush(e)
    /\ writer' = [writer EXCEPT ![e] = "loadSuccess"]
    /\ UNCHANGED <<taskStatus, status, stopRequested, counts, handlerVars, queueVars, mainVars,
                   passed, successCount, doneCount, loadedSuccess>>

FlushTick(e) ==
    /\ writer[e] = "receive"
    /\ At(e, "buffer") # {}
    /\ Flush(e)
    /\ UNCHANGED <<taskStatus, status, stopRequested, counts, handlerVars, queueVars, mainVars,
                   passed, successCount, doneCount, writer, loadedSuccess>>

\* Mutant: the rows still in the buffer are dropped when the channel closes.
CloseWithoutFlush(e) ==
    /\ writer[e] = "receive"
    /\ pc[e] = "drain"
    /\ At(e, "channel") = {}
    /\ writer' = [writer EXCEPT ![e] = "done"]
    /\ UNCHANGED <<dbVars, handlerVars, queueVars, faults, mainVars, poolVars, loadedSuccess, writeErr>>

FlushLast(e) ==
    /\ writer[e] = "receive"
    /\ pc[e] = "drain"
    /\ At(e, "channel") = {}
    /\ Flush(e)
    /\ writer' = [writer EXCEPT ![e] = "done"]
    /\ UNCHANGED <<taskStatus, status, stopRequested, counts, handlerVars, queueVars, mainVars,
                   passed, successCount, doneCount, loadedSuccess>>

\* The progress update: successCount is loaded before doneCount.
ProgressLoad(e) ==
    /\ writer[e] = "loadSuccess"
    /\ loadedSuccess' = [loadedSuccess EXCEPT ![e] = successCount[e]]
    /\ writer' = [writer EXCEPT ![e] = "progress"]
    /\ UNCHANGED <<dbVars, handlerVars, queueVars, faults, mainVars, poolVars, writeErr>>

ProgressWrite(e) ==
    /\ writer[e] = "progress"
    /\ counts' = [counts EXCEPT ![e] = [ok |-> loadedSuccess[e],
                                        fail |-> doneCount[e] - loadedSuccess[e]]]
    /\ writer' = [writer EXCEPT ![e] = "receive"]
    /\ UNCHANGED <<taskStatus, status, stopRequested, rows, handlerVars, queueVars, faults, mainVars,
                   poolVars, loadedSuccess, writeErr>>

-----------------------------------------------------------------------------
Request(e) == CreateExecution(e) \/ RerunResetTask(e) \/ Dispatch(e)

Stop(e) == StopRead(e) \/ StopWrite(e)

Main(e) ==
    \/ Load(e) \/ MarkTaskRunning(e) \/ MarkExecRunning(e)
    \/ LoopGoesOn(e) \/ LoopEnds(e) \/ SubmitItem(e) \/ WorkersJoined(e) \/ WriterJoined(e)
    \/ FinalCheckStopped(e) \/ FinalCheckWriteErr(e) \/ FinalCheckOK(e)
    \/ FinishExec(e) \/ FinishTask(e) \/ CancelExec(e) \/ CancelTask(e)

Worker(e, i) == ProbeReturns(e, i) \/ CountSuccess(e, i) \/ SendRow(e, i)

Writer(e) ==
    \/ \E i \in Items : Receive(e, i)
    \/ FlushFull(e) \/ FlushTick(e) \/ FlushLast(e)
    \/ ProgressLoad(e) \/ ProgressWrite(e)

Next == \E e \in Execs :
    \/ Request(e) \/ Stop(e) \/ Start(e) \/ Crash(e)
    \/ Main(e) \/ Writer(e)
    \/ \E i \in Items : Worker(e, i)

Spec == Init /\ [][Next]_vars

(* Goroutines run, probes return within their 30 s timeout, the queue      *)
(* delivers and a handler that has started completes; users and faults are *)
(* never obliged to act.                                                   *)
Fairness == \A e \in Execs :
    /\ WF_vars(RerunResetTask(e) \/ Dispatch(e))
    /\ WF_vars(Start(e))
    /\ WF_vars(Main(e))
    /\ WF_vars(Writer(e))
    /\ \A i \in Items : WF_vars(Worker(e, i))

FairSpec == Spec /\ Fairness
-----------------------------------------------------------------------------
(* Properties.                                                             *)

\* An execution that an attempt finished (success, partial or failed) has
\* every one of that attempt's rows in the table: closing the channel after
\* wg.Wait, the last flush, the join with the writer and the look at writeErr
\* together leave no row behind (batch.go 512-522).
FinishedIsComplete ==
    \A e \in Execs : outcome[e] = "finished" => At(e, "stored") = Items

\* Why FinishedIsComplete holds, as an inductive invariant: where the items of
\* an execution can be at each control point of the main and writer goroutines.
Pool == {"loop", "submit", "wait"}

StageInv(e) ==
    /\ pc[e] \in {"load", "markTask", "markExec"} => cursor[e] = 1
    /\ pc[e] = "submit" => cursor[e] \in Items
    /\ pc[e] \in {"loop", "submit"} => \A i \in Items : i < cursor[e] => place[e][i] # "todo"
    /\ pc[e] \in {"wait", "drain", "check"} => stopRequested[e] \/ At(e, "todo") = {}
    /\ InFlight(e) # {} => pc[e] \in Pool
    /\ writer[e] \in {"receive", "full", "loadSuccess", "progress"} => pc[e] \in Pool \cup {"drain"}
    /\ writer[e] = "done" => At(e, "channel") \cup At(e, "buffer") = {} /\ pc[e] \notin Pool
    /\ pc[e] \in {"load", "markTask", "markExec"} => writer[e] = "off"
    /\ pc[e] \in {"check", "finishExec", "finishTask"} => writer[e] = "done"
    /\ At(e, "lost") # {} => writeErr[e]
    /\ pc[e] \in {"finishExec", "finishTask"} => At(e, "stored") = Items
    /\ outcome[e] = "finished" => pc[e] = "idle" /\ At(e, "stored") = Items

PipelineInv == \A e \in Execs : StageInv(e)

\* The two parts of the inductive invariant of the engine (batch.go 371-559).
BatchInv == TypeOK /\ PipelineInv

\* Progress shown to users never has a negative failure count and never
\* accounts for more items than the attempts so far could have probed, although
\* the two counters are incremented and loaded one after the other
\* (batch.go 462-468, 501-504).
ProgressIsSane ==
    \A e \in Execs : counts[e].ok >= 0 /\ counts[e].fail >= 0
                    /\ counts[e].ok + counts[e].fail =< NumItems * tries[e]

\* After a stop is recorded at most LocalConcurrency more items are started:
\* the submit loop looks at the stop once per group (batch.go 487-494).
StopIsPrompt == \A e \in Execs : late[e] =< LocalConcurrency

\* A cancelled attempt reports exactly the rows in the table, those of an
\* earlier attempt included: the counts are taken after the writer has
\* stopped (batch.go 512-518, 597-621).
CancelledCountsMatchRows ==
    \A e \in Execs : outcome[e] = "cancelled" => counts[e] = rows[e]

\* An execution finished by its first attempt reports exactly the rows in the
\* table (batch.go 525-530).
FirstAttemptCountsMatchRows ==
    \A e \in Execs : outcome[e] = "finished" /\ tries[e] = 1 => counts[e] = rows[e]

\* What an execution reports of itself, while it runs, when it is cancelled and
\* when it is finished at the first attempt (batch.go 462-468, 525-530, 597-621).
CountsAreTrue == ProgressIsSane /\ CancelledCountsMatchRows /\ FirstAttemptCountsMatchRows

\* With one execution, a run that ends without a stop leaves task and
\* execution with the same verdict, and a run that ends cancelled leaves both
\* cancelled, whatever was retried before (batch.go 552-559, 615-628).
TaskAgrees ==
    \A e \in Execs :
        /\ outcome[e] = "finished" /\ ~ stopRequested[e] => taskStatus = status[e]
        /\ outcome[e] = "cancelled" => taskStatus = "cancelled" /\ status[e] = "cancelled"

\* When all executions of a task are over and none was stopped, the task
\* carries the verdict of one of them, although reruns reset it and executions
\* run concurrently (batch.go 382-383, 559, 917).
TaskReflectsAnExecution ==
    (\A e \in Execs : outcome[e] = "finished" /\ ~ stopRequested[e])
        => \E e \in Execs : taskStatus = status[e]

\* Every accepted request is eventually over: finished, cancelled, or given up
\* on by the queue.  In particular the submit loop, the workers and the writer
\* never wait for each other for ever on the semaphore and the channel.
Settles ==
    \A e \in Execs :
        submitter[e] = "ready" ~> (outcome[e] \in {"finished", "cancelled"} \/ delivery[e] = "archived")

\* README.md:84: "completed == expected == DB rows".  The rows in the table are
\* those the finished execution reports.
RowsMatchExpected ==
    \A e \in Execs : outcome[e] = "finished" => rows[e].ok + rows[e].fail = NumItems

\* README.md:84: "cancelled immediately after stop".  A stopped execution that
\* shows cancelled stays cancelled.
StopIsFinal ==
    [][\A e \in Execs : stopRequested[e] /\ status[e] = "cancelled" => status'[e] = "cancelled"]_vars
=============================================================================
