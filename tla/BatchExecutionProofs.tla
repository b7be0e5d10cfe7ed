------------------------ MODULE BatchExecutionProofs ------------------------
(***************************************************************************)
(* Proofs about BatchExecution for every number of executions and items,   *)
(* every concurrency, flush size, retry limit and number of faults.        *)
(*                                                                         *)
(* The inductive invariant of the first theorems is TypeOK /\ PipelineInv: *)
(* it places every item of an execution at each control point of the main  *)
(* and writer goroutines, so that when the run reaches its verdict no item *)
(* can still be on its way to the table.  The counts, the stop and the     *)
(* status of the task need ExecInv on top of it: what an execution has     *)
(* done since it was created, what the two counters and the table say of   *)
(* the places, what is shown meanwhile, and how many items can pass        *)
(* between two looks at the stop.                                          *)
(***************************************************************************)
EXTENDS BatchExecution, FiniteSetTheorems, TLAPS

\* Item sets are finite, so their cardinalities are natural numbers.
LEMMA ItemSetsFinite ==
    ASSUME NEW S \in SUBSET Items
    PROVE  IsFiniteSet(S) /\ Cardinality(S) \in Nat
<1>1. IsFiniteSet(Items)
  BY FS_Interval, SizesAssumption DEF Items
<1>2. IsFiniteSet(S)
  BY <1>1, FS_Subset
<1>3. QED
  BY <1>2, FS_CardinalityType

\* Adding the rows of a bulk insert keeps the table's tally a tally.
LEMMA InsertedRowsType ==
    ASSUME TypeOK, NEW e \in Execs, InsertSucceeds(e)
    PROVE  rows' \in [Execs -> Tally]
<1> DEFINE oks   == {i \in At(e, "buffer") : passed[e][i]}
           fails == {i \in At(e, "buffer") : ~ passed[e][i]}
<1>1. Cardinality(oks) \in Nat /\ Cardinality(fails) \in Nat
  <2>1. oks \in SUBSET Items /\ fails \in SUBSET Items
    BY DEF At
  <2>2. QED
    BY <2>1, ItemSetsFinite
<1>2. rows[e] \in Tally
  BY DEF TypeOK
<1>3. [ok |-> rows[e].ok + Cardinality(oks), fail |-> rows[e].fail + Cardinality(fails)] \in Tally
  BY <1>1, <1>2 DEF Tally
<1>4. rows' = [rows EXCEPT ![e] = [ok |-> rows[e].ok + Cardinality(oks),
                                   fail |-> rows[e].fail + Cardinality(fails)]]
  BY DEF InsertSucceeds
<1>5. QED
  BY <1>3, <1>4 DEF TypeOK

LEMMA FlushType ==
    ASSUME TypeOK, NEW e \in Execs, Flush(e)
    PROVE  /\ rows' \in [Execs -> Tally]
           /\ place' \in [Execs -> [Items -> Places]]
           /\ faults' \in [Execs -> 0..MaxFaults]
           /\ writeErr' \in [Execs -> BOOLEAN]
<1>1. CASE InsertSucceeds(e)
  <2>1. rows' \in [Execs -> Tally]
    BY <1>1, InsertedRowsType
  <2>2. place' \in [Execs -> [Items -> Places]]
    BY <1>1 DEF TypeOK, InsertSucceeds, Places
  <2>3. QED
    BY <1>1, <2>1, <2>2 DEF TypeOK, InsertSucceeds
<1>2. CASE InsertFails(e)
  <2>1. place' \in [Execs -> [Items -> Places]]
    BY <1>2 DEF TypeOK, InsertFails, Places
  <2>2. faults' \in [Execs -> 0..MaxFaults]
    BY <1>2, SizesAssumption DEF TypeOK, InsertFails
  <2>3. QED
    BY <1>2, <2>1, <2>2 DEF TypeOK, InsertFails
<1>3. QED
  BY <1>1, <1>2 DEF Flush

LEMMA FreshLocalsType ==
    ASSUME TypeOK, NEW e \in Execs, FreshLocals(e)
    PROVE  /\ cursor' \in [Execs -> 1..(NumItems + 1)]
           /\ place' \in [Execs -> [Items -> Places]]
           /\ passed' \in [Execs -> [Items -> BOOLEAN]]
           /\ successCount' \in [Execs -> Nat] /\ doneCount' \in [Execs -> Nat]
           /\ writer' \in [Execs -> WriterPoints]
           /\ loadedSuccess' \in [Execs -> Nat]
           /\ writeErr' \in [Execs -> BOOLEAN]
<1>1. 1 \in 1..(NumItems + 1)
  BY SizesAssumption
<1>2. QED
  BY <1>1 DEF TypeOK, FreshLocals, Places, WriterPoints

LEMMA RequestType ==
    ASSUME TypeOK, NEW e \in Execs, Request(e)
    PROVE  TypeOK'
<1>1. CASE CreateExecution(e)
  <2>1. status' \in [Execs -> Statuses \cup {"none"}]
    BY <1>1 DEF TypeOK, CreateExecution, Statuses
  <2>2. submitter' \in [Execs -> {"none", "created", "ready", "done"}]
    BY <1>1 DEF TypeOK, CreateExecution
  <2>3. QED
    BY <1>1, <2>1, <2>2 DEF TypeOK, CreateExecution, queueVars, mainVars, poolVars, writerVars
<1>2. CASE RerunResetTask(e)
  BY <1>2 DEF TypeOK, RerunResetTask, Statuses, queueVars, mainVars, poolVars, writerVars
<1>3. CASE Dispatch(e)
  BY <1>3 DEF TypeOK, Dispatch, dbVars, mainVars, poolVars, writerVars
<1>4. QED
  BY <1>1, <1>2, <1>3 DEF Request

LEMMA StopType ==
    ASSUME TypeOK, NEW e \in Execs, Stop(e)
    PROVE  TypeOK'
BY DEF TypeOK, Stop, StopRead, StopWrite, Statuses,
       dbVars, queueVars, mainVars, poolVars, writerVars

LEMMA StartType ==
    ASSUME TypeOK, NEW e \in Execs, Start(e)
    PROVE  TypeOK'
<1>1. pc' \in [Execs -> Points] /\ outcome' \in [Execs -> Outcomes]
  BY DEF TypeOK, Start, Points, Outcomes
<1>2. tries' \in [Execs -> Nat]
  BY DEF TypeOK, Start
<1>3. QED
  BY <1>1, <1>2, FreshLocalsType DEF TypeOK, Start, dbVars, handlerVars

LEMMA CrashType ==
    ASSUME TypeOK, NEW e \in Execs, Crash(e)
    PROVE  TypeOK'
<1>1. pc' \in [Execs -> Points] /\ outcome' \in [Execs -> Outcomes]
  BY DEF TypeOK, Crash, Points, Outcomes
<1>2. faults' \in [Execs -> 0..MaxFaults]
  BY SizesAssumption DEF TypeOK, Crash
<1>3. delivery' \in [Execs -> {"none", "queue", "inproc", "taken", "takenInproc", "archived"}]
  BY DEF TypeOK, Crash, Redelivery
<1>4. QED
  BY <1>1, <1>2, <1>3, FreshLocalsType DEF TypeOK, Crash, dbVars, handlerVars

LEMMA JumpType ==
    ASSUME TypeOK, NEW e \in Execs, NEW from, NEW to \in Points, Jump(e, from, to)
    PROVE  TypeOK'
BY DEF TypeOK, Jump, dbVars, handlerVars, queueVars, poolVars, writerVars

\* Every step of the main goroutine that only moves its control point.
Jumps(e) ==
    \/ Load(e) \/ LoopGoesOn(e) \/ LoopEnds(e) \/ WorkersJoined(e) \/ WriterJoined(e)
    \/ FinalCheckStopped(e) \/ FinalCheckOK(e)

LEMMA JumpsType ==
    ASSUME TypeOK, NEW e \in Execs, Jumps(e)
    PROVE  TypeOK'
<1>1. \E from, to : to \in Points /\ Jump(e, from, to)
  BY DEF Jumps, Load, LoopGoesOn, LoopEnds, WorkersJoined, WriterJoined, FinalCheckStopped,
         FinalCheckOK, Points
<1>2. QED
  BY <1>1, JumpType

LEMMA MainType ==
    ASSUME TypeOK, NEW e \in Execs, StageInv(e), Main(e)
    PROVE  TypeOK'
<1>1. CASE Jumps(e)
  BY <1>1, JumpsType
<1>2. CASE MarkTaskRunning(e)
  BY <1>2 DEF TypeOK, MarkTaskRunning, Points, Statuses, handlerVars, queueVars, poolVars,
              writerVars
<1>3. CASE MarkExecRunning(e)
  BY <1>3 DEF TypeOK, MarkExecRunning, Points, Statuses, WriterPoints, handlerVars, queueVars,
              poolVars
<1>4. CASE SubmitItem(e)
  <2>1. cursor[e] \in 1..NumItems
    BY <1>4 DEF StageInv, SubmitItem, Items
  <2>2. cursor' \in [Execs -> 1..(NumItems + 1)]
    BY <1>4, <2>1, SizesAssumption DEF TypeOK, SubmitItem
  <2>3. place' \in [Execs -> [Items -> Places]]
    BY <1>4, <2>1 DEF TypeOK, SubmitItem, Places, Items
  <2>4. pc' \in [Execs -> Points] /\ late' \in [Execs -> Nat]
    BY <1>4 DEF TypeOK, SubmitItem, Points
  <2>5. QED
    BY <1>4, <2>2, <2>3, <2>4 DEF TypeOK, SubmitItem, dbVars, handlerVars, queueVars, writerVars
<1>5. CASE FinalCheckWriteErr(e)
  <2>1. delivery' \in [Execs -> {"none", "queue", "inproc", "taken", "takenInproc", "archived"}]
    BY <1>5 DEF TypeOK, FinalCheckWriteErr, ReturnError, Redelivery
  <2>2. QED
    BY <1>5, <2>1 DEF TypeOK, FinalCheckWriteErr, ReturnError, Points, Outcomes, dbVars,
                      handlerVars, poolVars, writerVars
<1>6. CASE FinishExec(e)
  <2>1. Verdict(successCount[e]) \in Statuses
    BY DEF Verdict, Statuses
  <2>2. [ok |-> successCount[e], fail |-> NumItems - successCount[e]] \in Tally
    BY SizesAssumption DEF TypeOK, Tally
  <2>3. counts' \in [Execs -> Tally] /\ status' \in [Execs -> Statuses \cup {"none"}]
    BY <1>6, <2>1, <2>2 DEF TypeOK, FinishExec
  <2>4. QED
    BY <1>6, <2>3 DEF TypeOK, FinishExec, Points, handlerVars, queueVars, poolVars, writerVars
<1>7. CASE FinishTask(e)
  <2>1. Verdict(successCount[e]) \in Statuses
    BY DEF Verdict, Statuses
  <2>2. QED
    BY <1>7, <2>1 DEF TypeOK, FinishTask, ReturnNil, Points, Outcomes, handlerVars, poolVars,
                      writerVars
<1>8. CASE CancelExec(e)
  BY <1>8 DEF TypeOK, CancelExec, Points, Statuses, handlerVars, queueVars, poolVars, writerVars
<1>9. CASE CancelTask(e)
  BY <1>9 DEF TypeOK, CancelTask, ReturnNil, Points, Outcomes, Statuses, handlerVars, poolVars,
              writerVars
<1>10. QED
  BY <1>1, <1>2, <1>3, <1>4, <1>5, <1>6, <1>7, <1>8, <1>9 DEF Main, Jumps

LEMMA WorkerType ==
    ASSUME TypeOK, NEW e \in Execs, NEW i \in Items, Worker(e, i)
    PROVE  TypeOK'
<1>1. place' \in [Execs -> [Items -> Places]]
  <2>1. \E p \in Places : place' = [place EXCEPT ![e][i] = p]
    BY DEF Worker, ProbeReturns, CountSuccess, SendRow, Places
  <2>2. QED
    BY <2>1 DEF TypeOK
<1>2. CASE ProbeReturns(e, i)
  BY <1>1, <1>2 DEF TypeOK, ProbeReturns, dbVars, handlerVars, queueVars, mainVars, writerVars
<1>3. CASE CountSuccess(e, i)
  BY <1>1, <1>3 DEF TypeOK, CountSuccess, dbVars, handlerVars, queueVars, mainVars, writerVars
<1>4. CASE SendRow(e, i)
  BY <1>1, <1>4 DEF TypeOK, SendRow, dbVars, handlerVars, queueVars, mainVars, writerVars
<1>5. QED
  BY <1>2, <1>3, <1>4 DEF Worker

LEMMA WriterType ==
    ASSUME TypeOK, NEW e \in Execs, Writer(e)
    PROVE  TypeOK'
<1>1. CASE \E i \in Items : Receive(e, i)
  <2>1. PICK i \in Items : Receive(e, i)
    BY <1>1
  <2>2. place' \in [Execs -> [Items -> Places]]
    BY <2>1 DEF TypeOK, Receive, Places
  <2>3. writer' \in [Execs -> WriterPoints]
    BY <2>1 DEF TypeOK, Receive, WriterPoints
  <2>4. QED
    BY <2>1, <2>2, <2>3 DEF TypeOK, Receive, dbVars, handlerVars, queueVars, mainVars
<1>2. CASE FlushFull(e) \/ FlushTick(e) \/ FlushLast(e)
  <2>1. Flush(e)
    BY <1>2 DEF FlushFull, FlushTick, FlushLast
  <2>2. writer' \in [Execs -> WriterPoints]
    <3>1. writer' = writer \/ \E w \in WriterPoints : writer' = [writer EXCEPT ![e] = w]
      BY <1>2 DEF FlushFull, FlushTick, FlushLast, WriterPoints
    <3>2. QED
      BY <3>1 DEF TypeOK
  <2>3. QED
    BY <1>2, <2>1, <2>2, FlushType DEF TypeOK, FlushFull, FlushTick, FlushLast, handlerVars,
                                       queueVars, mainVars
<1>3. CASE ProgressLoad(e)
  BY <1>3 DEF TypeOK, ProgressLoad, WriterPoints, dbVars, handlerVars, queueVars, mainVars,
              poolVars
<1>4. CASE ProgressWrite(e)
  <2>1. [ok |-> loadedSuccess[e], fail |-> doneCount[e] - loadedSuccess[e]] \in Tally
    BY DEF TypeOK, Tally
  <2>2. counts' \in [Execs -> Tally]
    BY <1>4, <2>1 DEF TypeOK, ProgressWrite
  <2>3. QED
    BY <1>4, <2>2 DEF TypeOK, ProgressWrite, WriterPoints, handlerVars, queueVars, mainVars,
                      poolVars
<1>5. QED
  BY <1>1, <1>2, <1>3, <1>4 DEF Writer

\* Two actors of an execution may both be mid-step; executions share nothing
\* that StageInv looks at.
Same(d) ==
    /\ pc'[d] = pc[d] /\ cursor'[d] = cursor[d] /\ outcome'[d] = outcome[d]
    /\ stopRequested'[d] = stopRequested[d]
    /\ place'[d] = place[d] /\ writer'[d] = writer[d] /\ writeErr'[d] = writeErr[d]

LEMMA SameStage ==
    ASSUME NEW d \in Execs, StageInv(d), Same(d)
    PROVE  StageInv(d)'
BY DEF Same, StageInv, At, InFlight

LEMMA OthersSame ==
    ASSUME TypeOK, NEW e \in Execs, NEW d \in Execs, d # e,
           \/ Request(e) \/ Stop(e) \/ Start(e) \/ Crash(e) \/ Main(e) \/ Writer(e)
           \/ \E i \in Items : Worker(e, i)
    PROVE  Same(d)
<1>1. CASE Request(e) \/ Stop(e)
  BY <1>1 DEF TypeOK, Same, Request, Stop, CreateExecution, RerunResetTask, Dispatch, StopRead,
              StopWrite, dbVars, mainVars, poolVars, writerVars
<1>2. CASE Start(e) \/ Crash(e)
  BY <1>2 DEF TypeOK, Same, Start, Crash, FreshLocals, dbVars
<1>3. CASE Main(e)
  <2>1. CASE Jumps(e)
    <3>1. \E from, to : Jump(e, from, to)
      BY <2>1 DEF Jumps, Load, LoopGoesOn, LoopEnds, WorkersJoined, WriterJoined,
                  FinalCheckStopped, FinalCheckOK
    <3>2. QED
      BY <3>1 DEF TypeOK, Same, Jump, dbVars, poolVars, writerVars
  <2>2. CASE MarkTaskRunning(e) \/ MarkExecRunning(e) \/ SubmitItem(e)
    BY <2>2 DEF TypeOK, Same, MarkTaskRunning, MarkExecRunning, SubmitItem, dbVars, poolVars,
                writerVars
  <2>3. CASE FinalCheckWriteErr(e)
    BY <2>3 DEF TypeOK, Same, FinalCheckWriteErr, ReturnError, dbVars, poolVars, writerVars
  <2>4. CASE FinishExec(e) \/ CancelExec(e)
    BY <2>4 DEF TypeOK, Same, FinishExec, CancelExec, poolVars, writerVars
  <2>5. CASE FinishTask(e) \/ CancelTask(e)
    BY <2>5 DEF TypeOK, Same, FinishTask, CancelTask, ReturnNil, poolVars, writerVars
  <2>6. QED
    BY <1>3, <2>1, <2>2, <2>3, <2>4, <2>5 DEF Main, Jumps
<1>4. CASE Writer(e)
  <2>1. CASE \E i \in Items : Receive(e, i)
    BY <2>1 DEF TypeOK, Same, Receive, dbVars, mainVars
  <2>2. CASE FlushFull(e) \/ FlushTick(e) \/ FlushLast(e)
    BY <2>2 DEF TypeOK, Same, FlushFull, FlushTick, FlushLast, Flush, InsertSucceeds, InsertFails,
                mainVars
  <2>3. CASE ProgressLoad(e) \/ ProgressWrite(e)
    BY <2>3 DEF TypeOK, Same, ProgressLoad, ProgressWrite, dbVars, mainVars, poolVars
  <2>4. QED
    BY <1>4, <2>1, <2>2, <2>3 DEF Writer
<1>5. CASE \E i \in Items : Worker(e, i)
  BY <1>5 DEF TypeOK, Same, Worker, ProbeReturns, CountSuccess, SendRow, dbVars, mainVars,
              writerVars
<1>6. QED
  BY <1>1, <1>2, <1>3, <1>4, <1>5

-----------------------------------------------------------------------------
(* One lemma per group of actions: the execution that steps keeps StageInv. *)

LEMMA RequestStopStage ==
    ASSUME TypeOK, NEW e \in Execs, StageInv(e), Request(e) \/ Stop(e)
    PROVE  StageInv(e)'
<1>1. /\ pc' = pc /\ cursor' = cursor /\ outcome' = outcome
      /\ place' = place /\ writer' = writer /\ writeErr' = writeErr
  BY DEF Request, Stop, CreateExecution, RerunResetTask, Dispatch, StopRead, StopWrite,
         mainVars, poolVars, writerVars
<1>2. stopRequested[e] => stopRequested'[e]
  BY DEF TypeOK, Request, Stop, CreateExecution, RerunResetTask, Dispatch, StopRead, StopWrite,
         dbVars
<1>3. QED
  BY <1>1, <1>2 DEF StageInv, At, InFlight

LEMMA FreshStage ==
    ASSUME TypeOK, NEW e \in Execs, FreshLocals(e), pc'[e] \in {"load", "idle"},
           outcome'[e] # "finished"
    PROVE  StageInv(e)'
<1>1. /\ cursor'[e] = 1 /\ place'[e] = [i \in Items |-> "todo"]
      /\ writer'[e] = "off" /\ writeErr'[e] = FALSE
  BY DEF TypeOK, FreshLocals
<1>2. \A p \in Places \ {"todo"} : At(e, p)' = {}
  BY <1>1 DEF At
<1>3. QED
  BY <1>1, <1>2 DEF StageInv, InFlight, Pool, Places

LEMMA StartCrashStage ==
    ASSUME TypeOK, NEW e \in Execs, StageInv(e), Start(e) \/ Crash(e)
    PROVE  StageInv(e)'
<1>1. FreshLocals(e)
  BY DEF Start, Crash
<1>2. pc'[e] \in {"load", "idle"} /\ outcome'[e] # "finished"
  BY DEF TypeOK, Start, Crash
<1>3. QED
  BY <1>1, <1>2, FreshStage

LEMMA WorkerStage ==
    ASSUME TypeOK, NEW e \in Execs, NEW i \in Items, StageInv(e), Worker(e, i)
    PROVE  StageInv(e)'
<1>1. /\ pc' = pc /\ cursor' = cursor /\ outcome' = outcome
      /\ writer' = writer /\ writeErr' = writeErr /\ stopRequested' = stopRequested
  BY DEF Worker, ProbeReturns, CountSuccess, SendRow, dbVars, mainVars, writerVars
<1>2. /\ place[e][i] \in {"probing", "probed", "sending"}
      /\ \E p \in {"probed", "sending", "channel"} : place' = [place EXCEPT ![e][i] = p]
  BY DEF Worker, ProbeReturns, CountSuccess, SendRow
<1>3. pc[e] \in Pool
  BY <1>2 DEF StageInv, InFlight, At
<1>4. /\ \A j \in Items : place'[e][j] = place[e][j] \/ place'[e][j] \in {"probed", "sending", "channel"}
      /\ \A j \in Items : place'[e][j] = "todo" <=> place[e][j] = "todo"
  BY <1>2 DEF TypeOK
<1>5. At(e, "todo")' = At(e, "todo") /\ At(e, "lost")' \subseteq At(e, "lost")
  BY <1>4 DEF At
<1>6. QED
  BY <1>1, <1>3, <1>4, <1>5 DEF StageInv, Pool

\* A flush moves what is in the buffer, to the table or to nowhere.
LEMMA FlushMoves ==
    ASSUME TypeOK, NEW e \in Execs, Flush(e)
    PROVE  /\ At(e, "buffer")' = {}
           /\ \A p \in Places \ {"buffer", "stored", "lost"} : At(e, p)' = At(e, p)
           /\ At(e, "stored") \subseteq At(e, "stored")'
           /\ At(e, "lost")' # {} => At(e, "lost") # {} \/ writeErr'[e]
           /\ writeErr[e] => writeErr'[e]
           /\ \A i \in Items : place[e][i] # "todo" => place'[e][i] # "todo"
<1>1. CASE InsertSucceeds(e)
  <2>1. place'[e] = [i \in Items |-> IF place[e][i] = "buffer" THEN "stored" ELSE place[e][i]]
    BY <1>1 DEF TypeOK, InsertSucceeds, At
  <2>2. QED
    BY <1>1, <2>1 DEF InsertSucceeds, At, Places
<1>2. CASE InsertFails(e)
  <2>1. place'[e] = [i \in Items |-> IF place[e][i] = "buffer" THEN "lost" ELSE place[e][i]]
    BY <1>2 DEF TypeOK, InsertFails
  <2>2. writeErr'[e]
    BY <1>2 DEF TypeOK, InsertFails
  <2>3. QED
    BY <2>1, <2>2 DEF At, Places
<1>3. QED
  BY <1>1, <1>2 DEF Flush

LEMMA FlushStage ==
    ASSUME TypeOK, NEW e \in Execs, StageInv(e),
           FlushFull(e) \/ FlushTick(e) \/ FlushLast(e)
    PROVE  StageInv(e)'
<1>1. /\ pc' = pc /\ cursor' = cursor /\ outcome' = outcome /\ stopRequested' = stopRequested
  BY DEF FlushFull, FlushTick, FlushLast, mainVars
<1>2. Flush(e) /\ writer[e] \in {"receive", "full"} /\ pc[e] \in Pool \cup {"drain"}
  BY DEF FlushFull, FlushTick, FlushLast, StageInv
<1>3. \/ writer'[e] \in {"loadSuccess", "receive"}
      \/ writer'[e] = "done" /\ pc[e] = "drain" /\ At(e, "channel") = {}
  BY DEF TypeOK, FlushFull, FlushTick, FlushLast
<1>4. /\ At(e, "todo")' = At(e, "todo") /\ At(e, "channel")' = At(e, "channel")
      /\ InFlight(e)' = InFlight(e) /\ At(e, "buffer")' = {}
      /\ At(e, "lost")' # {} => writeErr'[e]
      /\ \A i \in Items : place[e][i] # "todo" => place'[e][i] # "todo"
  BY <1>2, FlushMoves DEF InFlight, StageInv, Places
<1>5. pc[e] \notin {"idle", "load", "markTask", "markExec", "check", "finishExec", "finishTask"}
  BY <1>2 DEF Pool
<1>6. outcome[e] # "finished"
  BY <1>5 DEF StageInv
<1>7. QED
  BY <1>1, <1>2, <1>3, <1>4, <1>5, <1>6 DEF StageInv, Pool

LEMMA WriterStage ==
    ASSUME TypeOK, NEW e \in Execs, StageInv(e), Writer(e)
    PROVE  StageInv(e)'
<1>1. CASE \E i \in Items : Receive(e, i)
  <2>1. PICK i \in Items : Receive(e, i)
    BY <1>1
  <2>2. /\ pc' = pc /\ cursor' = cursor /\ outcome' = outcome
        /\ stopRequested' = stopRequested /\ writeErr' = writeErr
    BY <2>1 DEF Receive, dbVars, mainVars
  <2>3. writer[e] = "receive" /\ writer'[e] \in {"receive", "full"} /\ pc[e] \in Pool \cup {"drain"}
    BY <2>1 DEF TypeOK, Receive, StageInv
  <2>4. place[e][i] = "channel" /\ place' = [place EXCEPT ![e][i] = "buffer"]
    BY <2>1 DEF Receive
  <2>5. /\ At(e, "todo")' = At(e, "todo") /\ At(e, "lost")' = At(e, "lost")
        /\ InFlight(e)' = InFlight(e)
        /\ \A j \in Items : place'[e][j] = "todo" <=> place[e][j] = "todo"
    BY <2>4 DEF TypeOK, At, InFlight
  <2>6. QED
    BY <2>2, <2>3, <2>5 DEF StageInv, Pool
<1>2. CASE FlushFull(e) \/ FlushTick(e) \/ FlushLast(e)
  BY <1>2, FlushStage
<1>3. CASE ProgressLoad(e) \/ ProgressWrite(e)
  <2>1. /\ pc' = pc /\ cursor' = cursor /\ outcome' = outcome /\ place' = place
        /\ stopRequested' = stopRequested /\ writeErr' = writeErr
    BY <1>3 DEF ProgressLoad, ProgressWrite, dbVars, mainVars, poolVars
  <2>2. writer[e] \in {"loadSuccess", "progress"} /\ writer'[e] \in {"progress", "receive"}
    BY <1>3 DEF TypeOK, ProgressLoad, ProgressWrite
  <2>3. QED
    BY <2>1, <2>2 DEF StageInv, At, InFlight, Pool
<1>4. QED
  BY <1>1, <1>2, <1>3 DEF Writer

\* The steps of the main goroutine leave items, writer and writeErr alone,
\* except that the writer is started and that items are submitted.
LEMMA JumpsStage ==
    ASSUME TypeOK, NEW e \in Execs, StageInv(e), Jumps(e)
    PROVE  StageInv(e)'
<1> DEFINE Still == /\ cursor' = cursor /\ outcome' = outcome /\ place' = place
                    /\ writer' = writer /\ writeErr' = writeErr
                    /\ stopRequested' = stopRequested
           Moves(from, to) == pc[e] = from /\ pc'[e] = to
<1>1. Still
  BY DEF Jumps, Load, LoopGoesOn, LoopEnds, WorkersJoined, WriterJoined, FinalCheckStopped,
         FinalCheckOK, Jump, dbVars, poolVars, writerVars
<1>2. outcome[e] # "finished"
  BY DEF StageInv, Jumps, Load, LoopGoesOn, LoopEnds, WorkersJoined, WriterJoined,
         FinalCheckStopped, FinalCheckOK, Jump
<1>3. At(e, "todo")' = At(e, "todo") /\ At(e, "lost")' = At(e, "lost") /\ InFlight(e)' = InFlight(e)
      /\ At(e, "stored")' = At(e, "stored") /\ At(e, "channel")' = At(e, "channel")
      /\ At(e, "buffer")' = At(e, "buffer")
  BY <1>1 DEF At, InFlight
<1>4. CASE Load(e)
  <2>1. Moves("load", "cancelExec") \/ Moves("load", "markTask")
    BY <1>4 DEF TypeOK, Load, Jump
  <2>2. QED
    BY <1>1, <1>2, <1>3, <2>1 DEF StageInv, Pool
<1>5. CASE LoopGoesOn(e)
  <2>1. Moves("loop", "submit") /\ cursor[e] \in Items
    BY <1>5 DEF TypeOK, LoopGoesOn, Jump
  <2>2. QED
    BY <1>1, <1>2, <1>3, <2>1 DEF StageInv, Pool
<1>6. CASE LoopEnds(e)
  <2>1. Moves("loop", "wait") /\ (cursor[e] > NumItems \/ stopRequested[e])
    BY <1>6 DEF TypeOK, LoopEnds, Jump
  <2>2. cursor[e] > NumItems => At(e, "todo") = {}
    BY <2>1, SizesAssumption DEF TypeOK, StageInv, At, Items
  <2>3. QED
    BY <1>1, <1>2, <1>3, <2>1, <2>2 DEF StageInv, Pool
<1>7. CASE WorkersJoined(e)
  <2>1. Moves("wait", "drain") /\ InFlight(e) = {}
    BY <1>7 DEF TypeOK, WorkersJoined, Jump
  <2>2. QED
    BY <1>1, <1>2, <1>3, <2>1 DEF StageInv, Pool
<1>8. CASE WriterJoined(e)
  <2>1. Moves("drain", "check") /\ writer[e] = "done"
    BY <1>8 DEF TypeOK, WriterJoined, Jump
  <2>2. QED
    BY <1>1, <1>2, <1>3, <2>1 DEF StageInv, Pool
<1>9. CASE FinalCheckStopped(e)
  <2>1. Moves("check", "cancelExec")
    BY <1>9 DEF TypeOK, FinalCheckStopped, Jump
  <2>2. QED
    BY <1>1, <1>2, <1>3, <2>1 DEF StageInv, Pool
<1>10. CASE FinalCheckOK(e)
  <2>1. Moves("check", "finishExec") /\ ~ stopRequested[e] /\ ~ writeErr[e]
    BY <1>10 DEF TypeOK, FinalCheckOK, Jump
  <2>2. At(e, "stored") = Items
    <3>1. /\ At(e, "todo") = {} /\ InFlight(e) = {} /\ At(e, "lost") = {}
          /\ At(e, "channel") \cup At(e, "buffer") = {}
      BY <2>1 DEF StageInv, Pool
    <3>2. \A i \in Items : place[e][i] \in Places
      BY DEF TypeOK
    <3>3. QED
      BY <3>1, <3>2 DEF At, InFlight, Places
  <2>3. QED
    BY <1>1, <1>2, <1>3, <2>1, <2>2 DEF StageInv, Pool
<1>11. QED
  BY <1>4, <1>5, <1>6, <1>7, <1>8, <1>9, <1>10 DEF Jumps

LEMMA MainStage ==
    ASSUME TypeOK, NEW e \in Execs, StageInv(e), Main(e)
    PROVE  StageInv(e)'
<1>1. CASE Jumps(e)
  BY <1>1, JumpsStage
<1>2. CASE MarkTaskRunning(e)
  <2>1. pc[e] = "markTask" /\ pc'[e] = "markExec"
    BY <1>2 DEF TypeOK, MarkTaskRunning
  <2>2. QED
    BY <1>2, <2>1 DEF MarkTaskRunning, StageInv, At, InFlight, Pool, poolVars, writerVars
<1>3. CASE MarkExecRunning(e)
  <2>1. pc[e] = "markExec" /\ pc'[e] = "loop" /\ writer'[e] = "receive"
    BY <1>3 DEF TypeOK, MarkExecRunning
  <2>2. cursor[e] = 1 /\ \A i \in Items : ~ (i < 1)
    BY <2>1 DEF StageInv, Items
  <2>3. QED
    BY <1>3, <2>1, <2>2 DEF MarkExecRunning, StageInv, At, InFlight, Pool, poolVars
<1>4. CASE SubmitItem(e)
  <2>1. /\ pc[e] = "submit" /\ pc'[e] = "loop"
        /\ cursor[e] \in Items /\ cursor'[e] = cursor[e] + 1
        /\ place'[e] = [place[e] EXCEPT ![cursor[e]] = "probing"]
        /\ writer' = writer /\ writeErr' = writeErr /\ outcome' = outcome
    BY <1>4 DEF TypeOK, SubmitItem, StageInv, writerVars
  <2>2. ASSUME NEW i \in Items, i < cursor'[e] PROVE place'[e][i] # "todo"
    <3>1. place[e] \in [Items -> Places]
      BY DEF TypeOK
    <3>2. i = cursor[e] \/ i < cursor[e]
      BY <2>1, <2>2 DEF Items
    <3>3. CASE i = cursor[e]
      BY <2>1, <3>1, <3>3
    <3>4. CASE i < cursor[e]
      <4>1. place[e][i] # "todo" /\ i # cursor[e]
        BY <2>1, <3>4 DEF StageInv, Items
      <4>2. QED
        BY <2>1, <3>1, <4>1
    <3>5. QED
      BY <3>2, <3>3, <3>4
  <2>3. writer[e] # "done" /\ outcome[e] # "finished"
    BY <2>1 DEF StageInv, Pool
  <2>4. At(e, "lost")' \subseteq At(e, "lost")
    BY <2>1 DEF TypeOK, At
  <2>5. QED
    BY <2>1, <2>2, <2>3, <2>4 DEF StageInv, Pool
<1>5. CASE FinalCheckWriteErr(e)
  <2>1. pc[e] = "check" /\ pc'[e] = "idle" /\ outcome'[e] = "error"
    BY <1>5 DEF TypeOK, FinalCheckWriteErr, ReturnError
  <2>2. QED
    BY <1>5, <2>1 DEF FinalCheckWriteErr, ReturnError, StageInv, At, InFlight, Pool, dbVars,
                      poolVars, writerVars
<1>6. CASE FinishExec(e)
  <2>1. pc[e] = "finishExec" /\ pc'[e] = "finishTask"
    BY <1>6 DEF TypeOK, FinishExec
  <2>2. QED
    BY <1>6, <2>1 DEF FinishExec, StageInv, At, InFlight, Pool, poolVars, writerVars
<1>7. CASE FinishTask(e)
  <2>1. pc[e] = "finishTask" /\ pc'[e] = "idle"
    BY <1>7 DEF TypeOK, FinishTask, ReturnNil
  <2>2. QED
    BY <1>7, <2>1 DEF FinishTask, ReturnNil, StageInv, At, InFlight, Pool, poolVars, writerVars
<1>8. CASE CancelExec(e)
  <2>1. /\ pc[e] = "cancelExec" /\ pc'[e] = "cancelTask"
        /\ stopRequested[e] => stopRequested'[e]
    BY <1>8 DEF TypeOK, CancelExec
  <2>2. QED
    BY <1>8, <2>1 DEF CancelExec, StageInv, At, InFlight, Pool, poolVars, writerVars
<1>9. CASE CancelTask(e)
  <2>1. pc[e] = "cancelTask" /\ pc'[e] = "idle" /\ outcome'[e] = "cancelled"
    BY <1>9 DEF TypeOK, CancelTask, ReturnNil
  <2>2. QED
    BY <1>9, <2>1 DEF CancelTask, ReturnNil, StageInv, At, InFlight, Pool, poolVars, writerVars
<1>10. QED
  BY <1>1, <1>2, <1>3, <1>4, <1>5, <1>6, <1>7, <1>8, <1>9 DEF Main, Jumps

-----------------------------------------------------------------------------
LEMMA InitIInv == Init => BatchInv
<1> SUFFICES ASSUME Init PROVE BatchInv
  OBVIOUS
<1>1. TypeOK
  BY SizesAssumption DEF Init, TypeOK, Statuses, Points, Outcomes, Places, WriterPoints, Tally,
                         Zero
<1>2. ASSUME NEW e \in Execs PROVE StageInv(e)
  <2>1. \A p \in Places \ {"todo"} : At(e, p) = {}
    BY DEF Init, At
  <2>2. QED
    BY <2>1 DEF Init, StageInv, InFlight, Pool, Places
<1>3. QED
  BY <1>1, <1>2 DEF BatchInv, PipelineInv

LEMMA StepIInv == BatchInv /\ [Next]_vars => BatchInv'
<1> SUFFICES ASSUME BatchInv, [Next]_vars PROVE BatchInv'
  OBVIOUS
<1>1. CASE UNCHANGED vars
  BY <1>1 DEF BatchInv, TypeOK, PipelineInv, StageInv, At, InFlight, vars, dbVars, handlerVars,
              queueVars, mainVars, poolVars, writerVars
<1>2. CASE Next
  <2>1. PICK e \in Execs :
            \/ Request(e) \/ Stop(e) \/ Start(e) \/ Crash(e)
            \/ Main(e) \/ Writer(e)
            \/ \E i \in Items : Worker(e, i)
    BY <1>2 DEF Next
  <2>2. TypeOK /\ StageInv(e)
    BY DEF BatchInv, PipelineInv
  <2>3. TypeOK'
    BY <2>1, <2>2, RequestType, StopType, StartType, CrashType, MainType, WriterType, WorkerType
  <2>4. StageInv(e)'
    BY <2>1, <2>2, RequestStopStage, StartCrashStage, MainStage, WriterStage, WorkerStage
  <2>5. ASSUME NEW d \in Execs, d # e PROVE StageInv(d)'
    <3>1. Same(d)
      BY <2>1, <2>2, <2>5, OthersSame
    <3>2. QED
      BY <3>1, SameStage DEF BatchInv, PipelineInv
  <2>6. QED
    BY <2>3, <2>4, <2>5 DEF BatchInv, PipelineInv
<1>3. QED
  BY <1>1, <1>2

\* The inductive invariant holds in every behaviour of the engine.
THEOREM InductiveInvariant == Spec => []BatchInv
BY InitIInv, StepIInv, PTL DEF Spec

\* A finished execution has stored every row of its last attempt, for any
\* number of items, any concurrency and flush size, and any stops, crashes,
\* failed inserts and redeliveries before it (batch.go 512-522).
THEOREM NothingLost == Spec => []FinishedIsComplete
<1>1. BatchInv => FinishedIsComplete
  BY DEF BatchInv, PipelineInv, StageInv, FinishedIsComplete
<1>2. QED
  BY <1>1, InductiveInvariant, PTL

-----------------------------------------------------------------------------
(* What is counted and shown.  The invariants of this part speak of one    *)
(* execution each; only the status of the task is shared.                  *)

Done(e) == {i \in Items : place[e][i] \notin {"todo", "probing"}}
Passed(e) == {i \in Items : place[e][i] \notin {"todo", "probing", "probed"} /\ passed[e][i]}
StoredOk(e) == {i \in Items : place[e][i] = "stored" /\ passed[e][i]}
StoredBad(e) == {i \in Items : place[e][i] = "stored" /\ ~ passed[e][i]}
Table(e) == rows[e].ok + rows[e].fail

\* An attempt runs what was delivered to it, and delivered is what was
\* requested; the items the loop has not come to are untouched.
FlowInv(e) ==
    /\ submitter[e] = "none" => status[e] = "none" /\ stopper[e] = "idle"
    /\ submitter[e] # "done" => delivery[e] = "none"
    /\ delivery[e] = "none" => pc[e] = "idle" /\ outcome[e] = "none"
    /\ pc[e] # "idle" => outcome[e] = "none" /\ delivery[e] \in {"taken", "takenInproc"}
    /\ pc[e] # "idle" \/ outcome[e] # "none" => tries[e] >= 1
    /\ \A i \in Items : i >= cursor[e] => place[e][i] = "todo"

\* The two counters count items, and the writer's copy lags behind.
CounterInv(e) ==
    /\ doneCount[e] = Cardinality(Done(e))
    /\ successCount[e] = Cardinality(Passed(e))
    /\ loadedSuccess[e] =< successCount[e]

\* The table holds what this attempt stored, and of each earlier attempt at
\* most one row per item.
TableInv(e) ==
    /\ rows[e].ok >= Cardinality(StoredOk(e))
    /\ rows[e].fail >= Cardinality(StoredBad(e))
    /\ Table(e) =< NumItems * tries[e]
    /\ outcome[e] # "crashed" /\ tries[e] >= 1 =>
        Table(e) + NumItems =< NumItems * tries[e] + Cardinality(StoredOk(e))
                                + Cardinality(StoredBad(e))

ShownInv(e) ==
    /\ counts[e].ok >= 0 /\ counts[e].fail >= 0
    /\ counts[e].ok + counts[e].fail =< NumItems * tries[e]
    /\ pc[e] = "cancelTask" \/ outcome[e] = "cancelled" =>
        counts[e] = rows[e] /\ status[e] = "cancelled"
    /\ (pc[e] = "finishTask" \/ outcome[e] = "finished") /\ tries[e] = 1 => counts[e] = rows[e]
    /\ (pc[e] = "finishTask" \/ outcome[e] = "finished") /\ ~ stopRequested[e] =>
        status[e] = Verdict(successCount[e])

\* Items submitted after the stop belong to the group the loop was in.
LateInv(e) ==
    /\ late[e] =< LocalConcurrency
    /\ late[e] > 0 => stopRequested[e]
    /\ pc[e] \in {"markTask", "markExec"} => late[e] = 0
    /\ pc[e] = "loop" => CheckDue(e) \/ late[e] =< (cursor[e] - 1) % LocalConcurrency
    /\ pc[e] = "submit" => late[e] =< (cursor[e] - 1) % LocalConcurrency

ExecInv(e) == FlowInv(e) /\ CounterInv(e) /\ TableInv(e) /\ ShownInv(e) /\ LateInv(e)

LEMMA MultipleGrows ==
    ASSUME NEW m \in Nat, NEW k \in Int
    PROVE  /\ m * k \in Int
           /\ m * (k + 1) = m * k + m
           /\ k >= 1 => m * k >= m
           /\ k =< -1 => m * k =< -m
  OBVIOUS

\* The position in a group grows by one, or a new group begins.
LEMMA ModStep ==
    ASSUME NEW a \in Nat, NEW m \in Nat \ {0}
    PROVE  /\ a % m \in 0..(m - 1)
           /\ (a + 1) % m = 0 \/ (a + 1) % m = (a % m) + 1
<1> DEFINE q == a \div m  r == a % m  s == (a + 1) \div m  t == (a + 1) % m
<1>1. q \in Int /\ s \in Int /\ r \in 0..(m - 1) /\ t \in 0..(m - 1)
  BY SMT
<1>2. a = m * q + r /\ a + 1 = m * s + t
  BY SMT
<1> HIDE DEF q, r, s, t
<1> DEFINE k == s - q  x == m * k
<1>3. k \in Int /\ x = r + 1 - t
  BY <1>1, <1>2
<1>4. x \in Int /\ (k >= 1 => x >= m) /\ (k =< -1 => x =< -m)
  BY <1>3, MultipleGrows
<1>5. k = 0 => x = 0
  BY <1>1
<1> HIDE DEF k, x
<1>6. t = 0 \/ t = r + 1
  BY <1>1, <1>3, <1>4, <1>5
<1> QED
  BY <1>1, <1>6 DEF r, t

LEMMA AddItem ==
    ASSUME NEW S \in SUBSET Items, NEW i \in Items, i \notin S
    PROVE  Cardinality(S \cup {i}) = Cardinality(S) + 1
  BY ItemSetsFinite, FS_AddElement

LEMMA AddItems ==
    ASSUME NEW S \in SUBSET Items, NEW T \in SUBSET Items, S \cap T = {}
    PROVE  Cardinality(S \cup T) = Cardinality(S) + Cardinality(T)
<1>1. Cardinality(S \cap T) = 0
  BY FS_EmptySet
<1>2. /\ IsFiniteSet(S) /\ IsFiniteSet(T)
      /\ Cardinality(S) \in Nat /\ Cardinality(T) \in Nat
  BY ItemSetsFinite
<1>3. Cardinality(S \cup T) = Cardinality(S) + Cardinality(T) - Cardinality(S \cap T)
  BY <1>2, FS_Union
<1> QED
  BY <1>1, <1>2, <1>3

LEMMA AllItems ==
    /\ Cardinality(Items) = NumItems
    /\ \A S \in SUBSET Items : Cardinality(S) =< NumItems
<1>1. Cardinality(Items) = NumItems
  BY FS_Interval, SizesAssumption DEF Items
<1>2. IsFiniteSet(Items)
  BY ItemSetsFinite
<1> QED
  BY <1>1, <1>2, FS_Subset

\* How the sets of items relate.
LEMMA Countings ==
    ASSUME TypeOK, NEW e \in Execs
    PROVE  /\ Cardinality(Done(e)) \in 0..NumItems
           /\ Cardinality(Passed(e)) =< Cardinality(Done(e))
           /\ Cardinality(Passed(e)) \in Nat
           /\ Cardinality(StoredOk(e)) \in Nat /\ Cardinality(StoredBad(e)) \in Nat
           /\ Cardinality(StoredOk(e)) + Cardinality(StoredBad(e)) =< NumItems
<1>1. /\ Done(e) \in SUBSET Items /\ Passed(e) \in SUBSET Done(e)
      /\ StoredOk(e) \in SUBSET Items /\ StoredBad(e) \in SUBSET Items
      /\ StoredOk(e) \cap StoredBad(e) = {}
  BY DEF Done, Passed, StoredOk, StoredBad
<1>2. Cardinality(Passed(e)) =< Cardinality(Done(e))
  BY <1>1, ItemSetsFinite, FS_Subset
<1>3. Cardinality(StoredOk(e) \cup StoredBad(e)) = Cardinality(StoredOk(e)) + Cardinality(StoredBad(e))
  BY <1>1, AddItems
<1>4. Cardinality(StoredOk(e) \cup StoredBad(e)) =< NumItems
  BY <1>1, AllItems
<1> QED
  BY <1>1, <1>2, <1>3, <1>4, ItemSetsFinite, AllItems, SizesAssumption

\* The other executions.
Untouched(d) ==
    /\ Same(d)
    /\ status'[d] = status[d] /\ counts'[d] = counts[d] /\ rows'[d] = rows[d]
    /\ submitter'[d] = submitter[d] /\ stopper'[d] = stopper[d]
    /\ delivery'[d] = delivery[d] /\ tries'[d] = tries[d]
    /\ passed'[d] = passed[d]
    /\ successCount'[d] = successCount[d] /\ doneCount'[d] = doneCount[d]
    /\ loadedSuccess'[d] = loadedSuccess[d] /\ late'[d] = late[d]

LEMMA UntouchedExec ==
    ASSUME NEW d \in Execs, ExecInv(d), Untouched(d)
    PROVE  ExecInv(d)'
<1>1. FlowInv(d)' /\ ShownInv(d)' /\ LateInv(d)'
  BY DEF ExecInv, Untouched, Same, FlowInv, ShownInv, LateInv, CheckDue, Verdict
<1>2. /\ Done(d)' = Done(d) /\ Passed(d)' = Passed(d)
      /\ StoredOk(d)' = StoredOk(d) /\ StoredBad(d)' = StoredBad(d)
  BY DEF Untouched, Same, Done, Passed, StoredOk, StoredBad
<1>3. CounterInv(d)' /\ TableInv(d)'
  BY <1>2 DEF ExecInv, Untouched, Same, CounterInv, TableInv, Table
<1> QED
  BY <1>1, <1>3 DEF ExecInv

LEMMA OthersUntouched ==
    ASSUME TypeOK, NEW e \in Execs, NEW d \in Execs, d # e,
           \/ Request(e) \/ Stop(e) \/ Start(e) \/ Crash(e) \/ Main(e) \/ Writer(e)
           \/ \E i \in Items : Worker(e, i)
    PROVE  Untouched(d)
<1>0. Same(d)
  BY OthersSame
<1>1. CASE Request(e) \/ Stop(e)
  BY <1>0, <1>1 DEF TypeOK, Untouched, Request, Stop, CreateExecution, RerunResetTask, Dispatch,
     StopRead, StopWrite, dbVars, handlerVars, queueVars, mainVars, poolVars, writerVars
<1>2. CASE Start(e) \/ Crash(e)
  BY <1>0, <1>2 DEF TypeOK, Untouched, Start, Crash, FreshLocals, dbVars, handlerVars
<1>3. CASE Main(e)
  <2>1. CASE Jumps(e)
    <3>1. \E from, to : Jump(e, from, to)
      BY <2>1 DEF Jumps, Load, LoopGoesOn, LoopEnds, WorkersJoined, WriterJoined,
                  FinalCheckStopped, FinalCheckOK
    <3>2. QED
      BY <1>0, <3>1 DEF Untouched, Jump, dbVars, handlerVars, queueVars, poolVars, writerVars
  <2>2. CASE MarkTaskRunning(e) \/ MarkExecRunning(e) \/ SubmitItem(e)
    BY <1>0, <2>2 DEF TypeOK, Untouched, MarkTaskRunning, MarkExecRunning, SubmitItem, dbVars,
       handlerVars, queueVars, poolVars, writerVars
  <2>3. CASE FinalCheckWriteErr(e)
    BY <1>0, <2>3 DEF TypeOK, Untouched, FinalCheckWriteErr, ReturnError, dbVars, handlerVars,
       poolVars, writerVars
  <2>4. CASE FinishExec(e) \/ CancelExec(e)
    BY <1>0, <2>4 DEF TypeOK, Untouched, FinishExec, CancelExec, handlerVars, queueVars,
       poolVars, writerVars
  <2>5. CASE FinishTask(e) \/ CancelTask(e)
    BY <1>0, <2>5 DEF TypeOK, Untouched, FinishTask, CancelTask, ReturnNil, handlerVars,
       poolVars, writerVars
  <2>6. QED
    BY <1>3, <2>1, <2>2, <2>3, <2>4, <2>5 DEF Main, Jumps
<1>4. CASE Writer(e)
  <2>1. CASE \E i \in Items : Receive(e, i)
    BY <1>0, <2>1 DEF TypeOK, Untouched, Receive, dbVars, handlerVars, queueVars, mainVars
  <2>2. CASE FlushFull(e) \/ FlushTick(e) \/ FlushLast(e)
    BY <1>0, <2>2 DEF TypeOK, Untouched, FlushFull, FlushTick, FlushLast, Flush, InsertSucceeds,
       InsertFails, handlerVars, queueVars, mainVars
  <2>3. CASE ProgressLoad(e) \/ ProgressWrite(e)
    BY <1>0, <2>3 DEF TypeOK, Untouched, ProgressLoad, ProgressWrite, dbVars, handlerVars,
       queueVars, mainVars, poolVars
  <2>4. QED
    BY <1>4, <2>1, <2>2, <2>3 DEF Writer
<1>5. CASE \E i \in Items : Worker(e, i)
  BY <1>0, <1>5 DEF TypeOK, Untouched, Worker, ProbeReturns, CountSuccess, SendRow, dbVars,
     handlerVars, queueVars, mainVars, writerVars
<1>6. QED
  BY <1>1, <1>2, <1>3, <1>4, <1>5

-----------------------------------------------------------------------------
(* One lemma per group of actions: the execution that steps keeps ExecInv. *)

ItemsStill(e) ==
    /\ place'[e] = place[e] /\ passed'[e] = passed[e]
    /\ successCount'[e] = successCount[e] /\ doneCount'[e] = doneCount[e]
    /\ loadedSuccess'[e] = loadedSuccess[e]

LEMMA StillCounters ==
    ASSUME NEW e \in Execs, CounterInv(e), ItemsStill(e)
    PROVE  CounterInv(e)'
<1>1. Done(e)' = Done(e) /\ Passed(e)' = Passed(e)
  BY DEF ItemsStill, Done, Passed
<1> QED
  BY <1>1 DEF ItemsStill, CounterInv

LEMMA StillTable ==
    ASSUME NEW e \in Execs, TableInv(e),
           place'[e] = place[e], passed'[e] = passed[e],
           rows'[e] = rows[e], tries'[e] = tries[e],
           outcome[e] = "crashed" => outcome'[e] = "crashed"
    PROVE  TableInv(e)'
<1>1. StoredOk(e)' = StoredOk(e) /\ StoredBad(e)' = StoredBad(e)
  BY DEF StoredOk, StoredBad
<1> QED
  BY <1>1 DEF TableInv, Table

LEMMA RequestExec ==
    ASSUME TypeOK, NEW e \in Execs, ExecInv(e), Request(e)
    PROVE  ExecInv(e)'
<1>1. /\ ItemsStill(e)
      /\ UNCHANGED <<stopRequested, counts, rows, stopper, tries, pc, outcome, cursor, place,
                     passed, late, successCount>>
  BY DEF Request, CreateExecution, RerunResetTask, Dispatch, ItemsStill, dbVars, queueVars,
     mainVars, poolVars, writerVars
<1>2. \/ submitter[e] = "none" /\ submitter'[e] \in {"ready", "created"} /\ UNCHANGED delivery
      \/ submitter[e] = "created" /\ submitter'[e] = "ready" /\ UNCHANGED <<delivery, status>>
      \/ submitter[e] = "ready" /\ submitter'[e] = "done" /\ UNCHANGED status
           /\ delivery'[e] \in {"queue", "inproc"}
  BY DEF TypeOK, Request, CreateExecution, RerunResetTask, Dispatch, dbVars, queueVars
<1>3. pc[e] = "idle" /\ outcome[e] = "none"
  BY <1>2 DEF ExecInv, FlowInv
<1>4. FlowInv(e)'
  BY <1>1, <1>2, <1>3 DEF ExecInv, FlowInv
<1>5. CounterInv(e)' /\ TableInv(e)'
  BY <1>1, StillCounters, StillTable DEF ExecInv
<1>6. ShownInv(e)' /\ LateInv(e)'
  BY <1>1, <1>3 DEF ExecInv, ShownInv, LateInv
<1> QED
  BY <1>4, <1>5, <1>6 DEF ExecInv

LEMMA StopExec ==
    ASSUME TypeOK, NEW e \in Execs, ExecInv(e), Stop(e)
    PROVE  ExecInv(e)'
<1>1. /\ ItemsStill(e)
      /\ UNCHANGED <<counts, rows, submitter, delivery, tries, pc, outcome, cursor, place,
                     passed, late, successCount>>
  BY DEF Stop, StopRead, StopWrite, ItemsStill, dbVars, queueVars, mainVars, poolVars, writerVars
<1>2. \/ /\ status[e] \in {"pending", "running"} /\ UNCHANGED <<status, stopRequested>>
      \/ /\ stopper[e] = "read" /\ status'[e] = "cancelled"
         /\ stopRequested'[e]
  BY DEF TypeOK, Stop, StopRead, StopWrite, dbVars
<1>3. submitter[e] # "none"
  BY <1>2 DEF ExecInv, FlowInv
<1>4. FlowInv(e)'
  BY <1>1, <1>3 DEF ExecInv, FlowInv
<1>5. CounterInv(e)' /\ TableInv(e)'
  BY <1>1, StillCounters, StillTable DEF ExecInv
<1>6. ShownInv(e)' /\ LateInv(e)'
  <2>1. CASE UNCHANGED <<status, stopRequested>>
    BY <1>1, <2>1 DEF ExecInv, ShownInv, LateInv, CheckDue, Verdict
  <2>2. CASE status'[e] = "cancelled" /\ stopRequested'[e]
    BY <1>1, <2>2 DEF ExecInv, ShownInv, LateInv, CheckDue
  <2> QED
    BY <1>2, <2>1, <2>2
<1> QED
  BY <1>4, <1>5, <1>6 DEF ExecInv

\* An attempt begins or is lost with its local variables.
LEMMA FreshCounts ==
    ASSUME TypeOK, NEW e \in Execs, FreshLocals(e)
    PROVE  /\ CounterInv(e)'
           /\ Cardinality(StoredOk(e)') = 0 /\ Cardinality(StoredBad(e)') = 0
           /\ \A i \in Items : place'[e][i] = "todo"
<1>1. /\ place'[e] = [i \in Items |-> "todo"]
      /\ successCount'[e] = 0 /\ doneCount'[e] = 0 /\ loadedSuccess'[e] = 0
  BY DEF TypeOK, FreshLocals
<1>2. Done(e)' = {} /\ Passed(e)' = {} /\ StoredOk(e)' = {} /\ StoredBad(e)' = {}
  BY <1>1 DEF Done, Passed, StoredOk, StoredBad
<1>3. Cardinality({}) = 0
  BY FS_EmptySet
<1> QED
  BY <1>1, <1>2, <1>3 DEF CounterInv

LEMMA StartExec ==
    ASSUME TypeOK, NEW e \in Execs, ExecInv(e), Start(e)
    PROVE  ExecInv(e)'
<1>1. /\ FreshLocals(e) /\ delivery[e] \in {"queue", "inproc"}
      /\ UNCHANGED <<status, stopRequested, counts, rows, submitter, stopper, late>>
      /\ delivery'[e] \in {"taken", "takenInproc"} /\ tries'[e] = tries[e] + 1
      /\ pc'[e] = "load" /\ outcome'[e] = "none" /\ tries[e] \in Nat
  BY DEF TypeOK, Start, dbVars, handlerVars
<1>2. FlowInv(e)'
  BY <1>1, FreshCounts DEF ExecInv, FlowInv
<1>3. /\ NumItems * tries'[e] = NumItems * tries[e] + NumItems
      /\ NumItems * tries[e] \in Int /\ NumItems \in Nat
  BY <1>1, MultipleGrows, SizesAssumption
<1>4. rows[e].ok \in Nat /\ rows[e].fail \in Int /\ counts[e].ok \in Int /\ counts[e].fail \in Int
  BY DEF TypeOK, Tally
<1>5. rows[e].fail >= 0
  BY <1>4, Countings DEF ExecInv, TableInv
<1>6. TableInv(e)'
  <2>1. Table(e)' = Table(e) /\ Table(e) \in Int
    BY <1>1, <1>4 DEF Table
  <2>2. Table(e)' =< NumItems * tries[e] /\ Table(e)' + NumItems =< NumItems * tries'[e]
    BY <1>3, <2>1 DEF ExecInv, TableInv
  <2>3. Table(e)' =< NumItems * tries'[e]
    BY <1>3, <2>1, <2>2
  <2>4. rows'[e].ok >= 0 /\ rows'[e].fail >= 0
    BY <1>1, <1>4, <1>5
  <2> QED
    BY <1>1, <1>3, <2>1, <2>2, <2>3, <2>4, FreshCounts DEF TableInv
<1>7. ShownInv(e)'
  BY <1>1, <1>3, <1>4 DEF ExecInv, ShownInv
<1>8. LateInv(e)'
  BY <1>1 DEF ExecInv, LateInv
<1> QED
  BY <1>1, <1>2, <1>6, <1>7, <1>8, FreshCounts DEF ExecInv

LEMMA CrashExec ==
    ASSUME TypeOK, NEW e \in Execs, ExecInv(e), Crash(e)
    PROVE  ExecInv(e)'
<1>1. /\ FreshLocals(e) /\ pc[e] # "idle"
      /\ UNCHANGED <<status, stopRequested, counts, rows, submitter, stopper, tries, late>>
      /\ delivery'[e] \in {"queue", "archived"}
      /\ pc'[e] = "idle" /\ outcome'[e] = "crashed"
  BY DEF TypeOK, Crash, Redelivery, dbVars, handlerVars
<1>2. FlowInv(e)'
  BY <1>1, FreshCounts DEF ExecInv, FlowInv
<1>3. rows[e].ok \in Nat /\ rows[e].fail \in Int
  BY DEF TypeOK, Tally
<1>4. rows[e].fail >= 0
  BY <1>3, Countings DEF ExecInv, TableInv
<1>5. TableInv(e)'
  BY <1>1, <1>3, <1>4, FreshCounts DEF ExecInv, TableInv, Table
<1>6. ShownInv(e)' /\ LateInv(e)'
  BY <1>1 DEF ExecInv, ShownInv, LateInv
<1> QED
  BY <1>1, <1>2, <1>5, <1>6, FreshCounts DEF ExecInv

\* The main goroutine leaves the items alone, except that it submits them.
LEMMA JumpsExec ==
    ASSUME TypeOK, NEW e \in Execs, ExecInv(e), Jumps(e)
    PROVE  ExecInv(e)'
<1>1. /\ ItemsStill(e)
      /\ UNCHANGED <<status, stopRequested, counts, rows, submitter, stopper, delivery, tries,
                     outcome, cursor, place, passed, late, successCount>>
  BY DEF Jumps, Load, LoopGoesOn, LoopEnds, WorkersJoined, WriterJoined, FinalCheckStopped,
     FinalCheckOK, Jump, ItemsStill, dbVars, handlerVars, queueVars, mainVars, poolVars, writerVars
<1>2. /\ pc[e] \notin {"idle", "finishTask", "cancelTask"}
      /\ pc'[e] \notin {"idle", "finishTask", "cancelTask", "loop", "markExec"}
  BY DEF TypeOK, Jumps, Load, LoopGoesOn, LoopEnds, WorkersJoined, WriterJoined,
     FinalCheckStopped, FinalCheckOK, Jump
<1>3. FlowInv(e)'
  BY <1>1, <1>2 DEF ExecInv, FlowInv
<1>4. CounterInv(e)' /\ TableInv(e)'
  BY <1>1, StillCounters, StillTable DEF ExecInv
<1>5. ShownInv(e)'
  BY <1>1, <1>2, <1>3 DEF ExecInv, ShownInv, FlowInv
<1>6. LateInv(e)'
  <2>1. pc'[e] = "markTask" => ~ stopRequested[e]
    BY DEF TypeOK, Jumps, Load, LoopGoesOn, LoopEnds, WorkersJoined, WriterJoined,
       FinalCheckStopped, FinalCheckOK, Jump
  <2>2. pc'[e] = "submit" => pc[e] = "loop" /\ ~ (CheckDue(e) /\ stopRequested[e])
    BY DEF TypeOK, Jumps, Load, LoopGoesOn, LoopEnds, WorkersJoined, WriterJoined,
       FinalCheckStopped, FinalCheckOK, Jump
  <2>3. late[e] \in Nat /\ (late[e] > 0 => stopRequested[e]) /\ late[e] =< LocalConcurrency
    BY DEF TypeOK, ExecInv, LateInv
  <2>4. cursor[e] - 1 \in Nat
    BY SizesAssumption DEF TypeOK
  <2>5. (cursor[e] - 1) % LocalConcurrency >= 0
    BY <2>4, ModStep, SizesAssumption
  <2>6. pc'[e] = "submit" => late[e] =< (cursor[e] - 1) % LocalConcurrency
    <3>1. CASE CheckDue(e) /\ ~ stopRequested[e]
      BY <2>3, <2>5, <3>1
    <3>2. CASE ~ CheckDue(e)
      BY <2>2, <3>2 DEF ExecInv, LateInv
    <3> QED
      BY <2>2, <3>1, <3>2
  <2>7. pc'[e] = "markTask" => late[e] = 0
    BY <2>1, <2>3
  <2> QED
    BY <1>1, <1>2, <2>3, <2>6, <2>7 DEF LateInv
<1> QED
  BY <1>3, <1>4, <1>5, <1>6 DEF ExecInv

LEMMA MarkExec ==
    ASSUME TypeOK, NEW e \in Execs, ExecInv(e), StageInv(e),
           MarkTaskRunning(e) \/ MarkExecRunning(e)
    PROVE  ExecInv(e)'
<1>1. /\ ItemsStill(e)
      /\ UNCHANGED <<stopRequested, counts, rows, submitter, stopper, delivery, tries,
                     outcome, cursor, place, passed, late, successCount>>
  BY DEF MarkTaskRunning, MarkExecRunning, ItemsStill, handlerVars, queueVars, poolVars, writerVars
<1>2. \/ pc[e] = "markTask" /\ pc'[e] = "markExec" /\ UNCHANGED status
      \/ pc[e] = "markExec" /\ pc'[e] = "loop"
  BY DEF TypeOK, MarkTaskRunning, MarkExecRunning
<1>3. FlowInv(e)'
  BY <1>1, <1>2 DEF ExecInv, FlowInv
<1>4. CounterInv(e)' /\ TableInv(e)'
  BY <1>1, StillCounters, StillTable DEF ExecInv
<1>5. ShownInv(e)'
  BY <1>1, <1>2, <1>3 DEF ExecInv, ShownInv, FlowInv
<1>6. LateInv(e)'
  <2>1. late[e] = 0 /\ cursor[e] = 1
    BY <1>2 DEF ExecInv, LateInv, StageInv
  <2>2. 0 % LocalConcurrency >= 0
    BY ModStep, SizesAssumption
  <2> QED
    BY <1>1, <1>2, <2>1, <2>2, SizesAssumption DEF LateInv
<1> QED
  BY <1>3, <1>4, <1>5, <1>6 DEF ExecInv

LEMMA SubmitExec ==
    ASSUME TypeOK, NEW e \in Execs, ExecInv(e), StageInv(e), SubmitItem(e)
    PROVE  ExecInv(e)'
<1>1. /\ UNCHANGED <<status, stopRequested, counts, rows, submitter, stopper, delivery, tries,
                     outcome, passed, successCount, doneCount, loadedSuccess>>
      /\ pc[e] = "submit" /\ pc'[e] = "loop"
      /\ cursor[e] \in Items /\ cursor'[e] = cursor[e] + 1
      /\ late'[e] = IF stopRequested[e] THEN late[e] + 1 ELSE late[e]
  BY DEF TypeOK, SubmitItem, StageInv, dbVars, handlerVars, queueVars, writerVars
<1>2. /\ place[e][cursor[e]] = "todo" /\ place'[e][cursor[e]] = "probing"
      /\ \A i \in Items : i # cursor[e] => place'[e][i] = place[e][i]
  <2>1. cursor[e] >= cursor[e]
    BY <1>1 DEF Items
  <2>2. place[e][cursor[e]] = "todo"
    BY <1>1, <2>1 DEF ExecInv, FlowInv
  <2>3. place[e] \in [Items -> Places] /\ place'[e] = [place[e] EXCEPT ![cursor[e]] = "probing"]
    BY DEF TypeOK, SubmitItem
  <2> QED
    BY <1>1, <2>2, <2>3
<1>3. FlowInv(e)'
  <2>1. \A i \in Items : i >= cursor'[e] => i >= cursor[e] /\ i # cursor[e]
    BY <1>1 DEF Items
  <2> QED
    BY <1>1, <1>2, <2>1 DEF ExecInv, FlowInv
<1>4. /\ Done(e)' = Done(e) /\ Passed(e)' = Passed(e)
      /\ StoredOk(e)' = StoredOk(e) /\ StoredBad(e)' = StoredBad(e)
  BY <1>1, <1>2 DEF Done, Passed, StoredOk, StoredBad
<1>5. CounterInv(e)' /\ TableInv(e)'
  BY <1>1, <1>4 DEF ExecInv, CounterInv, TableInv, Table
<1>6. ShownInv(e)'
  BY <1>1, <1>3 DEF ExecInv, ShownInv, FlowInv
<1>7. LateInv(e)'
  <2> DEFINE a == cursor[e] - 1
  <2>1. a \in Nat /\ cursor[e] = a + 1 /\ cursor'[e] - 1 = a + 1
    BY <1>1, SizesAssumption DEF Items
  <2>2. /\ a % LocalConcurrency \in 0..(LocalConcurrency - 1)
        /\ (a + 1) % LocalConcurrency = 0
           \/ (a + 1) % LocalConcurrency = (a % LocalConcurrency) + 1
    BY <2>1, ModStep, SizesAssumption
  <2>3. late[e] \in Nat /\ late[e] =< a % LocalConcurrency /\ (late[e] > 0 => stopRequested[e])
    BY <1>1 DEF TypeOK, ExecInv, LateInv
  <2>4. CheckDue(e)' <=> (a + 1) % LocalConcurrency = 0
    BY <2>1 DEF CheckDue
  <2> HIDE DEF a
  <2>5. late'[e] =< (a % LocalConcurrency) + 1 /\ (late'[e] > 0 => stopRequested[e])
    BY <1>1, <2>2, <2>3
  <2>6. late'[e] \in Nat
    BY <1>1, <2>3
  <2> QED
    BY <1>1, <2>1, <2>2, <2>4, <2>5, <2>6, SizesAssumption DEF LateInv
<1> QED
  BY <1>3, <1>5, <1>6, <1>7 DEF ExecInv

\* The attempt gives its verdict, or an error to its caller.
LEMMA ErrorExec ==
    ASSUME TypeOK, NEW e \in Execs, ExecInv(e), FinalCheckWriteErr(e)
    PROVE  ExecInv(e)'
<1>1. /\ ItemsStill(e)
      /\ UNCHANGED <<status, stopRequested, counts, rows, submitter, stopper, tries,
                     cursor, place, passed, late, successCount>>
      /\ pc[e] = "check" /\ pc'[e] = "idle" /\ outcome'[e] = "error"
      /\ delivery'[e] \in {"queue", "archived"}
  BY DEF TypeOK, FinalCheckWriteErr, ReturnError, Redelivery, ItemsStill, dbVars, handlerVars,
     poolVars, writerVars
<1>2. FlowInv(e)'
  BY <1>1 DEF ExecInv, FlowInv
<1>3. CounterInv(e)' /\ TableInv(e)'
  BY <1>1, StillCounters, StillTable DEF ExecInv, FlowInv
<1>4. ShownInv(e)' /\ LateInv(e)'
  BY <1>1 DEF ExecInv, ShownInv, LateInv
<1> QED
  BY <1>2, <1>3, <1>4 DEF ExecInv

LEMMA FinishExecExec ==
    ASSUME TypeOK, NEW e \in Execs, ExecInv(e), StageInv(e), FinishExec(e)
    PROVE  ExecInv(e)'
<1>1. /\ ItemsStill(e)
      /\ UNCHANGED <<stopRequested, rows, submitter, stopper, delivery, tries, outcome,
                     cursor, place, passed, late, successCount>>
      /\ pc[e] = "finishExec" /\ pc'[e] = "finishTask"
      /\ status'[e] = Verdict(successCount[e])
      /\ counts'[e] = [ok |-> successCount[e], fail |-> NumItems - successCount[e]]
  BY DEF TypeOK, FinishExec, ItemsStill, handlerVars, queueVars, poolVars, writerVars
<1>2. FlowInv(e)'
  BY <1>1 DEF ExecInv, FlowInv
<1>3. CounterInv(e)' /\ TableInv(e)'
  BY <1>1, StillCounters, StillTable DEF ExecInv
<1>4. LateInv(e)'
  BY <1>1 DEF ExecInv, LateInv
<1>5. tries[e] \in Nat /\ tries[e] >= 1 /\ outcome[e] = "none"
  BY <1>1 DEF TypeOK, ExecInv, FlowInv
<1>6. NumItems * tries[e] >= NumItems /\ NumItems * tries[e] \in Int /\ NumItems \in Nat
  BY <1>5, MultipleGrows, SizesAssumption
\* Every item is stored, so the passed items are the stored successes.
<1>7. /\ Passed(e) = StoredOk(e)
      /\ Cardinality(StoredOk(e)) + Cardinality(StoredBad(e)) = NumItems
  <2>1. \A i \in Items : place[e][i] = "stored"
    BY <1>1 DEF StageInv, At
  <2>2. Passed(e) = StoredOk(e) /\ StoredOk(e) \cup StoredBad(e) = Items
    BY <2>1 DEF Passed, StoredOk, StoredBad
  <2>3. StoredOk(e) \cap StoredBad(e) = {} /\ StoredOk(e) \in SUBSET Items /\ StoredBad(e) \in SUBSET Items
    BY DEF StoredOk, StoredBad
  <2> QED
    BY <2>2, <2>3, AddItems, AllItems
<1>8. successCount[e] = Cardinality(StoredOk(e)) /\ successCount[e] \in 0..NumItems
  BY <1>7, Countings DEF ExecInv, CounterInv
<1>9. ShownInv(e)'
  <2>1. /\ counts'[e].ok = successCount[e] /\ counts'[e].fail = NumItems - successCount[e]
    BY <1>1
  <2>2. tries[e] = 1 => counts'[e] = rows[e]
    <3> SUFFICES ASSUME tries[e] = 1 PROVE counts'[e] = rows[e]
      OBVIOUS
    <3>1. rows[e] \in [ok : Nat, fail : Int]
      BY DEF TypeOK, Tally
    <3>2. Table(e) =< NumItems
      BY <1>5, <1>6 DEF ExecInv, TableInv
    <3>3. /\ rows[e].ok >= Cardinality(StoredOk(e)) /\ rows[e].fail >= Cardinality(StoredBad(e))
          /\ rows[e].ok + rows[e].fail =< NumItems
          /\ rows[e].ok \in Int /\ rows[e].fail \in Int
      BY <3>1, <3>2 DEF ExecInv, TableInv, Table
    <3>4. rows[e].ok = successCount[e] /\ rows[e].fail = NumItems - successCount[e]
      BY <1>6, <1>7, <1>8, <3>3, Countings
    <3> QED
      BY <1>1, <3>1, <3>4
  <2> QED
    BY <1>1, <1>5, <1>6, <1>8, <2>1, <2>2 DEF ShownInv
<1> QED
  BY <1>2, <1>3, <1>4, <1>9 DEF ExecInv

LEMMA FinishTaskExec ==
    ASSUME TypeOK, NEW e \in Execs, ExecInv(e), FinishTask(e)
    PROVE  ExecInv(e)'
<1>1. /\ ItemsStill(e)
      /\ UNCHANGED <<status, stopRequested, counts, rows, submitter, stopper, delivery, tries,
                     cursor, place, passed, late, successCount>>
      /\ pc[e] = "finishTask" /\ pc'[e] = "idle" /\ outcome'[e] = "finished"
  BY DEF TypeOK, FinishTask, ReturnNil, ItemsStill, handlerVars, poolVars, writerVars
<1>2. FlowInv(e)'
  BY <1>1 DEF ExecInv, FlowInv
<1>3. CounterInv(e)' /\ TableInv(e)'
  BY <1>1, StillCounters, StillTable DEF ExecInv, FlowInv
<1>4. ShownInv(e)' /\ LateInv(e)'
  BY <1>1 DEF ExecInv, ShownInv, LateInv, Verdict
<1> QED
  BY <1>2, <1>3, <1>4 DEF ExecInv

LEMMA CancelExecExec ==
    ASSUME TypeOK, NEW e \in Execs, ExecInv(e), CancelExec(e)
    PROVE  ExecInv(e)'
<1>1. /\ ItemsStill(e)
      /\ UNCHANGED <<rows, submitter, stopper, delivery, tries, outcome,
                     cursor, place, passed, late, successCount>>
      /\ pc[e] = "cancelExec" /\ pc'[e] = "cancelTask"
      /\ status'[e] = "cancelled" /\ counts'[e] = rows[e] /\ stopRequested'[e]
  BY DEF TypeOK, CancelExec, ItemsStill, handlerVars, queueVars, poolVars, writerVars
<1>2. FlowInv(e)'
  BY <1>1 DEF ExecInv, FlowInv
<1>3. CounterInv(e)' /\ TableInv(e)'
  BY <1>1, StillCounters, StillTable DEF ExecInv
<1>4. LateInv(e)'
  BY <1>1 DEF ExecInv, LateInv
<1>5. ShownInv(e)'
  <2>1. rows[e].ok \in Nat /\ rows[e].fail \in Int /\ outcome[e] = "none"
    BY <1>1 DEF TypeOK, Tally, ExecInv, FlowInv
  <2>2. rows[e].ok >= 0 /\ rows[e].fail >= 0
    BY <2>1, Countings DEF ExecInv, TableInv
  <2> QED
    BY <1>1, <2>1, <2>2 DEF ExecInv, TableInv, Table, ShownInv
<1> QED
  BY <1>2, <1>3, <1>4, <1>5 DEF ExecInv

LEMMA CancelTaskExec ==
    ASSUME TypeOK, NEW e \in Execs, ExecInv(e), CancelTask(e)
    PROVE  ExecInv(e)'
<1>1. /\ ItemsStill(e)
      /\ UNCHANGED <<status, stopRequested, counts, rows, submitter, stopper, delivery, tries,
                     cursor, place, passed, late, successCount>>
      /\ pc[e] = "cancelTask" /\ pc'[e] = "idle" /\ outcome'[e] = "cancelled"
  BY DEF TypeOK, CancelTask, ReturnNil, ItemsStill, handlerVars, poolVars, writerVars
<1>2. FlowInv(e)'
  BY <1>1 DEF ExecInv, FlowInv
<1>3. CounterInv(e)' /\ TableInv(e)'
  BY <1>1, StillCounters, StillTable DEF ExecInv, FlowInv
<1>4. ShownInv(e)' /\ LateInv(e)'
  BY <1>1 DEF ExecInv, ShownInv, LateInv
<1> QED
  BY <1>2, <1>3, <1>4 DEF ExecInv

LEMMA MainExec ==
    ASSUME TypeOK, NEW e \in Execs, ExecInv(e), StageInv(e), Main(e)
    PROVE  ExecInv(e)'
  BY JumpsExec, MarkExec, SubmitExec, ErrorExec, FinishExecExec, FinishTaskExec, CancelExecExec,
     CancelTaskExec
     DEF Main, Jumps

\* The goroutine of an item counts it once, and once more if it passed.
LEMMA WorkerExec ==
    ASSUME TypeOK, NEW e \in Execs, NEW i \in Items, ExecInv(e), StageInv(e), Worker(e, i)
    PROVE  ExecInv(e)'
<1>1. /\ UNCHANGED <<status, stopRequested, counts, rows, submitter, stopper, delivery, tries,
                     pc, outcome, cursor, late, loadedSuccess>>
      /\ pc[e] # "idle" /\ place[e][i] \in {"probing", "probed", "sending"}
      /\ \E p \in {"probed", "sending", "channel"} : place' = [place EXCEPT ![e][i] = p]
  BY DEF Worker, ProbeReturns, CountSuccess, SendRow, dbVars, handlerVars, queueVars, mainVars,
     writerVars
<1>2. pc[e] \in Pool /\ outcome[e] = "none"
  BY <1>1 DEF StageInv, InFlight, At, ExecInv, FlowInv
<1>3. /\ place[e] \in [Items -> Places]
      /\ \A j \in Items : j # i => place'[e][j] = place[e][j]
      /\ place'[e][i] \in {"probed", "sending", "channel"}
  BY <1>1 DEF TypeOK
<1>4. FlowInv(e)'
  BY <1>1, <1>2, <1>3 DEF ExecInv, FlowInv
<1>5. \A j \in Items : j # i => passed'[e][j] = passed[e][j]
  BY DEF TypeOK, Worker, ProbeReturns, CountSuccess, SendRow
<1>6. StoredOk(e)' = StoredOk(e) /\ StoredBad(e)' = StoredBad(e)
  BY <1>1, <1>3, <1>5 DEF StoredOk, StoredBad
<1>7. TableInv(e)'
  BY <1>1, <1>6 DEF ExecInv, TableInv, Table
<1>8. ShownInv(e)' /\ LateInv(e)'
  BY <1>1, <1>2 DEF ExecInv, ShownInv, LateInv, CheckDue, Pool
<1>9. CounterInv(e)'
  <2>1. CASE ProbeReturns(e, i)
    <3>1. /\ place[e][i] = "probing" /\ place'[e][i] = "probed"
          /\ doneCount'[e] = doneCount[e] + 1 /\ successCount' = successCount
      BY <2>1 DEF TypeOK, ProbeReturns
    <3>2. i \notin Done(e) /\ Done(e) \in SUBSET Items /\ Done(e)' = Done(e) \cup {i}
      BY <1>3, <3>1 DEF Done
    <3>3. Passed(e)' = Passed(e)
      BY <1>3, <1>5, <3>1 DEF Passed
    <3> QED
      BY <1>1, <3>1, <3>2, <3>3, AddItem DEF ExecInv, CounterInv
  <2>2. CASE CountSuccess(e, i)
    <3>1. /\ place[e][i] = "probed" /\ place'[e][i] = "sending" /\ passed' = passed
          /\ doneCount' = doneCount
          /\ successCount'[e] = IF passed[e][i] THEN successCount[e] + 1 ELSE successCount[e]
      BY <2>2 DEF TypeOK, CountSuccess
    <3>2. Done(e)' = Done(e)
      BY <1>3, <3>1 DEF Done
    <3>3. i \notin Passed(e) /\ Passed(e) \in SUBSET Items
      BY <3>1 DEF Passed
    <3>4. loadedSuccess[e] \in Nat /\ successCount[e] \in Nat
      BY DEF TypeOK
    <3>5. CASE passed[e][i]
      <4>1. Passed(e)' = Passed(e) \cup {i}
        BY <1>3, <3>1, <3>5 DEF Passed
      <4> QED
        BY <1>1, <3>1, <3>2, <3>3, <3>4, <3>5, <4>1, AddItem DEF ExecInv, CounterInv
    <3>6. CASE ~ passed[e][i]
      <4>1. Passed(e)' = Passed(e)
        BY <1>3, <3>1, <3>6 DEF Passed
      <4> QED
        BY <1>1, <3>1, <3>2, <3>6, <4>1 DEF ExecInv, CounterInv
    <3> QED
      BY <3>5, <3>6
  <2>3. CASE SendRow(e, i)
    <3>1. /\ place[e][i] = "sending" /\ place'[e][i] = "channel" /\ passed' = passed
          /\ doneCount' = doneCount /\ successCount' = successCount
      BY <2>3 DEF TypeOK, SendRow
    <3>2. Done(e)' = Done(e) /\ Passed(e)' = Passed(e)
      BY <1>3, <3>1 DEF Done, Passed
    <3> QED
      BY <1>1, <3>1, <3>2 DEF ExecInv, CounterInv
  <2> QED
    BY <2>1, <2>2, <2>3 DEF Worker
<1> QED
  BY <1>4, <1>7, <1>8, <1>9 DEF ExecInv

\* A flush moves rows from the buffer to the table, or loses them.
LEMMA FlushExec ==
    ASSUME TypeOK, NEW e \in Execs, ExecInv(e), StageInv(e),
           FlushFull(e) \/ FlushTick(e) \/ FlushLast(e)
    PROVE  ExecInv(e)'
<1>1. /\ UNCHANGED <<status, stopRequested, counts, submitter, stopper, delivery, tries,
                     pc, outcome, cursor, late, loadedSuccess, passed, doneCount, successCount>>
      /\ Flush(e) /\ writer[e] \in {"receive", "full"}
  BY DEF FlushFull, FlushTick, FlushLast, handlerVars, queueVars, mainVars
<1>2. pc[e] \in Pool \cup {"drain"}
  BY <1>1 DEF StageInv
<1>3. outcome[e] = "none" /\ pc[e] # "idle" /\ tries[e] >= 1
  BY <1>2 DEF ExecInv, FlowInv, Pool
<1>4. /\ \A j \in Items : place[e][j] # "buffer" => place'[e][j] = place[e][j]
      /\ \A j \in Items : place[e][j] = "buffer" => place'[e][j] \in {"stored", "lost"}
  BY <1>1 DEF TypeOK, Flush, InsertSucceeds, InsertFails, At
<1>5. FlowInv(e)'
  BY <1>1, <1>4 DEF ExecInv, FlowInv
<1>6. Done(e)' = Done(e) /\ Passed(e)' = Passed(e)
  BY <1>1, <1>4 DEF Done, Passed
<1>7. CounterInv(e)'
  BY <1>1, <1>6 DEF ExecInv, CounterInv
<1>8. ShownInv(e)' /\ LateInv(e)'
  BY <1>1, <1>2, <1>3 DEF ExecInv, ShownInv, LateInv, CheckDue, Pool
<1>9. TableInv(e)'
  <2>1. CASE InsertSucceeds(e)
    <3> DEFINE oks == {j \in At(e, "buffer") : passed[e][j]}
               bads == {j \in At(e, "buffer") : ~ passed[e][j]}
    <3>1. /\ rows'[e].ok = rows[e].ok + Cardinality(oks)
          /\ rows'[e].fail = rows[e].fail + Cardinality(bads)
          /\ rows[e].ok \in Int /\ rows[e].fail \in Int
      BY <2>1 DEF TypeOK, InsertSucceeds, Tally
    <3>2. \A j \in Items : place[e][j] = "buffer" => place'[e][j] = "stored"
      BY <2>1 DEF TypeOK, InsertSucceeds, At
    <3>3. StoredOk(e)' = StoredOk(e) \cup oks /\ StoredBad(e)' = StoredBad(e) \cup bads
      BY <1>1, <1>4, <3>2 DEF StoredOk, StoredBad, At
    <3>4. /\ StoredOk(e) \cap oks = {} /\ StoredBad(e) \cap bads = {}
          /\ oks \in SUBSET Items /\ bads \in SUBSET Items
          /\ StoredOk(e) \in SUBSET Items /\ StoredBad(e) \in SUBSET Items
      BY DEF StoredOk, StoredBad, At
    <3> HIDE DEF oks, bads
    <3>5. /\ Cardinality(StoredOk(e)') = Cardinality(StoredOk(e)) + Cardinality(oks)
          /\ Cardinality(StoredBad(e)') = Cardinality(StoredBad(e)) + Cardinality(bads)
          /\ Cardinality(oks) \in Nat /\ Cardinality(bads) \in Nat
      BY <3>3, <3>4, AddItems, ItemSetsFinite
    <3>6. Cardinality(StoredOk(e)' \cup StoredBad(e)') = Cardinality(StoredOk(e)')
                                                         + Cardinality(StoredBad(e)')
      <4>1. StoredOk(e)' \in SUBSET Items /\ StoredBad(e)' \in SUBSET Items
        BY DEF StoredOk, StoredBad
      <4>2. StoredOk(e)' \cap StoredBad(e)' = {}
        BY DEF StoredOk, StoredBad
      <4> QED
        BY <4>1, <4>2, AddItems
    <3>7. Cardinality(StoredOk(e)') + Cardinality(StoredBad(e)') =< NumItems
      <4>1. StoredOk(e)' \cup StoredBad(e)' \in SUBSET Items
        BY DEF StoredOk, StoredBad
      <4> QED
        BY <3>6, <4>1, AllItems
    <3>8. /\ Cardinality(StoredOk(e)) \in Nat /\ Cardinality(StoredBad(e)) \in Nat
          /\ NumItems * tries[e] \in Int /\ NumItems \in Nat
      BY Countings, MultipleGrows, SizesAssumption DEF TypeOK
    <3>9. Table(e) \in Int /\ Table(e)' = Table(e) + Cardinality(oks) + Cardinality(bads)
      BY <3>1, <3>5 DEF Table
    <3>10. Table(e)' + NumItems =< NumItems * tries[e] + Cardinality(StoredOk(e)')
                                    + Cardinality(StoredBad(e)')
      BY <1>3, <3>5, <3>8, <3>9 DEF ExecInv, TableInv
    <3>11. Table(e)' =< NumItems * tries[e]
      BY <3>5, <3>7, <3>8, <3>9, <3>10
    <3>12. /\ rows'[e].ok >= Cardinality(StoredOk(e)')
           /\ rows'[e].fail >= Cardinality(StoredBad(e)')
      BY <3>1, <3>5, <3>8 DEF ExecInv, TableInv
    <3> QED
      BY <1>1, <3>10, <3>11, <3>12 DEF TableInv
  <2>2. CASE InsertFails(e)
    <3>1. \A j \in Items : place[e][j] = "buffer" => place'[e][j] = "lost"
      BY <2>2 DEF TypeOK, InsertFails
    <3>2. StoredOk(e)' = StoredOk(e) /\ StoredBad(e)' = StoredBad(e)
      BY <1>1, <1>4, <3>1 DEF StoredOk, StoredBad
    <3>3. rows' = rows
      BY <2>2 DEF InsertFails
    <3> QED
      BY <1>1, <3>2, <3>3 DEF ExecInv, TableInv, Table
  <2> QED
    BY <1>1, <2>1, <2>2 DEF Flush
<1> QED
  BY <1>5, <1>7, <1>8, <1>9 DEF ExecInv

LEMMA ReceiveExec ==
    ASSUME TypeOK, NEW e \in Execs, NEW i \in Items, ExecInv(e), StageInv(e), Receive(e, i)
    PROVE  ExecInv(e)'
<1>1. /\ UNCHANGED <<status, stopRequested, counts, rows, submitter, stopper, delivery, tries,
                     pc, outcome, cursor, late, loadedSuccess, passed, doneCount, successCount>>
      /\ place[e][i] = "channel" /\ place' = [place EXCEPT ![e][i] = "buffer"]
      /\ pc[e] \in Pool \cup {"drain"}
  BY DEF Receive, StageInv, dbVars, handlerVars, queueVars, mainVars
<1>2. place'[e][i] = "buffer" /\ \A j \in Items : j # i => place'[e][j] = place[e][j]
  BY <1>1 DEF TypeOK
<1>3. FlowInv(e)'
  BY <1>1, <1>2 DEF ExecInv, FlowInv
<1>4. /\ Done(e)' = Done(e) /\ Passed(e)' = Passed(e)
      /\ StoredOk(e)' = StoredOk(e) /\ StoredBad(e)' = StoredBad(e)
  BY <1>1, <1>2 DEF Done, Passed, StoredOk, StoredBad
<1>5. CounterInv(e)' /\ TableInv(e)'
  BY <1>1, <1>4 DEF ExecInv, CounterInv, TableInv, Table
<1>6. ShownInv(e)' /\ LateInv(e)'
  BY <1>1 DEF ExecInv, ShownInv, LateInv, CheckDue, Pool
<1> QED
  BY <1>3, <1>5, <1>6 DEF ExecInv

\* The progress update: what it writes lags behind the counters.
LEMMA ProgressExec ==
    ASSUME TypeOK, NEW e \in Execs, ExecInv(e), StageInv(e),
           ProgressLoad(e) \/ ProgressWrite(e)
    PROVE  ExecInv(e)'
<1>1. /\ UNCHANGED <<status, stopRequested, rows, submitter, stopper, delivery, tries,
                     pc, outcome, cursor, late, place, passed, doneCount, successCount>>
      /\ pc[e] \in Pool \cup {"drain"}
  BY DEF ProgressLoad, ProgressWrite, StageInv, dbVars, handlerVars, queueVars, mainVars, poolVars
<1>2. /\ loadedSuccess'[e] =< successCount[e]
      /\ \/ counts' = counts
         \/ counts'[e] = [ok |-> loadedSuccess[e], fail |-> doneCount[e] - loadedSuccess[e]]
  BY DEF TypeOK, ProgressLoad, ProgressWrite, ExecInv, CounterInv, dbVars
<1>3. FlowInv(e)' /\ LateInv(e)'
  BY <1>1 DEF ExecInv, FlowInv, LateInv, CheckDue, Pool
<1>4. /\ Done(e)' = Done(e) /\ Passed(e)' = Passed(e)
      /\ StoredOk(e)' = StoredOk(e) /\ StoredBad(e)' = StoredBad(e)
  BY <1>1 DEF Done, Passed, StoredOk, StoredBad
<1>5. CounterInv(e)' /\ TableInv(e)'
  BY <1>1, <1>2, <1>4 DEF ExecInv, CounterInv, TableInv, Table
<1>6. outcome[e] = "none" /\ tries[e] \in Nat /\ tries[e] >= 1
  BY <1>1 DEF TypeOK, ExecInv, FlowInv, Pool
<1>7. ShownInv(e)'
  <2>1. CASE counts' = counts
    BY <1>1, <1>6, <2>1 DEF ExecInv, ShownInv, Pool
  <2>2. CASE counts'[e] = [ok |-> loadedSuccess[e], fail |-> doneCount[e] - loadedSuccess[e]]
    <3>1. counts'[e].ok = loadedSuccess[e] /\ counts'[e].fail = doneCount[e] - loadedSuccess[e]
      BY <2>2
    <3>2. /\ loadedSuccess[e] \in Nat /\ doneCount[e] \in 0..NumItems
          /\ loadedSuccess[e] =< doneCount[e]
      BY Countings DEF TypeOK, ExecInv, CounterInv
    <3>3. NumItems * tries[e] >= NumItems /\ NumItems * tries[e] \in Int /\ NumItems \in Nat
      BY <1>6, MultipleGrows, SizesAssumption
    <3> QED
      BY <1>1, <1>6, <3>1, <3>2, <3>3 DEF ShownInv, Pool
  <2> QED
    BY <1>2, <2>1, <2>2
<1> QED
  BY <1>3, <1>5, <1>7 DEF ExecInv

LEMMA WriterExec ==
    ASSUME TypeOK, NEW e \in Execs, ExecInv(e), StageInv(e), Writer(e)
    PROVE  ExecInv(e)'
  BY ReceiveExec, FlushExec, ProgressExec DEF Writer

-----------------------------------------------------------------------------
EngineInv == BatchInv /\ \A e \in Execs : ExecInv(e)

LEMMA InitEngine ==
    ASSUME Init
    PROVE  EngineInv
<1>1. ASSUME NEW e \in Execs PROVE ExecInv(e)
  <2>1. Done(e) = {} /\ Passed(e) = {} /\ StoredOk(e) = {} /\ StoredBad(e) = {}
    BY DEF Init, Done, Passed, StoredOk, StoredBad
  <2>2. Cardinality({}) = 0
    BY FS_EmptySet
  <2>3. NumItems * 0 = 0
    BY SizesAssumption
  <2>4. FlowInv(e)
    BY DEF Init, FlowInv
  <2>5. CounterInv(e)
    BY <2>1, <2>2 DEF Init, CounterInv
  <2>6. TableInv(e)
    BY <2>1, <2>2, <2>3 DEF Init, TableInv, Table, Zero
  <2>7. ShownInv(e) /\ LateInv(e)
    BY <2>3, SizesAssumption DEF Init, ShownInv, LateInv, Zero
  <2> QED
    BY <2>4, <2>5, <2>6, <2>7 DEF ExecInv
<1> QED
  BY <1>1, InitIInv DEF EngineInv

LEMMA StepEngine ==
    ASSUME EngineInv, [Next]_vars
    PROVE  EngineInv'
<1>1. BatchInv'
  BY StepIInv DEF EngineInv
<1>2. CASE UNCHANGED vars
  <2>1. \A d \in Execs : Untouched(d)
    BY <1>2 DEF Untouched, Same, vars, dbVars, handlerVars, queueVars, mainVars, poolVars, writerVars
  <2> QED
    BY <1>1, <2>1, UntouchedExec DEF EngineInv
<1>3. CASE Next
  <2>1. PICK e \in Execs :
            \/ Request(e) \/ Stop(e) \/ Start(e) \/ Crash(e)
            \/ Main(e) \/ Writer(e)
            \/ \E i \in Items : Worker(e, i)
    BY <1>3 DEF Next
  <2>2. TypeOK /\ StageInv(e) /\ ExecInv(e)
    BY DEF EngineInv, BatchInv, PipelineInv
  <2>3. ExecInv(e)'
    BY <2>1, <2>2, RequestExec, StopExec, StartExec, CrashExec, MainExec, WriterExec, WorkerExec
  <2>4. ASSUME NEW d \in Execs, d # e PROVE ExecInv(d)'
    BY <2>1, <2>2, <2>4, OthersUntouched, UntouchedExec DEF EngineInv
  <2> QED
    BY <1>1, <2>3, <2>4 DEF EngineInv
<1> QED
  BY <1>2, <1>3

LEMMA EngineInvariance == Spec => []EngineInv
<1>1. EngineInv /\ [Next]_vars => EngineInv'
  BY StepEngine
<1> QED
  BY <1>1, InitEngine, PTL DEF Spec

\* CountsAreTrue: whatever is shown of an execution is sane, and what a
\* cancelled one and one finished at the first attempt report is what is in
\* the table, for any items, concurrency, flush size and faults
\* (batch.go 462-468, 525-530, 597-621).
THEOREM CountsShownAreTrue == Spec => []CountsAreTrue
<1>1. EngineInv => CountsAreTrue
  BY DEF EngineInv, ExecInv, ShownInv, CountsAreTrue, ProgressIsSane, CancelledCountsMatchRows,
         FirstAttemptCountsMatchRows
<1> QED
  BY <1>1, EngineInvariance, PTL

\* StopIsPrompt: whenever a stop arrives, at most LocalConcurrency more items
\* are started, over all attempts (batch.go 487-494).
THEOREM StopsArePrompt == Spec => []StopIsPrompt
<1>1. EngineInv => StopIsPrompt
  BY DEF EngineInv, ExecInv, LateInv, StopIsPrompt
<1> QED
  BY <1>1, EngineInvariance, PTL

-----------------------------------------------------------------------------
(* The status of the task.                                                 *)

\* What an execution that is over can still do.
LEMMA OverStep ==
    ASSUME TypeOK, NEW e \in Execs, ExecInv(e),
           \/ Request(e) \/ Stop(e) \/ Start(e) \/ Crash(e) \/ Main(e) \/ Writer(e)
           \/ \E i \in Items : Worker(e, i),
           outcome'[e] \in {"finished", "cancelled"}
    PROVE  \/ /\ outcome'[e] = outcome[e] /\ UNCHANGED taskStatus
              /\ UNCHANGED <<status, stopRequested>> \/ stopRequested'[e]
           \/ FinishTask(e) \/ CancelTask(e)
<1>1. outcome[e] # "none" => pc[e] = "idle" /\ submitter[e] = "done"
  BY DEF ExecInv, FlowInv
<1>2. CASE Request(e)
  <2>1. submitter[e] # "done" /\ outcome' = outcome
    BY <1>2 DEF Request, CreateExecution, RerunResetTask, Dispatch, mainVars
  <2> QED
    BY <1>1, <2>1
<1>3. CASE Stop(e)
  <2>1. outcome' = outcome /\ UNCHANGED taskStatus
    BY <1>3 DEF Stop, StopRead, StopWrite, dbVars, mainVars
  <2>2. UNCHANGED <<status, stopRequested>> \/ stopRequested'[e]
    BY <1>3 DEF Stop, StopRead, StopWrite, dbVars, TypeOK
  <2> QED
    BY <2>1, <2>2
<1>4. CASE Start(e) \/ Crash(e)
  BY <1>4 DEF TypeOK, Start, Crash
<1>5. CASE Main(e)
  <2>1. CASE Jumps(e)
    <3>1. pc[e] # "idle" /\ outcome' = outcome
      BY <2>1 DEF Jumps, Load, LoopGoesOn, LoopEnds, WorkersJoined, WriterJoined,
                  FinalCheckStopped, FinalCheckOK, Jump
    <3> QED
      BY <1>1, <3>1
  <2>2. CASE MarkTaskRunning(e) \/ MarkExecRunning(e) \/ SubmitItem(e) \/ FinishExec(e)
             \/ CancelExec(e)
    <3>1. pc[e] # "idle" /\ outcome' = outcome
      BY <2>2 DEF MarkTaskRunning, MarkExecRunning, SubmitItem, FinishExec, CancelExec
    <3> QED
      BY <1>1, <3>1
  <2>3. CASE FinalCheckWriteErr(e)
    BY <2>3 DEF TypeOK, FinalCheckWriteErr, ReturnError
  <2> QED
    BY <1>5, <2>1, <2>2, <2>3 DEF Main, Jumps
<1>6. CASE Writer(e)
  BY <1>6 DEF Writer, Receive, FlushFull, FlushTick, FlushLast, ProgressLoad, ProgressWrite,
              dbVars, mainVars
<1>7. CASE \E i \in Items : Worker(e, i)
  <2>1. pc[e] # "idle" /\ outcome' = outcome
    BY <1>7 DEF Worker, ProbeReturns, CountSuccess, SendRow, mainVars
  <2> QED
    BY <1>1, <2>1
<1> QED
  BY <1>2, <1>3, <1>4, <1>5, <1>6, <1>7

\* The last write of a run that is over.
LEMMA LastWrite ==
    ASSUME TypeOK, NEW e \in Execs, ExecInv(e)
    PROVE  /\ FinishTask(e) /\ ~ stopRequested'[e] =>
                taskStatus' = status[e] /\ UNCHANGED status /\ ~ stopRequested[e]
           /\ FinishTask(e) => outcome'[e] = "finished"
           /\ CancelTask(e) => taskStatus' = "cancelled" /\ outcome'[e] = "cancelled"
  BY DEF TypeOK, FinishTask, CancelTask, ReturnNil, ExecInv, ShownInv

\* TaskAgrees: the task of a single execution carries its verdict, and is
\* cancelled with it (batch.go 552-559, 615-628).
THEOREM TaskFollowsItsExecution ==
    ASSUME NEW x, Execs = {x}
    PROVE  Spec => []TaskAgrees
<1>1. Init => TaskAgrees
  BY DEF Init, TaskAgrees
<1>2. EngineInv /\ EngineInv' /\ TaskAgrees /\ [Next]_vars => TaskAgrees'
  <2> SUFFICES ASSUME EngineInv, EngineInv', TaskAgrees, [Next]_vars
               PROVE  TaskAgrees'
    OBVIOUS
  <2>1. CASE UNCHANGED vars
    BY <2>1 DEF TaskAgrees, vars, dbVars, mainVars
  <2>2. CASE Next
    <3>1. /\ x \in Execs /\ TypeOK /\ ExecInv(x) /\ ShownInv(x)'
      BY DEF EngineInv, BatchInv, ExecInv
    <3>2. \/ Request(x) \/ Stop(x) \/ Start(x) \/ Crash(x) \/ Main(x) \/ Writer(x)
          \/ \E i \in Items : Worker(x, i)
      BY <2>2 DEF Next
    <3>3. CASE outcome'[x] \in {"finished", "cancelled"}
      <4>1. outcome'[x] = "cancelled" => status'[x] = "cancelled"
        BY <3>1 DEF ShownInv
      <4>2. CASE outcome'[x] = outcome[x] /\ UNCHANGED taskStatus
                 /\ (UNCHANGED <<status, stopRequested>> \/ stopRequested'[x])
        BY <4>1, <4>2 DEF TaskAgrees
      <4>3. CASE FinishTask(x)
        BY <3>1, <4>3, LastWrite DEF TaskAgrees
      <4>4. CASE CancelTask(x)
        BY <3>1, <4>1, <4>4, LastWrite DEF TaskAgrees
      <4> QED
        BY <3>1, <3>2, <3>3, <4>2, <4>3, <4>4, OverStep
    <3>4. CASE outcome'[x] \notin {"finished", "cancelled"}
      BY <3>4 DEF TaskAgrees
    <3> QED
      BY <3>3, <3>4
  <2> QED
    BY <2>1, <2>2
<1> QED
  BY <1>1, <1>2, EngineInvariance, PTL DEF Spec

\* TaskReflectsAnExecution: when all executions of a task are over and none was
\* stopped, the task carries the verdict of one of them, for any number of
\* reruns in any interleaving and with any retries (batch.go 382-383, 559, 917).
THEOREM TaskShowsSomeVerdict ==
    ASSUME Execs # {}
    PROVE  Spec => []TaskReflectsAnExecution
<1>1. Init => TaskReflectsAnExecution
  BY DEF Init, TaskReflectsAnExecution
<1>2. EngineInv /\ TaskReflectsAnExecution /\ [Next]_vars => TaskReflectsAnExecution'
  <2> SUFFICES ASSUME EngineInv, TaskReflectsAnExecution, [Next]_vars,
                      \A d \in Execs : outcome'[d] = "finished" /\ ~ stopRequested'[d]
               PROVE  \E d \in Execs : taskStatus' = status'[d]
    BY DEF TaskReflectsAnExecution
  <2>1. CASE UNCHANGED vars
    BY <2>1 DEF TaskReflectsAnExecution, vars, dbVars, mainVars
  <2>2. CASE Next
    <3>1. PICK e \in Execs :
              \/ Request(e) \/ Stop(e) \/ Start(e) \/ Crash(e)
              \/ Main(e) \/ Writer(e)
              \/ \E i \in Items : Worker(e, i)
      BY <2>2 DEF Next
    <3>2. TypeOK /\ ExecInv(e)
      BY DEF EngineInv, BatchInv
    <3>3. \A d \in Execs : d # e => Untouched(d)
      BY <3>1, <3>2, OthersUntouched
    <3>4. CASE FinishTask(e)
      BY <3>2, <3>4, LastWrite
    <3>5. CASE CancelTask(e)
      BY <3>2, <3>5, LastWrite
    <3>6. CASE outcome'[e] = outcome[e] /\ UNCHANGED <<taskStatus, status, stopRequested>>
      <4>1. \A d \in Execs : outcome[d] = "finished" /\ ~ stopRequested[d]
        BY <3>3, <3>6 DEF Untouched, Same
      <4> QED
        BY <3>6, <4>1 DEF TaskReflectsAnExecution
    <3> QED
      BY <3>1, <3>2, <3>4, <3>5, <3>6, OverStep
  <2> QED
    BY <2>1, <2>2
<1> QED
  BY <1>1, <1>2, EngineInvariance, PTL DEF Spec

=============================================================================
