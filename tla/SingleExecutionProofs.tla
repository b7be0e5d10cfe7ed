----------------------- MODULE SingleExecutionProofs -----------------------
(***************************************************************************)
(* Proofs about SingleExecution for executions that are run by one         *)
(* delivery, as the router documents it, with any number of regions, any   *)
(* transports and any number of processes that apply results.              *)
(*                                                                         *)
(* RowInv follows a region from the rows the delivery has not come to yet, *)
(* over the one it is at, to those that are local results or in the hands  *)
(* of the bridges.  It makes results final, and a verdict that was once    *)
(* computed from final results stays supported.                            *)
(***************************************************************************)
EXTENDS SingleExecution, TLAPS

OneDelivery == Runners = {First}
NoBridges == Bridges = {}

D == <<First>>
J(r) == <<First, r>>

Before == {"idle", "markExec", "markTask", "load"}
Probing == {"local", "mqtt"}
Refreshing == {"refresh", "refreshExec", "refreshTask"}

\* A region before, while and after the delivery is at it.
RowOK(r) ==
    /\ r > next[D] \/ (r = next[D] /\ pc[D] \in Before \cup {"rows"}) => row[r] = "pending"
    /\ r = next[D] /\ pc[D] \in Probing => row[r] = "running" /\ job[J(r)] = "none"
    /\ r = next[D] /\ pc[D] = "published" => job[J(r)] # "none"
    /\ job[J(r)] # "none" =>
        /\ r < next[D] \/ (r = next[D] /\ pc[D] = "published")
        /\ row[r] \in {"running", report[J(r)]}
    /\ r < next[D] /\ job[J(r)] = "none" => row[r] \in Ended
    /\ loaded[D][r] = "pending"

RowInv ==
    /\ \A r \in Regions : RowOK(r)
    /\ pc[D] \in Before => next[D] = 1
    /\ pc[D] \in Probing \cup {"published"} => next[D] \in Regions
    /\ pc[D] \in Refreshing \cup {"done"} => next[D] = NumRegions + 1
    /\ pc[D] \in Before \cup {"rows"} \cup Probing \cup {"published"} \cup Refreshing \cup {"done"}
    /\ \A p \in Appliers :
        /\ pc[p] \in {"idle", "complete", "persist", "done"} \cup Refreshing
        /\ pc[p] # "idle" => job[JobOf(p)] # "none"

\* A verdict computed from the rows holds of them until it is written.
SummaryInv ==
    \A a \in Actors :
        pc[a] \in {"refreshExec", "refreshTask"} /\ summary[a] \in Final => Supports(summary[a])

IInv == TypeOK /\ RowInv /\ SummaryInv /\ FinalVerdictIsTrue

LEMMA TheActors ==
    ASSUME OneDelivery, SingleAssumption
    PROVE  /\ Deliveries = {D} /\ D \in Actors
           /\ \A p \in Appliers : /\ p # D /\ p \in Actors /\ p[3] \in Regions
                                  /\ JobOf(p) = J(p[3])
           /\ \A a \in Actors : a = D \/ a \in Appliers
           /\ \A r \in Regions : J(r) \in Jobs
           /\ \A r, q \in Regions : J(r) = J(q) <=> r = q
<1>1. Deliveries = {D}
  BY DEF OneDelivery, Deliveries, D
<1>2. \A p \in Appliers : p # D /\ p[3] \in Regions /\ p[2] = First
  BY DEF OneDelivery, Appliers, D, Jobs
<1>3. \A r \in Regions : J(r) \in Jobs
  BY DEF OneDelivery, J, Jobs
<1> QED
  BY <1>1, <1>2, <1>3 DEF Actors, JobOf, J

LEMMA InitIInv ==
    ASSUME OneDelivery, SingleAssumption, Init
    PROVE  IInv
<1>1. TypeOK
  BY DEF Init, TypeOK, RowStatuses, Points, SingleAssumption, OneDelivery
<1>2. RowInv
  BY TheActors DEF Init, RowInv, RowOK, Before, Probing, Refreshing, D, Regions, SingleAssumption
<1>3. SummaryInv /\ FinalVerdictIsTrue
  BY DEF Init, SummaryInv, FinalVerdictIsTrue, Final
<1> QED
  BY <1>1, <1>2, <1>3 DEF IInv

LEMMA Goes ==
    ASSUME TypeOK,
           NEW a \in Actors, NEW from, NEW to \in Points,
           Goto(a, from, to)
    PROVE  /\ pc' \in [Actors -> Points]
           /\ pc[a] = from /\ pc'[a] = to
           /\ \A c \in Actors : c # a => pc'[c] = pc[c]
  BY DEF TypeOK, Goto

-----------------------------------------------------------------------------
(* Steps that leave rows, jobs and the loop of the delivery alone.         *)

\* What ResultsAreFinal says of one step.
Keeps == \A r \in Regions : row[r] \in Ended => row'[r] = row[r]

LEMMA SupportsKept ==
    ASSUME Keeps, NEW v, Supports(v)
    PROVE  Supports(v)'
  BY DEF Supports, Keeps

\* Where an actor may go without touching a row.
LEMMA PlaceStep ==
    ASSUME OneDelivery, SingleAssumption, IInv,
           NEW a \in Actors, NEW from, NEW to \in Points,
           Goto(a, from, to),
           UNCHANGED <<row, job, report, next, loaded>>,
           a = D => \/ from \in Before /\ to \in Before
                    \/ from = "rows" /\ ~ AtRow(D) /\ to = "refresh"
                    \/ from \in Refreshing /\ to \in Refreshing \cup {"done"},
           a # D => \/ from = "idle" /\ to \in {"complete", "done"} /\ job[JobOf(a)] # "none"
                    \/ from \in Refreshing /\ to \in Refreshing \cup {"done"}
    PROVE  RowInv'
<1>1. /\ pc[a] = from /\ pc'[a] = to
      /\ \A c \in Actors : c # a => pc'[c] = pc[c]
  BY Goes DEF IInv
<1>2. CASE a = D
  <2>1. next[D] \in 1..(NumRegions + 1) /\ D \in Deliveries
    BY TheActors DEF IInv, TypeOK
  <2>2. from = "rows" => next[D] = NumRegions + 1
    BY <1>2, <2>1, SingleAssumption, <1>1 DEF AtRow, Regions, Before, Refreshing
  <2>3. \A r \in Regions : RowOK(r)'
    <3> SUFFICES ASSUME NEW r \in Regions
                 PROVE  RowOK(r)'
      OBVIOUS
    <3>1. RowOK(r) /\ r \in 1..NumRegions
      BY DEF IInv, RowInv, Regions
    <3>2. next[D] = NumRegions + 1 => r < next[D]
      BY <3>1, SingleAssumption
    <3> QED
      BY <1>1, <1>2, <2>1, <2>2, <3>1, <3>2 DEF RowOK, Before, Probing, Refreshing, J, IInv, RowInv
  <2>4. \A p \in Appliers : p # a /\ p \in Actors /\ JobOf(p)' = JobOf(p)
    BY <1>2, TheActors DEF JobOf
  <2> QED
    BY <1>1, <1>2, <2>2, <2>3, <2>4 DEF IInv, RowInv, Before, Probing, Refreshing
<1>3. CASE a # D
  <2>1. a \in Appliers /\ pc'[D] = pc[D]
    BY <1>1, <1>3, TheActors
  <2>2. \A r \in Regions : RowOK(r)'
    BY <2>1 DEF IInv, RowInv, RowOK, J
  <2>3. \A p \in Appliers : p \in Actors
    BY TheActors
  <2> QED
    BY <1>1, <1>3, <2>1, <2>2, <2>3 DEF IInv, RowInv, Refreshing, JobOf
<1> QED
  BY <1>2, <1>3

\* The step of an actor that writes no verdict and no summary.
LEMMA VerdictsKept ==
    ASSUME SummaryInv, FinalVerdictIsTrue,
           NEW a \in Actors,
           \A c \in Actors : c # a => pc'[c] = pc[c],
           pc'[a] \notin {"refreshExec", "refreshTask"},
           UNCHANGED <<execStatus, taskStatus, summary>>,
           Keeps
    PROVE  SummaryInv' /\ FinalVerdictIsTrue'
  BY SupportsKept DEF SummaryInv, FinalVerdictIsTrue

LEMMA HandlerDispatchStep ==
    ASSUME SingleAssumption, IInv, HandlerDispatch
    PROVE  IInv' /\ Keeps
<1>1. /\ UNCHANGED <<row, execStatus, taskStatus, job, report, pc, next, loaded, summary>>
      /\ handler' = "done" /\ dispatched' = dispatched \cup {Second}
  BY DEF HandlerDispatch
<1>2. TypeOK'
  BY <1>1 DEF IInv, TypeOK, SingleAssumption
<1>3. RowInv'
  BY <1>1 DEF IInv, RowInv, RowOK, J, JobOf
<1>4. SummaryInv' /\ FinalVerdictIsTrue'
  BY <1>1 DEF IInv, SummaryInv, FinalVerdictIsTrue, Supports
<1> QED
  BY <1>1, <1>2, <1>3, <1>4 DEF IInv, Keeps

LEMMA StartStep ==
    ASSUME OneDelivery, SingleAssumption, IInv,
           Start(D)
    PROVE  IInv' /\ Keeps
<1>1. /\ Goto(D, "idle", "markExec") /\ D \in Actors
      /\ UNCHANGED <<row, execStatus, taskStatus, job, report, handler, dispatched, next, loaded, summary>>
  BY TheActors DEF Start
<1>2. RowInv'
  BY <1>1, PlaceStep DEF Points, Before
<1>3. /\ pc' \in [Actors -> Points] /\ pc'[D] = "markExec"
      /\ \A c \in Actors : c # D => pc'[c] = pc[c]
  BY <1>1, Goes DEF IInv, Points
<1>4. TypeOK' /\ Keeps
  BY <1>1, <1>3 DEF IInv, TypeOK, Keeps
<1>5. SummaryInv' /\ FinalVerdictIsTrue'
  BY <1>1, <1>3, <1>4, VerdictsKept DEF IInv
<1> QED
  BY <1>2, <1>4, <1>5 DEF IInv

LEMMA MarkExecRunningStep ==
    ASSUME OneDelivery, SingleAssumption, IInv,
           MarkExecRunning(D)
    PROVE  IInv' /\ Keeps
<1>1. /\ Goto(D, "markExec", "markTask") /\ execStatus' = "running" /\ D \in Actors
      /\ UNCHANGED <<row, taskStatus, job, report, handler, dispatched, next, loaded, summary>>
  BY TheActors DEF MarkExecRunning
<1>2. RowInv'
  BY <1>1, PlaceStep DEF Points, Before
<1>3. /\ pc' \in [Actors -> Points] /\ pc'[D] = "markTask"
      /\ \A c \in Actors : c # D => pc'[c] = pc[c]
  BY <1>1, Goes DEF IInv, Points
<1>4. TypeOK' /\ Keeps
  BY <1>1, <1>3 DEF IInv, TypeOK, Keeps
<1>5. SummaryInv' /\ FinalVerdictIsTrue'
  BY <1>1, <1>3, <1>4, SupportsKept DEF IInv, SummaryInv, FinalVerdictIsTrue, Final
<1> QED
  BY <1>2, <1>4, <1>5 DEF IInv

LEMMA MarkTaskRunningStep ==
    ASSUME OneDelivery, SingleAssumption, IInv,
           MarkTaskRunning(D)
    PROVE  IInv' /\ Keeps
<1>1. /\ Goto(D, "markTask", "load") /\ taskStatus' = "running" /\ D \in Actors
      /\ UNCHANGED <<row, execStatus, job, report, handler, dispatched, next, loaded, summary>>
  BY TheActors DEF MarkTaskRunning
<1>2. RowInv'
  BY <1>1, PlaceStep DEF Points, Before
<1>3. /\ pc' \in [Actors -> Points] /\ pc'[D] = "load"
      /\ \A c \in Actors : c # D => pc'[c] = pc[c]
  BY <1>1, Goes DEF IInv, Points
<1>4. TypeOK' /\ Keeps
  BY <1>1, <1>3 DEF IInv, TypeOK, Keeps
<1>5. SummaryInv' /\ FinalVerdictIsTrue'
  BY <1>1, <1>3, <1>4, SupportsKept DEF IInv, SummaryInv, FinalVerdictIsTrue, Final
<1> QED
  BY <1>2, <1>4, <1>5 DEF IInv

LEMMA RowsDoneStep ==
    ASSUME OneDelivery, SingleAssumption, IInv,
           RowsDone(D)
    PROVE  IInv' /\ Keeps
<1>1. /\ Goto(D, "rows", "refresh") /\ ~ AtRow(D) /\ D \in Actors
      /\ UNCHANGED <<row, execStatus, taskStatus, job, report, handler, dispatched, next, loaded, summary>>
  BY TheActors DEF RowsDone
<1>2. RowInv'
  BY <1>1, PlaceStep DEF Points
<1>3. /\ pc' \in [Actors -> Points] /\ pc'[D] = "refresh"
      /\ \A c \in Actors : c # D => pc'[c] = pc[c]
  BY <1>1, Goes DEF IInv, Points
<1>4. TypeOK' /\ Keeps
  BY <1>1, <1>3 DEF IInv, TypeOK, Keeps
<1>5. SummaryInv' /\ FinalVerdictIsTrue'
  BY <1>1, <1>3, <1>4, VerdictsKept DEF IInv
<1> QED
  BY <1>2, <1>4, <1>5 DEF IInv

LEMMA ReceiveResultStep ==
    ASSUME OneDelivery, SingleAssumption, IInv,
           NEW p \in Appliers,
           ReceiveResult(p)
    PROVE  IInv' /\ Keeps
<1> DEFINE to == IF job[JobOf(p)] = "completed" THEN "done" ELSE "complete"
<1>1. /\ Goto(p, "idle", to) /\ p \in Actors /\ p # D /\ job[JobOf(p)] # "none"
      /\ UNCHANGED <<row, execStatus, taskStatus, job, report, handler, dispatched, next, loaded, summary>>
  BY TheActors DEF ReceiveResult
<1>2. to \in {"complete", "done"} /\ to \in Points
  BY DEF Points
<1> HIDE DEF to
<1>3. RowInv'
  BY <1>1, <1>2, PlaceStep
<1>4. /\ pc' \in [Actors -> Points] /\ pc'[p] = to
      /\ \A c \in Actors : c # p => pc'[c] = pc[c]
  BY <1>1, <1>2, Goes DEF IInv
<1>5. TypeOK' /\ Keeps
  BY <1>1, <1>4 DEF IInv, TypeOK, Keeps
<1>6. SummaryInv' /\ FinalVerdictIsTrue'
  BY <1>1, <1>2, <1>4, <1>5, VerdictsKept DEF IInv
<1> QED
  BY <1>3, <1>5, <1>6 DEF IInv

-----------------------------------------------------------------------------
(* The summary.                                                            *)

LEMMA SummaryIsTrue ==
    ASSUME SingleAssumption, TypeOK
    PROVE  /\ Summary \in Final \cup {"running"}
           /\ Summary \in Final => Supports(Summary)
<1>1. 1 \in Regions
  BY DEF Regions, SingleAssumption
<1>2. \A r \in Regions : row[r] \in RowStatuses
  BY DEF TypeOK
<1> QED
  BY <1>1, <1>2 DEF Summary, Supports, Final, RowStatuses, Ended

LEMMA RefreshReadStep ==
    ASSUME OneDelivery, SingleAssumption, IInv,
           NEW a \in Actors,
           RefreshRead(a)
    PROVE  IInv' /\ Keeps
<1>1. /\ Goto(a, "refresh", "refreshExec")
      /\ summary' = [summary EXCEPT ![a] = Summary]
      /\ UNCHANGED <<row, execStatus, taskStatus, job, report, handler, dispatched, next, loaded>>
  BY DEF RefreshRead
<1>2. RowInv'
  BY <1>1, PlaceStep DEF Points, Refreshing
<1>3. /\ pc' \in [Actors -> Points] /\ pc'[a] = "refreshExec"
      /\ \A c \in Actors : c # a => pc'[c] = pc[c]
  BY <1>1, Goes DEF IInv, Points
<1>4. TypeOK' /\ Keeps
  BY <1>1, <1>3, SummaryIsTrue DEF IInv, TypeOK, Keeps
<1>5. /\ summary'[a] = Summary
      /\ \A c \in Actors : c # a => summary'[c] = summary[c]
  BY <1>1 DEF IInv, TypeOK
<1>6. summary'[a] \in Final => Supports(summary'[a])
  BY <1>5, SummaryIsTrue DEF IInv
<1>7. \A v : Supports(v) => Supports(v)'
  BY <1>4, SupportsKept
<1>8. SummaryInv' /\ FinalVerdictIsTrue'
  <2>1. \A c \in Actors : pc'[c] \in {"refreshExec", "refreshTask"} /\ summary'[c] \in Final =>
           Supports(summary'[c])
    BY <1>3, <1>5, <1>6 DEF IInv, SummaryInv
  <2>2. FinalVerdictIsTrue'
    BY <1>1, <1>7 DEF IInv, FinalVerdictIsTrue
  <2> QED
    BY <1>1, <2>1, <2>2 DEF SummaryInv, Supports
<1> QED
  BY <1>2, <1>4, <1>8 DEF IInv

LEMMA RefreshExecStep ==
    ASSUME OneDelivery, SingleAssumption, IInv,
           NEW a \in Actors,
           RefreshExec(a)
    PROVE  IInv' /\ Keeps
<1>1. /\ Goto(a, "refreshExec", "refreshTask") /\ pc[a] = "refreshExec"
      /\ execStatus' = summary[a]
      /\ UNCHANGED <<row, taskStatus, job, report, handler, dispatched, next, loaded, summary>>
  BY DEF RefreshExec, Goto
<1>2. RowInv'
  BY <1>1, PlaceStep DEF Points, Refreshing
<1>3. /\ pc' \in [Actors -> Points] /\ pc'[a] = "refreshTask"
      /\ \A c \in Actors : c # a => pc'[c] = pc[c]
  BY <1>1, Goes DEF IInv, Points
<1>4. TypeOK' /\ Keeps
  BY <1>1, <1>3 DEF IInv, TypeOK, Keeps
<1>5. \A v : Supports(v)' <=> Supports(v)
  BY <1>1 DEF Supports
<1>6. SummaryInv'
  BY <1>1, <1>3, <1>5 DEF IInv, SummaryInv
<1>7. FinalVerdictIsTrue'
  <2>1. summary[a] \in Final => Supports(summary[a])
    BY <1>1 DEF IInv, SummaryInv
  <2> QED
    BY <1>1, <1>5, <2>1 DEF IInv, FinalVerdictIsTrue
<1> QED
  BY <1>2, <1>4, <1>6, <1>7 DEF IInv

LEMMA RefreshTaskStep ==
    ASSUME OneDelivery, SingleAssumption, IInv,
           NEW a \in Actors,
           RefreshTask(a)
    PROVE  IInv' /\ Keeps
<1>1. /\ Goto(a, "refreshTask", "done") /\ pc[a] = "refreshTask"
      /\ taskStatus' = summary[a]
      /\ UNCHANGED <<row, execStatus, job, report, handler, dispatched, next, loaded, summary>>
  BY DEF RefreshTask, Goto
<1>2. RowInv'
  BY <1>1, PlaceStep DEF Points, Refreshing
<1>3. /\ pc' \in [Actors -> Points] /\ pc'[a] = "done"
      /\ \A c \in Actors : c # a => pc'[c] = pc[c]
  BY <1>1, Goes DEF IInv, Points
<1>4. TypeOK' /\ Keeps
  BY <1>1, <1>3 DEF IInv, TypeOK, Keeps
<1>5. \A v : Supports(v)' <=> Supports(v)
  BY <1>1 DEF Supports
<1>6. SummaryInv'
  BY <1>1, <1>3, <1>5 DEF IInv, SummaryInv
<1>7. FinalVerdictIsTrue'
  <2>1. summary[a] \in Final => Supports(summary[a])
    BY <1>1 DEF IInv, SummaryInv
  <2> QED
    BY <1>1, <1>5, <2>1 DEF IInv, FinalVerdictIsTrue
<1> QED
  BY <1>2, <1>4, <1>6, <1>7 DEF IInv

-----------------------------------------------------------------------------
(* Steps on the rows.                                                      *)

\* The delivery is at a region.
LEMMA AtItsRow ==
    ASSUME OneDelivery, SingleAssumption, IInv
    PROVE  /\ D \in Deliveries /\ D \in Actors /\ D[1] = First
           /\ next[D] \in 1..(NumRegions + 1) /\ NumRegions \in Nat
           /\ AtRow(D) <=> next[D] \in Regions
           /\ next[D] \in Regions =>
                /\ <<D[1], next[D]>> = J(next[D]) /\ J(next[D]) \in Jobs
                /\ next[D] \in Nat /\ next[D] + 1 \in 1..(NumRegions + 1)
  BY TheActors DEF IInv, TypeOK, AtRow, J, D, SingleAssumption, Regions

LEMMA LoadRowsStep ==
    ASSUME OneDelivery, SingleAssumption, IInv,
           LoadRows(D)
    PROVE  IInv' /\ Keeps
<1>1. /\ Goto(D, "load", "rows")
      /\ loaded' = [loaded EXCEPT ![D] = row]
      /\ UNCHANGED <<row, execStatus, taskStatus, job, report, handler, dispatched, next, summary>>
  BY DEF LoadRows
<1>2. /\ pc' \in [Actors -> Points] /\ pc[D] = "load" /\ pc'[D] = "rows"
      /\ \A c \in Actors : c # D => pc'[c] = pc[c]
  BY <1>1, AtItsRow, Goes DEF IInv, Points
<1>3. TypeOK' /\ Keeps
  BY <1>1, <1>2, AtItsRow DEF IInv, TypeOK, Keeps
<1>4. loaded'[D] = row
  BY <1>1, AtItsRow DEF IInv, TypeOK
<1>5. next[D] = 1
  BY <1>2 DEF IInv, RowInv, Before
<1>6. \A r \in Regions : RowOK(r)'
  <2> SUFFICES ASSUME NEW r \in Regions
               PROVE  RowOK(r)'
    OBVIOUS
  <2>1. RowOK(r) /\ r \in 1..NumRegions /\ r >= 1
    BY AtItsRow DEF IInv, RowInv, Regions
  <2>2. row[r] = "pending" /\ loaded'[D][r] = row[r]
    BY <1>2, <1>4, <1>5, <2>1, AtItsRow DEF RowOK, Before
  <2> QED
    BY <1>1, <1>2, <1>5, <2>1, <2>2 DEF RowOK, Before, Probing, J
<1>7. \A p \in Appliers : p # D /\ p \in Actors /\ JobOf(p)' = JobOf(p)
  BY TheActors DEF JobOf
<1>8. RowInv'
  BY <1>1, <1>2, <1>6, <1>7 DEF IInv, RowInv, Before, Probing, Refreshing
<1>9. SummaryInv' /\ FinalVerdictIsTrue'
  BY <1>1, <1>2, <1>3, AtItsRow, VerdictsKept DEF IInv
<1> QED
  BY <1>3, <1>8, <1>9 DEF IInv

\* Everything was pending when the rows were loaded: nothing is skipped.
LEMMA NothingSkipped ==
    ASSUME OneDelivery, SingleAssumption, IInv
    PROVE  ~ SkipRow(D)
  BY AtItsRow DEF SkipRow, IInv, RowInv, RowOK

LEMMA BeginRowStep ==
    ASSUME OneDelivery, SingleAssumption, IInv,
           BeginRow(D)
    PROVE  IInv' /\ Keeps
<1>1. PICK transport \in Transports : Goto(D, "rows", transport)
  BY DEF BeginRow
<1>2. /\ next[D] \in Regions
      /\ row' = [row EXCEPT ![next[D]] = "running"]
      /\ UNCHANGED <<execStatus, taskStatus, job, report, handler, dispatched, next, loaded, summary>>
  BY AtItsRow DEF BeginRow
<1>3. transport \in Probing /\ transport \in Points
  BY DEF SingleAssumption, Probing, Points
<1>4. /\ pc' \in [Actors -> Points] /\ pc[D] = "rows" /\ pc'[D] = transport
      /\ \A c \in Actors : c # D => pc'[c] = pc[c]
  BY <1>1, <1>3, AtItsRow, Goes DEF IInv
<1>5. /\ row' \in [Regions -> RowStatuses] /\ row'[next[D]] = "running"
      /\ \A r \in Regions : r # next[D] => row'[r] = row[r]
  BY <1>2 DEF IInv, TypeOK, RowStatuses
<1>6. /\ row[next[D]] = "pending" /\ job[J(next[D])] = "none"
  BY <1>2, <1>4, AtItsRow DEF IInv, RowInv, RowOK, Before
<1>7. TypeOK' /\ Keeps
  BY <1>2, <1>4, <1>5, <1>6 DEF IInv, TypeOK, Keeps, Ended
<1>8. \A r \in Regions : RowOK(r)'
  <2> SUFFICES ASSUME NEW r \in Regions
               PROVE  RowOK(r)'
    OBVIOUS
  <2>1. RowOK(r) /\ r \in 1..NumRegions
    BY DEF IInv, RowInv, Regions
  <2>2. CASE r = next[D]
    BY <1>2, <1>3, <1>4, <1>5, <1>6, <2>1, <2>2, AtItsRow DEF RowOK, Before, Probing, J
  <2>3. CASE r # next[D]
    BY <1>2, <1>3, <1>4, <1>5, <2>1, <2>3, AtItsRow DEF RowOK, Before, Probing, J
  <2> QED
    BY <2>2, <2>3
<1>9. \A p \in Appliers : p # D /\ p \in Actors /\ JobOf(p)' = JobOf(p)
  BY TheActors DEF JobOf
<1>10. RowInv'
  BY <1>2, <1>3, <1>4, <1>8, <1>9 DEF IInv, RowInv, Before, Probing, Refreshing
<1>11. SummaryInv' /\ FinalVerdictIsTrue'
  BY <1>2, <1>3, <1>4, <1>7, AtItsRow, VerdictsKept DEF IInv, Probing
<1> QED
  BY <1>7, <1>10, <1>11 DEF IInv

\* The delivery leaves its region with a result, its own or that no agent
\* could be asked.
LEMMA RowEndsStep ==
    ASSUME OneDelivery, SingleAssumption, IInv,
           NEW from \in Probing, NEW v \in Ended,
           Goto(D, from, "rows"),
           row' = [row EXCEPT ![next[D]] = v],
           NextRow(D),
           UNCHANGED <<execStatus, taskStatus, job, report, handler, dispatched, loaded, summary>>
    PROVE  IInv' /\ Keeps
<1>1. /\ pc' \in [Actors -> Points] /\ pc[D] = from /\ pc'[D] = "rows"
      /\ \A c \in Actors : c # D => pc'[c] = pc[c]
  BY AtItsRow, Goes DEF IInv, Points
<1>2. next[D] \in Regions
  BY <1>1 DEF IInv, RowInv
<1>3. /\ row' \in [Regions -> RowStatuses] /\ row'[next[D]] = v
      /\ \A r \in Regions : r # next[D] => row'[r] = row[r]
  BY <1>2 DEF IInv, TypeOK, RowStatuses, Ended
<1>4. row[next[D]] = "running" /\ job[J(next[D])] = "none"
  BY <1>1, <1>2 DEF IInv, RowInv, RowOK
<1>5. /\ next' \in [Deliveries -> 1..(NumRegions + 1)] /\ next'[D] = next[D] + 1
  BY <1>2, AtItsRow DEF IInv, TypeOK, NextRow
<1>6. TypeOK' /\ Keeps
  BY <1>1, <1>3, <1>4, <1>5 DEF IInv, TypeOK, Keeps, Ended
<1>7. \A r \in Regions : RowOK(r)'
  <2> SUFFICES ASSUME NEW r \in Regions
               PROVE  RowOK(r)'
    OBVIOUS
  <2>1. RowOK(r) /\ r \in 1..NumRegions
    BY DEF IInv, RowInv, Regions
  <2>2. CASE r = next[D]
    BY <1>1, <1>2, <1>3, <1>4, <1>5, <2>1, <2>2, AtItsRow DEF RowOK, Before, Probing, J
  <2>3. CASE r # next[D]
    BY <1>1, <1>2, <1>3, <1>5, <2>1, <2>3, AtItsRow DEF RowOK, Before, Probing, J
  <2> QED
    BY <2>2, <2>3
<1>8. \A p \in Appliers : p # D /\ p \in Actors /\ JobOf(p)' = JobOf(p)
  BY TheActors DEF JobOf
<1>9. RowInv'
  BY <1>1, <1>7, <1>8 DEF IInv, RowInv, Before, Probing, Refreshing
<1>10. SummaryInv' /\ FinalVerdictIsTrue'
  BY <1>1, <1>6, AtItsRow, VerdictsKept DEF IInv
<1> QED
  BY <1>6, <1>9, <1>10 DEF IInv

LEMMA LocalResultStep ==
    ASSUME OneDelivery, SingleAssumption, IInv,
           LocalResult(D)
    PROVE  IInv' /\ Keeps
<1>1. PICK v \in Ended : row' = [row EXCEPT ![next[D]] = v]
  BY DEF LocalResult
<1> QED
  BY <1>1, RowEndsStep DEF LocalResult, Probing

LEMMA AgentUnavailableStep ==
    ASSUME OneDelivery, SingleAssumption, IInv,
           AgentUnavailable(D)
    PROVE  IInv' /\ Keeps
  BY RowEndsStep DEF AgentUnavailable, Probing, Ended

LEMMA PublishJobStep ==
    ASSUME OneDelivery, SingleAssumption, IInv,
           PublishJob(D)
    PROVE  IInv' /\ Keeps
<1>1. /\ Goto(D, "mqtt", "published")
      /\ job' = [job EXCEPT ![<<D[1], next[D]>>] = "queued"]
      /\ UNCHANGED <<row, execStatus, taskStatus, report, handler, dispatched, next, loaded, summary>>
  BY DEF PublishJob
<1>2. /\ pc' \in [Actors -> Points] /\ pc[D] = "mqtt" /\ pc'[D] = "published"
      /\ \A c \in Actors : c # D => pc'[c] = pc[c]
  BY <1>1, AtItsRow, Goes DEF IInv, Points
<1>3. next[D] \in Regions
  BY <1>2 DEF IInv, RowInv, Probing
<1>4. /\ job' \in [Jobs -> {"none", "queued", "published", "completed"}]
      /\ job'[J(next[D])] = "queued"
      /\ \A j \in Jobs : j # J(next[D]) => job'[j] = job[j]
  BY <1>1, <1>3, AtItsRow DEF IInv, TypeOK
<1>5. row[next[D]] = "running"
  BY <1>2, <1>3 DEF IInv, RowInv, RowOK, Probing
<1>6. TypeOK' /\ Keeps
  BY <1>1, <1>2, <1>4 DEF IInv, TypeOK, Keeps
<1>7. \A r \in Regions : RowOK(r)'
  <2> SUFFICES ASSUME NEW r \in Regions
               PROVE  RowOK(r)'
    OBVIOUS
  <2>1. /\ RowOK(r) /\ r \in 1..NumRegions /\ J(r) \in Jobs
        /\ J(r) = J(next[D]) <=> r = next[D]
    BY <1>3, TheActors DEF IInv, RowInv, Regions
  <2>2. CASE r = next[D]
    BY <1>1, <1>2, <1>3, <1>4, <1>5, <2>1, <2>2, AtItsRow DEF RowOK, Before, Probing, J
  <2>3. CASE r # next[D]
    BY <1>1, <1>2, <1>3, <1>4, <2>1, <2>3, AtItsRow DEF RowOK, Before, Probing, J
  <2> QED
    BY <2>2, <2>3
<1>8. \A p \in Appliers : /\ p # D /\ p \in Actors /\ JobOf(p)' = JobOf(p)
                          /\ job[JobOf(p)] # "none" => job'[JobOf(p)] # "none"
  BY <1>3, <1>4, TheActors DEF JobOf
<1>9. RowInv'
  BY <1>1, <1>2, <1>3, <1>7, <1>8 DEF IInv, RowInv, Before, Probing, Refreshing
<1>10. SummaryInv' /\ FinalVerdictIsTrue'
  BY <1>1, <1>2, <1>6, AtItsRow, VerdictsKept DEF IInv
<1> QED
  BY <1>6, <1>9, <1>10 DEF IInv

LEMMA MarkPublishedStep ==
    ASSUME OneDelivery, SingleAssumption, IInv,
           MarkPublished(D)
    PROVE  IInv' /\ Keeps
<1>1. /\ Goto(D, "published", "rows")
      /\ job' = [job EXCEPT ![<<D[1], next[D]>>] = "published"]
      /\ NextRow(D)
      /\ UNCHANGED <<row, execStatus, taskStatus, report, handler, dispatched, loaded, summary>>
  BY DEF MarkPublished
<1>2. /\ pc' \in [Actors -> Points] /\ pc[D] = "published" /\ pc'[D] = "rows"
      /\ \A c \in Actors : c # D => pc'[c] = pc[c]
  BY <1>1, AtItsRow, Goes DEF IInv, Points
<1>3. next[D] \in Regions
  BY <1>2 DEF IInv, RowInv
<1>4. /\ job' \in [Jobs -> {"none", "queued", "published", "completed"}]
      /\ job'[J(next[D])] = "published"
      /\ \A j \in Jobs : j # J(next[D]) => job'[j] = job[j]
  BY <1>1, <1>3, AtItsRow DEF IInv, TypeOK
<1>5. /\ next' \in [Deliveries -> 1..(NumRegions + 1)] /\ next'[D] = next[D] + 1
  BY <1>1, <1>3, AtItsRow DEF IInv, TypeOK, NextRow
<1>6. TypeOK' /\ Keeps
  BY <1>1, <1>2, <1>4, <1>5 DEF IInv, TypeOK, Keeps
<1>7. \A r \in Regions : RowOK(r)'
  <2> SUFFICES ASSUME NEW r \in Regions
               PROVE  RowOK(r)'
    OBVIOUS
  <2>1. /\ RowOK(r) /\ r \in 1..NumRegions /\ J(r) \in Jobs
        /\ J(r) = J(next[D]) <=> r = next[D]
    BY <1>3, TheActors DEF IInv, RowInv, Regions
  <2>2. CASE r = next[D]
    BY <1>1, <1>2, <1>3, <1>4, <1>5, <2>1, <2>2, AtItsRow DEF RowOK, Before, Probing, J
  <2>3. CASE r # next[D]
    BY <1>1, <1>2, <1>3, <1>4, <1>5, <2>1, <2>3, AtItsRow DEF RowOK, Before, Probing, J
  <2> QED
    BY <2>2, <2>3
<1>8. \A p \in Appliers : /\ p # D /\ p \in Actors /\ JobOf(p)' = JobOf(p)
                          /\ job[JobOf(p)] # "none" => job'[JobOf(p)] # "none"
  BY <1>3, <1>4, TheActors DEF JobOf
<1>9. RowInv'
  BY <1>1, <1>2, <1>7, <1>8 DEF IInv, RowInv, Before, Probing, Refreshing
<1>10. SummaryInv' /\ FinalVerdictIsTrue'
  BY <1>1, <1>2, <1>6, AtItsRow, VerdictsKept DEF IInv
<1> QED
  BY <1>6, <1>9, <1>10 DEF IInv

-----------------------------------------------------------------------------
(* The bridges.                                                            *)

LEMMA CompleteJobStep ==
    ASSUME OneDelivery, SingleAssumption, IInv,
           NEW p \in Appliers,
           CompleteJob(p)
    PROVE  IInv' /\ Keeps
<1>1. /\ Goto(p, "complete", "persist") /\ p \in Actors /\ p # D
      /\ job' = [job EXCEPT ![JobOf(p)] = "completed"]
      /\ UNCHANGED <<row, execStatus, taskStatus, report, handler, dispatched, next, loaded, summary>>
  BY TheActors DEF CompleteJob
<1>2. /\ pc' \in [Actors -> Points] /\ pc[p] = "complete" /\ pc'[p] = "persist"
      /\ \A c \in Actors : c # p => pc'[c] = pc[c]
  BY <1>1, Goes DEF IInv, Points
<1>3. p[3] \in Regions /\ JobOf(p) = J(p[3]) /\ JobOf(p) \in Jobs
  BY TheActors
<1>4. /\ job' \in [Jobs -> {"none", "queued", "published", "completed"}]
      /\ job[JobOf(p)] # "none"
      /\ \A j \in Jobs : job'[j] = "none" <=> job[j] = "none"
  <2>1. job[JobOf(p)] # "none"
    BY <1>2 DEF IInv, RowInv
  <2> QED
    BY <1>1, <1>3, <2>1 DEF IInv, TypeOK
<1>5. TypeOK' /\ Keeps
  BY <1>1, <1>2, <1>4 DEF IInv, TypeOK, Keeps
<1>6. \A r \in Regions : RowOK(r)'
  BY <1>1, <1>2, <1>4, TheActors DEF IInv, RowInv, RowOK, J
<1>7. \A q \in Appliers : /\ q # D /\ q \in Actors /\ JobOf(q)' = JobOf(q)
                          /\ job[JobOf(q)] # "none" => job'[JobOf(q)] # "none"
  BY <1>4, TheActors DEF JobOf
<1>8. RowInv'
  BY <1>1, <1>2, <1>4, <1>6, <1>7, TheActors DEF IInv, RowInv
<1>9. SummaryInv' /\ FinalVerdictIsTrue'
  BY <1>1, <1>2, <1>5, VerdictsKept DEF IInv
<1> QED
  BY <1>5, <1>8, <1>9 DEF IInv

LEMMA PersistResultStep ==
    ASSUME OneDelivery, SingleAssumption, IInv,
           NEW p \in Appliers,
           PersistResult(p)
    PROVE  IInv' /\ Keeps
<1>1. /\ Goto(p, "persist", "refresh") /\ p \in Actors /\ p # D
      /\ row' = [row EXCEPT ![p[3]] = report[JobOf(p)]]
      /\ UNCHANGED <<execStatus, taskStatus, job, report, handler, dispatched, next, loaded, summary>>
  BY TheActors DEF PersistResult
<1>2. /\ pc' \in [Actors -> Points] /\ pc[p] = "persist" /\ pc'[p] = "refresh"
      /\ \A c \in Actors : c # p => pc'[c] = pc[c]
  BY <1>1, Goes DEF IInv, Points
<1>3. p[3] \in Regions /\ JobOf(p) = J(p[3]) /\ JobOf(p) \in Jobs
  BY TheActors
<1>4. job[J(p[3])] # "none" /\ row[p[3]] \in {"running", report[J(p[3])]}
  BY <1>2, <1>3 DEF IInv, RowInv, RowOK
<1>5. /\ row' \in [Regions -> RowStatuses] /\ row'[p[3]] = report[J(p[3])]
      /\ \A r \in Regions : r # p[3] => row'[r] = row[r]
  BY <1>1, <1>3 DEF IInv, TypeOK, RowStatuses, Ended
<1>6. TypeOK' /\ Keeps
  BY <1>1, <1>2, <1>4, <1>5 DEF IInv, TypeOK, Keeps, Ended
<1>7. \A r \in Regions : RowOK(r)'
  <2> SUFFICES ASSUME NEW r \in Regions
               PROVE  RowOK(r)'
    OBVIOUS
  <2>1. RowOK(r) /\ r \in 1..NumRegions
    BY DEF IInv, RowInv, Regions
  <2>2. CASE r = p[3]
    BY <1>1, <1>2, <1>4, <1>5, <2>1, <2>2, AtItsRow DEF RowOK, Before, Probing, J
  <2>3. CASE r # p[3]
    BY <1>1, <1>2, <1>5, <2>1, <2>3, AtItsRow DEF RowOK, J
  <2> QED
    BY <2>2, <2>3
<1>8. RowInv'
  BY <1>1, <1>2, <1>7, TheActors DEF IInv, RowInv, JobOf, Refreshing
<1>9. SummaryInv' /\ FinalVerdictIsTrue'
  BY <1>1, <1>2, <1>6, VerdictsKept DEF IInv
<1> QED
  BY <1>6, <1>8, <1>9 DEF IInv

-----------------------------------------------------------------------------
LEMMA NextIInv ==
    ASSUME OneDelivery, SingleAssumption, IInv, Next
    PROVE  IInv' /\ Keeps
<1>1. CASE HandlerDispatch
  BY <1>1, HandlerDispatchStep
<1>2. CASE \E d \in Deliveries : Run(d)
  BY <1>2, TheActors, StartStep, MarkExecRunningStep, MarkTaskRunningStep, LoadRowsStep,
     NothingSkipped, BeginRowStep, LocalResultStep, AgentUnavailableStep, PublishJobStep,
     MarkPublishedStep, RowsDoneStep
     DEF Run
<1>3. CASE \E p \in Appliers : ReceiveResult(p) \/ Apply(p)
  BY <1>3, ReceiveResultStep, CompleteJobStep, PersistResultStep DEF Apply
<1>4. CASE \E a \in Actors : Refresh(a)
  BY <1>4, RefreshReadStep, RefreshExecStep, RefreshTaskStep DEF Refresh
<1> QED
  BY <1>1, <1>2, <1>3, <1>4 DEF Next

LEMMA StutterIInv ==
    ASSUME IInv, UNCHANGED vars
    PROVE  IInv' /\ Keeps
<1>1. TypeOK'
  BY DEF IInv, TypeOK, vars
<1>2. RowInv'
  BY DEF IInv, RowInv, RowOK, J, JobOf, vars
<1>3. SummaryInv' /\ FinalVerdictIsTrue'
  BY DEF IInv, SummaryInv, FinalVerdictIsTrue, Supports, vars
<1> QED
  BY <1>1, <1>2, <1>3 DEF IInv, Keeps, vars

LEMMA Invariance ==
    ASSUME OneDelivery
    PROVE  Spec => []IInv
<1> USE SingleAssumption
<1>1. Init => IInv
  BY InitIInv
<1>2. IInv /\ [Next]_vars => IInv'
  BY NextIInv, StutterIInv
<1> QED
  BY <1>1, <1>2, PTL DEF Spec

\* VerdictInv: when one delivery runs an execution, a final status of the
\* execution or of the task is the one its region rows support, at every
\* moment, for any number of regions, bridges and results that arrive late,
\* twice or never (scheduling.go 343-383, probe.go 297-343).
THEOREM VerdictsAreTrue ==
    ASSUME OneDelivery
    PROVE  Spec => []VerdictInv
<1>1. IInv => VerdictInv
  BY DEF IInv, VerdictInv
<1> QED
  BY <1>1, Invariance, PTL

\* ResultsAreFinal: when one delivery runs an execution, no step replaces the
\* result of a region, not the second bridge that applies it and not the run
\* (probe.go 297-343, tasks.go 319-335).
THEOREM ResultsStay ==
    ASSUME OneDelivery
    PROVE  Spec => ResultsAreFinal
<1> USE SingleAssumption
<1>1. IInv /\ [Next]_vars => [Keeps]_vars
  BY NextIInv
<1>2. [Keeps]_vars <=> [\A r \in Regions : row[r] \in Ended => row'[r] = row[r]]_vars
  BY DEF Keeps
<1> QED
  BY <1>1, <1>2, Invariance, PTL DEF Spec, ResultsAreFinal

-----------------------------------------------------------------------------
(* Executions whose results no bridge applies: the delivery is the only    *)
(* actor, so what it has read is still so when it writes it.               *)

LastReads == {"refreshExec", "refreshTask", "done"}

LastInv ==
    /\ pc[D] \in LastReads => summary[D] = Summary
    /\ pc[D] \in {"refreshTask", "done"} => execStatus = summary[D]
    /\ pc[D] = "done" => taskStatus = summary[D]
    /\ pc[D] \notin {"refreshTask", "done"} => execStatus \notin Final

LEMMA OnlyTheDelivery ==
    ASSUME OneDelivery, NoBridges, SingleAssumption
    PROVE  Actors = {D} /\ Deliveries = {D} /\ Appliers = {} /\ D[1] = First
  BY DEF OneDelivery, NoBridges, Actors, Deliveries, Appliers, D

LEMMA InitLastInv ==
    ASSUME OneDelivery, NoBridges, SingleAssumption, Init
    PROVE  LastInv
  BY OnlyTheDelivery DEF Init, LastInv, LastReads, Final

\* The steps of the delivery, sorted by what they do to what is shown.
LEMMA Moves ==
    ASSUME OneDelivery, NoBridges, SingleAssumption, TypeOK, Next
    PROVE  \/ UNCHANGED <<row, execStatus, taskStatus, pc, summary>>
           \/ /\ pc[D] \notin LastReads /\ pc'[D] \notin LastReads
              /\ execStatus' \in {execStatus, "running"}
           \/ RefreshRead(D) \/ RefreshExec(D) \/ RefreshTask(D)
<1> USE OnlyTheDelivery
<1>1. \A to \in Points : \A from : Goto(D, from, to) => pc[D] = from /\ pc'[D] = to
  BY Goes
<1>2. CASE HandlerDispatch
  BY <1>2 DEF HandlerDispatch
<1>3. CASE Start(D)
  BY <1>1, <1>3 DEF Start, Points, LastReads
<1>4. CASE MarkExecRunning(D)
  BY <1>1, <1>4 DEF MarkExecRunning, Points, LastReads
<1>5. CASE MarkTaskRunning(D)
  BY <1>1, <1>5 DEF MarkTaskRunning, Points, LastReads
<1>6. CASE LoadRows(D)
  BY <1>1, <1>6 DEF LoadRows, Points, LastReads
<1>7. CASE SkipRow(D)
  BY <1>1, <1>7 DEF SkipRow, Points, LastReads
<1>8. CASE BeginRow(D)
  <2>1. Transports \subseteq Points /\ Transports \cap LastReads = {}
    BY DEF SingleAssumption, Points, LastReads
  <2>2. PICK transport \in Transports : Goto(D, "rows", transport)
    BY <1>8 DEF BeginRow
  <2> QED
    BY <1>1, <1>8, <2>1, <2>2 DEF BeginRow, LastReads
<1>9. CASE LocalResult(D)
  BY <1>1, <1>9 DEF LocalResult, Points, LastReads
<1>10. CASE AgentUnavailable(D)
  BY <1>1, <1>10 DEF AgentUnavailable, Points, LastReads
<1>11. CASE PublishJob(D)
  BY <1>1, <1>11 DEF PublishJob, Points, LastReads
<1>12. CASE MarkPublished(D)
  BY <1>1, <1>12 DEF MarkPublished, Points, LastReads
<1>13. CASE RowsDone(D)
  BY <1>1, <1>13 DEF RowsDone, Points, LastReads
<1> QED
  BY <1>2, <1>3, <1>4, <1>5, <1>6, <1>7, <1>8, <1>9, <1>10, <1>11, <1>12, <1>13
     DEF Next, Run, Refresh

LEMMA NextLastInv ==
    ASSUME OneDelivery, NoBridges, SingleAssumption, TypeOK, LastInv, Next
    PROVE  LastInv'
<1> USE OnlyTheDelivery
<1>1. \A to \in Points : \A from : Goto(D, from, to) => pc[D] = from /\ pc'[D] = to
  BY Goes
<1>2. CASE UNCHANGED <<row, execStatus, taskStatus, pc, summary>>
  BY <1>2 DEF LastInv, Summary
<1>3. CASE /\ pc[D] \notin LastReads /\ pc'[D] \notin LastReads
           /\ execStatus' \in {execStatus, "running"}
  BY <1>3 DEF LastInv, LastReads, Final
<1>4. CASE RefreshRead(D)
  BY <1>1, <1>4 DEF RefreshRead, LastInv, LastReads, Points, Summary, TypeOK
<1>5. CASE RefreshExec(D)
  BY <1>1, <1>5 DEF RefreshExec, LastInv, LastReads, Points, Summary
<1>6. CASE RefreshTask(D)
  BY <1>1, <1>6 DEF RefreshTask, LastInv, LastReads, Points, Summary
<1> QED
  BY <1>2, <1>3, <1>4, <1>5, <1>6, Moves

LEMMA LastInvariance ==
    ASSUME OneDelivery, NoBridges
    PROVE  Spec => []LastInv
<1> USE SingleAssumption
<1>1. Init => LastInv
  BY InitLastInv
<1>2. IInv /\ LastInv /\ [Next]_vars => LastInv'
  <2>1. LastInv /\ UNCHANGED vars => LastInv'
    BY DEF LastInv, Summary, vars
  <2> QED
    BY <2>1, NextLastInv DEF IInv
<1> QED
  BY <1>1, <1>2, Invariance, PTL DEF Spec

\* QuiescentSummary: when one delivery runs an execution and no bridge applies
\* results, execution and task show the summary of the rows as soon as nobody
\* is at work and all regions have ended (scheduling.go:330-331).
THEOREM SummaryAtRest ==
    ASSUME OneDelivery, NoBridges
    PROVE  Spec => []QuiescentSummary
<1> USE SingleAssumption
<1>1. IInv /\ LastInv => QuiescentSummary
  <2> SUFFICES ASSUME IInv, LastInv, Quiet
               PROVE  execStatus \in Final /\ Supports(execStatus) /\ taskStatus = execStatus
    BY DEF QuiescentSummary
  <2>1. pc[D] \in {"idle", "done"} /\ \A r \in Regions : row[r] \in Ended
    BY OnlyTheDelivery DEF Quiet
  <2>2. pc[D] # "idle"
    <3>1. 1 \in Regions
      BY DEF Regions
    <3> QED
      BY <2>1, <3>1 DEF IInv, RowInv, RowOK, Before, Ended
  <2>3. execStatus = Summary /\ taskStatus = execStatus
    BY <2>1, <2>2 DEF LastInv, LastReads
  <2>4. Summary \in Final
    BY <2>1 DEF Summary, Ended, Final
  <2> QED
    BY <2>3, <2>4, SummaryIsTrue DEF IInv
<1> QED
  BY <1>1, Invariance, LastInvariance, PTL

-----------------------------------------------------------------------------
(* The refinement of ExecutionVerdict, step by step.                       *)

ResultOf == [r \in Regions |-> IF row[r] \in Ended THEN row[r] ELSE "open"]
VerdictOf == IF execStatus \in Final THEN execStatus ELSE "open"

\* What a step is to the promise: nothing, a report, or the conclusion.
LEMMA SameIsStutter ==
    ASSUME UNCHANGED <<ResultOf, VerdictOf>>
    PROVE  UNCHANGED V!absVars
  BY DEF ResultOf, VerdictOf, V!absVars

LEMMA RowEndIsReport ==
    ASSUME NEW r \in Regions, NEW v \in Ended,
           TypeOK,
           row[r] \notin Ended,
           row' = [row EXCEPT ![r] = v],
           UNCHANGED execStatus
    PROVE  V!AbsNext
<1>1. row'[r] = v /\ \A q \in Regions : q # r => row'[q] = row[q]
  BY DEF TypeOK
<1>2. ResultOf' = [ResultOf EXCEPT ![r] = v]
  BY <1>1 DEF ResultOf
<1>3. ResultOf[r] = "open" /\ v \in {"success", "failed"}
  BY DEF ResultOf, Ended
<1>4. UNCHANGED VerdictOf
  BY DEF VerdictOf
<1> QED
  BY <1>2, <1>3, <1>4 DEF V!AbsNext, V!Report, ResultOf, VerdictOf

LEMMA SummaryIsConclusion ==
    ASSUME SingleAssumption,
           TypeOK,
           Summary \in Final
    PROVE  /\ \A r \in Regions : ResultOf[r] # "open"
           /\ Summary = V!Conclusion
<1>1. \A r \in Regions : row[r] \in Ended
  BY DEF Summary, Final, TypeOK, RowStatuses, Ended
<1>2. \A r \in Regions : ResultOf[r] = row[r]
  BY <1>1 DEF ResultOf
<1>3. \A r \in Regions : ResultOf[r] # "open"
  BY <1>1, <1>2 DEF Ended
<1>4. Summary = IF \A r \in Regions : row[r] = "success" THEN "success"
                ELSE IF \E r \in Regions : row[r] = "success" THEN "partial"
                ELSE "failed"
  BY <1>1 DEF Summary, Ended
<1>5. V!Conclusion = IF \A r \in Regions : ResultOf[r] = "success" THEN "success"
                     ELSE IF \E r \in Regions : ResultOf[r] = "success" THEN "partial"
                     ELSE "failed"
  BY DEF V!Conclusion, ResultOf
<1> QED
  BY <1>2, <1>3, <1>4, <1>5

LEMMA WriteIsConclude ==
    ASSUME SingleAssumption,
           TypeOK,
           execStatus \notin Final,
           execStatus' = Summary,
           UNCHANGED row
    PROVE  V!AbsNext \/ UNCHANGED V!absVars
<1>1. UNCHANGED ResultOf
  BY DEF ResultOf
<1>2. CASE Summary \in Final
  <2>1. VerdictOf = "open" /\ VerdictOf' = Summary
    BY <1>2 DEF VerdictOf
  <2> QED
    BY <1>1, <1>2, <2>1, SummaryIsConclusion DEF V!AbsNext, V!Conclude, ResultOf, VerdictOf
<1>3. CASE Summary \notin Final
  BY <1>1, <1>3, SameIsStutter DEF VerdictOf
<1> QED
  BY <1>2, <1>3

LEMMA StepKeepsPromise ==
    ASSUME OneDelivery, NoBridges, SingleAssumption, IInv, LastInv, Next
    PROVE  V!AbsNext \/ UNCHANGED V!absVars
<1> USE OnlyTheDelivery
<1>1. TypeOK /\ next[D] \in 1..(NumRegions + 1)
  BY AtItsRow DEF IInv
<1>2. \A to \in Points : \A from : Goto(D, from, to) => pc[D] = from /\ pc'[D] = to
  BY <1>1, Goes
<1>3. ASSUME UNCHANGED <<row, execStatus>>
      PROVE  UNCHANGED V!absVars
  BY <1>3, SameIsStutter DEF ResultOf, VerdictOf
<1>4. ASSUME NEW from \in Probing, NEW v \in Ended, Goto(D, from, "rows"),
             row' = [row EXCEPT ![next[D]] = v], UNCHANGED execStatus
      PROVE  V!AbsNext
  <2>1. pc[D] \in Probing
    BY <1>2, <1>4 DEF Points
  <2>2. next[D] \in Regions /\ row[next[D]] \notin Ended
    BY <2>1 DEF IInv, RowInv, RowOK, Ended
  <2> QED
    BY <1>1, <1>4, <2>2, RowEndIsReport
<1>5. CASE HandlerDispatch
  BY <1>3, <1>5 DEF HandlerDispatch
<1>6. CASE Start(D) \/ MarkTaskRunning(D) \/ LoadRows(D) \/ SkipRow(D) \/ PublishJob(D)
           \/ MarkPublished(D) \/ RowsDone(D) \/ RefreshRead(D) \/ RefreshTask(D)
  BY <1>3, <1>6 DEF Start, MarkTaskRunning, LoadRows, SkipRow, PublishJob, MarkPublished,
     RowsDone, RefreshRead, RefreshTask
<1>7. CASE MarkExecRunning(D)
  <2>1. execStatus \notin Final
    BY <1>2, <1>7 DEF MarkExecRunning, Points, LastInv
  <2>2. execStatus' \notin Final /\ UNCHANGED row
    BY <1>7 DEF MarkExecRunning, Final
  <2> QED
    BY <2>1, <2>2, SameIsStutter DEF ResultOf, VerdictOf
<1>8. CASE BeginRow(D)
  <2>1. PICK transport \in Transports : Goto(D, "rows", transport)
    BY <1>8 DEF BeginRow
  <2>2. pc[D] = "rows" /\ next[D] \in Regions
    BY <1>8, <2>1, AtItsRow DEF BeginRow, Goto
  <2>3. row[next[D]] = "pending"
    BY <2>2 DEF IInv, RowInv, RowOK
  <2>4. /\ \A r \in Regions : row[r] = row'[r] \/ {row[r], row'[r]} \cap Ended = {}
        /\ UNCHANGED execStatus
    BY <1>1, <1>8, <2>2, <2>3 DEF BeginRow, TypeOK, Ended
  <2> QED
    BY <2>4, SameIsStutter DEF ResultOf, VerdictOf
<1>9. CASE LocalResult(D)
  BY <1>4, <1>9 DEF LocalResult, Probing
<1>10. CASE AgentUnavailable(D)
  BY <1>4, <1>10 DEF AgentUnavailable, Probing, Ended
<1>11. CASE RefreshExec(D)
  <2>1. pc[D] = "refreshExec" /\ execStatus' = summary[D] /\ UNCHANGED row
    BY <1>11 DEF RefreshExec, Goto
  <2>2. summary[D] = Summary /\ execStatus \notin Final
    BY <2>1 DEF LastInv, LastReads
  <2> QED
    BY <1>1, <2>1, <2>2, WriteIsConclude
<1> QED
  BY <1>5, <1>6, <1>7, <1>8, <1>9, <1>10, <1>11 DEF Next, Run, Refresh

\* The safety part of KeepsPromise: when one delivery runs an execution and no
\* bridge applies results, every step is a region's one report, the one
\* conclusion from all reports, or nothing to the promise of ExecutionVerdict
\* (tasks.go 289-335, scheduling.go 343-383).
THEOREM PromiseIsKept ==
    ASSUME OneDelivery, NoBridges
    PROVE  Spec => V!Promise
<1> USE SingleAssumption
<1>1. Init => V!AbsInit
  BY DEF Init, V!AbsInit, Ended, Final
<1>2. IInv /\ LastInv /\ [Next]_vars => [V!AbsNext]_V!absVars
  <2>1. UNCHANGED vars => UNCHANGED V!absVars
    BY DEF vars, V!absVars
  <2> QED
    BY <2>1, StepKeepsPromise
<1> QED
  BY <1>1, <1>2, Invariance, LastInvariance, PTL DEF Spec, V!Promise

=============================================================================
