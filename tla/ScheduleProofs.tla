--------------------------- MODULE ScheduleProofs ----------------------------
(***************************************************************************)
(* Proofs about Schedule for every set of tasks, every table of            *)
(* occurrences and any number of minutes, edits and ends of the server.    *)
(*                                                                         *)
(* The inductive invariant is TypeOK /\ ScanInv /\ RunInv /\ QuietInv /\   *)
(* SlotInv.  ScanInv says what the scan has in its hands; RunInv relates   *)
(* the executions to the status of their tasks; QuietInv counts what may   *)
(* still be created for a disabled task; SlotInv says that next_run_at     *)
(* lies behind every scan that has executed the task.                      *)
(***************************************************************************)
EXTENDS Schedule, TLAPS

\* The task whose execution has been created and whose row is to be advanced.
InHand(t) == scan.pc \in {"dispatch", "advance"} /\ scan.task = t

ScanShape ==
    scan = [pc |-> scan.pc, at |-> scan.at, task |-> scan.task, left |-> scan.left,
            read |-> scan.read]

\* The rows as they were read, and what has been made of them.
ScanInv ==
    /\ ScanShape
    /\ scan.at <= now
    /\ scan.pc = "idle" => scan.left = {}
    /\ \A t \in Tasks :
        /\ t \in scan.left \/ InHand(t) =>
              scan.read[t].cron \in Crons /\ scan.read[t].next \in 0..scan.at
        /\ t \in scan.left => run[t][scan.at] = "none" /\ ~ InHand(t)
        /\ InHand(t) => run[t][scan.at] # "none"
        /\ InHand(t) /\ scan.pc = "dispatch" => run[t][scan.at] = "built"
    /\ scan.pc \in {"dispatch", "advance"} => scan.task \in Tasks

\* An execution that has been summarised has a verdict, and a task that was
\* marked as running has executions, also when it is deleted.
SummedIsFinal ==
    \A t \in Tasks, m \in Times : run[t][m] = "summed" => verdict[t][m] \in Final

RunningHasHad ==
    \A t \in Tasks : status[t] = "running" => \E m \in Times : run[t][m] # "none"

RunInv == SummedIsFinal /\ RunningHasHad /\ RunningHasRun /\ HandedOverEnds

\* A disabled task has had its stray execution, or the scan still has it.
StrayIsRead ==
    \A t \in Tasks : ~ enabled[t] => stray[t] <= 1 /\ (t \in scan.left => stray[t] = 0)

QuietInv == quiet \subseteq exists /\ QuietStaysDisabled /\ StrayIsRead

\* What was executed in minute m was due by then.
SlotPast ==
    \A t \in Tasks, m \in Times : slot[t][m] # Never =>
        slot[t][m] <= m /\ m <= now /\ run[t][m] # "none" /\ (scan.pc # "idle" => m <= scan.at)

UsableRecurs ==
    \A t \in usable :
        /\ ~ Barren(cron[t])
        /\ t \in scan.left \/ InHand(t) => ~ Barren(scan.read[t].cron)

\* Once its row has been advanced the task is due later than m, and so it was
\* when it was read again.
NextBehind ==
    \A t \in usable, m \in Times : cuts = 0 /\ slot[t][m] # Never =>
        /\ t \in exists /\ next[t] # Never /\ ~ (InHand(t) /\ m = scan.at) => next[t] > m
        /\ t \in scan.left => scan.read[t].next > m

SlotInv == SlotPast /\ UsableRecurs /\ NextBehind /\ OncePerSlot

IInv == TypeOK /\ ScanInv /\ RunInv /\ QuietInv /\ SlotInv

-----------------------------------------------------------------------------
LEMMA TimesFact == Times \subseteq Nat /\ 0 \in Times /\ \A m \in Times : m <= MaxTime
  BY ScheduleAssumption DEF Times

LEMMA InitInv == Init => IInv
<1> SUFFICES ASSUME Init PROVE IInv
  OBVIOUS
<1>1. scan = NoScan /\ now = 0
  BY DEF Init
<1>2. TypeOK
  <2>1. scan.pc = "idle" /\ scan.at \in Times /\ scan.task = Never /\ scan.left = {}
    BY <1>1, TimesFact DEF NoScan
  <2>2. enabled \in [Tasks -> BOOLEAN] /\ ticked \in BOOLEAN
    BY DEF Init
  <2>3. run \in [Tasks -> [Times -> {"none", "built", "over", "dead"} \cup Busy]]
    BY DEF Init
  <2>4. verdict \in [Tasks -> [Times -> {"none", "pending", "running"} \cup Final]]
    BY DEF Init
  <2>5. slot \in [Tasks -> [Times -> Nat \cup {Never}]] /\ stray \in [Tasks -> Nat]
    BY DEF Init
  <2>6. next \in [Tasks -> Nat \cup {Never}] /\ cron \in [Tasks -> Crons]
    BY ScheduleAssumption DEF Init
  <2>7. status \in [Tasks -> {"pending", "running", "disabled"} \cup Final]
    BY DEF Init
  <2>8. edits \in 0..MaxEdits /\ cuts \in 0..MaxCuts
    BY ScheduleAssumption DEF Init
  <2>9. exists \subseteq Tasks /\ usable \subseteq Tasks /\ quiet \subseteq Tasks /\ now \in Times
    BY TimesFact DEF Init
  <2>10. QED
    BY <2>1, <2>2, <2>3, <2>4, <2>5, <2>6, <2>7, <2>8, <2>9 DEF TypeOK
<1>3. ScanInv
  BY <1>1 DEF ScanInv, ScanShape, InHand, NoScan
<1>4. RunInv
  BY DEF Init, RunInv, SummedIsFinal, RunningHasHad, RunningHasRun, HandedOverEnds
<1>5. QuietInv
  BY <1>1 DEF Init, QuietInv, QuietStaysDisabled, StrayIsRead, NoScan
<1>6. SlotInv
  BY <1>1 DEF Init, SlotInv, SlotPast, UsableRecurs, NextBehind, OncePerSlot, InHand, NoScan
<1>7. QED
  BY <1>2, <1>3, <1>4, <1>5, <1>6 DEF IInv

-----------------------------------------------------------------------------
(* What the parts of a step leave alone.                                   *)

\* A run starts from what was handed over and goes on or ends.
LEMMA RunFrame ==
    ASSUME TypeOK, NEW t \in Tasks, NEW m \in Times, Run(t, m)
    PROVE  /\ UNCHANGED <<timeVars, exists, enabled, cron, next, scan, edits, history, cuts>>
           /\ run[t][m] \in Busy /\ run'[t][m] \in Busy \cup {"over"}
           /\ run' \in [Tasks -> [Times -> {"none", "built", "over", "dead"} \cup Busy]]
           /\ \A u \in Tasks, n \in Times :
                u # t \/ n # m => run'[u][n] = run[u][n] /\ verdict'[u][n] = verdict[u][n]
<1>1. UNCHANGED <<timeVars, exists, enabled, cron, next, scan, edits, history, cuts>>
  BY DEF Run, Load, MarkRunning, Summarise, FinishRun, taskVars
<1>2. PICK v : run' = [run EXCEPT ![t][m] = v] /\ v \in Busy \cup {"over"}
  BY DEF Run, Load, MarkRunning, Summarise, FinishRun, Step, Busy
<1>3. run[t][m] \in Busy
  BY DEF Run, Load, MarkRunning, Summarise, FinishRun, Step, Busy
<1>4. \A u \in Tasks, n \in Times : u # t \/ n # m => verdict'[u][n] = verdict[u][n]
  BY DEF TypeOK, Run, Load, MarkRunning, Summarise, FinishRun
<1>5. QED
  BY <1>1, <1>2, <1>3, <1>4 DEF TypeOK

LEMMA RequestFrame ==
    ASSUME NEW t \in Tasks, Request(t)
    PROVE  UNCHANGED <<timeVars, scan, runVars, slot, cuts>>
  BY DEF Request, CreateTask, EditCron, Disable, Enable, DeleteTask, history

\* The server ends: nothing is in hand, and no execution that was none is any.
LEMMA EndFrame ==
    ASSUME TypeOK, Terminate \/ Crash
    PROVE  /\ scan' = NoScan /\ cuts' \in 0..MaxCuts /\ cuts' > 0 /\ ticked' = FALSE
           /\ UNCHANGED <<now, taskVars, verdict, edits, history>>
           /\ run' \in [Tasks -> [Times -> {"none", "built", "over", "dead"} \cup Busy]]
           /\ \A u \in Tasks, n \in Times :
                \/ run'[u][n] = run[u][n]
                \/ run'[u][n] = "dead" /\ run[u][n] \in Busy \cup {"built"}
<1>1. PICK lost \in {{"built"}, Busy \cup {"built"}} : End(lost)
  BY DEF Terminate, Crash
<1>2. cuts' \in 0..MaxCuts /\ cuts' > 0
  BY <1>1, ScheduleAssumption DEF End, TypeOK
<1>3. \A u \in Tasks, n \in Times :
        run'[u][n] = IF run[u][n] \in lost THEN "dead" ELSE run[u][n]
  BY <1>1 DEF End
<1>4. run' \in [Tasks -> [Times -> {"none", "built", "over", "dead"} \cup Busy]]
  BY <1>1 DEF End, TypeOK, Busy
<1>5. QED
  BY <1>1, <1>2, <1>3, <1>4 DEF End

\* The scan: what it has read, and the two tasks' worth of its hands.
LEMMA ReadFrame ==
    ASSUME TypeOK, ReadDue
    PROVE  /\ scan.pc = "idle" /\ ticked' = FALSE
           /\ UNCHANGED <<now, taskVars, runVars, edits, history, cuts>>
           /\ ScanShape'
           /\ scan'.pc \in {"idle", "pick"} /\ scan'.at \in {0, now} /\ scan'.task = Never
           /\ scan'.pc = "idle" => scan'.left = {}
           /\ scan'.left = {} \/ scan'.at = now
           /\ \A t \in scan'.left :
                /\ t \in Tasks /\ Due(t) /\ run[t][now] = "none"
                /\ scan'.read[t].cron = cron[t] /\ scan'.read[t].next = next[t]
<1> DEFINE due == {t \in Tasks : Due(t) /\ run[t][now] = "none"}
<1>1. scan' = Found(due)
  BY DEF ReadDue
<1>2. /\ scan.pc = "idle" /\ ticked' = FALSE
      /\ UNCHANGED <<now, taskVars, runVars, edits, history, cuts>>
  BY DEF ReadDue
<1>3. CASE due = {}
  <2>1. scan' = NoScan
    BY <1>1, <1>3 DEF Found
  <2>2. /\ scan'.pc = "idle" /\ scan'.at = 0 /\ scan'.task = Never /\ scan'.left = {}
        /\ ScanShape'
    BY <2>1 DEF NoScan, ScanShape
  <2>3. QED
    BY <1>2, <2>2
<1>4. CASE due # {}
  <2>1. scan' = [pc |-> "pick", at |-> now, task |-> Never, left |-> due,
                 read |-> [t \in due |-> [cron |-> cron[t], next |-> next[t]]]]
    BY <1>1, <1>4 DEF Found
  <2>2. /\ scan'.pc = "pick" /\ scan'.at = now /\ scan'.task = Never /\ scan'.left = due
        /\ ScanShape'
    BY <2>1 DEF ScanShape
  <2>3. \A t \in due : scan'.read[t].cron = cron[t] /\ scan'.read[t].next = next[t]
    BY <2>1
  <2>4. QED
    BY <1>2, <2>2, <2>3
<1>5. QED
  BY <1>3, <1>4

LEMMA BuildFrame ==
    ASSUME TypeOK, ScanInv, NEW t \in Tasks, Build(t)
    PROVE  /\ scan.pc = "pick" /\ t \in scan.left
           /\ UNCHANGED <<timeVars, taskVars, edits, usable, quiet, cuts>>
           /\ ScanShape'
           /\ scan'.pc = "dispatch" /\ scan'.at = scan.at /\ scan'.task = t
           /\ scan'.left = scan.left \ {t} /\ scan'.read = scan.read
           /\ run[t][scan.at] = "none" /\ run'[t][scan.at] = "built"
           /\ slot'[t][scan.at] = scan.read[t].next /\ scan.read[t].next \in 0..scan.at
           /\ scan.at \in Times
           /\ \A u \in Tasks, m \in Times : u # t \/ m # scan.at =>
                run'[u][m] = run[u][m] /\ verdict'[u][m] = verdict[u][m]
                /\ slot'[u][m] = slot[u][m]
           /\ stray' = [stray EXCEPT ![t] = IF enabled[t] THEN @ ELSE @ + 1]
<1>1. scan' = [pc |-> "dispatch", at |-> scan.at, task |-> t, left |-> scan.left \ {t},
               read |-> scan.read]
  <2>1. scan' = [scan EXCEPT !.pc = "dispatch", !.task = t, !.left = @ \ {t}]
    BY DEF Build
  <2>2. QED
    BY <2>1 DEF ScanInv, ScanShape
<1>2. scan.at \in Times
  BY DEF TypeOK
<1>3. \A u \in Tasks, m \in Times : u # t \/ m # scan.at =>
        run'[u][m] = run[u][m] /\ verdict'[u][m] = verdict[u][m] /\ slot'[u][m] = slot[u][m]
  BY <1>2 DEF Build, TypeOK
<1>4. run'[t][scan.at] = "built" /\ slot'[t][scan.at] = scan.read[t].next
  BY <1>2 DEF Build, TypeOK
<1>5. scan.pc = "pick" /\ t \in scan.left
      /\ UNCHANGED <<timeVars, taskVars, edits, usable, quiet, cuts>>
      /\ stray' = [stray EXCEPT ![t] = IF enabled[t] THEN @ ELSE @ + 1]
  BY DEF Build
<1>6. run[t][scan.at] = "none" /\ scan.read[t].next \in 0..scan.at
  BY <1>5 DEF ScanInv
<1>7. /\ scan'.pc = "dispatch" /\ scan'.at = scan.at /\ scan'.task = t
      /\ scan'.left = scan.left \ {t} /\ scan'.read = scan.read
      /\ ScanShape'
  BY <1>1 DEF ScanShape
<1>8. QED
  BY <1>2, <1>3, <1>4, <1>5, <1>6, <1>7

LEMMA DispatchFrame ==
    ASSUME TypeOK, ScanInv, Dispatch
    PROVE  /\ scan.pc = "dispatch" /\ scan.task \in Tasks /\ scan.at \in Times
           /\ UNCHANGED <<timeVars, taskVars, verdict, edits, history, cuts>>
           /\ ScanShape'
           /\ scan'.pc = "advance" /\ scan'.at = scan.at /\ scan'.task = scan.task
           /\ scan'.left = scan.left /\ scan'.read = scan.read
           /\ run[scan.task][scan.at] = "built" /\ run'[scan.task][scan.at] = "queued"
           /\ \A u \in Tasks, m \in Times : u # scan.task \/ m # scan.at =>
                run'[u][m] = run[u][m]
<1>1. scan' = [pc |-> "advance", at |-> scan.at, task |-> scan.task, left |-> scan.left,
               read |-> scan.read]
  <2>1. scan' = [scan EXCEPT !.pc = "advance"]
    BY DEF Dispatch
  <2>2. QED
    BY <2>1 DEF ScanInv, ScanShape
<1>2. scan.pc = "dispatch" /\ UNCHANGED <<timeVars, taskVars, verdict, edits, history, cuts>>
  BY DEF Dispatch
<1>3. scan.task \in Tasks /\ scan.at \in Times
  BY <1>2 DEF TypeOK, ScanInv
<1>4. run[scan.task][scan.at] = "built"
  BY <1>2, <1>3 DEF ScanInv, InHand
<1>5. /\ run'[scan.task][scan.at] = "queued"
      /\ \A u \in Tasks, m \in Times : u # scan.task \/ m # scan.at => run'[u][m] = run[u][m]
  BY <1>3 DEF Dispatch, TypeOK
<1>6. /\ scan'.pc = "advance" /\ scan'.at = scan.at /\ scan'.task = scan.task
      /\ scan'.left = scan.left /\ scan'.read = scan.read
      /\ ScanShape'
  BY <1>1 DEF ScanShape
<1>7. QED
  BY <1>2, <1>3, <1>4, <1>5, <1>6

LEMMA AdvanceFrame ==
    ASSUME TypeOK, ScanInv, Advance
    PROVE  /\ scan.pc = "advance" /\ scan.task \in Tasks /\ scan.at \in Times
           /\ UNCHANGED <<timeVars, exists, enabled, cron, status, runVars, edits, history, cuts>>
           /\ ScanShape'
           /\ \/ scan'.pc = "idle" /\ scan'.at = 0 /\ scan'.left = {} /\ scan'.task = Never
              \/ /\ scan'.pc = "pick" /\ scan'.at = scan.at /\ scan'.left = scan.left
                 /\ scan'.read = scan.read /\ scan'.task = scan.task
           /\ scan'.left = scan.left
           /\ scan.read[scan.task].cron \in Crons
           /\ NextOf[scan.read[scan.task].cron][scan.at] \in Nat \cup {Never}
           /\ next' = IF scan.task \in exists
                          /\ NextOf[scan.read[scan.task].cron][scan.at] # Never
                      THEN [next EXCEPT ![scan.task] = NextOf[scan.read[scan.task].cron][scan.at]]
                      ELSE next
<1>1. scan.pc = "advance"
      /\ UNCHANGED <<timeVars, exists, enabled, cron, status, runVars, edits, history, cuts>>
  BY DEF Advance
<1>2. scan.task \in Tasks /\ scan.at \in Times
  BY <1>1 DEF TypeOK, ScanInv
<1>3. scan.read[scan.task].cron \in Crons
  BY <1>1, <1>2 DEF ScanInv, InHand
<1>4. NextOf[scan.read[scan.task].cron][scan.at] \in Nat \cup {Never}
  BY <1>2, <1>3, ScheduleAssumption
<1>5. next' = IF scan.task \in exists /\ NextOf[scan.read[scan.task].cron][scan.at] # Never
              THEN [next EXCEPT ![scan.task] = NextOf[scan.read[scan.task].cron][scan.at]]
              ELSE next
  BY DEF Advance
<1>6. CASE scan.left = {}
  <2>1. scan' = NoScan
    BY <1>6 DEF Advance, Continue
  <2>2. /\ scan'.pc = "idle" /\ scan'.at = 0 /\ scan'.left = {} /\ scan'.task = Never
        /\ ScanShape'
    BY <2>1 DEF NoScan, ScanShape
  <2>3. QED
    BY <1>1, <1>2, <1>3, <1>4, <1>5, <1>6, <2>2
<1>7. CASE scan.left # {}
  <2>1. scan' = [scan EXCEPT !.pc = "pick"]
    BY <1>7 DEF Advance, Continue
  <2>2. scan' = [pc |-> "pick", at |-> scan.at, task |-> scan.task, left |-> scan.left,
                 read |-> scan.read]
    BY <2>1 DEF ScanInv, ScanShape
  <2>3. /\ scan'.pc = "pick" /\ scan'.at = scan.at /\ scan'.left = scan.left
        /\ scan'.read = scan.read /\ scan'.task = scan.task
        /\ ScanShape'
    BY <2>2 DEF ScanShape
  <2>4. QED
    BY <1>1, <1>2, <1>3, <1>4, <1>5, <2>3
<1>8. QED
  BY <1>6, <1>7

-----------------------------------------------------------------------------
(* Types.                                                                  *)

LEMMA TypeScan ==
    ASSUME TypeOK, ScanInv, Tick \/ Scan \/ Terminate \/ Crash
    PROVE  TypeOK'
<1>1. CASE Tick
  <2>1. now' \in Times /\ ticked' \in BOOLEAN
    BY <1>1, ScheduleAssumption DEF TypeOK, Tick, Times
  <2>2. UNCHANGED <<taskVars, scan, runVars, edits, history, cuts>>
    BY <1>1 DEF Tick
  <2>3. QED
    BY <2>1, <2>2 DEF TypeOK, taskVars, runVars, history
<1>2. CASE ReadDue
  <2>1. scan'.pc \in {"idle", "pick"} /\ scan'.at \in Times /\ scan'.task = Never
        /\ scan'.left \subseteq Tasks /\ ticked' \in BOOLEAN
    BY <1>2, ReadFrame, TimesFact DEF TypeOK
  <2>2. UNCHANGED <<now, taskVars, runVars, edits, history, cuts>>
    BY <1>2, ReadFrame
  <2>3. QED
    BY <2>1, <2>2 DEF TypeOK, taskVars, runVars, history
<1>3. ASSUME NEW t \in Tasks, Build(t) PROVE TypeOK'
  <2>1. UNCHANGED <<timeVars, taskVars, edits, usable, quiet, cuts>>
        /\ scan'.pc = "dispatch" /\ scan'.at \in Times /\ scan'.task = t
        /\ scan'.left \subseteq Tasks
        /\ scan.read[t].next \in 0..scan.at /\ scan.at \in Times
        /\ stray' = [stray EXCEPT ![t] = IF enabled[t] THEN @ ELSE @ + 1]
    BY <1>3, BuildFrame DEF TypeOK
  <2>2. slot' \in [Tasks -> [Times -> Nat \cup {Never}]]
    <3>1. scan.read[t].next \in Nat
      BY <2>1, TimesFact
    <3>2. slot' = [slot EXCEPT ![t][scan.at] = scan.read[t].next]
      BY <1>3 DEF Build
    <3>3. QED
      BY <2>1, <3>1, <3>2 DEF TypeOK
  <2>3. run' \in [Tasks -> [Times -> {"none", "built", "over", "dead"} \cup Busy]]
    BY <1>3 DEF TypeOK, Build
  <2>4. verdict' \in [Tasks -> [Times -> {"none", "pending", "running"} \cup Final]]
    BY <1>3 DEF TypeOK, Build
  <2>5. stray' \in [Tasks -> Nat]
    BY <2>1 DEF TypeOK
  <2>6. QED
    BY <2>1, <2>2, <2>3, <2>4, <2>5 DEF TypeOK, timeVars, taskVars
<1>4. CASE Dispatch
  <2>1. UNCHANGED <<timeVars, taskVars, verdict, edits, history, cuts>>
        /\ scan'.pc = "advance" /\ scan'.at = scan.at /\ scan'.task = scan.task
        /\ scan'.left = scan.left
    BY <1>4, DispatchFrame
  <2>2. run' \in [Tasks -> [Times -> {"none", "built", "over", "dead"} \cup Busy]]
    BY <1>4, DispatchFrame DEF TypeOK, Dispatch, Busy
  <2>3. QED
    BY <2>1, <2>2 DEF TypeOK, timeVars, taskVars, history
<1>5. CASE Advance
  <2>1. UNCHANGED <<timeVars, exists, enabled, cron, status, runVars, edits, history, cuts>>
        /\ scan'.pc \in {"idle", "pick"} /\ scan'.at \in Times
        /\ scan'.task \in Tasks \cup {Never} /\ scan'.left \subseteq Tasks
    BY <1>5, AdvanceFrame, TimesFact DEF TypeOK
  <2>2. next' \in [Tasks -> Nat \cup {Never}]
    BY <1>5, AdvanceFrame DEF TypeOK
  <2>3. QED
    BY <2>1, <2>2 DEF TypeOK, timeVars, runVars, history
<1>6. CASE Terminate \/ Crash
  <2>1. UNCHANGED <<now, taskVars, verdict, edits, history>> /\ cuts' \in 0..MaxCuts
        /\ run' \in [Tasks -> [Times -> {"none", "built", "over", "dead"} \cup Busy]]
        /\ scan' = NoScan /\ ticked' \in BOOLEAN
    BY <1>6, EndFrame
  <2>2. scan'.pc = "idle" /\ scan'.at \in Times /\ scan'.task = Never /\ scan'.left = {}
    BY <2>1, TimesFact DEF NoScan
  <2>3. QED
    BY <2>1, <2>2 DEF TypeOK, taskVars, history
<1>7. QED
  BY <1>1, <1>2, <1>3, <1>4, <1>5, <1>6 DEF Scan

LEMMA TypeRun ==
    ASSUME TypeOK, NEW t \in Tasks, NEW m \in Times, Run(t, m), RunInv
    PROVE  TypeOK'
<1>1. UNCHANGED <<timeVars, exists, enabled, cron, next, scan, edits, history, cuts>>
      /\ run' \in [Tasks -> [Times -> {"none", "built", "over", "dead"} \cup Busy]]
  BY RunFrame
<1>2. verdict' \in [Tasks -> [Times -> {"none", "pending", "running"} \cup Final]]
  <2>1. verdict' = verdict
        \/ \E v \in {"running"} \cup Final : verdict' = [verdict EXCEPT ![t][m] = v]
    BY DEF Run, Load, MarkRunning, Summarise, FinishRun
  <2>2. verdict \in [Tasks -> [Times -> {"none", "pending", "running"} \cup Final]]
    BY DEF TypeOK
  <2>3. CASE \E v \in {"running"} \cup Final : verdict' = [verdict EXCEPT ![t][m] = v]
    <3>1. PICK v \in {"running"} \cup Final : verdict' = [verdict EXCEPT ![t][m] = v]
      BY <2>3
    <3>2. QED
      BY <2>2, <3>1
  <2>4. QED
    BY <2>1, <2>2, <2>3
<1>3. status' \in [Tasks -> {"pending", "running", "disabled"} \cup Final]
  <2>1. CASE FinishRun(t, m)
    <3>1. verdict[t][m] \in Final
      BY <2>1 DEF RunInv, SummedIsFinal, FinishRun, Step
    <3>2. QED
      BY <2>1, <3>1 DEF TypeOK, FinishRun, WriteTask
  <2>2. CASE ~ FinishRun(t, m)
    BY <2>2 DEF TypeOK, Run, Load, MarkRunning, Summarise, WriteTask, taskVars
  <2>3. QED
    BY <2>1, <2>2
<1>4. QED
  BY <1>1, <1>2, <1>3 DEF TypeOK, timeVars, history

LEMMA TypeRequest ==
    ASSUME TypeOK, NEW t \in Tasks, Request(t)
    PROVE  TypeOK'
<1>1. UNCHANGED <<timeVars, scan, runVars, slot, cuts>>
  BY RequestFrame
<1>2. enabled' \in [Tasks -> BOOLEAN] /\ cron' \in [Tasks -> Crons]
  BY DEF TypeOK, Request, CreateTask, EditCron, Disable, Enable, DeleteTask
<1>3. next' \in [Tasks -> Nat \cup {Never}]
  <2>1. NextOf[cron[t]][now] \in Nat \cup {Never}
    BY ScheduleAssumption DEF TypeOK
  <2>2. QED
    BY <2>1 DEF TypeOK, Request, CreateTask, EditCron, Disable, Enable, DeleteTask
<1>4. status' \in [Tasks -> {"pending", "running", "disabled"} \cup Final]
  BY DEF TypeOK, Request, CreateTask, EditCron, Disable, Enable, DeleteTask
<1>5. exists' \subseteq Tasks /\ usable' \subseteq Tasks /\ quiet' \subseteq Tasks
  BY DEF TypeOK, Request, CreateTask, EditCron, Disable, Enable, DeleteTask, history
<1>6. stray' \in [Tasks -> Nat]
  <2>1. stray' = stray \/ stray' = [stray EXCEPT ![t] = 0]
    BY DEF Request, CreateTask, EditCron, Disable, Enable, DeleteTask, history
  <2>2. stray \in [Tasks -> Nat]
    BY DEF TypeOK
  <2>3. QED
    BY <2>1, <2>2
<1>7. edits' \in 0..MaxEdits
  <2>1. edits' = edits \/ Change
    BY DEF Request, CreateTask, EditCron, Disable, Enable, DeleteTask
  <2>2. QED
    BY <2>1, ScheduleAssumption DEF TypeOK, Change
<1>8. QED
  BY <1>1, <1>2, <1>3, <1>4, <1>5, <1>6, <1>7 DEF TypeOK, timeVars, runVars

LEMMA TypeStep == TypeOK /\ ScanInv /\ RunInv /\ Next => TypeOK'
  BY TypeScan, TypeRun, TypeRequest DEF Next

-----------------------------------------------------------------------------
(* The scan.                                                               *)

LEMMA ScanStep == TypeOK /\ ScanInv /\ Next => ScanInv'
<1> SUFFICES ASSUME TypeOK, ScanInv, Next PROVE ScanInv'
  OBVIOUS
<1> USE DEF InHand
<1>0. now \in Nat /\ scan.at \in Nat /\ scan.at <= now
  BY TimesFact DEF TypeOK, ScanInv
<1>1. CASE Tick
  <2>1. scan' = scan /\ run' = run /\ ScanShape'
    BY <1>1 DEF Tick, runVars, ScanInv, ScanShape
  <2>2. scan.at <= now'
    <3>1. now' = now \/ now' = now + 1
      BY <1>1 DEF Tick
    <3>2. QED
      BY <1>0, <2>1, <3>1
  <2>3. QED
    BY <2>1, <2>2 DEF ScanInv
<1>2. CASE ReadDue
  <2>1. scan'.at <= now'
    <3>1. scan'.at \in {0, now} /\ now' = now
      BY <1>2, ReadFrame
    <3>2. QED
      BY <1>0, <3>1
  <2>2. ASSUME NEW t \in scan'.left
        PROVE  /\ t \in Tasks /\ scan'.at = now /\ run'[t][scan'.at] = "none"
               /\ scan'.read[t].cron \in Crons /\ scan'.read[t].next \in 0..scan'.at
    <3>1. /\ t \in Tasks /\ Due(t) /\ run[t][now] = "none" /\ scan'.at = now /\ run' = run
          /\ scan'.read[t].cron = cron[t] /\ scan'.read[t].next = next[t]
      BY <1>2, <2>2, ReadFrame DEF runVars
    <3>2. next[t] \in Nat /\ next[t] <= now /\ cron[t] \in Crons /\ now \in Nat
      BY <3>1, TimesFact DEF Due, TypeOK
    <3>3. QED
      BY <3>1, <3>2
  <2>3. /\ scan'.pc \in {"idle", "pick"} /\ (scan'.pc = "idle" => scan'.left = {})
        /\ ScanShape'
    BY <1>2, ReadFrame
  <2>4. QED
    BY <2>1, <2>2, <2>3 DEF ScanInv
<1>3. ASSUME NEW t \in Tasks, Build(t) PROVE ScanInv'
  <2>1. /\ ScanShape'
        /\ scan'.pc = "dispatch" /\ scan'.at = scan.at /\ scan'.task = t
        /\ scan'.left = scan.left \ {t} /\ scan'.read = scan.read /\ t \in scan.left
        /\ run'[t][scan.at] = "built" /\ now' = now
    BY <1>3, BuildFrame DEF timeVars
  <2>2. \A u \in Tasks : u # t => run'[u][scan.at] = run[u][scan.at]
    BY <1>3, BuildFrame
  <2>3. QED
    BY <2>1, <2>2 DEF ScanInv
<1>4. CASE Dispatch
  <2>1. /\ ScanShape'
        /\ scan'.pc = "advance" /\ scan'.at = scan.at /\ scan'.task = scan.task
        /\ scan'.left = scan.left /\ scan'.read = scan.read /\ scan.pc = "dispatch"
        /\ run'[scan.task][scan.at] = "queued" /\ now' = now
    BY <1>4, DispatchFrame DEF timeVars
  <2>2. \A u \in Tasks : u # scan.task => run'[u][scan.at] = run[u][scan.at]
    BY <1>4, DispatchFrame
  <2>3. QED
    BY <2>1, <2>2 DEF ScanInv
<1>5. CASE Advance
  <2>1. /\ ScanShape'
        /\ \/ scan'.pc = "idle" /\ scan'.at = 0 /\ scan'.left = {}
           \/ /\ scan'.pc = "pick" /\ scan'.at = scan.at /\ scan'.left = scan.left
              /\ scan'.read = scan.read
        /\ now' = now /\ run' = run
    BY <1>5, AdvanceFrame DEF timeVars, runVars
  <2>2. scan'.at <= now'
    BY <2>1, TimesFact DEF ScanInv, TypeOK
  <2>3. QED
    BY <2>1, <2>2 DEF ScanInv
<1>6. ASSUME NEW t \in Tasks, NEW m \in Times, Run(t, m) PROVE ScanInv'
  <2>1. scan' = scan /\ now' = now /\ ScanShape'
    BY <1>6, RunFrame DEF timeVars, ScanInv, ScanShape
  <2>2. \A u \in Tasks :
          /\ run'[u][scan.at] = "none" <=> run[u][scan.at] = "none"
          /\ run[u][scan.at] = "built" => run'[u][scan.at] = "built"
    <3>1. scan.at \in Times /\ run[t][m] \in Busy /\ run'[t][m] \in Busy \cup {"over"}
          /\ \A u \in Tasks, n \in Times : u # t \/ n # m => run'[u][n] = run[u][n]
      BY <1>6, RunFrame DEF TypeOK
    <3>2. QED
      BY <3>1 DEF Busy
  <2>3. QED
    BY <2>1, <2>2 DEF ScanInv
<1>7. ASSUME NEW t \in Tasks, Request(t) PROVE ScanInv'
  BY <1>7, RequestFrame DEF ScanInv, ScanShape, timeVars, runVars
<1>8. CASE Terminate \/ Crash
  <2>1. scan' = NoScan /\ now' = now /\ ScanShape'
    BY <1>8, EndFrame DEF NoScan, ScanShape
  <2>2. 0 <= now
    BY TimesFact DEF TypeOK
  <2>3. QED
    BY <2>1, <2>2 DEF ScanInv, NoScan
<1>9. QED
  BY <1>1, <1>2, <1>3, <1>4, <1>5, <1>6, <1>7, <1>8 DEF Next, Scan

-----------------------------------------------------------------------------
(* Executions and the status of their tasks.                               *)

\* A run that is not yet in its probes may move among the states before them.
LEMMA RunKept ==
    ASSUME TypeOK, RunInv, UNCHANGED <<exists, status, cuts>>,
           \A u \in Tasks, n \in Times :
               \/ run'[u][n] = run[u][n] /\ verdict'[u][n] = verdict[u][n]
               \/ /\ run[u][n] \notin {"probing", "summed"}
                  /\ run'[u][n] \notin {"none", "summed", "over"}
    PROVE  RunInv'
<1>1. SummedIsFinal'
  BY DEF RunInv, SummedIsFinal
<1>2. RunningHasHad'
  BY DEF RunInv, RunningHasHad
<1>3. RunningHasRun'
  <2> SUFFICES ASSUME NEW t \in exists, status[t] = "running", ~ cuts > 0
               PROVE  \E m \in Times : run'[t][m] \in {"probing", "summed"}
    BY DEF RunningHasRun
  <2>1. PICK m \in Times : run[t][m] \in {"probing", "summed"}
    BY DEF RunInv, RunningHasRun
  <2>2. QED
    BY <2>1 DEF TypeOK
<1>4. HandedOverEnds'
  BY DEF RunInv, HandedOverEnds, TypeOK
<1>5. QED
  BY <1>1, <1>2, <1>3, <1>4 DEF RunInv

LEMMA RunScan ==
    ASSUME TypeOK, ScanInv, RunInv, Tick \/ Scan \/ Terminate \/ Crash
    PROVE  RunInv'
<1>1. CASE Tick \/ ReadDue
  <2>1. UNCHANGED <<exists, status, run, verdict, cuts>>
    BY <1>1, ReadFrame DEF Tick, taskVars, runVars
  <2>2. QED
    BY <2>1, RunKept
<1>2. CASE Advance
  <2>1. UNCHANGED <<exists, status, run, verdict, cuts>>
    BY <1>2, AdvanceFrame DEF runVars
  <2>2. QED
    BY <2>1, RunKept
<1>3. ASSUME NEW t \in Tasks, Build(t) PROVE RunInv'
  <2>1. UNCHANGED <<exists, status, cuts>>
        /\ run[t][scan.at] = "none" /\ run'[t][scan.at] = "built"
        /\ \A u \in Tasks, m \in Times : u # t \/ m # scan.at =>
             run'[u][m] = run[u][m] /\ verdict'[u][m] = verdict[u][m]
    BY <1>3, BuildFrame DEF taskVars
  <2>2. \A u \in Tasks, n \in Times :
          \/ run'[u][n] = run[u][n] /\ verdict'[u][n] = verdict[u][n]
          \/ /\ run[u][n] \notin {"probing", "summed"}
             /\ run'[u][n] \notin {"none", "summed", "over"}
    BY <2>1
  <2>3. QED
    BY <2>1, <2>2, RunKept
<1>4. CASE Dispatch
  <2>1. UNCHANGED <<exists, status, verdict, cuts>>
        /\ run[scan.task][scan.at] = "built" /\ run'[scan.task][scan.at] = "queued"
        /\ \A u \in Tasks, m \in Times : u # scan.task \/ m # scan.at => run'[u][m] = run[u][m]
    BY <1>4, DispatchFrame DEF taskVars
  <2>2. \A u \in Tasks, n \in Times :
          \/ run'[u][n] = run[u][n] /\ verdict'[u][n] = verdict[u][n]
          \/ /\ run[u][n] \notin {"probing", "summed"}
             /\ run'[u][n] \notin {"none", "summed", "over"}
    BY <2>1
  <2>3. QED
    BY <2>1, <2>2, RunKept
<1>5. CASE Terminate \/ Crash
  <2>1. UNCHANGED <<exists, status, verdict>> /\ cuts' > 0
        /\ \A u \in Tasks, n \in Times :
              run'[u][n] = run[u][n] \/ (run'[u][n] = "dead" /\ run[u][n] # "none")
    BY <1>5, EndFrame DEF taskVars, Busy
  <2>2. SummedIsFinal' /\ RunningHasHad'
    BY <2>1 DEF RunInv, SummedIsFinal, RunningHasHad
  <2>3. RunningHasRun'
    BY <2>1 DEF RunningHasRun
  <2>4. HandedOverEnds'
    BY <2>1 DEF RunInv, HandedOverEnds, TypeOK
  <2>5. QED
    BY <2>2, <2>3, <2>4 DEF RunInv
<1>6. QED
  BY <1>1, <1>2, <1>3, <1>4, <1>5 DEF Scan

LEMMA RunRun ==
    ASSUME TypeOK, RunInv, NEW t \in Tasks, NEW m \in Times, Run(t, m)
    PROVE  RunInv'
<1>1. UNCHANGED <<exists, cuts>> /\ run[t][m] \in Busy /\ run'[t][m] \in Busy \cup {"over"}
      /\ \A u \in Tasks, n \in Times :
           u # t \/ n # m => run'[u][n] = run[u][n] /\ verdict'[u][n] = verdict[u][n]
  BY RunFrame
<1>2. \A u \in Tasks : u # t => status'[u] = status[u]
  BY DEF TypeOK, Run, Load, MarkRunning, Summarise, FinishRun, WriteTask, taskVars
<1>3. run'[t][m] # "none" /\ exists \subseteq Tasks
  BY <1>1 DEF Busy, TypeOK
<1>4. RunningHasHad'
  BY <1>1, <1>2, <1>3 DEF RunInv, RunningHasHad
<1>5. SummedIsFinal' /\ HandedOverEnds' /\ RunningHasRun'
  <2>1. CASE Load(t, m)
    <3>1. status' = status /\ run[t][m] = "queued" /\ run'[t][m] \in {"loaded", "over"}
          /\ (run'[t][m] = "over" => t \notin exists)
      BY <2>1 DEF TypeOK, Load, Step, taskVars
    <3>2. SummedIsFinal' /\ HandedOverEnds'
      BY <1>1, <1>3, <3>1 DEF RunInv, SummedIsFinal, HandedOverEnds
    <3>3. RunningHasRun'
      BY <1>1, <1>3, <3>1 DEF RunInv, RunningHasRun
    <3>4. QED
      BY <3>2, <3>3
  <2>2. CASE MarkRunning(t, m)
    <3>1. run'[t][m] = "probing" /\ verdict' = verdict
      BY <2>2 DEF TypeOK, MarkRunning, Step
    <3>2. SummedIsFinal' /\ HandedOverEnds'
      BY <1>1, <1>3, <3>1 DEF RunInv, SummedIsFinal, HandedOverEnds
    <3>3. RunningHasRun'
      BY <1>1, <1>2, <1>3, <3>1 DEF RunInv, RunningHasRun
    <3>4. QED
      BY <3>2, <3>3
  <2>3. CASE Summarise(t, m)
    <3>1. status' = status /\ run'[t][m] = "summed" /\ verdict'[t][m] \in Final
      BY <2>3 DEF TypeOK, Summarise, Step, taskVars
    <3>2. SummedIsFinal' /\ HandedOverEnds'
      BY <1>1, <1>3, <3>1 DEF RunInv, SummedIsFinal, HandedOverEnds
    <3>3. RunningHasRun'
      BY <1>1, <1>3, <3>1 DEF RunInv, RunningHasRun
    <3>4. QED
      BY <3>2, <3>3
  <2>4. CASE FinishRun(t, m)
    <3>1. run[t][m] = "summed" /\ run'[t][m] = "over" /\ verdict' = verdict
          /\ status' = WriteTask(t, verdict[t][m])
      BY <2>4 DEF TypeOK, FinishRun, Step
    <3>2. verdict[t][m] \in Final /\ "running" \notin Final
      BY <3>1 DEF RunInv, SummedIsFinal, Final
    <3>3. SummedIsFinal' /\ HandedOverEnds'
      BY <1>1, <1>3, <3>1, <3>2 DEF RunInv, SummedIsFinal, HandedOverEnds
    <3>4. t \in exists => status'[t] # "running"
      BY <3>1, <3>2 DEF WriteTask, TypeOK
    <3>5. RunningHasRun'
      BY <1>1, <1>2, <1>3, <3>4 DEF RunInv, RunningHasRun
    <3>6. QED
      BY <3>3, <3>5
  <2>5. QED
    BY <2>1, <2>2, <2>3, <2>4 DEF Run
<1>6. QED
  BY <1>4, <1>5 DEF RunInv

LEMMA RunRequest ==
    ASSUME TypeOK, RunInv, NEW t \in Tasks, Request(t)
    PROVE  RunInv'
<1>1. UNCHANGED <<run, verdict, cuts>>
  BY RequestFrame DEF runVars
<1>2. \A u \in Tasks : status'[u] = "running" => status[u] = "running"
  BY DEF TypeOK, Request, CreateTask, EditCron, Disable, Enable, DeleteTask
<1>3. \A u \in exists' : u \in exists \/ (\A m \in Times : run[u][m] = "none")
  BY DEF Request, CreateTask, EditCron, Disable, Enable, DeleteTask
<1>4. exists' \subseteq Tasks
  BY DEF TypeOK, Request, CreateTask, EditCron, Disable, Enable, DeleteTask
<1>5. QED
  BY <1>1, <1>2, <1>3, <1>4 DEF RunInv, SummedIsFinal, RunningHasHad, RunningHasRun,
        HandedOverEnds

LEMMA RunStep == TypeOK /\ ScanInv /\ RunInv /\ Next => RunInv'
  BY RunScan, RunRun, RunRequest DEF Next

-----------------------------------------------------------------------------
(* Disabled tasks.                                                         *)

\* A step that leaves the tasks alone, starts nothing for a quiet one and reads
\* only enabled ones.
LEMMA QuietKept ==
    ASSUME TypeOK, QuietInv, UNCHANGED <<exists, enabled, quiet, stray>>,
           \A t \in quiet : status'[t] = status[t] /\ ~ UnderWay(t)',
           \A t \in Tasks : t \in scan'.left => t \in scan.left \/ enabled[t]
    PROVE  QuietInv'
  BY DEF QuietInv, QuietStaysDisabled, StrayIsRead

LEMMA QuietScan ==
    ASSUME TypeOK, ScanInv, QuietInv, Tick \/ Scan \/ Terminate \/ Crash
    PROVE  QuietInv'
<1> USE DEF UnderWay
<1>1. /\ quiet \subseteq Tasks
      /\ \A t \in quiet :
           /\ ~ enabled[t] /\ t \notin scan.left
           /\ \A m \in Times : run[t][m] \notin Busy \cup {"built"}
  BY DEF QuietInv, QuietStaysDisabled, TypeOK
<1>2. CASE Tick
  BY <1>1, <1>2, QuietKept DEF Tick, taskVars, runVars, history
<1>3. CASE ReadDue
  <2>1. UNCHANGED <<exists, enabled, status, run, quiet, stray>>
        /\ \A t \in scan'.left : t \in Tasks /\ enabled[t]
    BY <1>3, ReadFrame DEF taskVars, runVars, history, Due
  <2>2. QED
    BY <1>1, <2>1, QuietKept
<1>4. ASSUME NEW t \in Tasks, Build(t) PROVE QuietInv'
  <2>1. UNCHANGED <<exists, enabled, status, quiet>> /\ t \in scan.left
        /\ scan'.left = scan.left \ {t}
        /\ \A u \in Tasks, m \in Times : u # t => run'[u][m] = run[u][m]
        /\ stray' = [stray EXCEPT ![t] = IF enabled[t] THEN @ ELSE @ + 1]
    BY <1>4, BuildFrame DEF taskVars
  <2>2. QuietStaysDisabled'
    BY <1>1, <2>1 DEF QuietInv, QuietStaysDisabled
  <2>3. StrayIsRead'
    <3>1. stray \in [Tasks -> Nat] /\ enabled \in [Tasks -> BOOLEAN]
      BY DEF TypeOK
    <3>2. ~ enabled[t] => stray[t] = 0
      BY <2>1 DEF QuietInv, StrayIsRead
    <3>3. ~ enabled[t] => stray'[t] = 1
      <4>1. ~ enabled[t] => stray' = [stray EXCEPT ![t] = stray[t] + 1]
        BY <1>4, <3>1 DEF Build
      <4>2. QED
        BY <3>1, <3>2, <4>1
    <3>4. \A u \in Tasks : u # t => stray'[u] = stray[u]
      <4>1. stray' = [stray EXCEPT ![t] = stray'[t]]
        BY <1>4, <3>1 DEF Build
      <4>2. QED
        BY <3>1, <4>1
    <3>5. ASSUME NEW u \in Tasks, ~ enabled'[u]
          PROVE  stray'[u] <= 1 /\ (u \in scan'.left => stray'[u] = 0)
      <4>1. CASE u = t
        BY <2>1, <3>3, <3>5, <4>1
      <4>2. CASE u # t
        BY <2>1, <3>4, <3>5, <4>2 DEF QuietInv, StrayIsRead
      <4>3. QED
        BY <4>1, <4>2
    <3>6. QED
      BY <3>5 DEF StrayIsRead
  <2>4. QED
    BY <2>1, <2>2, <2>3 DEF QuietInv
<1>5. CASE Dispatch
  <2>1. UNCHANGED <<exists, enabled, status, quiet, stray>> /\ scan'.left = scan.left
        /\ run[scan.task][scan.at] = "built" /\ scan.task \in Tasks /\ scan.at \in Times
        /\ \A u \in Tasks, m \in Times : u # scan.task => run'[u][m] = run[u][m]
    BY <1>5, DispatchFrame DEF taskVars, history
  <2>2. scan.task \notin quiet
    BY <1>1, <2>1
  <2>3. QED
    BY <1>1, <2>1, <2>2, QuietKept
<1>6. CASE Advance
  <2>1. UNCHANGED <<exists, enabled, status, run, quiet, stray>> /\ scan'.left = scan.left
    BY <1>6, AdvanceFrame DEF runVars, history
  <2>2. QED
    BY <1>1, <2>1, QuietKept
<1>7. CASE Terminate \/ Crash
  <2>1. UNCHANGED <<exists, enabled, status, quiet, stray>> /\ scan'.left = {}
        /\ \A u \in Tasks, n \in Times : run'[u][n] = run[u][n] \/ run'[u][n] = "dead"
    <3>1. UNCHANGED <<taskVars, history>> /\ scan' = NoScan
          /\ \A u \in Tasks, n \in Times : run'[u][n] = run[u][n] \/ run'[u][n] = "dead"
      BY <1>7, EndFrame
    <3>2. scan'.left = {}
      BY <3>1 DEF NoScan
    <3>3. QED
      BY <3>1, <3>2 DEF taskVars, history
  <2>2. "dead" \notin Busy \cup {"built"}
    BY DEF Busy
  <2>3. QED
    BY <1>1, <2>1, <2>2, QuietKept
<1>8. QED
  BY <1>2, <1>3, <1>4, <1>5, <1>6, <1>7 DEF Scan

LEMMA QuietRun ==
    ASSUME TypeOK, QuietInv, NEW t \in Tasks, NEW m \in Times, Run(t, m)
    PROVE  QuietInv'
<1>1. UNCHANGED <<exists, enabled, scan, quiet, stray>> /\ run[t][m] \in Busy
      /\ \A u \in Tasks, n \in Times : u # t => run'[u][n] = run[u][n]
  BY RunFrame DEF history
<1>2. t \notin quiet
  BY <1>1 DEF QuietInv, QuietStaysDisabled, UnderWay
<1>3. \A u \in Tasks : u # t => status'[u] = status[u]
  BY DEF TypeOK, Run, Load, MarkRunning, Summarise, FinishRun, WriteTask, taskVars
<1>4. \A u \in quiet : status'[u] = status[u] /\ ~ UnderWay(u)'
  BY <1>1, <1>2, <1>3 DEF QuietInv, QuietStaysDisabled, UnderWay, TypeOK
<1>5. QED
  BY <1>1, <1>4, QuietKept

LEMMA QuietRequest ==
    ASSUME TypeOK, QuietInv, NEW t \in Tasks, Request(t)
    PROVE  QuietInv'
<1>1. UNCHANGED <<scan, run>>
  BY RequestFrame DEF runVars
<1>2. \A u \in Tasks : UnderWay(u)' <=> UnderWay(u)
  BY <1>1 DEF UnderWay
<1>3. quiet \subseteq exists /\ exists \subseteq Tasks
  BY DEF QuietInv, TypeOK
<1>4. CASE CreateTask(t)
  <2>1. QuietStaysDisabled'
    BY <1>2, <1>3, <1>4 DEF CreateTask, QuietInv, QuietStaysDisabled, history, TypeOK
  <2>2. StrayIsRead'
    BY <1>1, <1>4 DEF CreateTask, QuietInv, StrayIsRead, history, TypeOK
  <2>3. QED
    BY <1>3, <1>4, <2>1, <2>2 DEF CreateTask, QuietInv, history
<1>5. ASSUME NEW c \in Crons, EditCron(t, c) PROVE QuietInv'
  <2>1. QuietStaysDisabled' /\ StrayIsRead'
    BY <1>1, <1>2, <1>3, <1>5 DEF EditCron, QuietInv, QuietStaysDisabled, StrayIsRead
  <2>2. QED
    BY <1>3, <1>5, <2>1 DEF EditCron, QuietInv
<1>6. CASE Disable(t)
  <2>1. \A u \in Tasks : u # t => enabled'[u] = enabled[u] /\ status'[u] = status[u]
                                /\ stray'[u] = stray[u]
    BY <1>6 DEF Disable, TypeOK
  <2>2. ~ enabled'[t] /\ status'[t] = "disabled" /\ stray'[t] = 0 /\ t \in exists
    BY <1>6 DEF Disable, TypeOK
  <2>3. quiet' \subseteq quiet \cup {t} /\ (t \in quiet' => t \in quiet \/ ~ UnderWay(t))
        /\ exists' = exists
    BY <1>6 DEF Disable
  <2>4. QuietStaysDisabled'
    BY <1>2, <1>3, <2>1, <2>2, <2>3 DEF QuietInv, QuietStaysDisabled
  <2>5. StrayIsRead'
    BY <1>1, <2>1, <2>2 DEF QuietInv, StrayIsRead
  <2>6. QED
    BY <1>3, <2>2, <2>3, <2>4, <2>5 DEF QuietInv
<1>7. CASE Enable(t)
  <2>1. \A u \in Tasks : u # t => enabled'[u] = enabled[u] /\ status'[u] = status[u]
    BY <1>7 DEF Enable, TypeOK
  <2>2. enabled'[t] /\ quiet' = quiet \ {t} /\ UNCHANGED <<exists, stray>>
    BY <1>7 DEF Enable, TypeOK
  <2>3. QuietStaysDisabled'
    BY <1>2, <1>3, <2>1, <2>2 DEF QuietInv, QuietStaysDisabled
  <2>4. StrayIsRead'
    BY <1>1, <2>1, <2>2 DEF QuietInv, StrayIsRead
  <2>5. QED
    BY <1>3, <2>2, <2>3, <2>4 DEF QuietInv
<1>8. CASE DeleteTask(t)
  <2>1. QuietStaysDisabled' /\ StrayIsRead'
    BY <1>1, <1>2, <1>3, <1>8 DEF DeleteTask, QuietInv, QuietStaysDisabled, StrayIsRead
  <2>2. QED
    BY <1>3, <1>8, <2>1 DEF DeleteTask, QuietInv
<1>9. QED
  BY <1>4, <1>5, <1>6, <1>7, <1>8 DEF Request

LEMMA QuietStep == TypeOK /\ ScanInv /\ QuietInv /\ Next => QuietInv'
  BY QuietScan, QuietRun, QuietRequest DEF Next

-----------------------------------------------------------------------------
(* Occurrences.                                                            *)

\* A step that moves neither slots nor next_run_at, takes nothing into the hands
\* of the scan and drops nothing from them that is still to be advanced.
LEMMA SlotKept ==
    ASSUME TypeOK, SlotInv, UNCHANGED slot, now <= now', now' \in Nat, cuts' = cuts \/ cuts' > 0,
           \A t \in Tasks, m \in Times : run'[t][m] = "none" => run[t][m] = "none",
           scan'.pc # "idle" => scan.pc # "idle" /\ scan'.at = scan.at,
           usable' \subseteq usable,
           \A t \in usable' :
               /\ ~ Barren(cron'[t])
               /\ t \in scan'.left \/ InHand(t)' =>
                     (t \in scan.left \/ InHand(t)) /\ scan'.read[t] = scan.read[t],
           cuts' = 0 => \A t \in usable' :
               /\ t \in scan'.left => t \in scan.left
               /\ t \in exists' => t \in exists /\ next'[t] = next[t]
               /\ InHand(t) => InHand(t)' /\ scan'.at = scan.at
    PROVE  SlotInv'
<1>1. Times \subseteq Nat /\ now \in Times /\ usable \subseteq Tasks
  BY TimesFact DEF TypeOK
<1>2. SlotPast'
  <2> SUFFICES ASSUME NEW t \in Tasks, NEW m \in Times, slot[t][m] # Never
               PROVE  /\ slot[t][m] <= m /\ m <= now' /\ run'[t][m] # "none"
                      /\ scan'.pc # "idle" => m <= scan'.at
    BY DEF SlotPast
  <2>1. slot[t][m] <= m /\ m <= now /\ run[t][m] # "none" /\ (scan.pc # "idle" => m <= scan.at)
    BY DEF SlotInv, SlotPast
  <2>2. QED
    BY <1>1, <2>1
<1>3. UsableRecurs'
  BY DEF SlotInv, UsableRecurs, Barren
<1>4. NextBehind'
  <2> SUFFICES ASSUME NEW t \in usable', NEW m \in Times, cuts' = 0, slot[t][m] # Never
               PROVE  /\ t \in exists' /\ next'[t] # Never /\ ~ (InHand(t)' /\ m = scan'.at)
                            => next'[t] > m
                      /\ t \in scan'.left => scan'.read[t].next > m
    BY DEF NextBehind
  <2>1. cuts = 0 /\ t \in usable
    OBVIOUS
  <2>2. /\ t \in exists /\ next[t] # Never /\ ~ (InHand(t) /\ m = scan.at) => next[t] > m
        /\ t \in scan.left => scan.read[t].next > m
    BY <2>1 DEF SlotInv, NextBehind
  <2>3. QED
    BY <2>2
<1>5. OncePerSlot'
  <2>1. cuts' > 0 \/ cuts' = cuts
    OBVIOUS
  <2>2. QED
    BY <2>1 DEF SlotInv, OncePerSlot
<1>6. QED
  BY <1>2, <1>3, <1>4, <1>5 DEF SlotInv

LEMMA SlotQuiet ==
    ASSUME TypeOK, ScanInv, SlotInv, Tick \/ Dispatch \/ Terminate \/ Crash
    PROVE  SlotInv'
<1>1. now \in Nat /\ \A t \in usable : ~ Barren(cron[t])
  BY TimesFact DEF TypeOK, SlotInv, UsableRecurs
<1>2. CASE Tick
  <2>1. UNCHANGED <<taskVars, scan, runVars, history, cuts>> /\ (now' = now \/ now' = now + 1)
    BY <1>2 DEF Tick
  <2>2. QED
    BY <1>1, <2>1, SlotKept DEF taskVars, runVars, history, InHand
<1>3. CASE Dispatch
  <2>1. /\ UNCHANGED <<timeVars, taskVars, history, cuts>>
        /\ scan.pc = "dispatch" /\ scan'.pc = "advance" /\ scan'.at = scan.at
        /\ scan'.task = scan.task /\ scan'.left = scan.left /\ scan'.read = scan.read
        /\ run[scan.task][scan.at] = "built" /\ run'[scan.task][scan.at] = "queued"
        /\ \A u \in Tasks, m \in Times : u # scan.task \/ m # scan.at => run'[u][m] = run[u][m]
    BY <1>3, DispatchFrame
  <2>2. \A t \in Tasks, m \in Times : run'[t][m] = "none" => run[t][m] = "none"
    BY <2>1
  <2>3. UNCHANGED <<now, exists, cron, next, slot, usable, cuts>> /\ now <= now
    BY <1>1, <2>1 DEF timeVars, taskVars, history
  <2>4. \A t : InHand(t)' <=> InHand(t)
    BY <2>1 DEF InHand
  <2>5. QED
    BY <1>1, <2>1, <2>2, <2>3, <2>4, SlotKept
<1>4. CASE Terminate \/ Crash
  <2>1. /\ UNCHANGED <<now, taskVars, history>> /\ cuts' > 0 /\ scan' = NoScan
        /\ cuts' \in 0..MaxCuts
        /\ \A u \in Tasks, n \in Times :
              run'[u][n] = run[u][n] \/ (run'[u][n] = "dead" /\ run[u][n] \in Busy \cup {"built"})
    BY <1>4, EndFrame
  <2>2. scan'.pc = "idle" /\ scan'.left = {} /\ \A t : ~ InHand(t)'
    BY <2>1 DEF NoScan, InHand
  <2>3. UNCHANGED <<now, exists, cron, next, slot, usable>> /\ now <= now /\ cuts' # 0
    BY <1>1, <2>1 DEF taskVars, history
  <2>4. \A t \in Tasks, m \in Times : run'[t][m] = "none" => run[t][m] = "none"
    BY <2>1
  <2>5. QED
    BY <1>1, <2>1, <2>2, <2>3, <2>4, SlotKept
<1>5. QED
  BY <1>2, <1>3, <1>4

LEMMA SlotRun ==
    ASSUME TypeOK, SlotInv, NEW t \in Tasks, NEW m \in Times, Run(t, m)
    PROVE  SlotInv'
<1>1. UNCHANGED <<now, exists, cron, next, scan, slot, usable, cuts>>
      /\ run[t][m] \in Busy /\ run'[t][m] \in Busy \cup {"over"}
      /\ \A u \in Tasks, n \in Times : u # t \/ n # m => run'[u][n] = run[u][n]
  BY RunFrame DEF timeVars, history
<1>2. \A u \in Tasks, n \in Times : run'[u][n] = "none" => run[u][n] = "none"
  BY <1>1 DEF Busy
<1>3. now \in Nat /\ now <= now /\ \A u \in usable : ~ Barren(cron[u])
  BY TimesFact DEF TypeOK, SlotInv, UsableRecurs
<1>4. QED
  BY <1>1, <1>2, <1>3, SlotKept DEF InHand

LEMMA SlotRequest ==
    ASSUME TypeOK, ScanInv, SlotInv, NEW t \in Tasks, Request(t)
    PROVE  SlotInv'
<1>1. UNCHANGED <<now, scan, run, slot, cuts>> /\ now \in Nat /\ now <= now
  BY RequestFrame, TimesFact DEF timeVars, runVars, TypeOK
<1>2. usable \subseteq Tasks /\ \A u \in usable : ~ Barren(cron[u])
  BY DEF TypeOK, SlotInv, UsableRecurs
<1>3. \A u : InHand(u)' <=> InHand(u)
  BY <1>1 DEF InHand
<1>4. CASE Disable(t) \/ Enable(t) \/ DeleteTask(t)
  <2>1. UNCHANGED <<cron, next, usable>> /\ exists' \subseteq exists
    BY <1>4 DEF Disable, Enable, DeleteTask
  <2>2. QED
    BY <1>1, <1>2, <1>3, <2>1, SlotKept
<1>5. ASSUME NEW c \in Crons, EditCron(t, c) PROVE SlotInv'
  <2>1. UNCHANGED <<exists, next>> /\ usable' \subseteq usable
        /\ cron' = [cron EXCEPT ![t] = c] /\ (t \in usable' => ~ Barren(c))
    BY <1>5 DEF EditCron
  <2>2. \A u \in usable' : ~ Barren(cron'[u])
    BY <1>2, <2>1 DEF TypeOK
  <2>3. QED
    BY <1>1, <1>2, <1>3, <2>1, <2>2, SlotKept
<1>6. CASE CreateTask(t)
  <2>1. UNCHANGED <<cron, usable>> /\ exists' = exists \cup {t}
        /\ next' = [next EXCEPT ![t] = NextOf[cron[t]][now]]
        /\ \A m \in Times : run[t][m] = "none"
    BY <1>6 DEF CreateTask, history
  <2>2. \A m \in Times : slot[t][m] = Never
    BY <2>1 DEF SlotInv, SlotPast
  <2>3. SlotPast' /\ UsableRecurs'
    BY <1>1, <1>3, <2>1 DEF SlotInv, SlotPast, UsableRecurs, Barren
  <2>4. NextBehind'
    <3>1. \A u \in Tasks : u # t => next'[u] = next[u] /\ (u \in exists' <=> u \in exists)
      BY <2>1 DEF TypeOK
    <3>2. QED
      BY <1>1, <1>2, <1>3, <2>1, <2>2, <3>1 DEF SlotInv, NextBehind
  <2>5. OncePerSlot'
    BY <1>1, <2>1 DEF SlotInv, OncePerSlot
  <2>6. QED
    BY <2>3, <2>4, <2>5 DEF SlotInv
<1>7. QED
  BY <1>4, <1>5, <1>6 DEF Request

LEMMA SlotRead ==
    ASSUME TypeOK, ScanInv, SlotInv, ReadDue
    PROVE  SlotInv'
<1>1. /\ scan.pc = "idle" /\ UNCHANGED <<now, exists, cron, next, run, slot, usable, cuts>>
      /\ scan'.pc \in {"idle", "pick"} /\ (scan'.pc = "idle" => scan'.left = {})
      /\ scan'.left = {} \/ scan'.at = now
  BY ReadFrame DEF taskVars, runVars, history
<1>2. \A t \in scan'.left :
        /\ t \in Tasks /\ t \in exists /\ next[t] # Never
        /\ scan'.read[t].cron = cron[t] /\ scan'.read[t].next = next[t]
  BY ReadFrame DEF Due
<1>3. \A t : ~ InHand(t) /\ ~ InHand(t)'
  BY <1>1 DEF InHand
<1>4. scan'.pc # "idle" => scan'.at = now
  BY DEF ReadDue, Found, NoScan
<1>5. SlotPast'
  BY <1>1, <1>4 DEF SlotInv, SlotPast
<1>6. UsableRecurs'
  BY <1>1, <1>2, <1>3 DEF SlotInv, UsableRecurs, Barren
<1>7. NextBehind'
  BY <1>1, <1>2, <1>3 DEF SlotInv, NextBehind
<1>8. OncePerSlot'
  BY <1>1 DEF SlotInv, OncePerSlot
<1>9. QED
  BY <1>5, <1>6, <1>7, <1>8 DEF SlotInv

LEMMA SlotBuild ==
    ASSUME TypeOK, ScanInv, SlotInv, NEW t \in Tasks, Build(t)
    PROVE  SlotInv'
<1>1. /\ scan.pc = "pick" /\ t \in scan.left
      /\ UNCHANGED <<now, exists, cron, next, usable, cuts>>
      /\ scan'.pc = "dispatch" /\ scan'.at = scan.at /\ scan'.task = t
      /\ scan'.left = scan.left \ {t} /\ scan'.read = scan.read
      /\ run[t][scan.at] = "none" /\ run'[t][scan.at] = "built"
      /\ slot'[t][scan.at] = scan.read[t].next /\ scan.read[t].next \in 0..scan.at
      /\ scan.at \in Times
      /\ \A u \in Tasks, m \in Times : u # t \/ m # scan.at =>
           run'[u][m] = run[u][m] /\ slot'[u][m] = slot[u][m]
  BY BuildFrame DEF timeVars, taskVars
<1>2. scan.at \in Nat /\ scan.at <= now /\ usable \subseteq Tasks /\ Times \subseteq Nat
  BY <1>1, TimesFact DEF ScanInv, TypeOK
<1>3. \A u : ~ InHand(u) /\ (InHand(u)' <=> u = t)
  BY <1>1 DEF InHand
<1>4. SlotPast'
  <2> SUFFICES ASSUME NEW u \in Tasks, NEW m \in Times, slot'[u][m] # Never
               PROVE  slot'[u][m] <= m /\ m <= now /\ run'[u][m] # "none" /\ m <= scan.at
    BY <1>1 DEF SlotPast
  <2>1. CASE u = t /\ m = scan.at
    BY <1>1, <1>2, <2>1
  <2>2. CASE u # t \/ m # scan.at
    BY <1>1, <2>2 DEF SlotInv, SlotPast
  <2>3. QED
    BY <2>1, <2>2
<1>5. UsableRecurs'
  BY <1>1, <1>3 DEF SlotInv, UsableRecurs, Barren
<1>6. NextBehind'
  <2> SUFFICES ASSUME NEW u \in usable, NEW m \in Times, cuts = 0, slot'[u][m] # Never
               PROVE  /\ u \in exists /\ next[u] # Never /\ ~ (u = t /\ m = scan.at) => next[u] > m
                      /\ u \in scan'.left => scan.read[u].next > m
    BY <1>1, <1>3 DEF NextBehind
  <2>1. CASE u = t /\ m = scan.at
    BY <1>1, <2>1
  <2>2. CASE u # t \/ m # scan.at
    <3>1. slot[u][m] # Never
      BY <1>1, <1>2, <2>2
    <3>2. QED
      BY <1>1, <1>3, <3>1 DEF SlotInv, NextBehind
  <2>3. QED
    BY <2>1, <2>2
<1>7. OncePerSlot'
  <2> SUFFICES ASSUME NEW u \in usable, NEW m \in Times, NEW n \in Times, ~ cuts > 0,
                      m # n, slot'[u][m] # Never, slot'[u][m] = slot'[u][n]
               PROVE  FALSE
    BY <1>1 DEF OncePerSlot
  <2>1. cuts = 0
    BY DEF TypeOK
  <2>2. ASSUME NEW k \in Times, k # scan.at, u = t, slot'[t][k] # Never
        PROVE  slot'[t][k] # slot'[t][scan.at]
    <3>1. slot'[t][k] = slot[t][k]
      BY <1>1, <2>2
    <3>2. slot[t][k] <= k /\ scan.read[t].next > k
      BY <1>1, <2>1, <2>2, <3>1 DEF SlotInv, SlotPast, NextBehind
    <3>3. slot[t][k] \in Nat /\ k \in Nat /\ scan.read[t].next \in Nat
      BY <1>1, <1>2, <2>2, <3>1 DEF TypeOK
    <3>4. QED
      BY <1>1, <3>1, <3>2, <3>3
  <2>3. CASE u = t /\ (m = scan.at \/ n = scan.at)
    BY <2>2, <2>3
  <2>4. CASE u # t \/ (m # scan.at /\ n # scan.at)
    <3>1. slot'[u][m] = slot[u][m] /\ slot'[u][n] = slot[u][n]
      BY <1>1, <1>2, <2>4
    <3>2. QED
      BY <3>1 DEF SlotInv, OncePerSlot
  <2>5. QED
    BY <2>3, <2>4
<1>8. QED
  BY <1>4, <1>5, <1>6, <1>7 DEF SlotInv

LEMMA SlotAdvance ==
    ASSUME TypeOK, ScanInv, SlotInv, Advance
    PROVE  SlotInv'
<1> DEFINE t == scan.task
           n == NextOf[scan.read[t].cron][scan.at]
<1>1. /\ scan.pc = "advance" /\ t \in Tasks /\ scan.at \in Times
      /\ UNCHANGED <<now, exists, cron, run, slot, usable, cuts>>
      /\ \/ scan'.pc = "idle"
         \/ scan'.pc = "pick" /\ scan'.at = scan.at /\ scan'.read = scan.read
      /\ scan'.left = scan.left
      /\ scan.read[t].cron \in Crons /\ n \in Nat \cup {Never}
      /\ next' = IF t \in exists /\ n # Never THEN [next EXCEPT ![t] = n] ELSE next
  BY AdvanceFrame DEF timeVars, runVars, history
<1>2. scan'.left # {} => scan'.pc = "pick"
  BY AdvanceFrame
<1>3. (\A u : ~ InHand(u)') /\ InHand(t) /\ (\A u : InHand(u) => u = t)
  BY <1>1 DEF InHand
<1>4. usable \subseteq Tasks /\ Times \subseteq Nat /\ t \notin scan.left
  BY <1>1, <1>3, TimesFact DEF TypeOK, ScanInv
<1>5. SlotPast'
  BY <1>1 DEF SlotInv, SlotPast
<1>6. UsableRecurs'
  BY <1>1, <1>2, <1>3 DEF SlotInv, UsableRecurs, Barren
<1>7. NextBehind'
  <2> SUFFICES ASSUME NEW u \in usable, NEW m \in Times, cuts = 0, slot[u][m] # Never
               PROVE  /\ u \in exists /\ next'[u] # Never => next'[u] > m
                      /\ u \in scan.left => scan'.read[u].next > m
    BY <1>1 DEF NextBehind
  <2>1. CASE u = t
    <3>1. n # Never
      BY <1>1, <1>3, <2>1 DEF SlotInv, UsableRecurs, Barren
    <3>2. n > scan.at
      BY <1>1, <3>1, ScheduleAssumption
    <3>3. m <= scan.at
      BY <1>1, <2>1 DEF SlotInv, SlotPast
    <3>4. n \in Nat /\ m \in Nat /\ scan.at \in Nat
      BY <1>1, <1>4, <3>1
    <3>5. u \in exists => next'[u] = n
      BY <1>1, <2>1, <3>1 DEF TypeOK
    <3>6. QED
      BY <1>4, <2>1, <3>2, <3>3, <3>4, <3>5
  <2>2. CASE u # t
    <3>1. next'[u] = next[u]
      BY <1>1, <1>4, <2>2 DEF TypeOK
    <3>2. QED
      BY <1>1, <1>2, <1>3, <2>2, <3>1 DEF SlotInv, NextBehind
  <2>3. QED
    BY <2>1, <2>2
<1>8. OncePerSlot'
  BY <1>1 DEF SlotInv, OncePerSlot
<1>9. QED
  BY <1>5, <1>6, <1>7, <1>8 DEF SlotInv

LEMMA SlotStep == TypeOK /\ ScanInv /\ SlotInv /\ Next => SlotInv'
  BY SlotQuiet, SlotRun, SlotRequest, SlotRead, SlotBuild, SlotAdvance DEF Next, Scan

-----------------------------------------------------------------------------
LEMMA Inductive == IInv /\ [Next]_vars => IInv'
<1>1. IInv /\ Next => IInv'
  BY TypeStep, ScanStep, RunStep, QuietStep, SlotStep DEF IInv
<1>2. IInv /\ UNCHANGED vars => IInv'
  <2> SUFFICES ASSUME IInv, UNCHANGED vars PROVE IInv'
    OBVIOUS
  <2>1. UNCHANGED <<timeVars, taskVars, scan, runVars, edits, history, cuts>>
    BY DEF vars
  <2>2. TypeOK' /\ ScanInv'
    BY <2>1 DEF IInv, TypeOK, ScanInv, ScanShape, InHand, timeVars, taskVars, runVars, history
  <2>3. RunInv' /\ QuietInv'
    BY <2>1 DEF IInv, RunInv, SummedIsFinal, RunningHasHad, RunningHasRun, HandedOverEnds,
           QuietInv, QuietStaysDisabled, StrayIsRead, UnderWay, taskVars, runVars, history
  <2>4. SlotInv'
    BY <2>1 DEF IInv, SlotInv, SlotPast, UsableRecurs, NextBehind, OncePerSlot, InHand, Barren,
           timeVars, taskVars, runVars, history
  <2>5. QED
    BY <2>2, <2>3, <2>4 DEF IInv
<1>3. QED
  BY <1>1, <1>2

LEMMA Invariance == Spec => []IInv
  BY InitInv, Inductive, PTL DEF Spec

\* No occurrence is executed twice while the server lives, for every table of
\* occurrences and however requests interleave with the scan (tasks.go 494-503).
THEOREM ExecutedOncePerSlot == Spec => []OncePerSlot
<1>1. IInv => OncePerSlot
  BY DEF IInv, SlotInv
<1>2. QED
  BY Invariance, <1>1, PTL

\* A disabled task has at most one stray execution, and none if nothing was under
\* way for it (tasks.go 487-503, router.go 304).
THEOREM DisabledTasksStayQuiet == Spec => []DisabledStaysQuiet
<1>1. IInv => DisabledStaysQuiet
  BY DEF IInv, QuietInv, StrayIsRead, DisabledStaysQuiet, OneStrayExecution
<1>2. QED
  BY Invariance, <1>1, PTL

\* Tasks that read as running have an execution under way, and executions that
\* have ended have a verdict (scheduling.go 361-391, tasks.go 285-300).
THEOREM StatusOfTasks == Spec => []StatusIsTrue
<1>1. IInv => StatusIsTrue
  BY DEF IInv, RunInv, StatusIsTrue
<1>2. QED
  BY Invariance, <1>1, PTL
=============================================================================
