------------------------------ MODULE Schedule ------------------------------
(***************************************************************************)
(* Scheduled tasks: the loop of one server that scans for due tasks every  *)
(* minute (internal/service/tasks.go 484-538), the requests that create,   *)
(* edit, switch and delete tasks meanwhile (internal/httpapi/router.go     *)
(* 215-339), and the executions the scan hands to the pool, as far as they *)
(* write the task (SingleExecution has their regions).                     *)
(*                                                                         *)
(* Time counts minutes, the resolution of cron.  A task has at most one    *)
(* execution per scan, named by the minute of the scan.                    *)
(***************************************************************************)
EXTENDS Integers, FiniteSets

CONSTANTS
    Tasks,          \* tasks
    Crons,          \* cron expressions
    Parses,         \* expressions that cron.ParseStandard accepts
    NextOf,         \* expression -> minute -> next occurrence, or Never
    Never,          \* no next occurrence; also NULL in next_run_at
    MaxTime,        \* bound: minutes
    MaxCuts,        \* bound: ends of the server, by a crash or a signal
    MaxEdits        \* bound: requests that change a task

Times == 0..MaxTime

ASSUME ScheduleAssumption ==
    /\ MaxTime \in Nat /\ MaxCuts \in Nat /\ MaxEdits \in Nat
    /\ Never \notin Nat
    /\ Parses \subseteq Crons
    /\ NextOf \in [Crons -> [Times -> Nat \cup {Never}]]
    /\ \A c \in Crons, t \in Times :
        /\ NextOf[c][t] # Never => c \in Parses /\ NextOf[c][t] > t

VARIABLES
    now,        \* the minute
    ticked,     \* the scan ticker has fired since the last scan
    exists,     \* tasks in the database
    enabled,    \* task -> is_enabled
    cron,       \* task -> schedule_cron
    next,       \* task -> next_run_at
    status,     \* task -> task.status
    scan,       \* the scan: its control point, time, current and further tasks
    run,        \* task -> minute of the scan -> control point of the execution
    verdict,    \* task -> minute -> execution.status
    edits,      \* number of changes made
    slot,       \* history: task -> minute -> next_run_at that the scan read
    usable,     \* history: tasks that never had an expression without occurrence
    quiet,      \* history: disabled tasks nothing was under way for at the time
    stray,      \* history: task -> executions created since it was disabled
    cuts        \* history: number of ends of the server

taskVars == <<exists, enabled, cron, next, status>>
runVars == <<run, verdict>>
timeVars == <<now, ticked>>
history == <<slot, usable, quiet, stray>>
vars == <<timeVars, taskVars, scan, runVars, edits, history, cuts>>

Barren(c) == \E m \in Times : NextOf[c][m] = Never
Final == {"success", "failed"}
NoScan == [pc |-> "idle", at |-> 0, task |-> Never, left |-> {}, read |-> << >>]
Busy == {"queued", "loaded", "probing", "summed"}

TypeOK ==
    /\ now \in Times /\ ticked \in BOOLEAN
    /\ exists \subseteq Tasks
    /\ enabled \in [Tasks -> BOOLEAN]
    /\ cron \in [Tasks -> Crons]
    /\ next \in [Tasks -> Nat \cup {Never}]
    /\ status \in [Tasks -> {"pending", "running", "disabled"} \cup Final]
    /\ scan.pc \in {"idle", "pick", "dispatch", "advance"}
    /\ scan.at \in Times
    /\ scan.task \in Tasks \cup {Never} /\ scan.left \subseteq Tasks
    /\ run \in [Tasks -> [Times -> {"none", "built", "over", "dead"} \cup Busy]]
    /\ verdict \in [Tasks -> [Times -> {"none", "pending", "running"} \cup Final]]
    /\ slot \in [Tasks -> [Times -> Nat \cup {Never}]]
    /\ usable \subseteq Tasks /\ quiet \subseteq Tasks
    /\ stray \in [Tasks -> Nat]
    /\ edits \in 0..MaxEdits /\ cuts \in 0..MaxCuts

Init ==
    /\ now = 0 /\ ticked = FALSE
    /\ exists = {}
    /\ enabled = [t \in Tasks |-> FALSE]
    /\ cron \in [Tasks -> Parses]
    /\ next = [t \in Tasks |-> Never]
    /\ status = [t \in Tasks |-> "pending"]
    /\ scan = NoScan
    /\ run = [t \in Tasks |-> [m \in Times |-> "none"]]
    /\ verdict = [t \in Tasks |-> [m \in Times |-> "none"]]
    /\ edits = 0
    /\ slot = [t \in Tasks |-> [m \in Times |-> Never]]
    /\ usable = {t \in Tasks : ~ Barren(cron[t])} /\ quiet = {}
    /\ stray = [t \in Tasks |-> 0]
    /\ cuts = 0

\* The clock stops at its bound, the ticker does not.
Tick ==
    /\ now' = IF now < MaxTime THEN now + 1 ELSE now
    /\ ticked' = TRUE
    /\ UNCHANGED <<taskVars, scan, runVars, edits, history, cuts>>

-----------------------------------------------------------------------------
(* RunDueSchedules, called by the only goroutine of ScheduleLoop.          *)

\* Mutant: the query forgets is_enabled.
DueEvenIfDisabled(t) == t \in exists /\ next[t] # Never /\ next[t] <= now

Due(t) == t \in exists /\ enabled[t] /\ next[t] # Never /\ next[t] <= now

Found(due) ==
    IF due = {} THEN NoScan
    ELSE [pc |-> "pick", at |-> now, task |-> Never, left |-> due,
          read |-> [t \in due |-> [cron |-> cron[t], next |-> next[t]]]]

\* Mutant: only what is due in this very minute.
ReadDueNow ==
    /\ scan.pc = "idle" /\ ticked
    /\ ticked' = FALSE
    /\ scan' = Found({t \in Tasks : Due(t) /\ next[t] = now /\ run[t][now] = "none"})
    /\ UNCHANGED <<now, taskVars, runVars, edits, history, cuts>>

\* The rows of the due tasks are read, and with them their expressions; the
\* ticker lets a minute pass before a task is found again.
ReadDue ==
    /\ scan.pc = "idle" /\ ticked
    /\ ticked' = FALSE
    /\ scan' = Found({t \in Tasks : Due(t) /\ run[t][now] = "none"})
    /\ UNCHANGED <<now, taskVars, runVars, edits, history, cuts>>

\* buildExecution, for the row as it was read: the task is not looked at.
Build(t) ==
    /\ scan.pc = "pick" /\ t \in scan.left
    /\ scan' = [scan EXCEPT !.pc = "dispatch", !.task = t, !.left = @ \ {t}]
    /\ run' = [run EXCEPT ![t][scan.at] = "built"]
    /\ verdict' = [verdict EXCEPT ![t][scan.at] = "pending"]
    /\ slot' = [slot EXCEPT ![t][scan.at] = scan.read[t].next]
    /\ stray' = [stray EXCEPT ![t] = IF enabled[t] THEN @ ELSE @ + 1]
    /\ UNCHANGED <<timeVars, taskVars, edits, usable, quiet, cuts>>

Dispatch ==
    /\ scan.pc = "dispatch"
    /\ scan' = [scan EXCEPT !.pc = "advance"]
    /\ run' = [run EXCEPT ![scan.task][scan.at] = "queued"]
    /\ UNCHANGED <<timeVars, taskVars, verdict, edits, history, cuts>>

Continue == IF scan.left = {} THEN NoScan ELSE [scan EXCEPT !.pc = "pick"]

\* Mutant: a task that was disabled meanwhile is left alone.
AdvanceEnabled ==
    LET t == scan.task
        n == NextOf[scan.read[t].cron][scan.at]
    IN  /\ scan.pc = "advance"
        /\ scan' = Continue
        /\ next' = IF t \in exists /\ enabled[t] /\ n # Never
                   THEN [next EXCEPT ![t] = n] ELSE next
        /\ UNCHANGED <<timeVars, exists, enabled, cron, status, runVars, edits, history, cuts>>

\* From the expression that was read and the time of the scan.  One that does
\* not parse is skipped; one without occurrence yields a date MySQL refuses.
Advance ==
    LET t == scan.task
        n == NextOf[scan.read[t].cron][scan.at]
    IN  /\ scan.pc = "advance"
        /\ scan' = Continue
        /\ next' = IF t \in exists /\ n # Never THEN [next EXCEPT ![t] = n] ELSE next
        /\ UNCHANGED <<timeVars, exists, enabled, cron, status, runVars, edits, history, cuts>>

Scan == ReadDue \/ Dispatch \/ Advance \/ \E t \in Tasks : Build(t)

-----------------------------------------------------------------------------
(* RunSingleExecution in the pool, as far as it writes the task.           *)

Step(t, m, from, to) == run[t][m] = from /\ run' = [run EXCEPT ![t][m] = to]

\* Mutant: a task that was disabled meanwhile is not run.
LoadEnabled(t, m) ==
    LET runs == t \in exists /\ enabled[t]
    IN  /\ Step(t, m, "queued", IF runs THEN "loaded" ELSE "over")
        /\ verdict' = IF runs THEN [verdict EXCEPT ![t][m] = "running"] ELSE verdict
        /\ UNCHANGED <<timeVars, taskVars, scan, edits, history, cuts>>

\* Execution and task are loaded; without a task the run ends at once.
Load(t, m) ==
    /\ Step(t, m, "queued", IF t \in exists THEN "loaded" ELSE "over")
    /\ verdict' = IF t \in exists THEN [verdict EXCEPT ![t][m] = "running"] ELSE verdict
    /\ UNCHANGED <<timeVars, taskVars, scan, edits, history, cuts>>

WriteTask(t, s) == IF t \in exists THEN [status EXCEPT ![t] = s] ELSE status

MarkRunning(t, m) ==
    /\ Step(t, m, "loaded", "probing")
    /\ status' = WriteTask(t, "running")
    /\ UNCHANGED <<timeVars, exists, enabled, cron, next, scan, verdict, edits, history, cuts>>

\* Mutant: the summary needs the task.
SummariseExisting(t, m) ==
    /\ t \in exists
    /\ Step(t, m, "probing", "summed")
    /\ \E v \in Final : verdict' = [verdict EXCEPT ![t][m] = v]
    /\ UNCHANGED <<timeVars, taskVars, scan, edits, history, cuts>>

\* The regions have been probed; refreshExecutionStatus writes the execution.
Summarise(t, m) ==
    /\ Step(t, m, "probing", "summed")
    /\ \E v \in Final : verdict' = [verdict EXCEPT ![t][m] = v]
    /\ UNCHANGED <<timeVars, taskVars, scan, edits, history, cuts>>

\* Mutant: a task that has been disabled keeps its status.
FinishUnlessDisabled(t, m) ==
    /\ Step(t, m, "summed", "over")
    /\ status' = IF enabled[t] THEN WriteTask(t, verdict[t][m]) ELSE status
    /\ UNCHANGED <<timeVars, exists, enabled, cron, next, scan, verdict, edits, history, cuts>>

\* Then the task, whatever its status is by now.
FinishRun(t, m) ==
    /\ Step(t, m, "summed", "over")
    /\ status' = WriteTask(t, verdict[t][m])
    /\ UNCHANGED <<timeVars, exists, enabled, cron, next, scan, verdict, edits, history, cuts>>

Run(t, m) == Load(t, m) \/ MarkRunning(t, m) \/ Summarise(t, m) \/ FinishRun(t, m)

-----------------------------------------------------------------------------
(* Requests.                                                               *)

\* The expression has been validated; one without occurrence leaves NULL.
CreateTask(t) ==
    /\ t \notin exists /\ \A m \in Times : run[t][m] = "none"
    /\ exists' = exists \cup {t}
    /\ enabled' = [enabled EXCEPT ![t] = TRUE]
    /\ next' = [next EXCEPT ![t] = NextOf[cron[t]][now]]
    /\ UNCHANGED <<timeVars, cron, status, scan, runVars, edits, history, cuts>>

Change == edits < MaxEdits /\ edits' = edits + 1

\* updateTask with another expression: neither checked nor is next_run_at
\* computed anew.
EditCron(t, c) ==
    /\ t \in exists /\ c # cron[t]
    /\ Change
    /\ cron' = [cron EXCEPT ![t] = c]
    /\ usable' = IF Barren(c) THEN usable \ {t} ELSE usable
    /\ UNCHANGED <<timeVars, exists, enabled, next, status, scan, runVars, slot, quiet,
                   stray, cuts>>

UnderWay(t) ==
    \/ \E m \in Times : run[t][m] \in Busy \cup {"built"}
    \/ t \in scan.left

Disable(t) ==
    /\ t \in exists /\ enabled[t]
    /\ Change
    /\ enabled' = [enabled EXCEPT ![t] = FALSE]
    /\ status' = [status EXCEPT ![t] = "disabled"]
    /\ quiet' = IF UnderWay(t) THEN quiet ELSE quiet \cup {t}
    /\ stray' = [stray EXCEPT ![t] = 0]
    /\ UNCHANGED <<timeVars, exists, cron, next, scan, runVars, slot, usable, cuts>>

\* Mutant: a status the table does not know.
EnableAsEnabled(t) ==
    /\ t \in exists /\ ~ enabled[t]
    /\ Change
    /\ enabled' = [enabled EXCEPT ![t] = TRUE]
    /\ status' = [status EXCEPT ![t] = "enabled"]
    /\ quiet' = quiet \ {t}
    /\ UNCHANGED <<timeVars, exists, cron, next, scan, runVars, slot, usable, stray, cuts>>

Enable(t) ==
    /\ t \in exists /\ ~ enabled[t]
    /\ Change
    /\ enabled' = [enabled EXCEPT ![t] = TRUE]
    /\ status' = [status EXCEPT ![t] = "pending"]
    /\ quiet' = quiet \ {t}
    /\ UNCHANGED <<timeVars, exists, cron, next, scan, runVars, slot, usable, stray, cuts>>

DeleteTask(t) ==
    /\ t \in exists
    /\ Change
    /\ exists' = exists \ {t}
    /\ quiet' = quiet \ {t}
    /\ UNCHANGED <<timeVars, enabled, cron, next, status, scan, runVars, slot, usable,
                   stray, cuts>>

-----------------------------------------------------------------------------
(* The server ends and starts anew.                                        *)

End(lost) ==
    /\ cuts < MaxCuts /\ cuts' = cuts + 1
    /\ scan' = NoScan
    /\ ticked' = FALSE
    /\ run' = [t \in Tasks |-> [m \in Times |->
                  IF run[t][m] \in lost THEN "dead" ELSE run[t][m]]]
    /\ UNCHANGED <<now, taskVars, verdict, edits, history>>

\* SIGTERM cancels the context of the loop: statements of a scan in progress
\* fail, the one that advances next_run_at included.  Close waits for the runs.
Terminate == End({"built"})

Crash == End(Busy \cup {"built"})

Request(t) ==
    \/ CreateTask(t) \/ Disable(t) \/ Enable(t) \/ DeleteTask(t)
    \/ \E c \in Crons : EditCron(t, c)

Next ==
    \/ Tick \/ Scan \/ Terminate \/ Crash
    \/ \E t \in Tasks : Request(t)
    \/ \E t \in Tasks, m \in Times : Run(t, m)

Spec == Init /\ [][Next]_vars

(* The clock goes on and the ticker fires; statements end; probes have a    *)
(* budget and the pool serves all that wait.                               *)
Fairness ==
    /\ WF_vars(Tick) /\ WF_vars(Scan)
    /\ \A t \in Tasks : WF_vars(\E m \in Times : Run(t, m))

FairSpec == Spec /\ Fairness

-----------------------------------------------------------------------------
(* Properties.                                                             *)

\* An occurrence is executed once, although next_run_at is advanced only after
\* the execution has been handed over and requests change the task in between;
\* an end of the server in between, or an expression without next occurrence,
\* which an edit may bring in, void this (tasks.go 494-503, router.go 285).
OncePerSlot ==
    \A t \in usable, m, n \in Times :
        m # n /\ slot[t][m] # Never /\ slot[t][m] = slot[t][n] => cuts > 0

\* A task disabled while nothing was under way for it stays disabled: nothing
\* is started and nothing overwrites its status (tasks.go 488, router.go 304).
QuietStaysDisabled ==
    \A t \in quiet : status[t] = "disabled" /\ ~ enabled[t] /\ ~ UnderWay(t)

\* At most one execution is created after a task was disabled: the one of the
\* scan that had read it before, no matter how often it is switched on and off
\* (tasks.go 487-503).
OneStrayExecution == \A t \in Tasks : ~ enabled[t] => stray[t] <= 1

\* What a disabled task may still do (tasks.go 487-503, router.go 304).
DisabledStaysQuiet == QuietStaysDisabled /\ OneStrayExecution

\* A task reads as running only while an execution of it is under way, unless
\* a crash took that away: executions of one task overlap, are disabled,
\* enabled and edited under way (scheduling.go 361-391, tasks.go 299-300).
RunningHasRun ==
    \A t \in exists : status[t] = "running" =>
        cuts > 0 \/ \E m \in Times : run[t][m] \in {"probing", "summed"}

\* The execution of a task that was deleted stays pending, or ends; one that
\* was handed over, and not taken by a crash, has a verdict unless its task
\* was deleted (tasks.go 285-300).
HandedOverEnds ==
    \A t \in exists, m \in Times : run[t][m] = "over" => verdict[t][m] \in Final

\* What the rows of tasks and executions say of the runs (scheduling.go 361-391,
\* tasks.go 285-300).
StatusIsTrue == TypeOK /\ RunningHasRun /\ HandedOverEnds

\* What is due is executed, whatever is edited or deleted meanwhile and although
\* the loop has one goroutine for all tasks: next_run_at moves past the clock,
\* unless the expression has no next occurrence or the server ends.
DueIsServed ==
    \A t \in Tasks :
        Due(t) ~> (~ Due(t) \/ t \notin usable \/ cuts > 0)

\* Executions that were handed over come to an end.
RunsEnd == <>[](\A t \in Tasks, m \in Times : run[t][m] \notin Busy)

\* The schedule is kept: what is due is started and what is started ends
\* (tasks.go 479-507, 285-300).
ScheduleIsServed == DueIsServed /\ RunsEnd
=============================================================================
