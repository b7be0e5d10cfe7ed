-------------------------- MODULE ExecutionVerdict --------------------------
(***************************************************************************)
(* What a probe execution promises its user: every region reports one      *)
(* result that never changes, and once all of them are in, the execution   *)
(* states one verdict, computed from those results, that never changes     *)
(* either.  SingleExecution is shown to implement this.                    *)
(***************************************************************************)
EXTENDS Integers, FiniteSets

CONSTANT Regions

VARIABLES
    result,     \* region -> "open", "success" or "failed"
    verdict     \* "open", "success", "partial" or "failed"

absVars == <<result, verdict>>

Conclusion ==
    IF \A r \in Regions : result[r] = "success" THEN "success"
    ELSE IF \E r \in Regions : result[r] = "success" THEN "partial"
    ELSE "failed"

AbsInit == result = [r \in Regions |-> "open"] /\ verdict = "open"

Report(r) ==
    /\ result[r] = "open"
    /\ \E v \in {"success", "failed"} : result' = [result EXCEPT ![r] = v]
    /\ UNCHANGED verdict

Conclude ==
    /\ verdict = "open"
    /\ \A r \in Regions : result[r] # "open"
    /\ verdict' = Conclusion
    /\ UNCHANGED result

AbsNext == Conclude \/ \E r \in Regions : Report(r)

Promise == AbsInit /\ [][AbsNext]_absVars

FairPromise == Promise /\ WF_absVars(AbsNext)
=============================================================================
