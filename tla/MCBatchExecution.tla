-------------------------- MODULE MCBatchExecution --------------------------
(* Instances of BatchExecution for TLC.                                    *)
EXTENDS BatchExecution, TLC

CONSTANTS e1, e2

OneExec == {e1}
TwoExecs == {e1, e2}
ExecSymmetry == Permutations(Execs)
=============================================================================
