------------------------------- MODULE MCScan -------------------------------
(* An instance of Scan for TLC.                                            *)
EXTENDS Scan

CONSTANTS full, capped, none

TwoJobs == {full, capped}
\* Both select all hosts; one is limited to the first, by id, of them.
AllHosts == [j \in TwoJobs |-> 1..2]
OneIsCapped == [j \in TwoJobs |-> IF j = capped THEN 1 ELSE 0]
OneAtATime == [j \in TwoJobs |-> 1]
OnlyCapped == {capped}
\* The full scan may find a risk or none, the capped one always finds it.
ClearOrNot == [j \in TwoJobs |-> IF j = full THEN {{}, {1}} ELSE {{1}}]
=============================================================================
