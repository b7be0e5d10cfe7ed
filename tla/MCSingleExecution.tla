------------------------- MODULE MCSingleExecution -------------------------
(* Instances of SingleExecution for TLC.                                   *)
EXTENDS SingleExecution, TLC

CONSTANTS first, second, server, worker

OneRunner == {first}
TwoRunners == {first, second}
NoBridge == {}
OneBridge == {server}
TwoBridges == {server, worker}
BridgeSymmetry == Permutations(Bridges)
=============================================================================
