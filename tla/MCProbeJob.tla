----------------------------- MODULE MCProbeJob -----------------------------
(* Instances of ProbeJob for TLC.                                          *)
EXTENDS ProbeJob

CONSTANTS j1, server, worker

OneJob == {j1}
TwoBridges == {server, worker}
=============================================================================
