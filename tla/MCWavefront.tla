---------------------------- MODULE MCWavefront ----------------------------
(* WavefrontScheduler on three units and two workers: every dependency graph *)
(* over the units, cycles and self-loops included; two units may panic, as   *)
(* many as there are workers.                                                *)
EXTENDS WavefrontScheduler
CONSTANTS w1, w2, u1, u2, u3, none
MCWorkers == {w1, w2}
MCUnits == {u1, u2, u3}
MCPanic == {u1, u2}
MCGraphs == [MCUnits -> SUBSET MCUnits]
=============================================================================
