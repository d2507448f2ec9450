------------------------ MODULE MCWorkStealingPool ------------------------
(* WorkStealingPool on a small instance: every submit order of the tasks, *)
(* two workers, one task that may take its worker down.                   *)
EXTENDS WorkStealingPool
CONSTANTS w1, w2, t1, t2, t3, none
MCWorkers == {w1, w2}
MCTasks == {t1, t2, t3}
MCPanic == {t1}
MCNoPanic == {}
=============================================================================
