-------------------------- MODULE MCSignalSupervisor --------------------------
(* SignalSupervisor with two threads, two supervisors and two signals. *)
EXTENDS SignalSupervisor
CONSTANTS t1, t2, none
MCThreads == {t1, t2}
=============================================================================
