----------------------- MODULE DependencyOrderedRun -----------------------
(* What `WavefrontScheduler::run_units` promises its caller, without bands, *)
(* threads or channels: a unit is begun only when all its dependencies have *)
(* ended, it is run at most once, a result is returned for exactly the      *)
(* units that did not panic, and the call returns only when every unit that *)
(* can be begun has ended.                                                  *)
CONSTANTS
    Units,       \* the units of the call
    DepGraphs    \* the sets of dependencies of each unit it may be called with

VARIABLES
    deps,     \* the dependencies of each unit
    unit,     \* "waiting", "active", "succeeded" or "panicked"
    answer    \* whether the call has returned, and the units with a result

aVars == <<deps, unit, answer>>

AInit ==
    /\ deps \in DepGraphs
    /\ unit = [u \in Units |-> "waiting"]
    /\ answer = [returned |-> FALSE, results |-> {}]

AEnded(u) == unit[u] \in {"succeeded", "panicked"}

Begin(u) ==
    /\ unit[u] = "waiting"
    /\ \A d \in deps[u] : AEnded(d)
    /\ unit' = [unit EXCEPT ![u] = "active"]
    /\ UNCHANGED <<deps, answer>>

End(u) ==
    /\ unit[u] = "active"
    /\ \E outcome \in {"succeeded", "panicked"} :
          unit' = [unit EXCEPT ![u] = outcome]
    /\ UNCHANGED <<deps, answer>>

Return ==
    /\ ~answer.returned
    /\ \A u \in Units :
          \/ AEnded(u)
          \/ unit[u] = "waiting" /\ \E d \in deps[u] : unit[d] = "waiting"
    /\ answer' = [returned |-> TRUE,
                  results |-> {u \in Units : unit[u] = "succeeded"}]
    /\ UNCHANGED <<deps, unit>>

ANext == Return \/ \E u \in Units : Begin(u) \/ End(u)

ASpec == AInit /\ [][ANext]_aVars
=============================================================================
