---------------------------- MODULE BuildPipeline ----------------------------
(***************************************************************************)
(* The command (main.rs): `async_main` discovers the dependency graph,     *)
(* schedules the buildable packages in bands and runs them one after the   *)
(* other; `run_unit` mounts a sandbox, validates, and asks for a repair    *)
(* when the validation fails.  A timeout around run_unit drops it at an    *)
(* await.  The first unit that is neither built nor healed ends the run.   *)
(*                                                                         *)
(* A repair is what RepairContract says (SelfHealingRouter implements it). *)
(* The directory of a unit is that of its manifest, so that a package may  *)
(* lie in the directory of another one, or share it.                       *)
(***************************************************************************)
EXTENDS RepairContract, FiniteSets

CONSTANTS
    DepGraphs,      \* the graphs discovery may find: the Units are their nodes
    NoUnit

ASSUME UnitsAssumption == IsFiniteSet(Units)
ASSUME GraphsAssumption == DepGraphs \subseteq [Units -> SUBSET Units]
ASSUME NoUnitAssumption == NoUnit \notin Units

VARIABLES
    deps,       \* the edges of the graph
    local,      \* the nodes with a language and a name that is no template
    before,     \* the sources when the command was started
    placed,     \* the units of the bands begun so far
    band,       \* those of the current band still to be run
    cur,        \* the unit being run
    passed,     \* whether its first validation succeeded
    built,      \* the units built or healed
    skipped,    \* the units whose path was gone
    step,       \* where async_main and run_unit are
    code        \* the exit code

graphVars == <<deps, local, before>>
loopVars == <<placed, band, cur, passed, built, skipped, step, code>>
vars == <<contractVars, graphVars, loopVars>>

Awaiting == {"mount", "validate", "repair", "teardown"}
Codes == {0, 1, 2, 101}
NoCode == 255

Init ==
    /\ ContractInit
    /\ deps \in DepGraphs
    /\ local \in SUBSET Units
    /\ before = host
    /\ placed = {} /\ band = {}
    /\ cur = NoUnit
    /\ passed = FALSE
    /\ built = {} /\ skipped = {}
    /\ step = "discover"
    /\ code = NoCode

Goes(where) == step' = where /\ UNCHANGED code

(* async_main returns; the runtime is dropped before the process ends. *)
Leaves(with) == step' = "leaving" /\ code' = with

-----------------------------------------------------------------------------
(* The path is no directory, or cannot be read; or the graph is there. *)
Discover ==
    /\ step = "discover"
    /\ Goes("schedule") \/ Leaves(1)
    /\ UNCHANGED <<contractVars, graphVars, placed, band, cur, passed, built, skipped>>

(* topological_order: there is one if no set of nodes is closed in itself. *)
HasOrder == \A S \in (SUBSET Units) \ {{}} : \E u \in S : deps[u] \intersect S = {}

(* units_from_graph, whose default for a graph without an order is no unit, *)
(* and the filter of async_main.                                            *)
Scheduled == IF HasOrder THEN local ELSE {}

(* A frontier for which one dependency that is placed is enough. *)
AnyDependencyPlaced ==
    {u \in Scheduled \ placed :
        deps[u] \intersect Scheduled # {} => deps[u] \intersect placed # {}}

(* build_bands: only dependencies that are units count. *)
Frontier == {u \in Scheduled \ placed : deps[u] \intersect Scheduled \subseteq placed}

(* The loop over the bands; after the last one, and without any, success. *)
NextBand ==
    /\ step = "schedule"
    /\ band = {}
    /\ IF Frontier = {}
       THEN Leaves(0) /\ UNCHANGED <<placed, band>>
       ELSE Goes("schedule") /\ band' = Frontier /\ placed' = placed \union Frontier
    /\ UNCHANGED <<contractVars, graphVars, cur, passed, built, skipped>>

(* A loop that does not go on to the next unit. *)
TakeAgain(u) ==
    /\ step = "schedule"
    /\ u \in band
    /\ cur' = u /\ Goes("mount")
    /\ UNCHANGED <<contractVars, graphVars, band, placed, passed, built, skipped>>

(* The loop over the units of the band: a missing path is passed over. *)
TakeUnit(u) ==
    /\ step = "schedule"
    /\ u \in band
    /\ band' = band \ {u}
    /\ \/ cur' = u /\ Goes("mount") /\ UNCHANGED skipped
       \/ skipped' = skipped \union {u} /\ Goes("schedule") /\ UNCHANGED cur
    /\ UNCHANGED <<contractVars, graphVars, placed, passed, built>>

-----------------------------------------------------------------------------
(* run_unit: initialize and mount, or their error. *)
MountReturned ==
    /\ step = "mount"
    /\ Goes("validate") \/ Leaves(2)
    /\ UNCHANGED <<contractVars, graphVars, placed, band, cur, passed, built, skipped>>

(* The validation succeeds, on sources that build... *)
ValidationPassed ==
    /\ step = "validate"
    /\ BuildsOn(host, cur)
    /\ passed' = TRUE
    /\ Goes("teardown")
    /\ UNCHANGED <<contractVars, graphVars, placed, band, cur, built, skipped>>

(* ... or fails, for whatever reason, and a repair is asked for... *)
ValidationFailed ==
    /\ step = "validate"
    /\ Call(cur)
    /\ Goes("repair")
    /\ UNCHANGED <<graphVars, placed, band, cur, passed, built, skipped>>

(* ... unless its thread has panicked, or the log line of the failure does: *)
(* truncate cuts the output at a byte that may lie within a character.      *)
ValidationBroke ==
    /\ step = "validate"
    /\ Leaves(2) \/ Leaves(101)
    /\ UNCHANGED <<contractVars, graphVars, placed, band, cur, passed, built, skipped>>

RepairProceeds ==
    /\ step = "repair"
    /\ Proceed(cur)
    /\ UNCHANGED <<graphVars, loopVars>>

RepairReturned ==
    /\ step = "repair"
    /\ verdict[cur] \in Refusals \union {"healed"}
    /\ Goes("teardown")
    /\ UNCHANGED <<contractVars, graphVars, placed, band, cur, passed, built, skipped>>

Succeeded == passed \/ verdict[cur] = "healed"

(* A run that counts every unit that was tried as built. *)
TeardownIsSuccess ==
    /\ step = "teardown"
    /\ built' = built \union {cur}
    /\ cur' = NoUnit
    /\ passed' = FALSE
    /\ Goes("schedule")
    /\ UNCHANGED <<contractVars, graphVars, placed, band, skipped>>

(* A run that goes on after a unit that could not be healed. *)
TeardownGoesOn ==
    /\ step = "teardown"
    /\ built' = IF Succeeded THEN built \union {cur} ELSE built
    /\ cur' = NoUnit
    /\ passed' = FALSE
    /\ Goes("schedule")
    /\ UNCHANGED <<contractVars, graphVars, placed, band, skipped>>

(* run_unit tears the sandbox down, whatever comes of it, and returns. *)
TeardownReturned ==
    /\ step = "teardown"
    /\ \/ /\ Succeeded
          /\ built' = built \union {cur}
          /\ cur' = NoUnit
          /\ passed' = FALSE
          /\ Goes("schedule")
       \/ ~Succeeded /\ Leaves(2) /\ UNCHANGED <<built, cur, passed>>
    /\ UNCHANGED <<contractVars, graphVars, placed, band, skipped>>

(* The timeout: whatever run_unit was waiting for is left to itself. *)
TimeoutFires ==
    /\ step \in Awaiting
    /\ IF verdict[cur] = "open" THEN Abandon(cur) ELSE UNCHANGED contractVars
    /\ Leaves(2)
    /\ UNCHANGED <<graphVars, placed, band, cur, passed, built, skipped>>

(* The thread that was left goes on while the runtime is being dropped... *)
Straggles ==
    /\ step = "leaving"
    /\ cur # NoUnit
    /\ verdict[cur] = "abandoned"
    /\ Tear(cur) \/ Apply(cur)
    /\ UNCHANGED <<graphVars, loopVars>>

StragglerEnds ==
    /\ step = "leaving"
    /\ cur # NoUnit
    /\ Settle(cur)
    /\ UNCHANGED <<graphVars, loopVars>>

(* ... which waits for it. *)
Exit ==
    /\ step = "leaving"
    /\ \A u \in Units : verdict[u] # "abandoned"
    /\ Goes("exited")
    /\ UNCHANGED <<contractVars, graphVars, placed, band, cur, passed, built, skipped>>

Exited == step = "exited" /\ UNCHANGED vars

Main ==
    \/ Discover
    \/ NextBand
    \/ \E u \in Units : TakeUnit(u)
    \/ MountReturned
    \/ ValidationPassed \/ ValidationFailed \/ ValidationBroke
    \/ RepairReturned
    \/ TeardownReturned
    \/ Exit

Next == Main \/ RepairProceeds \/ TimeoutFires \/ Straggles \/ StragglerEnds \/ Exited

(* The task is polled, the timer fires when nothing else ends the wait, and *)
(* a blocking thread comes to an end.                                       *)
Fairness == WF_vars(Main) /\ WF_vars(TimeoutFires) /\ WF_vars(StragglerEnds)

Spec == Init /\ [][Next]_vars /\ Fairness

-----------------------------------------------------------------------------
(* The values the variables take. *)
TypeOK ==
    /\ host \in [Sources -> Contents \union {Absent, Torn}]
    /\ offer \in [Units -> {<<>>} \union UNION {Offers[u] : u \in Units}]
    /\ accepted \in [Units -> 0 .. MaxRetries]
    /\ verdict \in [Units -> Verdict]
    /\ placed \subseteq Scheduled
    /\ band \subseteq placed
    /\ cur \in (placed \ band) \union {NoUnit}
    /\ passed \in BOOLEAN
    /\ built \subseteq placed \ band
    /\ skipped \subseteq placed \ (band \union built)
    /\ step \in Awaiting \union {"discover", "schedule", "leaving", "exited"}
    /\ code \in Codes \union {NoCode}
    /\ step \in Awaiting => cur \in Units
    /\ code = NoCode <=> step \notin {"leaving", "exited"}

(* The repair of u has accepted a candidate for the file. *)
Wrote(u, file) == u \in Units /\ accepted[u] # 0 /\ Accepted(u)[1] = file

(* A unit is counted as built when its sources build.  From then on they do *)
(* until a later unit, which has a file of that directory in its own, too,  *)
(* and is not built yet, has this file replaced by its repair.              *)
BuiltUnitsBuild ==
    [][\A u \in Units :
          /\ u \in built' \ built => BuildsOn(host, u)'
          /\ u \in built /\ BuildsOn(host, u) /\ ~BuildsOn(host, u)' =>
                /\ cur \notin built
                /\ \E file \in Dir[u] \intersect Dir[cur] : Wrote(cur, file)]_vars

(* A unit is run only when each of its dependencies that is a unit too was  *)
(* built, or had no directory.                                              *)
DependenciesFirst ==
    step \in Awaiting =>
        \A d \in deps[cur] \intersect local : d \in built \union skipped

Writers(file) == {u \in built : Wrote(u, file)}

(* What the repairs of the built units may have left of a file... *)
LeftOf(file) ==
    IF Writers(file) = {} THEN {before[file]} ELSE {Accepted(u)[2] : u \in Writers(file)}

(* ... and that of the unit being run, or at which the run stopped. *)
InWork(file) == IF Wrote(cur, file) THEN {Torn, Accepted(cur)[2]} ELSE {}

(* Every repair but the last was a success, and the host shows no other: a  *)
(* file is what it was, or what a built unit was repaired with; only the    *)
(* one file that was accepted for the unit the run stopped at may be torn   *)
(* or hold what did not help, in every directory that has this file.        *)
HostAccountsForRepairs ==
    /\ \A u \in Units \ {cur} : verdict[u] = "idle" \/ (verdict[u] = "healed" /\ u \in built)
    /\ \A file \in Sources : host[file] \in LeftOf(file) \union InWork(file)

(* 0: every scheduled unit was built or had no directory.  1: nothing was   *)
(* touched.  2 and 101: the run stopped at a unit, all others begun before  *)
(* it were built or had no directory.                                       *)
ExitCodeAccounts ==
    step = "exited" =>
        /\ code = 0 => Scheduled = built \union skipped
        /\ code = 1 => placed = {} /\ host = before
        /\ code \in {2, 101} => cur \in Units \ (built \union skipped)
        /\ code # 1 => placed \ band = built \union skipped \union ({cur} \ {NoUnit})

(* The process ends, whatever the graph and the failures. *)
Exits == <>(step = "exited")

(* "0 - Build succeeded (or was successfully repaired)" (README.md:174): *)
(* with the exit code 0 every package that has a language, a name and a  *)
(* directory was built.                                                  *)
ZeroMeansBuilt == step = "exited" /\ code = 0 => local \ skipped \subseteq built
=============================================================================
