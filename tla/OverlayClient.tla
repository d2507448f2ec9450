---------------------------- MODULE OverlayClient ----------------------------
(***************************************************************************)
(* The overlay engine under any client that uses it the way router.rs and  *)
(* main.rs do: it awaits each operation before it begins the next one, on  *)
(* whichever environment, and runs builds only in a mounted one, between   *)
(* two operations.  After an Err it may try again.                         *)
(***************************************************************************)
EXTENDS CowOverlay

CONSTANT Patches    \* the <<path, content>> a client writes to upper_dir

ASSUME PatchesAssumption == Patches \subseteq Paths \X Contents

VARIABLE mounted    \* the environments whose last mount succeeded

vars == <<cowVars, mounted>>

Init == CowInit /\ mounted = {}

(* No operation is in progress. *)
Quiet == \A e \in Envs : op[e] \in {"new", "idle"}

Mount(e) == Quiet /\ StartMount(e) /\ mounted' = mounted \ {e}

Sync(e) == Quiet /\ e \in mounted /\ StartSync(e) /\ UNCHANGED mounted

Commit(e) == Quiet /\ e \in mounted /\ StartCommit(e) /\ UNCHANGED mounted

Teardown(e) == Quiet /\ StartTeardown(e) /\ mounted' = mounted \ {e}

Create(e) == Quiet /\ Initialize(e) /\ UNCHANGED mounted

(* A patch is written to upper_dir, as apply_patch does. *)
WritePatch(e) ==
    /\ Quiet
    /\ op[e] = "idle"
    /\ \E x \in Patches : upper' = [upper EXCEPT ![e][x[1]] = x[2]]
    /\ UNCHANGED <<lower, merged, op, todo, at, result, mounted>>

(* A build in a mounted environment. *)
Build(e) == Quiet /\ e \in mounted /\ BuildWrite(e) /\ UNCHANGED mounted

Engine(e) ==
    /\ EngineStep(e)
    /\ mounted' = IF op[e] = "overlay" /\ result'[e] = "ok"
                  THEN mounted \union {e} ELSE mounted

Next ==
    \E e \in Envs :
        \/ Create(e)
        \/ Mount(e)
        \/ Sync(e)
        \/ Commit(e)
        \/ Teardown(e)
        \/ WritePatch(e)
        \/ Build(e)
        \/ Engine(e)

Spec == Init /\ [][Next]_vars

-----------------------------------------------------------------------------
(* The values the variables take. *)
TypeOK == CowTypeOK /\ mounted \subseteq Envs

(* When mount or synchronize_upper returns Ok, a reader of merged_dir finds *)
(* every file of upper_dir, and after a mount the host's files elsewhere.   *)
MergedShowsLayers ==
    [][\A e \in Envs :
         op[e] \in {"overlay", "sync"} /\ result'[e] = "ok" =>
            \A p \in Paths :
               /\ upper[e][p] # Absent => Seen(e, p) = upper[e][p]
               /\ op[e] = "overlay" /\ upper[e][p] = Absent => Seen(e, p) = lower[p]]_vars

(* The host's file changes only while a patch of it is being committed or   *)
(* when a build writes into a linked file: no other operation, successful   *)
(* or not, reaches lower_dir through the links of merged_dir.               *)
EngineKeepsLower ==
    [][\A p \in Paths : lower'[p] # lower[p] =>
         \E e \in Envs :
            \/ op[e] \in {"commit", "writing"} /\ upper[e][p] # Absent
            \/ Quiet /\ e \in mounted /\ merged[e][p] = Linked]_vars

(* A patch leaves upper_dir only when the host has it: a commit that fails, *)
(* wherever it fails, can be repeated.                                      *)
NoPatchLost ==
    [][\A e \in Envs, p \in Paths :
         upper[e][p] # Absent /\ upper'[e][p] = Absent => lower[p] = upper[e][p]]_vars

(* A torn file of the host can be completed: some upper_dir still holds the *)
(* content it was to get.                                                   *)
TornFileRecoverable ==
    \A p \in Paths : lower[p] = Torn => \E e \in Envs : upper[e][p] # Absent

(* "You get complete build isolation" (README.md:20): a build in a sandbox  *)
(* does not change the host's files.                                        *)
BuildIsolation ==
    [][Quiet => lower' = lower]_vars
=============================================================================
