------------------------ MODULE OverlayClient_proofs ------------------------
(* Proofs about the engine under its client, for any environments, files,   *)
(* patches and builds.  One operation is in progress at a time: what it has *)
(* done so far is in CowOverlay_proofs, the others are at rest.             *)
EXTENDS OverlayClient, CowOverlay_proofs

OneBusy == \A e, f \in Envs : Busy(e) /\ Busy(f) => e = f

(* Only patches are in upper_dir, never a torn file. *)
UpperHoldsPatches == upper \in [Envs -> [Paths -> Contents \union {Absent}]]

Inv ==
    /\ TypeOK
    /\ OneBusy
    /\ \A e \in Envs : Progress(e)
    /\ UpperHoldsPatches
    /\ TornFileRecoverable

(* The three kinds of steps: an operation begins, it goes on, or a file is  *)
(* written from outside.                                                    *)
Begins(e) ==
    /\ Quiet
    /\ \/ Initialize(e)
       \/ \E s \in {"clear", "sync", "commit", "unmount"} : Starts(e, s)

GoesOn(e) == EngineStep(e)

Writes(e) ==
    /\ Quiet
    /\ WritePatch(e) \/ (BuildWrite(e) /\ e \in mounted)

(* A step begins an operation, goes on with one, or writes files. *)
LEMMA StepKinds ==
    ASSUME Next PROVE \E e \in Envs : Begins(e) \/ GoesOn(e) \/ Writes(e)
  BY DEF Next, Create, Mount, Sync, Commit, Teardown, Build, Engine, WritePatch,
         StartMount, StartSync, StartCommit, StartTeardown, Begins, GoesOn, Writes

(* The client awaits each operation. *)
LEMMA QuietMeans == Quiet <=> \A e \in Envs : ~Busy(e)
  BY DEF Quiet, Busy

-----------------------------------------------------------------------------
(* The invariant holds before anything was created. *)
LEMMA InitInv == Init => Inv
<1> SUFFICES ASSUME Init PROVE Inv OBVIOUS
<1>1. CowTypeOK /\ \A e \in Envs : Progress(e) /\ ~Busy(e)
  BY CowInitFacts DEF Init
<1>2. UpperHoldsPatches BY DEF Init, CowInit, UpperHoldsPatches
<1>3. TornFileRecoverable
  BY LowerAssumption, ContentsAssumption DEF Init, CowInit, TornFileRecoverable
<1> QED BY <1>1, <1>2, <1>3 DEF Inv, TypeOK, OneBusy, Init

(* While one environment moves the others are at rest and stay there. *)
LEMMA OthersRest ==
    ASSUME Inv, NEW e \in Envs, Begins(e) \/ GoesOn(e) \/ Writes(e)
    PROVE  /\ \A f \in Envs \ {e} : Still(f) /\ ~Busy(f) /\ ~Busy(f)'
           /\ GoesOn(e) => Busy(e)
<1>1. CowTypeOK /\ Progress(e) BY DEF Inv, TypeOK
<1>2. CASE Begins(e)
  <2>1. \A f \in Envs \ {e} : Still(f) BY <1>1, <1>2, Frames DEF Begins
  <2>2. \A f \in Envs : ~Busy(f) BY <1>2, QuietMeans DEF Begins
  <2>3. GoesOn(e) => Busy(e) BY <1>1, EngineStepFacts DEF GoesOn
  <2> QED BY <2>1, <2>2, <2>3 DEF Still, Busy
<1>3. CASE GoesOn(e)
  <2>1. \A f \in Envs \ {e} : Still(f) BY <1>1, <1>3, Frames DEF GoesOn
  <2>2. Busy(e) BY <1>1, <1>3, EngineStepFacts DEF GoesOn
  <2>3. \A f \in Envs \ {e} : ~Busy(f) BY <2>2 DEF Inv, OneBusy
  <2> QED BY <2>1, <2>2, <2>3 DEF Still, Busy
<1>4. CASE Writes(e)
  <2>1. \A f \in Envs \ {e} : Still(f)
    <3>1. CASE BuildWrite(e) BY <1>1, <3>1, Frames
    <3>2. CASE WritePatch(e) BY <1>1, <3>2 DEF WritePatch, Still, CowTypeOK
    <3> QED BY <1>4, <3>1, <3>2 DEF Writes
  <2>2. \A f \in Envs : ~Busy(f) BY <1>4, QuietMeans DEF Writes
  <2>3. ~GoesOn(e) BY <1>1, <2>2, EngineStepFacts DEF GoesOn
  <2> QED BY <2>1, <2>2, <2>3 DEF Still, Busy
<1> QED BY <1>2, <1>3, <1>4

(* Writing a patch. *)
LEMMA WritePatchFacts ==
    ASSUME Inv, NEW e \in Envs, WritePatch(e)
    PROVE  /\ CowTypeOK' /\ UpperHoldsPatches' /\ UNCHANGED <<lower, merged, op, todo, at, result>>
           /\ op[e] = "idle"
           /\ \A p \in Paths : upper'[e][p] # upper[e][p] => upper'[e][p] # Absent
<1>1. PICK x \in Patches : upper' = [upper EXCEPT ![e][x[1]] = x[2]]
  BY DEF WritePatch
<1>2. x[1] \in Paths /\ x[2] \in Contents /\ x[2] # Absent
  BY PatchesAssumption, ContentsAssumption
<1>3. UNCHANGED <<lower, merged, op, todo, at, result>> /\ op[e] = "idle" BY DEF WritePatch
<1>4. UpperHoldsPatches' BY <1>1, <1>2 DEF Inv, UpperHoldsPatches
<1>5. upper' \in [Envs -> [Paths -> File]]
  <2>1. upper \in [Envs -> [Paths -> File]] BY DEF Inv, TypeOK, CowTypeOK
  <2>2. [upper[e] EXCEPT ![x[1]] = x[2]] \in [Paths -> File] BY <1>2, <2>1 DEF File
  <2> QED BY <1>1, <2>1, <2>2
<1>6. CowTypeOK' BY <1>3, <1>5 DEF Inv, TypeOK, CowTypeOK
<1>7. \A p \in Paths : upper'[e][p] # upper[e][p] => upper'[e][p] # Absent
  BY <1>1, <1>2 DEF Inv, UpperHoldsPatches
<1> QED BY <1>3, <1>4, <1>6, <1>7

(* What happens to the files, step by step. *)
LEMMA FilesStep ==
    ASSUME Inv, NEW e \in Envs, Begins(e) \/ GoesOn(e) \/ Writes(e)
    PROVE  /\ CowTypeOK' /\ Progress(e)'
           /\ \A p \in Paths : lower'[p] # lower[p] =>
                \/ /\ op[e] \in {"commit", "writing"} /\ upper[e][p] # Absent
                   /\ lower'[p] \in {Torn, upper[e][p]}
                \/ /\ Quiet /\ e \in mounted /\ merged[e][p] = Linked
                   /\ lower'[p] \in Contents
           /\ \A p \in Paths : upper'[e][p] # upper[e][p] =>
                \/ upper'[e][p] = Absent /\ lower[p] = upper[e][p] /\ UNCHANGED lower
                \/ upper'[e][p] # Absent
           /\ UpperHoldsPatches'
<1>1. CowTypeOK /\ Progress(e) /\ UpperHoldsPatches BY DEF Inv, TypeOK
<1>2. CASE Begins(e)
  <2>1. CowTypeOK' /\ Progress(e)' /\ UNCHANGED files
    BY <1>1, <1>2, StartFacts, InitializeFacts DEF Begins
  <2> QED BY <1>1, <2>1 DEF files, UpperHoldsPatches
<1>3. CASE GoesOn(e)
  <2>1. \A f \in Envs \ {e} : upper'[f] = upper[f] BY <1>3, OthersRest DEF Still
  <2>2. /\ CowTypeOK' /\ Progress(e)'
        /\ \A p \in Paths : lower'[p] # lower[p] =>
              /\ op[e] \in {"commit", "writing"} /\ upper[e][p] # Absent
              /\ lower'[p] \in {Torn, upper[e][p]}
        /\ \A p \in Paths : upper'[e][p] # upper[e][p] =>
              upper'[e][p] = Absent /\ lower[p] = upper[e][p] /\ UNCHANGED lower
    BY <1>1, <1>3, EngineStepFacts DEF GoesOn
  <2>3. \A f \in Envs, p \in Paths : upper'[f][p] \in Contents \union {Absent}
    BY <1>1, <2>1, <2>2 DEF UpperHoldsPatches
  <2>4. upper' \in [Envs -> [Paths -> File]] BY <2>2 DEF CowTypeOK
  <2>5. \A f \in Envs : upper'[f] \in [Paths -> Contents \union {Absent}]
    BY <2>3, <2>4
  <2>6. UpperHoldsPatches' BY <2>4, <2>5 DEF UpperHoldsPatches
  <2> QED BY <2>2, <2>6
<1>4. CASE Writes(e)
  <2>1. ~Busy(e) BY <1>4, QuietMeans DEF Writes
  <2>2. CASE WritePatch(e)
    <3>1. ~Busy(e)' BY <2>1, <2>2, WritePatchFacts DEF Busy
    <3>2. Progress(e)' BY <3>1 DEF Busy, Progress
    <3> QED BY <2>2, <3>2, WritePatchFacts
  <2>3. CASE BuildWrite(e) /\ e \in mounted
    <3>1. /\ CowTypeOK' /\ UNCHANGED <<upper, op>>
          /\ \A p \in Paths : lower'[p] # lower[p] =>
                merged[e][p] = Linked /\ lower'[p] \in Contents
      BY <1>1, <2>3, BuildFacts
    <3>2. Progress(e)' BY <2>1, <3>1 DEF Busy, Progress
    <3>3. UpperHoldsPatches' BY <1>1, <3>1 DEF UpperHoldsPatches
    <3> QED BY <1>4, <2>3, <3>1, <3>2, <3>3 DEF Writes
  <2> QED BY <1>4, <2>2, <2>3 DEF Writes
<1> QED BY <1>2, <1>3, <1>4

(* The host's torn file: the patch that tore it leaves upper_dir only when *)
(* it is no longer torn.                                                   *)
LEMMA TornKept ==
    ASSUME Inv, NEW e \in Envs, Begins(e) \/ GoesOn(e) \/ Writes(e)
    PROVE  TornFileRecoverable'
<1> SUFFICES ASSUME NEW p \in Paths, lower'[p] = Torn
             PROVE  \E f \in Envs : upper'[f][p] # Absent
  BY DEF TornFileRecoverable
<1>1. Torn \notin Contents /\ Torn # Absent BY ContentsAssumption
<1>2. CASE lower[p] = Torn
  <2>1. PICK f \in Envs : upper[f][p] # Absent BY <1>2 DEF Inv, TornFileRecoverable
  <2>2. CASE f # e
    BY <2>1, <2>2, OthersRest DEF Still
  <2>3. CASE f = e
    <3>1. upper[e][p] \in Contents BY <2>1, <2>3 DEF Inv, UpperHoldsPatches
    <3>2. lower[p] # upper[e][p] BY <1>1, <1>2, <3>1
    <3> QED BY <2>1, <2>3, <3>2, FilesStep
  <2> QED BY <2>2, <2>3
<1>3. CASE lower[p] # Torn
  <2>1. upper[e][p] # Absent /\ lower' # lower
    BY <1>1, <1>3, FilesStep
  <2>2. upper'[e][p] # Absent
    BY <2>1, FilesStep
  <2> QED BY <2>2
<1> QED BY <1>2, <1>3

(* Every step keeps the invariant. *)
LEMMA NextInv == Inv /\ [Next]_vars => Inv'
<1> SUFFICES ASSUME Inv, [Next]_vars PROVE Inv' OBVIOUS
<1>1. CASE UNCHANGED vars
  BY <1>1 DEF vars, cowVars, files, Inv, TypeOK, CowTypeOK, OneBusy, Busy, Progress, Seen,
              UpperHoldsPatches, TornFileRecoverable
<1>2. CASE Next
  <2>1. PICK e \in Envs : Begins(e) \/ GoesOn(e) \/ Writes(e) BY <1>2, StepKinds
  <2>2. CowTypeOK' /\ Progress(e)' /\ UpperHoldsPatches' BY <2>1, FilesStep
  <2>3. \A f \in Envs \ {e} : ~Busy(f)' BY <2>1, OthersRest
  <2>4. OneBusy' BY <2>3 DEF OneBusy
  <2>5. \A f \in Envs : Progress(f)' BY <2>2, <2>3 DEF Busy, Progress
  <2>6. mounted' \subseteq Envs
    BY <1>2 DEF Inv, TypeOK, Next, Create, Mount, Sync, Commit, Teardown, Build, Engine,
                WritePatch
  <2>7. TornFileRecoverable' BY <2>1, TornKept
  <2> QED BY <2>2, <2>4, <2>5, <2>6, <2>7 DEF Inv, TypeOK
<1> QED BY <1>1, <1>2

(* The inductive invariant holds in every reachable state. *)
THEOREM InvHolds == Spec => []Inv
  BY InitInv, NextInv, PTL DEF Spec

-----------------------------------------------------------------------------
(* The variables keep their types, and only a commit in the middle of a     *)
(* file has a path.                                                         *)
THEOREM OverlayTypeCorrect == Spec => []TypeOK
  BY InvHolds, PTL DEF Inv

(* A file of the host that a failed commit tore can always be completed. *)
THEOREM TornFilesRecoverable == Spec => []TornFileRecoverable
  BY InvHolds, PTL DEF Inv

(* Nothing but a commit of a patch for that very file, or a build that      *)
(* writes into a link, changes a file of the host.                          *)
THEOREM HostChangedByCommitOnly == Spec => EngineKeepsLower
<1>1. Inv /\ [Next]_vars =>
        [\A p \in Paths : lower'[p] # lower[p] =>
           \E e \in Envs :
              \/ op[e] \in {"commit", "writing"} /\ upper[e][p] # Absent
              \/ Quiet /\ e \in mounted /\ merged[e][p] = Linked]_vars
  <2> SUFFICES ASSUME Inv, Next, NEW p \in Paths, lower'[p] # lower[p]
               PROVE \E e \in Envs :
                        \/ op[e] \in {"commit", "writing"} /\ upper[e][p] # Absent
                        \/ Quiet /\ e \in mounted /\ merged[e][p] = Linked
    OBVIOUS
  <2> QED BY StepKinds, FilesStep
<1> QED BY <1>1, InvHolds, PTL DEF Spec, EngineKeepsLower

(* A patch leaves upper_dir only when the host has it, so that a commit that *)
(* failed anywhere can be repeated.                                          *)
THEOREM PatchesNotLost == Spec => NoPatchLost
<1>1. Inv /\ [Next]_vars =>
        [\A e \in Envs, p \in Paths :
           upper[e][p] # Absent /\ upper'[e][p] = Absent => lower[p] = upper[e][p]]_vars
  <2> SUFFICES ASSUME Inv, Next, NEW e \in Envs, NEW p \in Paths,
                      upper[e][p] # Absent, upper'[e][p] = Absent
               PROVE lower[p] = upper[e][p]
    OBVIOUS
  <2>1. PICK m \in Envs : Begins(m) \/ GoesOn(m) \/ Writes(m) BY StepKinds
  <2>2. m = e BY <2>1, OthersRest DEF Still
  <2> QED BY <2>1, <2>2, FilesStep
<1> QED BY <1>1, InvHolds, PTL DEF Spec, NoPatchLost

(* What a successful mount or synchronisation shows is the layers, one on *)
(* the other, in whatever order the files were handled.                   *)
THEOREM LayersShown == Spec => MergedShowsLayers
<1>1. Inv /\ [Next]_vars =>
        [\A e \in Envs :
           op[e] \in {"overlay", "sync"} /\ result'[e] = "ok" =>
              \A p \in Paths :
                 /\ upper[e][p] # Absent => Seen(e, p) = upper[e][p]
                 /\ op[e] = "overlay" /\ upper[e][p] = Absent => Seen(e, p) = lower[p]]_vars
  <2> SUFFICES ASSUME Inv, Next, NEW e \in Envs,
                      op[e] \in {"overlay", "sync"}, result'[e] = "ok", NEW p \in Paths
               PROVE /\ upper[e][p] # Absent => Seen(e, p) = upper[e][p]
                     /\ op[e] = "overlay" /\ upper[e][p] = Absent => Seen(e, p) = lower[p]
    OBVIOUS
  <2>1. PICK m \in Envs : Begins(m) \/ GoesOn(m) \/ Writes(m) BY StepKinds
  <2>2. Busy(e) /\ result[e] = "none" /\ CowTypeOK BY DEF Busy, Inv, TypeOK, CowTypeOK
  <2>3. m = e BY <2>1, <2>2, OthersRest DEF Still
  <2>4. EngineStep(e)
    BY <2>1, <2>2, <2>3, QuietMeans DEF Begins, GoesOn, Writes
  <2>5. todo[e] = {}
    <3>1. OverlayDone(e) \/ \E q \in Paths : OverlayFile(e, q)
      BY <2>4 DEF EngineStep, ClearMerged, MirrorFile, CommitOpen, MirrorDone, CommitWrite,
                  CopyBack, CommitDone, WipeUpper, Unmount
    <3>2. ASSUME NEW q \in Paths, OverlayFile(e, q) PROVE FALSE
      BY <2>2, <3>2 DEF OverlayFile, Handled, Ends, SetOp, CowTypeOK
    <3> QED BY <3>1, <3>2 DEF OverlayDone
  <2> QED BY <2>5 DEF Inv, Progress
<1> QED BY <1>1, InvHolds, PTL DEF Spec, MergedShowsLayers
=============================================================================
