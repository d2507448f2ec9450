-------------------------- MODULE CowOverlay_proofs --------------------------
(* What each step of the engine does, for any files and environments: lemmas *)
(* for the proofs about its clients.                                         *)
EXTENDS CowOverlay, FiniteSetTheorems, TLAPS

Busy(e) == op[e] \notin {"new", "idle"}

(* How far the operation of an environment is.  A file that mirror_links or  *)
(* the overlay has handled reads as it should, and one that commit has       *)
(* handled is the host's.                                                    *)
Progress(e) ==
    /\ op[e] = "mirror" => \A p \in Paths :
          IF p \in todo[e] THEN merged[e][p] = Absent ELSE Seen(e, p) = lower[p]
    /\ op[e] = "overlay" => \A p \in Paths :
          upper[e][p] = Absent => Seen(e, p) = lower[p]
    /\ op[e] \in {"overlay", "sync"} => \A p \in Paths \ todo[e] :
          upper[e][p] # Absent => Seen(e, p) = upper[e][p]
    /\ op[e] \in {"writing", "copyback"} => upper[e][at[e]] # Absent
    /\ op[e] = "writing" => lower[at[e]] = Torn
    /\ op[e] = "copyback" => lower[at[e]] = upper[e][at[e]]
    /\ op[e] \in {"commit", "writing", "copyback", "wipe"} =>
          \A p \in Paths \ (todo[e] \union {at[e]}) :
             upper[e][p] # Absent => lower[p] = upper[e][p]

(* Another environment than the one that moves. *)
Still(f) ==
    /\ upper'[f] = upper[f] /\ merged'[f] = merged[f]
    /\ op'[f] = op[f] /\ todo'[f] = todo[f] /\ at'[f] = at[f] /\ result'[f] = result[f]

USE DEF File

-----------------------------------------------------------------------------
(* The types, without the relations between op, at, todo and result. *)
FileTypes ==
    /\ lower \in [Paths -> File]
    /\ upper \in [Envs -> [Paths -> File]]
    /\ merged \in [Envs -> [Paths -> File \union {Linked}]]

ControlTypes ==
    /\ op \in [Envs -> Stage]
    /\ todo \in [Envs -> SUBSET Paths]
    /\ at \in [Envs -> Paths \union {NoPath}]
    /\ result \in [Envs -> {"none", "ok", "err"}]

Types == FileTypes /\ ControlTypes

Tied(e) ==
    /\ at[e] \in Paths <=> op[e] \in {"writing", "copyback"}
    /\ todo[e] # {} => op[e] \in {"mirror", "overlay", "sync", "commit", "writing", "copyback"}
    /\ op[e] \notin {"new", "idle"} => result[e] = "none"

(* The types, split into those of the variables and the ties between them. *)
LEMMA TypesTied == CowTypeOK <=> Types /\ \A e \in Envs : Tied(e)
  BY DEF CowTypeOK, Types, FileTypes, ControlTypes, Tied

(* An environment that does not move stays tied. *)
LEMMA StillTied == ASSUME NEW f \in Envs, Tied(f), Still(f) PROVE Tied(f)'
  BY DEF Tied, Still

(* Steps of one environment keep the types if they keep its own. *)
LEMMA TypesOfOne ==
    ASSUME CowTypeOK, NEW e \in Envs, Types', Tied(e)', \A f \in Envs \ {e} : Still(f)
    PROVE  CowTypeOK'
<1>1. \A f \in Envs \ {e} : Tied(f)' BY TypesTied, StillTied
<1>2. Types' /\ \A f \in Envs : Tied(f)' BY <1>1
<1>3. CowTypeOK' <=> Types' /\ \A f \in Envs : Tied(f)' BY DEF CowTypeOK, Types, FileTypes, ControlTypes, Tied
<1> QED BY <1>2, <1>3

(* What an operation does to its place keeps the types, and so does a file *)
(* written to merged_dir.                                                  *)
LEMMA MoveTypes ==
    ASSUME CowTypeOK, NEW e \in Envs,
           \/ \E s \in Stage, todos \in SUBSET Paths : GoTo(e, s, todos)
           \/ \E p \in Paths : Handled(e, p)
           \/ \E s \in Stage, how \in {"none", "ok", "err"} : SetOp(e, s, how)
    PROVE  ControlTypes'
<1> USE DEF CowTypeOK, ControlTypes
<1>1. ASSUME NEW s \in Stage, NEW todos \in SUBSET Paths, GoTo(e, s, todos) PROVE ControlTypes'
  BY <1>1 DEF GoTo
<1>2. ASSUME NEW p \in Paths, Handled(e, p) PROVE ControlTypes'
  <2>1. todo' = [todo EXCEPT ![e] = todo[e] \ {p}] /\ UNCHANGED <<op, at, result>>
    BY <1>2 DEF Handled
  <2>2. todo' \in [Envs -> SUBSET Paths] BY <2>1
  <2> QED BY <2>1, <2>2
<1>3. ASSUME NEW s \in Stage, NEW how \in {"none", "ok", "err"}, SetOp(e, s, how)
      PROVE ControlTypes'
  BY <1>3 DEF SetOp
<1> QED BY <1>1, <1>2, <1>3

(* Ending an operation keeps the types of its control variables. *)
LEMMA EndTypes ==
    ASSUME CowTypeOK, NEW e \in Envs, Ends(e, "ok") \/ Ends(e, "err")
    PROVE  /\ ControlTypes'
           /\ op'[e] = "idle" /\ todo'[e] = {} /\ at'[e] = NoPath
  BY DEF CowTypeOK, ControlTypes, Ends, SetOp, Stage

(* Writing a file of merged_dir keeps its type. *)
LEMMA MergedTypes ==
    ASSUME CowTypeOK, NEW e \in Envs, NEW p \in Paths, NEW f \in File \union {Linked},
           SetMerged(e, p, f)
    PROVE  merged' \in [Envs -> [Paths -> File \union {Linked}]]
  BY DEF CowTypeOK, SetMerged

(* Before anything was created the engine is at rest. *)
LEMMA CowInitFacts == CowInit => CowTypeOK /\ \A e \in Envs : Progress(e) /\ ~Busy(e)
  BY LowerAssumption, NoPathAssumption DEF CowInit, CowTypeOK, Stage, Progress, Busy

(* Without an operation there is no progress to keep. *)
LEMMA QuietProgress == ASSUME NEW e \in Envs, ~Busy(e) PROVE Progress(e)
  BY DEF Busy, Progress

-----------------------------------------------------------------------------
(* What all the steps have in common. *)
LEMMA Frames ==
    ASSUME CowTypeOK, NEW e \in Envs,
           EngineStep(e) \/ Initialize(e) \/ BuildWrite(e)
             \/ (\E s \in {"clear", "sync", "commit", "unmount"} : Starts(e, s))
    PROVE  \A f \in Envs \ {e} : Still(f)
<1> USE DEF CowTypeOK, Still, GoTo, Handled, Ends, SetOp, SetMerged, files
<1>1. CASE ClearMerged(e) \/ MirrorDone(e) \/ OverlayDone(e) \/ CommitDone(e)
  BY <1>1 DEF ClearMerged, MirrorDone, OverlayDone, CommitDone
<1>2. CASE CommitWrite(e) \/ CopyBack(e) \/ WipeUpper(e) \/ Unmount(e)
  BY <1>2 DEF CommitWrite, CopyBack, WipeUpper, Unmount, ReplaceFails
<1>3. ASSUME NEW p \in Paths, MirrorFile(e, p) PROVE \A f \in Envs \ {e} : Still(f)
  BY <1>3 DEF MirrorFile
<1>4. ASSUME NEW p \in Paths, OverlayFile(e, p) PROVE \A f \in Envs \ {e} : Still(f)
  BY <1>4 DEF OverlayFile, Replace, ReplaceFails
<1>5. ASSUME NEW p \in Paths, CommitOpen(e, p) PROVE \A f \in Envs \ {e} : Still(f)
  BY <1>5 DEF CommitOpen
<1>6. CASE Initialize(e) \/ BuildWrite(e)
  BY <1>6 DEF Initialize, BuildWrite
<1>7. CASE \E s \in {"clear", "sync", "commit", "unmount"} : Starts(e, s)
  BY <1>7 DEF Starts
<1> QED BY <1>1, <1>2, <1>3, <1>4, <1>5, <1>6, <1>7 DEF EngineStep

(* An operation begins with nothing of it done. *)
LEMMA StartFacts ==
    ASSUME CowTypeOK, NEW e \in Envs, NEW s \in {"clear", "sync", "commit", "unmount"},
           Starts(e, s)
    PROVE  CowTypeOK' /\ Progress(e)' /\ UNCHANGED files /\ op[e] = "idle" /\ op'[e] = s
<1>1. /\ op[e] = "idle" /\ op'[e] = s /\ result'[e] = "none" /\ UNCHANGED files
      /\ todo'[e] = IF s \in {"sync", "commit"} THEN Paths ELSE {}
      /\ at'[e] = at[e]
  BY DEF Starts, CowTypeOK
<1>2. at[e] \notin Paths BY <1>1 DEF CowTypeOK
<1>3. Types' BY DEF Starts, CowTypeOK, Types, FileTypes, ControlTypes, files, Stage
<1>4. Tied(e)' BY <1>1, <1>2 DEF Tied
<1>5. CowTypeOK' BY <1>3, <1>4, Frames, TypesOfOne
<1>6. Progress(e)' BY <1>1 DEF Progress
<1> QED BY <1>1, <1>5, <1>6

(* initialize, which fails or makes the empty directories. *)
LEMMA InitializeFacts ==
    ASSUME CowTypeOK, NEW e \in Envs, Initialize(e)
    PROVE  /\ CowTypeOK' /\ Progress(e)' /\ UNCHANGED files
           /\ op[e] = "new" /\ op'[e] \in {"new", "idle"}
           /\ result'[e] = "ok" => op'[e] = "idle"
<1>1. /\ op[e] = "new" /\ op'[e] \in {"new", "idle"} /\ UNCHANGED files
      /\ todo'[e] = {} /\ at'[e] = NoPath
      /\ result'[e] = "ok" => op'[e] = "idle"
  BY DEF Initialize, Ends, SetOp, CowTypeOK
<1>2. Types'
  BY <1>1 DEF Initialize, Ends, SetOp, CowTypeOK, Types, FileTypes, ControlTypes, files, Stage
<1>3. Tied(e)' BY <1>1, NoPathAssumption DEF Tied
<1>4. CowTypeOK' BY <1>2, <1>3, Frames, TypesOfOne
<1>5. Progress(e)' BY <1>1 DEF Progress
<1> QED BY <1>1, <1>4, <1>5

(* A build changes one path, the host's only through a link. *)
LEMMA BuildFacts ==
    ASSUME CowTypeOK, NEW e \in Envs, BuildWrite(e)
    PROVE  /\ CowTypeOK'
           /\ \A p \in Paths : lower'[p] # lower[p] =>
                 merged[e][p] = Linked /\ lower'[p] \in Contents
           /\ UNCHANGED <<upper, op, todo, at, result>>
           /\ \E x \in BuildWrites : \A p \in Paths \ {x[1]} :
                 lower'[p] = lower[p] /\ merged'[e][p] = merged[e][p]
<1>1. PICK x \in BuildWrites :
         \/ SetMerged(e, x[1], x[2]) /\ UNCHANGED lower
         \/ /\ merged[e][x[1]] = Linked
            /\ lower' = [lower EXCEPT ![x[1]] = x[2]]
            /\ UNCHANGED merged
  BY DEF BuildWrite
<1>2. x[1] \in Paths /\ x[2] \in Contents BY BuildAssumption
<1>3. UNCHANGED <<upper, op, todo, at, result>> BY DEF BuildWrite
<1>4. Types'
  <2>1. merged' \in [Envs -> [Paths -> File \union {Linked}]]
    <3>1. CASE UNCHANGED merged BY <3>1 DEF CowTypeOK
    <3>2. CASE SetMerged(e, x[1], x[2]) BY <1>2, <3>2, MergedTypes
    <3> QED BY <1>1, <3>1, <3>2
  <2>2. lower' \in [Paths -> File] BY <1>1, <1>2 DEF CowTypeOK
  <2> QED BY <1>3, <2>1, <2>2 DEF CowTypeOK, Types, FileTypes, ControlTypes
<1>5. Tied(e)' BY <1>3 DEF CowTypeOK, Tied
<1>6. CowTypeOK' BY <1>4, <1>5, Frames, TypesOfOne
<1>7. \A p \in Paths \ {x[1]} : lower'[p] = lower[p] /\ merged'[e][p] = merged[e][p]
  BY <1>1, <1>2 DEF CowTypeOK, SetMerged
<1>8. \A p \in Paths : lower'[p] # lower[p] => merged[e][p] = Linked /\ lower'[p] \in Contents
  BY <1>1, <1>2 DEF CowTypeOK, SetMerged
<1> QED BY <1>3, <1>6, <1>7, <1>8

-----------------------------------------------------------------------------
(* The steps of an operation, one lemma for each stage. *)
LEMMA ClearFacts ==
    ASSUME CowTypeOK, NEW e \in Envs, ClearMerged(e) \/ Unmount(e)
    PROVE  CowTypeOK' /\ Progress(e)' /\ UNCHANGED <<lower, upper>>
<1>1. UNCHANGED <<lower, upper>> BY DEF ClearMerged, Unmount
<1>2. \A d \in PartlyRemoved(merged[e]) : d \in [Paths -> File \union {Linked}]
  BY DEF PartlyRemoved
<1>3. Emptied \in [Paths -> File \union {Linked}] BY DEF Emptied
<1>4. Types'
  <2>1. PICK d \in {Emptied} \union PartlyRemoved(merged[e]) : merged' = [merged EXCEPT ![e] = d]
    BY DEF ClearMerged, Unmount
  <2>2. FileTypes' BY <1>1, <1>2, <1>3, <2>1 DEF CowTypeOK, FileTypes
  <2>3. GoTo(e, "mirror", Paths) \/ Ends(e, "ok") \/ Ends(e, "err")
    BY DEF ClearMerged, Unmount
  <2>4. ControlTypes' BY <2>3, MoveTypes, EndTypes DEF Stage
  <2> QED BY <2>2, <2>4 DEF Types
<1>5. /\ at'[e] = NoPath
      /\ \/ op'[e] = "idle" /\ todo'[e] = {}
         \/ op'[e] = "mirror" /\ result'[e] = "none" /\ merged'[e] = Emptied /\ todo'[e] = Paths
  BY DEF ClearMerged, Unmount, Ends, SetOp, GoTo, CowTypeOK
<1>6. Tied(e)' BY <1>5, NoPathAssumption DEF Tied
<1>7. Progress(e)' BY <1>5 DEF Progress, Emptied
<1> QED BY <1>1, <1>4, <1>6, <1>7, Frames, TypesOfOne DEF EngineStep

(* The first half of mount, lower_dir into merged_dir. *)
LEMMA MirrorFacts ==
    ASSUME CowTypeOK, NEW e \in Envs, Progress(e),
           MirrorDone(e) \/ \E p \in Paths : MirrorFile(e, p)
    PROVE  CowTypeOK' /\ Progress(e)' /\ UNCHANGED <<lower, upper>>
<1>1. UNCHANGED <<lower, upper>> BY DEF MirrorDone, MirrorFile, files
<1>2. op[e] = "mirror" /\ at[e] = NoPath /\ result[e] = "none"
  BY DEF MirrorDone, MirrorFile, CowTypeOK
<1>3. CASE MirrorDone(e)
  <2>1. /\ todo[e] = {} /\ merged' = merged
        /\ op'[e] = "overlay" /\ todo'[e] = Paths /\ at'[e] = NoPath /\ result'[e] = "none"
    BY <1>2, <1>3 DEF MirrorDone, GoTo, CowTypeOK, files
  <2>2. Types'
    BY <1>1, <1>3 DEF MirrorDone, GoTo, CowTypeOK, Types, FileTypes, ControlTypes, files, Stage
  <2>3. Tied(e)' BY <2>1, NoPathAssumption DEF Tied
  <2>4. Progress(e)' BY <1>1, <1>2, <2>1 DEF Progress, Seen
  <2> QED BY <1>1, <1>3, <2>2, <2>3, <2>4, Frames, TypesOfOne DEF EngineStep
<1>4. ASSUME NEW p \in Paths, MirrorFile(e, p) PROVE CowTypeOK' /\ Progress(e)'
  <2>1. p \in todo[e] /\ lower[p] \in File BY <1>4 DEF MirrorFile, CowTypeOK
  <2>2. Types'
    <3>1. ControlTypes' BY <1>4, <2>1, MoveTypes, EndTypes DEF MirrorFile
    <3>2. merged' = merged \/ \E f \in {Linked, lower[p], Absent, Torn} : SetMerged(e, p, f)
      BY <1>4 DEF MirrorFile
    <3>3. FileTypes' BY <1>1, <2>1, <3>2, MergedTypes DEF CowTypeOK, FileTypes
    <3> QED BY <3>1, <3>3 DEF Types
  <2>3. CASE op'[e] = "idle" /\ todo'[e] = {} /\ at'[e] = NoPath
    <3>1. Tied(e)' BY <2>3, NoPathAssumption DEF Tied
    <3>2. Progress(e)' BY <2>3 DEF Progress
    <3> QED BY <1>4, <2>2, <3>1, <3>2, Frames, TypesOfOne DEF EngineStep
  <2>4. CASE /\ op' = op /\ at' = at /\ result' = result
             /\ todo'[e] = todo[e] \ {p}
             /\ \A q \in Paths \ {p} : merged'[e][q] = merged[e][q]
             /\ merged'[e][p] \in {Linked, lower[p]}
    <3>1. Tied(e)' BY <1>2, <2>4, NoPathAssumption DEF Tied
    <3>2. lower[p] # Linked BY <2>1, ContentsAssumption
    <3>3. Progress(e)' BY <1>1, <1>2, <2>4, <3>2 DEF Progress, Seen
    <3> QED BY <1>4, <2>2, <3>1, <3>3, Frames, TypesOfOne DEF EngineStep
  <2>5. lower[p] = Absent => merged[e][p] = Absent
    BY <1>2, <2>1 DEF Progress
  <2> QED BY <1>4, <2>1, <2>3, <2>4, <2>5
        DEF MirrorFile, SetMerged, Handled, Ends, SetOp, CowTypeOK
<1> QED BY <1>1, <1>3, <1>4

(* The second half of mount, and synchronize_upper, upper over merged. *)
LEMMA OverlayFacts ==
    ASSUME CowTypeOK, NEW e \in Envs, Progress(e),
           OverlayDone(e) \/ \E p \in Paths : OverlayFile(e, p)
    PROVE  CowTypeOK' /\ Progress(e)' /\ UNCHANGED <<lower, upper>>
<1>1. UNCHANGED <<lower, upper>> BY DEF OverlayDone, OverlayFile, Replace, files
<1>2. op[e] \in {"overlay", "sync"} /\ at[e] = NoPath /\ result[e] = "none"
  BY DEF OverlayDone, OverlayFile, CowTypeOK
<1>3. CASE OverlayDone(e)
  <2>1. op'[e] = "idle" /\ todo'[e] = {} /\ at'[e] = NoPath
    BY <1>3 DEF OverlayDone, Ends, SetOp, CowTypeOK
  <2>2. Types'
    BY <1>1, <1>3 DEF OverlayDone, Ends, SetOp, CowTypeOK, Types, FileTypes, ControlTypes, files, Stage
  <2>3. Tied(e)' BY <2>1, NoPathAssumption DEF Tied
  <2>4. Progress(e)' BY <2>1 DEF Progress
  <2> QED BY <1>1, <1>3, <2>2, <2>3, <2>4, Frames, TypesOfOne DEF EngineStep
<1>4. ASSUME NEW p \in Paths, OverlayFile(e, p) PROVE CowTypeOK' /\ Progress(e)'
  <2>1. p \in todo[e] /\ upper[e][p] \in File BY <1>4 DEF OverlayFile, CowTypeOK
  <2>2. Types'
    <3>1. ControlTypes' BY <1>4, <2>1, MoveTypes, EndTypes DEF OverlayFile
    <3>2. \/ merged' = merged
          \/ \E f \in {upper[e][p], merged[e][p], Absent, Torn} : SetMerged(e, p, f)
      BY <1>4 DEF OverlayFile, Replace, ReplaceFails
    <3>3. merged[e][p] \in File \union {Linked} BY DEF CowTypeOK
    <3>4. FileTypes' BY <1>1, <2>1, <3>2, <3>3, MergedTypes DEF CowTypeOK, FileTypes
    <3> QED BY <3>1, <3>4 DEF Types
  <2>3. CASE op'[e] = "idle" /\ todo'[e] = {} /\ at'[e] = NoPath
    <3>1. Tied(e)' BY <2>3, NoPathAssumption DEF Tied
    <3>2. Progress(e)' BY <2>3 DEF Progress
    <3> QED BY <1>4, <2>2, <3>1, <3>2, Frames, TypesOfOne DEF EngineStep
  <2>4. CASE /\ op' = op /\ at' = at /\ result' = result
             /\ todo'[e] = todo[e] \ {p}
             /\ \A q \in Paths \ {p} : merged'[e][q] = merged[e][q]
             /\ upper[e][p] # Absent => Seen(e, p)' = upper[e][p]
             /\ upper[e][p] = Absent => merged'[e][p] = merged[e][p]
    <3>1. Tied(e)' BY <1>2, <2>4, NoPathAssumption DEF Tied, CowTypeOK
    <3>2. \A q \in Paths : upper[e][q] = Absent => merged'[e][q] = merged[e][q]
      BY <2>4
    <3>3. \A q \in Paths \ todo'[e] : upper[e][q] # Absent => Seen(e, q)' = upper[e][q]
      BY <1>1, <1>2, <2>4 DEF Progress, Seen
    <3>4. Progress(e)' BY <1>1, <1>2, <2>4, <3>2, <3>3 DEF Progress, Seen
    <3> QED BY <1>4, <2>2, <3>1, <3>4, Frames, TypesOfOne DEF EngineStep
  <2>5. upper[e][p] # Linked BY <2>1, ContentsAssumption
  <2>6. CASE /\ upper[e][p] # Absent => op[e] = "sync" /\ FALSE \in MayUpdate(e, p)
             /\ Handled(e, p) /\ UNCHANGED <<lower, merged>>
    <3>1. upper[e][p] # Absent => Seen(e, p) = upper[e][p] BY <2>6 DEF MayUpdate
    <3> QED BY <1>1, <2>4, <2>6, <3>1 DEF Handled, CowTypeOK, Seen
  <2>7. CASE upper[e][p] # Absent /\ Replace(e, p) /\ Handled(e, p)
    BY <2>1, <2>4, <2>5, <2>7 DEF Replace, SetMerged, Handled, CowTypeOK, Seen
  <2>8. CASE Ends(e, "err")
    BY <2>3, <2>8 DEF Ends, SetOp, CowTypeOK
  <2> QED BY <1>4, <2>6, <2>7, <2>8 DEF OverlayFile
<1> QED BY <1>1, <1>3, <1>4

(* The walk of commit over upper_dir, which alone writes lower_dir. *)
LEMMA CommitFacts ==
    ASSUME CowTypeOK, NEW e \in Envs, Progress(e),
           CommitWrite(e) \/ CommitDone(e) \/ \E p \in Paths : CommitOpen(e, p)
    PROVE  /\ CowTypeOK' /\ Progress(e)' /\ UNCHANGED <<upper, merged>>
           /\ \A p \in Paths : lower'[p] # lower[p] =>
                 /\ op[e] \in {"commit", "writing"} /\ upper[e][p] # Absent
                 /\ lower'[p] \in {Torn, upper[e][p]}
<1>1. UNCHANGED <<upper, merged>> BY DEF CommitWrite, CommitDone, CommitOpen, files
<1>2. op[e] \in {"writing", "commit"} /\ result[e] = "none"
  BY DEF CommitWrite, CommitDone, CommitOpen, CowTypeOK
<1>3. ASSUME op'[e] = "idle" /\ todo'[e] = {} /\ at'[e] = NoPath
      PROVE Tied(e)' /\ Progress(e)'
  BY <1>3, NoPathAssumption DEF Tied, Progress
<1>4. CASE CommitDone(e)
  <2>1. /\ todo[e] = {} /\ lower' = lower /\ at[e] = NoPath /\ op[e] = "commit"
        /\ op'[e] = "wipe" /\ todo'[e] = {} /\ at'[e] = NoPath /\ result'[e] = "none"
    BY <1>2, <1>4 DEF CommitDone, GoTo, CowTypeOK, files
  <2>2. Types'
    BY <1>1, <1>4 DEF CommitDone, GoTo, CowTypeOK, Types, FileTypes, ControlTypes, files, Stage
  <2>3. Tied(e)' BY <2>1, NoPathAssumption DEF Tied
  <2>4. Progress(e)' BY <1>1, <2>1 DEF Progress
  <2> QED BY <1>1, <1>4, <2>1, <2>2, <2>3, <2>4, Frames, TypesOfOne DEF EngineStep
<1>5. CASE CommitWrite(e)
  <2>1. op[e] = "writing" /\ at[e] \in Paths /\ upper[e][at[e]] \in File
    BY <1>5 DEF CommitWrite, CowTypeOK
  <2>2. Types'
    BY <1>1, <1>5, <2>1
    DEF CommitWrite, Ends, SetOp, CowTypeOK, Types, FileTypes, ControlTypes, Stage
  <2>3. CASE lower' = [lower EXCEPT ![at[e]] = upper[e][at[e]]] /\ UNCHANGED <<todo, at, result>>
             /\ op' = [op EXCEPT ![e] = "copyback"]
    <3>1. /\ op'[e] = "copyback" /\ lower'[at[e]] = upper[e][at[e]]
          /\ \A q \in Paths \ {at[e]} : lower'[q] = lower[q]
      BY <2>1, <2>3 DEF CowTypeOK
    <3>2. Tied(e)' BY <1>2, <2>1, <2>3, <3>1 DEF Tied, CowTypeOK
    <3>3. Progress(e)' BY <1>1, <2>1, <2>3, <3>1 DEF Progress
    <3>4. upper[e][at[e]] # Absent BY <2>1 DEF Progress
    <3> QED BY <1>1, <1>5, <2>1, <2>2, <3>1, <3>2, <3>3, <3>4, Frames, TypesOfOne
            DEF EngineStep
  <2>4. CASE Ends(e, "err") /\ UNCHANGED lower
    <3>1. op'[e] = "idle" /\ todo'[e] = {} /\ at'[e] = NoPath
      BY <2>4 DEF Ends, SetOp, CowTypeOK
    <3> QED BY <1>1, <1>3, <1>5, <2>2, <2>4, <3>1, Frames, TypesOfOne DEF EngineStep
  <2> QED BY <1>5, <2>3, <2>4 DEF CommitWrite
<1>6. ASSUME NEW p \in Paths, CommitOpen(e, p)
      PROVE /\ CowTypeOK' /\ Progress(e)'
            /\ \A q \in Paths : lower'[q] # lower[q] =>
                 op[e] = "commit" /\ upper[e][q] # Absent /\ lower'[q] = Torn
  <2>1. op[e] = "commit" /\ p \in todo[e] /\ at[e] \notin Paths
    BY <1>6 DEF CommitOpen, CowTypeOK
  <2>2. Types'
    <3>1. lower' \in [Paths -> File] BY <1>6 DEF CommitOpen, CowTypeOK
    <3>2. ASSUME /\ op' = [op EXCEPT ![e] = "writing"]
               /\ todo' = [todo EXCEPT ![e] = @ \ {p}]
               /\ at' = [at EXCEPT ![e] = p]
               /\ UNCHANGED result
          PROVE ControlTypes'
      <4>1. todo' = [todo EXCEPT ![e] = todo[e] \ {p}] BY <3>2
      <4>2. todo' \in [Envs -> SUBSET Paths] BY <4>1 DEF CowTypeOK
      <4>3. op' \in [Envs -> Stage] BY <3>2 DEF CowTypeOK, Stage
      <4>4. at' \in [Envs -> Paths \union {NoPath}] BY <3>2 DEF CowTypeOK
      <4>5. result' \in [Envs -> {"none", "ok", "err"}] BY <3>2 DEF CowTypeOK
      <4> QED BY <4>2, <4>3, <4>4, <4>5 DEF ControlTypes
    <3>3. ASSUME Handled(e, p) \/ Ends(e, "err") PROVE ControlTypes'
      BY <3>3, MoveTypes, EndTypes
    <3>4. ControlTypes' BY <1>6, <3>2, <3>3 DEF CommitOpen
    <3>5. FileTypes' BY <1>1, <3>1 DEF CowTypeOK, FileTypes
    <3> QED BY <3>4, <3>5 DEF Types
  <2>3. CASE upper[e][p] = Absent /\ Handled(e, p) /\ UNCHANGED lower
    <3>1. UNCHANGED <<op, at, result>> /\ todo'[e] = todo[e] \ {p}
      BY <2>3 DEF Handled, CowTypeOK
    <3>2. Tied(e)' BY <1>2, <2>1, <3>1 DEF Tied
    <3>3. Progress(e)' BY <1>1, <2>1, <2>3, <3>1 DEF Progress
    <3> QED BY <1>6, <2>2, <2>3, <3>2, <3>3, Frames, TypesOfOne DEF EngineStep
  <2>4. CASE /\ upper[e][p] # Absent
             /\ lower' = [lower EXCEPT ![p] = Torn]
             /\ op' = [op EXCEPT ![e] = "writing"]
             /\ todo' = [todo EXCEPT ![e] = @ \ {p}]
             /\ at' = [at EXCEPT ![e] = p]
             /\ UNCHANGED result
    <3>1. /\ op'[e] = "writing" /\ at'[e] = p /\ todo'[e] = todo[e] \ {p}
          /\ lower'[p] = Torn /\ \A q \in Paths \ {p} : lower'[q] = lower[q]
      BY <2>4 DEF CowTypeOK
    <3>2. Tied(e)' BY <1>2, <2>4, <3>1 DEF Tied
    <3>3. Progress(e)' BY <1>1, <2>1, <2>4, <3>1 DEF Progress
    <3> QED BY <1>6, <2>1, <2>2, <2>4, <3>1, <3>2, <3>3, Frames, TypesOfOne DEF EngineStep
  <2>5. CASE Ends(e, "err") /\ UNCHANGED lower
    <3>1. op'[e] = "idle" /\ todo'[e] = {} /\ at'[e] = NoPath
      BY <2>5 DEF Ends, SetOp, CowTypeOK
    <3> QED BY <1>3, <1>6, <2>2, <2>5, <3>1, Frames, TypesOfOne DEF EngineStep
  <2> QED BY <1>6, <2>3, <2>4, <2>5 DEF CommitOpen
<1> QED BY <1>1, <1>4, <1>5, <1>6

(* The copy into merged_dir that follows the copy of a file to lower_dir. *)
LEMMA CopyBackFacts ==
    ASSUME CowTypeOK, NEW e \in Envs, Progress(e), CopyBack(e)
    PROVE  CowTypeOK' /\ Progress(e)' /\ UNCHANGED <<lower, upper>>
<1>1. /\ UNCHANGED <<lower, upper>> /\ op[e] = "copyback" /\ at[e] \in Paths
      /\ upper[e][at[e]] \in File /\ result[e] = "none"
  BY DEF CopyBack, CowTypeOK
<1>2. Types'
  <2>1. \E f \in {upper[e][at[e]], merged[e][at[e]], Absent, Torn} : SetMerged(e, at[e], f)
    BY DEF CopyBack, ReplaceFails
  <2>2. merged[e][at[e]] \in File \union {Linked} BY <1>1 DEF CowTypeOK
  <2>3. FileTypes' BY <1>1, <2>1, <2>2, MergedTypes DEF CowTypeOK, FileTypes
  <2>4. GoTo(e, "commit", todo[e]) \/ Ends(e, "err") BY DEF CopyBack
  <2>5. todo[e] \in SUBSET Paths /\ "commit" \in Stage BY DEF CowTypeOK, Stage
  <2>6. ControlTypes' BY <2>4, <2>5, MoveTypes, EndTypes
  <2> QED BY <2>3, <2>6 DEF Types
<1>3. /\ at'[e] = NoPath
      /\ \/ op'[e] = "commit" /\ todo'[e] = todo[e] /\ result'[e] = "none"
         \/ op'[e] = "idle" /\ todo'[e] = {}
  BY <1>1 DEF CopyBack, SetMerged, ReplaceFails, GoTo, Ends, SetOp, CowTypeOK
<1>4. Tied(e)' BY <1>3, NoPathAssumption DEF Tied
<1>5. Progress(e)' BY <1>1, <1>3 DEF Progress
<1> QED BY <1>1, <1>2, <1>4, <1>5, Frames, TypesOfOne DEF EngineStep

(* The end of commit, which empties upper_dir. *)
LEMMA WipeFacts ==
    ASSUME CowTypeOK, NEW e \in Envs, Progress(e), WipeUpper(e)
    PROVE  /\ CowTypeOK' /\ Progress(e)' /\ UNCHANGED <<lower, merged>>
           /\ op[e] = "wipe" /\ op'[e] = "idle"
           /\ \A p \in Paths : /\ upper'[e][p] \in {upper[e][p], Absent}
                               /\ upper[e][p] # Absent => lower[p] = upper[e][p]
<1>1. /\ UNCHANGED <<lower, merged>> /\ op[e] = "wipe" /\ op'[e] = "idle"
      /\ at'[e] = NoPath /\ todo'[e] = {} /\ todo[e] = {} /\ at[e] \notin Paths
  BY DEF WipeUpper, Ends, SetOp, CowTypeOK
<1>2. \A p \in Paths : upper'[e][p] \in {upper[e][p], Absent}
  BY DEF WipeUpper, PartlyRemoved, Emptied, CowTypeOK
<1>3. upper' \in [Envs -> [Paths -> File]]
  <2>1. CASE upper' = [upper EXCEPT ![e] = Emptied] BY <2>1 DEF Emptied, CowTypeOK
  <2>2. ASSUME NEW d \in PartlyRemoved(upper[e]), upper' = [upper EXCEPT ![e] = d]
        PROVE  upper' \in [Envs -> [Paths -> File]]
    <3>1. d \in [Paths -> File] BY <2>2 DEF PartlyRemoved, CowTypeOK
    <3> QED BY <2>2, <3>1 DEF CowTypeOK
  <2> QED BY <2>1, <2>2 DEF WipeUpper
<1>4. Types'
  <2>1. ControlTypes' BY EndTypes DEF WipeUpper
  <2> QED BY <1>1, <1>3, <2>1 DEF CowTypeOK, Types, FileTypes
<1>5. Tied(e)' BY <1>1, NoPathAssumption DEF Tied
<1>6. Progress(e)' BY <1>1 DEF Progress
<1>7. \A p \in Paths : upper[e][p] # Absent => lower[p] = upper[e][p]
  BY <1>1 DEF Progress
<1> QED BY <1>1, <1>2, <1>4, <1>5, <1>6, <1>7, Frames, TypesOfOne DEF EngineStep

-----------------------------------------------------------------------------
(* A step of an operation, whatever the stage: the types and the progress   *)
(* are kept, the host's file changes only while it is being committed, and  *)
(* a file leaves upper_dir only when the host has it.                       *)
THEOREM EngineStepFacts ==
    ASSUME CowTypeOK, NEW e \in Envs, Progress(e), EngineStep(e)
    PROVE  /\ CowTypeOK' /\ Progress(e)' /\ Busy(e)
           /\ \A p \in Paths : lower'[p] # lower[p] =>
                 /\ op[e] \in {"commit", "writing"} /\ upper[e][p] # Absent
                 /\ lower'[p] \in {Torn, upper[e][p]}
           /\ \A p \in Paths : upper'[e][p] # upper[e][p] =>
                 upper'[e][p] = Absent /\ lower[p] = upper[e][p] /\ UNCHANGED lower
<1>1. CASE ClearMerged(e) \/ Unmount(e)
  BY <1>1, ClearFacts DEF ClearMerged, Unmount, Busy
<1>2. CASE MirrorDone(e) \/ \E p \in Paths : MirrorFile(e, p)
  BY <1>2, MirrorFacts DEF MirrorDone, MirrorFile, Busy
<1>3. CASE OverlayDone(e) \/ \E p \in Paths : OverlayFile(e, p)
  BY <1>3, OverlayFacts DEF OverlayDone, OverlayFile, Busy
<1>4. CASE CommitWrite(e) \/ CommitDone(e) \/ \E p \in Paths : CommitOpen(e, p)
  BY <1>4, CommitFacts DEF CommitWrite, CommitDone, CommitOpen, Busy
<1>5. CASE CopyBack(e)
  BY <1>5, CopyBackFacts DEF CopyBack, Busy
<1>6. CASE WipeUpper(e)
  BY <1>6, WipeFacts DEF Busy
<1> QED BY <1>1, <1>2, <1>3, <1>4, <1>5, <1>6 DEF EngineStep

(* The order of the stages, and of the result when there is one. *)
LEMMA StageOrder ==
    ASSUME CowTypeOK, NEW e \in Envs, EngineStep(e)
    PROVE  /\ \/ op'[e] = "idle" /\ result'[e] \in {"ok", "err"}
              \/ op'[e] = op[e] /\ result'[e] = "none"
              \/ <<op[e], op'[e]>> \in {<<"clear", "mirror">>, <<"mirror", "overlay">>,
                    <<"commit", "writing">>, <<"writing", "copyback">>,
                    <<"copyback", "commit">>, <<"commit", "wipe">>} /\ result'[e] = "none"
           /\ result'[e] = "ok" => op[e] \in {"overlay", "sync", "wipe", "unmount"}
<1> USE DEF CowTypeOK, GoTo, Handled, Ends, SetOp
<1>1. CASE ClearMerged(e) \/ MirrorDone(e) \/ OverlayDone(e) \/ CommitDone(e)
  BY <1>1 DEF ClearMerged, MirrorDone, OverlayDone, CommitDone
<1>2. CASE CommitWrite(e) \/ CopyBack(e) \/ WipeUpper(e) \/ Unmount(e)
  BY <1>2 DEF CommitWrite, CopyBack, WipeUpper, Unmount
<1>3. ASSUME NEW p \in Paths, MirrorFile(e, p) \/ OverlayFile(e, p)
      PROVE  /\ \/ op'[e] = "idle" /\ result'[e] = "err"
                \/ op'[e] = op[e] /\ result'[e] = "none"
  BY <1>3 DEF MirrorFile, OverlayFile
<1>4. ASSUME NEW p \in Paths, CommitOpen(e, p)
      PROVE  /\ op[e] = "commit"
             /\ \/ op'[e] = "idle" /\ result'[e] = "err"
                \/ op'[e] = op[e] /\ result'[e] = "none"
                \/ op'[e] = "writing" /\ result'[e] = "none"
  BY <1>4 DEF CommitOpen
<1> QED BY <1>1, <1>2, <1>3, <1>4 DEF EngineStep

(* What an operation that answers Ok has achieved. *)
LEMMA OkMeans ==
    ASSUME CowTypeOK, NEW e \in Envs, Progress(e), EngineStep(e), result'[e] = "ok",
           NEW p \in Paths
    PROVE  /\ op[e] = "overlay" => Seen(e, p)' = IF upper[e][p] = Absent THEN lower[p]
                                                                     ELSE upper[e][p]
           /\ op[e] = "sync" /\ upper[e][p] # Absent => Seen(e, p)' = upper[e][p]
           /\ op[e] = "wipe" /\ upper[e][p] # Absent => lower'[p] = upper[e][p]
           /\ op[e] = "unmount" => merged'[e] = Emptied
<1>1. result[e] = "none" BY EngineStepFacts DEF Busy, CowTypeOK
<1>2. CASE op[e] \in {"overlay", "sync"}
  <2>1. OverlayDone(e) \/ \E q \in Paths : OverlayFile(e, q)
    BY <1>2 DEF EngineStep, ClearMerged, MirrorFile, CommitOpen, MirrorDone, CommitWrite,
                CopyBack, CommitDone, WipeUpper, Unmount
  <2>2. ASSUME NEW q \in Paths, OverlayFile(e, q) PROVE FALSE
    BY <1>1, <2>2 DEF OverlayFile, Handled, Ends, SetOp, CowTypeOK
  <2>3. todo[e] = {} /\ UNCHANGED files BY <2>1, <2>2 DEF OverlayDone
  <2> QED BY <1>2, <2>3 DEF Progress, Seen, files
<1>3. CASE op[e] = "wipe"
  <2>1. WipeUpper(e)
    BY <1>3 DEF EngineStep, ClearMerged, MirrorFile, CommitOpen, MirrorDone, CommitWrite,
                CopyBack, CommitDone, OverlayFile, OverlayDone, Unmount
  <2> QED BY <1>3, <2>1, WipeFacts
<1>4. CASE op[e] = "unmount"
  <2>1. Unmount(e)
    BY <1>4 DEF EngineStep, ClearMerged, MirrorFile, CommitOpen, MirrorDone, CommitWrite,
                CopyBack, CommitDone, OverlayFile, OverlayDone, WipeUpper
  <2>2. merged' = [merged EXCEPT ![e] = Emptied]
    BY <2>1 DEF Unmount, Ends, SetOp, CowTypeOK
  <2> QED BY <1>4, <2>2 DEF CowTypeOK
<1> QED BY <1>2, <1>3, <1>4

(* A synchronisation touches only the files that upper_dir has. *)
LEMMA SyncLeavesOthers ==
    ASSUME CowTypeOK, NEW e \in Envs, EngineStep(e), op[e] = "sync",
           NEW p \in Paths, upper[e][p] = Absent
    PROVE  Seen(e, p)' = Seen(e, p) /\ UNCHANGED <<lower, upper>>
<1>1. OverlayDone(e) \/ \E q \in Paths : OverlayFile(e, q)
  BY DEF EngineStep, ClearMerged, MirrorFile, CommitOpen, MirrorDone, CommitWrite,
         CopyBack, CommitDone, WipeUpper, Unmount
<1>2. merged'[e][p] = merged[e][p] /\ UNCHANGED <<lower, upper>>
  <2>1. CASE OverlayDone(e) BY <2>1 DEF OverlayDone, files
  <2>2. ASSUME NEW q \in Paths, OverlayFile(e, q)
        PROVE merged'[e][p] = merged[e][p] /\ UNCHANGED <<lower, upper>>
    <3>1. \/ merged' = merged
          \/ upper[e][q] # Absent /\ \E f : SetMerged(e, q, f)
      BY <2>2 DEF OverlayFile, Replace, ReplaceFails
    <3>2. UNCHANGED <<lower, upper>> BY <2>2 DEF OverlayFile, Replace
    <3> QED BY <3>1, <3>2 DEF SetMerged, CowTypeOK
  <2> QED BY <1>1, <2>1, <2>2
<1> QED BY <1>2 DEF Seen
-----------------------------------------------------------------------------
(* The number of files an operation handles, and how many are left in its    *)
(* stage.                                                                    *)
FileCount == Cardinality(Paths)
FilesLeft(e) == Cardinality(todo[e])

(* A bound on the steps an operation has left: a mount makes its directory,  *)
(* handles every file twice and goes from one stage to the next twice; a     *)
(* commit takes three steps for a file and two to empty upper_dir.           *)
OpStepsLeft(e) ==
    [new |-> 0, idle |-> 0,
     clear |-> 2 * FileCount + 3, mirror |-> FilesLeft(e) + FileCount + 2,
     overlay |-> FilesLeft(e) + 1, sync |-> FilesLeft(e) + 1,
     commit |-> 3 * FilesLeft(e) + 2, writing |-> 3 * FilesLeft(e) + 4,
     copyback |-> 3 * FilesLeft(e) + 3, wipe |-> 1, unmount |-> 1][op[e]]

(* It is a number. *)
LEMMA OpStepsNat ==
    ASSUME CowTypeOK, NEW e \in Envs
    PROVE  /\ FileCount \in Nat /\ FilesLeft(e) \in Nat
           /\ OpStepsLeft(e) \in Nat
<1>1. IsFiniteSet(Paths) BY PathsAssumption
<1>2. todo[e] \subseteq Paths /\ op[e] \in Stage BY DEF CowTypeOK
<1>3. FileCount \in Nat /\ FilesLeft(e) \in Nat
  BY <1>1, <1>2, FS_CardinalityType, FS_Subset DEF FileCount, FilesLeft
<1> HIDE DEF FileCount, FilesLeft
<1>4. OpStepsLeft(e) \in Nat
  BY <1>2, <1>3 DEF OpStepsLeft, Stage
<1> QED BY <1>3, <1>4

(* A file is handled once. *)
LEMMA OneFileLess ==
    ASSUME CowTypeOK, NEW e \in Envs, NEW p \in todo[e], todo'[e] = todo[e] \ {p}
    PROVE  FilesLeft(e)' = FilesLeft(e) - 1
<1>1. IsFiniteSet(todo[e]) BY PathsAssumption, FS_Subset DEF CowTypeOK
<1> QED BY <1>1, FS_RemoveElement DEF FilesLeft

(* An operation starts with a number of steps, linear in the files... *)
LEMMA StartSteps ==
    ASSUME CowTypeOK, NEW e \in Envs, NEW s \in {"clear", "sync", "commit", "unmount"},
           Starts(e, s)
    PROVE  /\ OpStepsLeft(e)' = [clear |-> 2 * FileCount + 3, sync |-> FileCount + 1,
                                 commit |-> 3 * FileCount + 2, unmount |-> 1][s]
           /\ OpStepsLeft(e) = 0
<1>1. op[e] = "idle" /\ op'[e] = s BY DEF Starts, CowTypeOK
<1>2. s \in {"sync", "commit"} => FilesLeft(e)' = FileCount
  BY DEF Starts, CowTypeOK, FilesLeft, FileCount
<1>3. FileCount' = FileCount BY DEF FileCount
<1> HIDE DEF FileCount, FilesLeft
<1> QED BY <1>1, <1>2, <1>3 DEF OpStepsLeft

(* ... and each of its steps is one of them. *)
LEMMA OpStepsShrink ==
    ASSUME CowTypeOK, CowTypeOK', NEW e \in Envs, EngineStep(e)
    PROVE  OpStepsLeft(e)' \in Nat /\ OpStepsLeft(e)' < OpStepsLeft(e)
<1>1. op[e] \in Stage /\ op'[e] \in Stage /\ todo[e] \subseteq Paths BY DEF CowTypeOK
<1>2. /\ FileCount \in Nat /\ FilesLeft(e) \in Nat /\ FilesLeft(e)' \in Nat
      /\ FileCount' = FileCount
  <2>1. IsFiniteSet(todo[e]) /\ IsFiniteSet(todo'[e])
    BY PathsAssumption, FS_Subset DEF CowTypeOK
  <2> QED BY <2>1, PathsAssumption, FS_CardinalityType DEF FileCount, FilesLeft
<1>3. /\ Ends(e, "ok") \/ Ends(e, "err") => op'[e] = "idle"
      /\ \A s \in Stage : GoTo(e, s, Paths) => op'[e] = s /\ FilesLeft(e)' = FileCount
      /\ \A s \in Stage : GoTo(e, s, todo[e]) => op'[e] = s /\ FilesLeft(e)' = FilesLeft(e)
      /\ \A p \in todo[e] : Handled(e, p) =>
            op'[e] = op[e] /\ FilesLeft(e)' = FilesLeft(e) - 1
  <2>1. Ends(e, "ok") \/ Ends(e, "err") => op'[e] = "idle"
    BY DEF Ends, SetOp, CowTypeOK
  <2>2. ASSUME NEW s \in Stage, GoTo(e, s, Paths)
        PROVE  op'[e] = s /\ FilesLeft(e)' = FileCount
    BY <2>2 DEF GoTo, CowTypeOK, FilesLeft, FileCount
  <2>3. ASSUME NEW s \in Stage, GoTo(e, s, todo[e])
        PROVE  op'[e] = s /\ FilesLeft(e)' = FilesLeft(e)
    BY <2>3 DEF GoTo, CowTypeOK, FilesLeft
  <2>4. ASSUME NEW p \in todo[e], Handled(e, p)
        PROVE  op'[e] = op[e] /\ FilesLeft(e)' = FilesLeft(e) - 1
    <3>1. op' = op /\ todo'[e] = todo[e] \ {p} BY <2>4 DEF Handled, CowTypeOK
    <3> QED BY <3>1, OneFileLess
  <2> QED BY <2>1, <2>2, <2>3, <2>4
<1>4. CASE ClearMerged(e)
  <2>1. op[e] = "clear" /\ (GoTo(e, "mirror", Paths) \/ Ends(e, "err"))
    BY <1>4 DEF ClearMerged
  <2>2. \/ op'[e] = "mirror" /\ FilesLeft(e)' = FileCount
        \/ op'[e] = "idle"
    BY <1>3, <2>1 DEF Stage
  <2> HIDE DEF FileCount, FilesLeft
  <2> QED BY <1>2, <2>1, <2>2 DEF OpStepsLeft
<1>5. CASE \E p \in Paths : MirrorFile(e, p) \/ OverlayFile(e, p)
  <2>1. PICK p \in Paths : MirrorFile(e, p) \/ OverlayFile(e, p) BY <1>5
  <2>2. /\ op[e] \in {"mirror", "overlay", "sync"} /\ p \in todo[e]
        /\ Handled(e, p) \/ Ends(e, "err")
    BY <2>1 DEF MirrorFile, OverlayFile
  <2>3. \/ op'[e] = op[e] /\ FilesLeft(e)' = FilesLeft(e) - 1
        \/ op'[e] = "idle"
    BY <1>3, <2>2
  <2> HIDE DEF FileCount, FilesLeft
  <2> QED BY <1>2, <2>2, <2>3 DEF OpStepsLeft
<1>6. CASE \E p \in Paths : CommitOpen(e, p)
  <2>1. PICK p \in Paths : CommitOpen(e, p) BY <1>6
  <2>2. op[e] = "commit" /\ p \in todo[e] BY <2>1 DEF CommitOpen
  <2>3. \/ op'[e] = "commit" /\ FilesLeft(e)' = FilesLeft(e) - 1
        \/ op'[e] = "writing" /\ FilesLeft(e)' = FilesLeft(e) - 1
        \/ op'[e] = "idle"
    <3>1. CASE Handled(e, p) BY <1>3, <2>2, <3>1
    <3>2. CASE Ends(e, "err") BY <1>3, <3>2
    <3>3. CASE op'[e] = "writing" /\ todo'[e] = todo[e] \ {p}
      BY <2>2, <3>3, OneFileLess
    <3> QED BY <2>1, <3>1, <3>2, <3>3 DEF CommitOpen, CowTypeOK
  <2> HIDE DEF FileCount, FilesLeft
  <2> QED BY <1>2, <2>2, <2>3 DEF OpStepsLeft
<1>7. CASE MirrorDone(e)
  <2>1. op[e] = "mirror" /\ GoTo(e, "overlay", Paths) BY <1>7 DEF MirrorDone
  <2>2. op'[e] = "overlay" /\ FilesLeft(e)' = FileCount BY <1>3, <2>1 DEF Stage
  <2> HIDE DEF FileCount, FilesLeft
  <2> QED BY <1>2, <2>1, <2>2 DEF OpStepsLeft
<1>8. CASE OverlayDone(e) \/ WipeUpper(e) \/ Unmount(e)
  <2>1. /\ op[e] \in {"overlay", "sync", "wipe", "unmount"}
        /\ Ends(e, "ok") \/ Ends(e, "err")
    BY <1>8 DEF OverlayDone, WipeUpper, Unmount
  <2>2. op'[e] = "idle" BY <1>3, <2>1
  <2> HIDE DEF FileCount, FilesLeft
  <2> QED BY <1>2, <2>1, <2>2 DEF OpStepsLeft
<1>9. CASE CommitWrite(e)
  <2>1. op[e] = "writing" BY <1>9 DEF CommitWrite
  <2>2. \/ op'[e] = "copyback" /\ FilesLeft(e)' = FilesLeft(e)
        \/ op'[e] = "idle"
    <3>1. CASE Ends(e, "err") BY <1>3, <3>1
    <3>2. CASE op' = [op EXCEPT ![e] = "copyback"] /\ todo' = todo
      BY <3>2 DEF CowTypeOK, FilesLeft
    <3> QED BY <1>9, <3>1, <3>2 DEF CommitWrite
  <2> HIDE DEF FileCount, FilesLeft
  <2> QED BY <1>2, <2>1, <2>2 DEF OpStepsLeft
<1>10. CASE CopyBack(e)
  <2>1. op[e] = "copyback" /\ (GoTo(e, "commit", todo[e]) \/ Ends(e, "err"))
    BY <1>10 DEF CopyBack
  <2>2. \/ op'[e] = "commit" /\ FilesLeft(e)' = FilesLeft(e)
        \/ op'[e] = "idle"
    BY <1>3, <2>1 DEF Stage
  <2> HIDE DEF FileCount, FilesLeft
  <2> QED BY <1>2, <2>1, <2>2 DEF OpStepsLeft
<1>11. CASE CommitDone(e)
  <2>1. op[e] = "commit" /\ GoTo(e, "wipe", {}) BY <1>11 DEF CommitDone
  <2>2. op'[e] = "wipe" BY <2>1 DEF GoTo, CowTypeOK
  <2> HIDE DEF FileCount, FilesLeft
  <2> QED BY <1>2, <2>1, <2>2 DEF OpStepsLeft
<1> QED BY <1>4, <1>5, <1>6, <1>7, <1>8, <1>9, <1>10, <1>11 DEF EngineStep
=============================================================================
