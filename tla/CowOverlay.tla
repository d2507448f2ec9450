----------------------------- MODULE CowOverlay -----------------------------
(***************************************************************************)
(* `CowEngine` of virtualization/engine.rs: overlay workspaces made of     *)
(* plain directories.  A mount fills merged_dir with hard links to the     *)
(* files of lower_dir and then with copies of the files of upper_dir; a    *)
(* commit copies the files of upper_dir over those of lower_dir, in place. *)
(* A hard link is the same file: what is written to it is written to       *)
(* lower_dir, and the other way round.                                     *)
(*                                                                         *)
(* An operation walks a directory and handles one file per step, in any    *)
(* order, and every file-system call may fail and end it with Err; nothing *)
(* is rolled back.  fs::copy truncates its target before it writes, so a   *)
(* copy that fails may leave a torn file.  Directories are not modelled,   *)
(* nor work_dir, which never holds a file.                                 *)
(***************************************************************************)
EXTENDS Naturals, FiniteSets

CONSTANTS
    Envs,           \* the environments: an upper_dir and a merged_dir each
    Paths,          \* relative paths of files, the same below each directory
    Contents,       \* what a file may hold
    InitialLower,   \* the workspaces lower_dir may hold at first
    BuildWrites,    \* the <<path, content>> a build run in merged_dir writes
    Absent, Torn, Linked, NoPath

ASSUME ContentsAssumption ==
    /\ {Absent, Torn, Linked} \intersect Contents = {}
    /\ Absent # Torn /\ Absent # Linked /\ Torn # Linked
ASSUME PathsAssumption == IsFiniteSet(Paths)
ASSUME NoPathAssumption == NoPath \notin Paths
ASSUME LowerAssumption == InitialLower \subseteq [Paths -> Contents \union {Absent}]
ASSUME BuildAssumption == BuildWrites \subseteq Paths \X Contents

File == Contents \union {Absent, Torn}

VARIABLES
    lower,      \* the host's files; every environment shares them
    upper,      \* the files of each environment's upper_dir
    merged,     \* those of its merged_dir; Linked: a hard link to lower's file
    op,         \* the operation each environment is in, and its stage
    todo,       \* the paths that stage has not handled yet
    at,         \* the path being committed
    result      \* how the environment's last operation ended

files == <<lower, upper, merged>>
cowVars == <<files, op, todo, at, result>>

Stage == {"new", "idle", "clear", "mirror", "overlay", "sync", "commit",
          "writing", "copyback", "wipe", "unmount"}

CowInit ==
    /\ lower \in InitialLower
    /\ upper  = [e \in Envs |-> [p \in Paths |-> Absent]]
    /\ merged = [e \in Envs |-> [p \in Paths |-> Absent]]
    /\ op     = [e \in Envs |-> "new"]
    /\ todo   = [e \in Envs |-> {}]
    /\ at     = [e \in Envs |-> NoPath]
    /\ result = [e \in Envs |-> "none"]

(* What a reader of merged_dir finds at p. *)
Seen(e, p) == IF merged[e][p] = Linked THEN lower[p] ELSE merged[e][p]

(* The operation goes to its next stage, or to the next path of this one... *)
GoTo(e, stage, paths) ==
    /\ op' = [op EXCEPT ![e] = stage]
    /\ todo' = [todo EXCEPT ![e] = paths]
    /\ at' = [at EXCEPT ![e] = NoPath]
    /\ UNCHANGED result

Handled(e, p) ==
    /\ todo' = [todo EXCEPT ![e] = @ \ {p}]
    /\ UNCHANGED <<op, at, result>>

(* ... or it ends, with "ok" or "err"; or one begins. *)
SetOp(e, stage, how) ==
    /\ op' = [op EXCEPT ![e] = stage]
    /\ todo' = [todo EXCEPT ![e] = {}]
    /\ at' = [at EXCEPT ![e] = NoPath]
    /\ result' = [result EXCEPT ![e] = how]

(* An operation that keeps its place when it ends. *)
EndsInPlace(e, how) ==
    /\ op' = [op EXCEPT ![e] = "idle"]
    /\ result' = [result EXCEPT ![e] = how]
    /\ UNCHANGED <<todo, at>>

Ends(e, how) == SetOp(e, "idle", how)

Starts(e, stage) ==
    /\ op[e] = "idle"
    /\ op' = [op EXCEPT ![e] = stage]
    /\ todo' = [todo EXCEPT ![e] = IF stage \in {"sync", "commit"} THEN Paths ELSE {}]
    /\ result' = [result EXCEPT ![e] = "none"]
    /\ UNCHANGED <<files, at>>

(* The files that a remove_dir_all of dir may leave when it fails half-way. *)
PartlyRemoved(dir) ==
    {d \in [Paths -> File \union {Linked}] : \A p \in Paths : d[p] \in {dir[p], Absent}}

Emptied == [p \in Paths |-> Absent]

SetMerged(e, p, f) == merged' = [merged EXCEPT ![e][p] = f]

-----------------------------------------------------------------------------
(* initialize creates the directories, or fails. *)
Initialize(e) ==
    /\ op[e] = "new"
    /\ Ends(e, "ok") \/ SetOp(e, "new", "err")
    /\ UNCHANGED files

(* mount: first merged_dir is removed and made anew... *)
StartMount(e) == Starts(e, "clear")

ClearMerged(e) ==
    /\ op[e] = "clear"
    /\ \/ merged' = [merged EXCEPT ![e] = Emptied] /\ GoTo(e, "mirror", Paths)
       \/ /\ \E d \in PartlyRemoved(merged[e]) : merged' = [merged EXCEPT ![e] = d]
          /\ Ends(e, "err")
    /\ UNCHANGED <<lower, upper>>

(* ... then mirror_links links or, where linking fails, copies each file; *)
(* reading a directory, making one and copying may fail...                *)
MirrorFile(e, p) ==
    /\ op[e] = "mirror"
    /\ p \in todo[e]
    /\ \/ lower[p] = Absent /\ Handled(e, p) /\ UNCHANGED merged
       \/ /\ lower[p] # Absent
          /\ \E f \in {Linked, lower[p]} : SetMerged(e, p, f)
          /\ Handled(e, p)
       \/ /\ \E f \in {Absent, Torn} : (f = Torn => lower[p] # Absent) /\ SetMerged(e, p, f)
          /\ Ends(e, "err")
    /\ UNCHANGED <<lower, upper>>

MirrorDone(e) ==
    /\ op[e] = "mirror"
    /\ todo[e] = {}
    /\ GoTo(e, "overlay", Paths)
    /\ UNCHANGED files

(* A copy onto the existing file: it writes through a hard link. *)
CopyOnto(e, p) ==
    IF merged[e][p] = Linked
    THEN lower' = [lower EXCEPT ![p] = upper[e][p]] /\ UNCHANGED merged
    ELSE SetMerged(e, p, upper[e][p]) /\ UNCHANGED lower

(* copy_file_atomic: the old file, or link, is removed before the copy... *)
Replace(e, p) == SetMerged(e, p, upper[e][p]) /\ UNCHANGED lower

(* ... which may fail and leave the old file, none, or a torn one. *)
ReplaceFails(e, p) ==
    \E f \in {merged[e][p], Absent, Torn} : SetMerged(e, p, f)

(* A comparison that trusts the file in merged_dir when there is one. *)
UpdateWhenAbsent(e, p) == {merged[e][p] = Absent}

(* needs_update, and TRUE where merged_dir has no such file: it never misses *)
(* a difference, and may copy equal files when their times differ.           *)
MayUpdate(e, p) == IF Seen(e, p) = upper[e][p] THEN BOOLEAN ELSE {TRUE}

(* sync_overlay_dir on one file of upper_dir; mount does not compare.  It may *)
(* fail before it touches the file, reading it or its directory.              *)
OverlayFile(e, p) ==
    /\ op[e] \in {"overlay", "sync"}
    /\ p \in todo[e]
    /\ \/ /\ upper[e][p] # Absent => op[e] = "sync" /\ FALSE \in MayUpdate(e, p)
          /\ Handled(e, p)
          /\ UNCHANGED <<lower, merged>>
       \/ /\ upper[e][p] # Absent
          /\ op[e] = "sync" => TRUE \in MayUpdate(e, p)
          /\ \/ Replace(e, p) /\ Handled(e, p)
             \/ ReplaceFails(e, p) /\ Ends(e, "err") /\ UNCHANGED lower
       \/ Ends(e, "err") /\ UNCHANGED <<lower, merged>>
    /\ UNCHANGED upper

(* The end of mount and of synchronize_upper. *)
OverlayDone(e) ==
    /\ op[e] \in {"overlay", "sync"}
    /\ todo[e] = {}
    /\ Ends(e, "ok")
    /\ UNCHANGED files

(* synchronize_upper: the scan of upper_dir that follows the drained events. *)
StartSync(e) == Starts(e, "sync")

-----------------------------------------------------------------------------
(* commit: apply_upper_to_lower_and_merged walks upper_dir... *)
StartCommit(e) == Starts(e, "commit")

(* ... fs::copy opens and truncates the host's file, or cannot... *)
CommitOpen(e, p) ==
    /\ op[e] = "commit"
    /\ p \in todo[e]
    /\ \/ upper[e][p] = Absent /\ Handled(e, p) /\ UNCHANGED lower
       \/ /\ upper[e][p] # Absent
          /\ lower' = [lower EXCEPT ![p] = Torn]
          /\ op' = [op EXCEPT ![e] = "writing"]
          /\ todo' = [todo EXCEPT ![e] = @ \ {p}]
          /\ at' = [at EXCEPT ![e] = p]
          /\ UNCHANGED result
       \/ Ends(e, "err") /\ UNCHANGED lower
    /\ UNCHANGED <<upper, merged>>

(* A failed write after which the workspace is cleaned up. *)
CommitWriteCleaning(e) ==
    /\ op[e] = "writing"
    /\ \/ /\ lower' = [lower EXCEPT ![at[e]] = upper[e][at[e]]]
          /\ op' = [op EXCEPT ![e] = "copyback"]
          /\ UNCHANGED <<upper, todo, at, result>>
       \/ /\ upper' = [upper EXCEPT ![e] = Emptied]
          /\ Ends(e, "err")
          /\ UNCHANGED lower
    /\ UNCHANGED merged

(* ... and writes it; if that fails the host's file stays torn... *)
CommitWrite(e) ==
    /\ op[e] = "writing"
    /\ \/ /\ lower' = [lower EXCEPT ![at[e]] = upper[e][at[e]]]
          /\ op' = [op EXCEPT ![e] = "copyback"]
          /\ UNCHANGED <<todo, at, result>>
       \/ Ends(e, "err") /\ UNCHANGED lower
    /\ UNCHANGED <<upper, merged>>

(* ... then the file of merged_dir is removed and copied too. *)
CopyBack(e) ==
    /\ op[e] = "copyback"
    /\ \/ SetMerged(e, at[e], upper[e][at[e]]) /\ GoTo(e, "commit", todo[e])
       \/ ReplaceFails(e, at[e]) /\ Ends(e, "err")
    /\ UNCHANGED <<lower, upper>>

(* A commit that wipes upper_dir as soon as one file is applied. *)
WipeEarly(e) ==
    /\ op[e] = "commit"
    /\ todo[e] # Paths
    /\ GoTo(e, "wipe", {})
    /\ UNCHANGED files

CommitDone(e) ==
    /\ op[e] = "commit"
    /\ todo[e] = {}
    /\ GoTo(e, "wipe", {})
    /\ UNCHANGED files

(* Every file applied: upper_dir and work_dir are emptied; the second may *)
(* fail after the first.                                                  *)
WipeUpper(e) ==
    /\ op[e] = "wipe"
    /\ \/ upper' = [upper EXCEPT ![e] = Emptied] /\ Ends(e, "ok")
       \/ /\ \E d \in PartlyRemoved(upper[e]) : upper' = [upper EXCEPT ![e] = d]
          /\ Ends(e, "err")
    /\ UNCHANGED <<lower, merged>>

(* teardown removes merged_dir and work_dir and leaves upper_dir. *)
StartTeardown(e) == Starts(e, "unmount")

Unmount(e) ==
    /\ op[e] = "unmount"
    /\ \/ merged' = [merged EXCEPT ![e] = Emptied] /\ Ends(e, "ok")
       \/ /\ \E d \in PartlyRemoved(merged[e]) : merged' = [merged EXCEPT ![e] = d]
          /\ Ends(e, "err")
    /\ UNCHANGED <<lower, upper>>

(* The steps of an operation once it is started. *)
EngineStep(e) ==
    \/ ClearMerged(e)
    \/ \E p \in Paths : MirrorFile(e, p) \/ OverlayFile(e, p) \/ CommitOpen(e, p)
    \/ MirrorDone(e)
    \/ OverlayDone(e)
    \/ CommitWrite(e)
    \/ CopyBack(e)
    \/ CommitDone(e)
    \/ WipeUpper(e)
    \/ Unmount(e)

(* A build writes to merged_dir: it puts a new file there, or it writes into *)
(* the file it finds, and if that is a hard link the host's file changes.    *)
BuildWrite(e) ==
    /\ \E x \in BuildWrites :
          \/ SetMerged(e, x[1], x[2]) /\ UNCHANGED lower
          \/ /\ merged[e][x[1]] = Linked
             /\ lower' = [lower EXCEPT ![x[1]] = x[2]]
             /\ UNCHANGED merged
    /\ UNCHANGED <<upper, op, todo, at, result>>

-----------------------------------------------------------------------------
(* The values the variables take; only a commit in the middle of a file has *)
(* a path, and only an operation that walks a directory has paths to do.    *)
CowTypeOK ==
    /\ lower \in [Paths -> File]
    /\ upper \in [Envs -> [Paths -> File]]
    /\ merged \in [Envs -> [Paths -> File \union {Linked}]]
    /\ op \in [Envs -> Stage]
    /\ todo \in [Envs -> SUBSET Paths]
    /\ at \in [Envs -> Paths \union {NoPath}]
    /\ result \in [Envs -> {"none", "ok", "err"}]
    /\ \A e \in Envs :
          /\ at[e] \in Paths <=> op[e] \in {"writing", "copyback"}
          /\ todo[e] # {} =>
                op[e] \in {"mirror", "overlay", "sync", "commit", "writing", "copyback"}
          /\ op[e] \notin {"new", "idle"} => result[e] = "none"
=============================================================================
