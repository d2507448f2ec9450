---------------------------- MODULE RestorePatches ----------------------------
(***************************************************************************)
(* `GitRestorePatchGenerator::generate` of main.rs: the first Python file  *)
(* that the output of a failed build names is restored from the last       *)
(* commit.  A file name in the output is a record with its form and the    *)
(* names on the way to it:                                                 *)
(*   "dotted"   ./pkg/mod.py        "inside"   absolute, below the unit    *)
(*   "plain"    pkg/mod.py          "outside"  absolute, anywhere else     *)
(* A line of the output holds at most one name in double and one in single *)
(* quotes after the word File.                                             *)
(***************************************************************************)
EXTENDS Sequences, Integers

CONSTANTS
    Committed,  \* the files of the last commit, as names from the root on
    Top,        \* the top directory of the git repository
    NoFile      \* no name in quotes, or none that ends in .py

FileName == [form : {"dotted", "plain", "inside", "outside"}, names : Seq(STRING)]

(* A file has a name. *)
ASSUME CommittedAssumption == <<>> \notin Committed

(* extract_py_path: the first line that has one, double quotes first. *)
ExtractPyPath(lines) ==
    LET found == {i \in DOMAIN lines : lines[i].double # NoFile \/ lines[i].single # NoFile}
    IN IF found = {} THEN NoFile
       ELSE LET line == lines[CHOOSE i \in found : \A j \in found : i <= j]
            IN IF line.double # NoFile THEN line.double ELSE line.single

(* A generator that drops the dot of a path, as it means nothing to Path. *)
RelativeUndotted(file) ==
    IF file.form \in {"inside", "dotted"} THEN [file EXCEPT !.form = "plain"] ELSE file

(* strip_prefix, on the names that are absolute. *)
Relative(file) == IF file.form = "inside" THEN [file EXCEPT !.form = "plain"] ELSE file

(* `git show HEAD:path` in a directory of the repository: a path that begins *)
(* with a dot is looked up from that directory, any other from the top.      *)
Shown(file, dir) ==
    CASE file.form = "dotted" -> dir \o file.names
      [] file.form = "plain"  -> Top \o file.names
      [] OTHER                -> <<>>

MissingTool(message) == message.m4 /\ message.notFound

(* The list of patches: the file that is written in the upper directory of  *)
(* the unit, and the file of the commit whose content it gets.              *)
Generate(message, dir) ==
    LET file == ExtractPyPath(message.lines)
        shown == Shown(Relative(file), dir)
    IN IF MissingTool(message) \/ file = NoFile \/ shown \notin Committed THEN <<>>
       ELSE <<[path |-> dir \o file.names, content |-> shown]>>
=============================================================================
