---------------------------- MODULE BuildValidator ----------------------------
(***************************************************************************)
(* `BuildValidator::validate` of main.rs: which commands are run in a      *)
(* directory, and what text a validation that fails gives.  The text is    *)
(* what the commands print, one after the other; of it is kept whether the *)
(* two phrases that GitRestorePatchGenerator looks for are in it, and the  *)
(* lines.  A command that cannot be started or runs into its timeout is    *)
(* one that fails.                                                         *)
(***************************************************************************)
EXTENDS Sequences

CONSTANTS
    Templates,  \* the contents of Cargo.toml that hold a placeholder
    Prints      \* [command -> what it may print, if it fails or if it succeeds]

Silence == [m4 |-> FALSE, notFound |-> FALSE, lines |-> <<>>]

(* append_output *)
Joined(a, b) ==
    [m4 |-> a.m4 \/ b.m4, notFound |-> a.notFound \/ b.notFound, lines |-> a.lines \o b.lines]

(* A manifest that is not to be built is valid. *)
IsTemplate(files) ==
    /\ \A f \in files : f.name \notin {"pyproject.toml", "setup.py"}
    /\ \E f \in files : f.name = "Cargo.toml" /\ f.content \in Templates

Commands(files) ==
    LET has(name) == \E f \in files : f.name = name
    IN IF has("setup.py") THEN <<"setup", "compileall">>
       ELSE IF has("pyproject.toml") THEN <<"pip3", "compileall">>
       ELSE IF has("Cargo.toml") THEN <<"cargo">> ELSE <<>>

(* Both Python commands are run, and either may be the one that fails; no   *)
(* command means no manifest that can be built, which is a failure too.     *)
Failures(files) ==
    LET commands == Commands(files)
        failing(c) == Prints[c].fails
        any(c) == Prints[c].fails \union Prints[c].succeeds
    IN IF IsTemplate(files) THEN {}
       ELSE IF commands = <<>> THEN {Silence}
       ELSE IF Len(commands) = 1 THEN failing(commands[1])
       ELSE {Joined(a, b) : a \in failing(commands[1]), b \in any(commands[2])}
              \union {Joined(a, b) : a \in any(commands[1]), b \in failing(commands[2])}
=============================================================================
