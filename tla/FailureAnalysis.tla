---------------------------- MODULE FailureAnalysis ----------------------------
(***************************************************************************)
(* What happens to a failure before anything is written: the graph that    *)
(* discover built is searched for the cause, and the generator is asked    *)
(* for patches (router.rs `repair`, lines 219 and 220).  The unit that     *)
(* failed is a package, its directory was validated, and the generator     *)
(* runs git there.                                                         *)
(***************************************************************************)
EXTENDS CausalGradient, RestorePatches, BuildValidator

(* What a command prints has lines, with a name in each kind of quotes. *)
ASSUME PrintsAssumption ==
    \A command \in {"cargo", "setup", "pip3", "compileall"} :
        \A text \in Prints[command].fails \union Prints[command].succeeds :
            text.lines \in Seq([double : FileName \union {NoFile},
                               single : FileName \union {NoFile}])

VARIABLES
    message,    \* failure.message
    patches     \* the candidates

vars == <<ingestVars, gradientVars, message, patches>>

Init ==
    /\ IngestInit
    /\ GradientInit
    /\ message = Silence
    /\ patches = <<>>

(* The graph is complete before it is used. *)
Ingests == phase = "idle" /\ IngestNext /\ UNCHANGED <<gradientVars, message, patches>>

Diagnoses == GradientNext /\ UNCHANGED <<message, patches>>

(* What the validation of the failed unit may have printed. *)
Messages ==
    IF failed \in DOMAIN nodes /\ nodes[failed].type = "Package"
    THEN Failures(FilesOf(nodes[failed].path)) ELSE {}

GeneratePatches ==
    /\ phase = "reported"
    /\ message' \in Messages
    /\ patches' = Generate(message', nodes[failed].path)
    /\ phase' = "generated"
    /\ UNCHANGED <<ingestVars, failed, deltas, searchVars, cause>>

Ended ==
    /\ \/ outcome = "err" \/ phase = "generated"
       \/ phase = "reported" /\ Messages = {}
    /\ UNCHANGED vars

Next == Ingests \/ Diagnoses \/ GeneratePatches \/ Ended

Spec == Init /\ [][Next]_vars

-----------------------------------------------------------------------------
(* "Patch generator that restores corrupted Python files from the           *)
(* repository's git history" (main.rs:477): a patch writes to the first     *)
(* file that the output names, below the directory of the unit, and what it *)
(* writes is the committed content of that same file, if the name begins    *)
(* with a dot, as those that `compileall .` prints do, or the unit is the   *)
(* top of the repository.  Otherwise git looks the same name up from the    *)
(* top, where another file may have it.                                     *)
PatchRestoresNamedFile ==
    \A i \in DOMAIN patches :
        LET lines == message.lines
            first == CHOOSE n \in DOMAIN lines :
                        /\ {lines[n].double, lines[n].single} # {NoFile}
                        /\ \A m \in 1 .. n - 1 :
                              {lines[m].double, lines[m].single} = {NoFile}
            unit == nodes[failed].path
        IN \E file \in {lines[first].double, lines[first].single} \ {NoFile} :
              /\ patches[i].path = unit \o file.names
              /\ file.form = "dotted" \/ unit = Top => patches[i].content = patches[i].path
=============================================================================
