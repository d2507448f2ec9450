------------------------------ MODULE Manifests ------------------------------
(***************************************************************************)
(* The manifest parsers of scm/ingestion.rs: what each makes of a file, a  *)
(* package name, a language and the dependencies in the order in which     *)
(* they are added.  A file is a record with its directory (the names from  *)
(* the root on), its name and its content: for the two TOML formats the    *)
(* tables that are looked up, for the two line formats the lines, each cut *)
(* into words; a word of a dependency specification ends where a delimiter *)
(* of parse_pkg_name begins, and a delimiter is a word of its own.         *)
(***************************************************************************)
EXTENDS Integers, Sequences

CONSTANTS
    NoName,     \* a name that is not in the file
    Broken,     \* content that cannot be read, or is no TOML
    NoManifest  \* the answer for a file that names no package

Empty == ""
Delimiters == {" ", ";", "=", "<", ">", "!", "~", "["}

(* The package a manifest describes. *)
Manifest(name, language, deps) ==
    IF name \in {NoName, Empty} THEN NoManifest
    ELSE [name |-> name, language |-> language, deps |-> deps]

Typed(names, type) ==
    [i \in DOMAIN names |-> [name |-> names[i], type |-> type]]

PkgName(spec) == IF spec = <<>> \/ spec[1] \in Delimiters THEN Empty ELSE spec[1]

PkgNames(specs) == [i \in DOMAIN specs |-> PkgName(specs[i])]

-----------------------------------------------------------------------------
CargoToml(toml) ==
    Manifest(toml.name, "rust",
             Typed(toml.dependencies, "Compile")
               \o Typed(toml.devDependencies \o toml.buildDependencies, "Dev"))

(* Of a line of go.mod, tested in this order. *)
Blank(line) == line = <<>> \/ line[1] = "//"
NamesModule(line) == Len(line) > 1 /\ line[1] = "module"
OpensBlock(line) == Len(line) > 1 /\ line[1] = "require" /\ line[2] = "("
ClosesBlock(line) == line = <<")">>

(* A reader that stays in the block when it ends. *)
GoLineStaying(go, line) ==
    IF Blank(line) THEN go
    ELSE IF NamesModule(line) THEN [go EXCEPT !.name = line[2]]
    ELSE IF OpensBlock(line) THEN [go EXCEPT !.inRequire = TRUE]
    ELSE IF go.inRequire THEN [go EXCEPT !.deps = Append(@, line[1])]
    ELSE IF Len(line) > 1 /\ line[1] = "require"
         THEN [go EXCEPT !.deps = Append(@, line[2])] ELSE go

(* The body of the loop over the lines. *)
GoLine(go, line) ==
    IF Blank(line) THEN go
    ELSE IF NamesModule(line) THEN [go EXCEPT !.name = line[2]]
    ELSE IF OpensBlock(line) \/ ClosesBlock(line)
         THEN [go EXCEPT !.inRequire = OpensBlock(line)]
    ELSE IF go.inRequire THEN [go EXCEPT !.deps = Append(@, line[1])]
    ELSE IF Len(line) > 1 /\ line[1] = "require"
         THEN [go EXCEPT !.deps = Append(@, line[2])] ELSE go

GoMod(lines) ==
    LET Read[n \in 0 .. Len(lines)] ==
            IF n = 0 THEN [name |-> NoName, inRequire |-> FALSE, deps |-> <<>>]
            ELSE GoLine(Read[n - 1], lines[n])
        go == Read[Len(lines)]
    IN Manifest(go.name, "go", Typed(go.deps, "Compile"))

NotPython(name) == name # "python"

(* The groups of the optional dependencies, one after the other. *)
Flattened(groups) ==
    LET Upto[n \in 0 .. Len(groups)] ==
            IF n = 0 THEN <<>> ELSE Upto[n - 1] \o groups[n]
    IN Upto[Len(groups)]

Pyproject(toml) ==
    Manifest(IF toml.project.name # NoName THEN toml.project.name ELSE toml.poetry.name,
             "python",
             Typed(PkgNames(toml.project.dependencies), "Runtime")
               \o Typed(PkgNames(Flattened(toml.project.optional)), "Feature")
               \o Typed(SelectSeq(toml.poetry.dependencies, NotPython), "Runtime")
               \o Typed(toml.poetry.devDependencies, "Dev"))

(* Comments and options are passed over; the directory gives the name. *)
Requires(line) == line # <<>> /\ line[1] \notin {"#", "-"}

Requirements(dir, lines) ==
    Manifest(dir[Len(dir)], "python",
             Typed(PkgNames(SelectSeq(lines, Requires)), "Runtime"))

(* parse_manifest, whose errors are logged and the file then passed over. *)
Parsed(file) ==
    IF file.content = Broken THEN NoManifest
    ELSE CASE file.name = "Cargo.toml"        -> CargoToml(file.content)
           [] file.name = "go.mod"            -> GoMod(file.content)
           [] file.name = "pyproject.toml"    -> Pyproject(file.content)
           [] file.name = "requirements.txt"  -> Requirements(file.dir, file.content)
           [] OTHER                           -> NoManifest

-----------------------------------------------------------------------------
(* What a go.mod declares, said without a state: the places in it that name *)
(* a module it requires, alone on a line or inside a block, and the names.  *)
GoRequirements(lines) ==
    LET Inside(i) == \E j \in 1 .. i - 1 :
                        /\ OpensBlock(lines[j])
                        /\ \A k \in j + 1 .. i - 1 : ~ClosesBlock(lines[k])
        Entry(i) == ~Blank(lines[i]) /\ ~NamesModule(lines[i])
                    /\ ~OpensBlock(lines[i]) /\ ~ClosesBlock(lines[i])
        Single(i) == Entry(i) /\ ~Inside(i) /\ Len(lines[i]) > 1 /\ lines[i][1] = "require"
    IN {<<i, lines[i][1]>> : i \in {k \in DOMAIN lines : Entry(k) /\ Inside(k)}}
         \union {<<i, lines[i][2]>> : i \in {k \in DOMAIN lines : Single(k)}}
=============================================================================
