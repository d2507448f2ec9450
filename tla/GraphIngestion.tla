---------------------------- MODULE GraphIngestion ----------------------------
(***************************************************************************)
(* `IngestionEngine::discover` of scm/ingestion.rs: the walk over the      *)
(* directories and the graph of names it builds.  A source tree is the set *)
(* of its files; a directory is the sequence of the names from the root to *)
(* it.  read_dir lists entries in any order.  Node ids count from 1.       *)
(***************************************************************************)
EXTENDS Manifests, FiniteSets

CONSTANTS
    Trees,      \* the source trees discover is called on
    Languages,  \* the languages of manifests
    Hidden      \* the directory names that begin with a dot

VARIABLES
    tree,       \* the files
    outcome,    \* of discover: "walking", "ok", "err"; then "loaded", "ok"
    open,       \* the directories being read, the innermost one last
    entered,    \* the directories that are or were read
    visited,    \* the files that were looked at
    adding,     \* the manifest whose dependencies are being added
    pending,    \* its dependencies still to be added
    nodes,      \* StructuralCausalGraph.nodes
    edges,      \* StructuralCausalGraph.edges
    byName      \* StructuralCausalGraph.by_name

graphVars == <<nodes, edges, byName>>
walkVars == <<open, entered, visited, adding, pending>>
ingestVars == <<tree, outcome, walkVars, graphVars>>

Prefix(dir, n) == SubSeq(dir, 1, n)

(* The directories on the way to a file, and those found in a directory. *)
Directories(files) == UNION {{Prefix(f.dir, n) : n \in 1 .. Len(f.dir)} : f \in files}
SubdirsOf(dir) == {d \in Directories(tree) : Len(d) = Len(dir) + 1 /\ Prefix(d, Len(dir)) = dir}
FilesOf(dir) == {f \in tree : f.dir = dir}

Skipped(dirName) == dirName \in Hidden \union {"target", "node_modules"}

DependencyType == {"Compile", "Runtime", "Dev", "Feature", "Structural"}

ManifestOf(f) == Parsed(f)
IsManifest(f) == ManifestOf(f) # NoManifest

ASSUME TreesAssumption ==
    /\ "" \notin Languages
    /\ \A files \in Trees : \A f, g \in files :
          f.dir \in Seq(STRING) /\ f.dir # <<>> /\ f.dir[1] = g.dir[1]
    /\ \A files \in Trees : \A f \in files : IsManifest(f) =>
          /\ ManifestOf(f).language \in Languages
          /\ ManifestOf(f).deps \in Seq([name : STRING, type : DependencyType])
          /\ f.name = "go.mod" => f.content \in Seq(Seq(STRING))

IngestInit ==
    /\ tree \in Trees
    /\ outcome = "walking"
    /\ \E f \in tree : open = <<Prefix(f.dir, 1)>> /\ entered = {Prefix(f.dir, 1)}
    /\ visited = {}
    /\ adding = NoManifest /\ pending = <<>>
    /\ nodes = <<>> /\ edges = <<>> /\ byName = <<>>

Here == open[Len(open)]
Walking == outcome = "walking" /\ pending = <<>>

-----------------------------------------------------------------------------
With(f, x, y) == [z \in DOMAIN f \union {x} |-> IF z = x THEN y ELSE f[z]]

(* add_node, and ensure_node with it: a known name keeps its node. *)
AddNode(node) ==
    IF node.name \in DOMAIN byName
    THEN UNCHANGED <<nodes, byName>>
    ELSE /\ nodes' = Append(nodes, node)
         /\ byName' = With(byName, node.name, Len(nodes) + 1)

External(dep) ==
    [name |-> dep.name, path |-> adding.dir, language |-> Empty, type |-> "External"]

Package(f) ==
    [name |-> ManifestOf(f).name, path |-> f.dir, language |-> ManifestOf(f).language,
     type |-> "Package"]

(* A walk in which the first manifest of a name decides. *)
DescribeOnce(f) == AddNode(Package(f))

(* The package has a node, made now or found, with this path and language. *)
DescribePackage(f) ==
    LET name == ManifestOf(f).name
    IN IF name \in DOMAIN byName
       THEN nodes' = [nodes EXCEPT ![byName[name]] = Package(f)] /\ UNCHANGED byName
       ELSE AddNode(Package(f))

-----------------------------------------------------------------------------
(* The entries of the innermost directory, in any order: a directory... *)
EnterDirectory(d) ==
    /\ Walking
    /\ d \in SubdirsOf(Here) \ entered
    /\ entered' = entered \union {d}
    /\ open' = IF Skipped(d[Len(d)]) THEN open ELSE Append(open, d)
    /\ UNCHANGED <<tree, outcome, visited, adding, pending, graphVars>>

(* ... or a file, which may be a manifest... *)
VisitFile(f) ==
    /\ Walking
    /\ f \in FilesOf(Here) \ visited
    /\ visited' = visited \union {f}
    /\ IF IsManifest(f)
       THEN /\ DescribePackage(f)
            /\ adding' = [name |-> ManifestOf(f).name, dir |-> f.dir]
            /\ pending' = ManifestOf(f).deps
       ELSE UNCHANGED <<nodes, byName, adding, pending>>
    /\ UNCHANGED <<tree, outcome, open, entered, edges>>

(* ... whose dependencies are added one by one. *)
AddDependency ==
    /\ outcome = "walking"
    /\ pending # <<>>
    /\ LET dep == Head(pending)
       IN /\ AddNode(External(dep))
          /\ edges' = Append(edges, [from |-> byName[adding.name], to |-> byName'[dep.name],
                                     type |-> dep.type])
    /\ pending' = Tail(pending)
    /\ UNCHANGED <<tree, outcome, open, entered, visited, adding>>

(* A directory is read to its end, and the root with it the whole tree. *)
LeaveDirectory ==
    /\ Walking
    /\ SubdirsOf(Here) \subseteq entered /\ FilesOf(Here) \subseteq visited
    /\ IF Len(open) = 1 THEN outcome' = "ok" /\ UNCHANGED open
       ELSE open' = Prefix(open, Len(open) - 1) /\ UNCHANGED outcome
    /\ UNCHANGED <<tree, entered, visited, adding, pending, graphVars>>

(* A directory or an entry that cannot be read ends the discovery. *)
ReadFails ==
    /\ Walking
    /\ outcome' = "err"
    /\ UNCHANGED <<tree, walkVars, graphVars>>

(* The graph is written and read again: the index is not part of the text... *)
Reload ==
    /\ outcome = "ok"
    /\ outcome' = "loaded"
    /\ byName' = <<>>
    /\ UNCHANGED <<tree, walkVars, nodes, edges>>

(* ... and is computed from the nodes. *)
RebuildIndex ==
    /\ outcome = "loaded"
    /\ outcome' = "ok"
    /\ byName' = [name \in {nodes[n].name : n \in DOMAIN nodes} |->
                    CHOOSE n \in DOMAIN nodes :
                        /\ nodes[n].name = name
                        /\ \A m \in DOMAIN nodes : nodes[m].name = name => m <= n]
    /\ UNCHANGED <<tree, walkVars, nodes, edges>>

IngestNext ==
    \/ \E d \in Directories(tree) : EnterDirectory(d)
    \/ \E f \in tree : VisitFile(f)
    \/ AddDependency
    \/ LeaveDirectory
    \/ ReadFails
    \/ Reload
    \/ RebuildIndex

-----------------------------------------------------------------------------
NodeNames == {nodes[n].name : n \in DOMAIN nodes}

(* At every moment of a discovery, and after a reload: the index leads from *)
(* each name to its node and to nothing else, so that no name has two       *)
(* nodes; an edge joins two nodes; and a placeholder has neither language   *)
(* nor outgoing edges ("External nodes are included but have no outgoing    *)
(* edges", ingestion.rs:133), which is why the command may filter the units *)
(* by their language.                                                       *)
GraphWellFormed ==
    /\ outcome # "loaded" =>
          /\ DOMAIN byName = NodeNames
          /\ \A name \in DOMAIN byName :
                byName[name] \in DOMAIN nodes /\ nodes[byName[name]].name = name
    /\ \A n, m \in DOMAIN nodes : nodes[n].name = nodes[m].name => n = m
    /\ \A e \in DOMAIN edges :
          /\ {edges[e].from, edges[e].to} \subseteq DOMAIN nodes
          /\ nodes[edges[e].from].type = "Package"
    /\ \A n \in DOMAIN nodes :
          nodes[n].type = IF nodes[n].language = Empty THEN "External" ELSE "Package"

(* The dependencies a manifest declares, each with its place in it. *)
Declares(f) ==
    IF f.name = "go.mod" THEN {<<d[1], d[2], "Compile">> : d \in GoRequirements(f.content)}
    ELSE {<<i, ManifestOf(f).deps[i].name, ManifestOf(f).deps[i].type>> :
            i \in DOMAIN ManifestOf(f).deps}

Read == {f \in visited : IsManifest(f)}

(* Nothing of it is hidden, a build product or a vendored package. *)
Visible(f) == \A i \in 2 .. Len(f.dir) : ~Skipped(f.dir[i])

(* Between two files the graph says what the manifests read so far say,     *)
(* whatever the order of the listing: its nodes are the packages and their  *)
(* dependencies, a node is a package exactly if a manifest has its name,    *)
(* its path and language come from one and the same manifest of that name,  *)
(* and between two names there are as many edges of a kind as declarations. *)
(* When discover returns, all the visible manifests have been read.         *)
GraphOfManifests ==
    pending = <<>> =>
        LET packages == {Package(f) : f \in Read}
            declared == UNION {{<<f, d[1], Package(f).name, d[2], d[3]>> : d \in Declares(f)} :
                                  f \in Read}
            joins(e) == <<nodes[edges[e].from].name, nodes[edges[e].to].name, edges[e].type>>
        IN /\ NodeNames = {p.name : p \in packages} \union {d[4] : d \in declared}
           /\ \A n \in DOMAIN nodes :
                 IF nodes[n].name \in {p.name : p \in packages} THEN nodes[n] \in packages
                 ELSE nodes[n].type = "External"
           /\ Len(edges) = Cardinality(declared)
           /\ \A e \in DOMAIN edges :
                 Cardinality({o \in DOMAIN edges : joins(o) = joins(e)})
                   = Cardinality({d \in declared : <<d[3], d[4], d[5]>> = joins(e)})
           /\ outcome = "ok" => Read = {f \in tree : IsManifest(f) /\ Visible(f)}
=============================================================================
