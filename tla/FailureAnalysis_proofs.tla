----------------------- MODULE FailureAnalysis_proofs -----------------------
(***************************************************************************)
(* Proofs about the graph that discover builds, the search on it and the   *)
(* patches, for any source trees, orders of the listing, changes and       *)
(* texts.  In this order: what is used of numbers and recursion; nodes,    *)
(* edges, index and the search; the strongest cause; the restored file;    *)
(* the reader of a go.mod; the graph of the manifests; the walk.           *)
(***************************************************************************)
EXTENDS FailureAnalysis, FiniteSetTheorems, SequenceTheorems, WellFoundedInduction, TLAPS

(* A set of natural numbers that is not empty has a least one. *)
LEMMA LeastNumber ==
    ASSUME NEW S \in SUBSET Nat, S # {}
    PROVE  \E n \in S : \A m \in S : n <= m
<1>1. PICK n \in S : \A m \in S : ~(<<m, n>> \in OpToRel(<, Nat))
  BY NatLessThanWellFounded, WFMin
<1>2. \A m \in S : ~(m < n) BY <1>1 DEF OpToRel
<1> QED BY <1>2

(* What is so at 0, and at a number if it is so at the one before, is so up *)
(* to N: the numbers at which it is so are given as a set.                  *)
LEMMA StepByStep ==
    ASSUME NEW N \in Nat, NEW S, 0 \in S, \A n \in 1 .. N : n - 1 \in S => n \in S
    PROVE  0 .. N \subseteq S
<1> DEFINE Bad == {n \in 0 .. N : n \notin S}
<1>1. SUFFICES ASSUME Bad # {} PROVE FALSE OBVIOUS
<1>2. PICK n \in Bad : \A m \in Bad : n <= m
  <2>1. Bad \in SUBSET Nat OBVIOUS
  <2> HIDE DEF Bad
  <2> QED BY <1>1, <2>1, LeastNumber
<1>3. n \in 0 .. N /\ n \notin S BY <1>2
<1>4. n \in 1 .. N /\ n - 1 \in 0 .. N /\ n - 1 < n BY <1>3
<1>5. n - 1 \notin Bad
  <2> HIDE DEF Bad
  <2> QED BY <1>2, <1>4
<1> QED BY <1>3, <1>4, <1>5

(* f begins with first, and step gives each value from the one before it. *)
Recursive(f, N, T, first, step) ==
    /\ f \in [0 .. N -> T]
    /\ f[0] = first
    /\ \A n \in 1 .. N : f[n] = step[<<n, f[n - 1]>>]

(* A function that is given by its first value and by how each value comes  *)
(* from the one before exists.                                              *)
LEMMA PrimitiveRecursion ==
    ASSUME NEW T, NEW N \in Nat, NEW first \in T, NEW step \in [(1 .. N) \X T -> T]
    PROVE  \E f : Recursive(f, N, T, first, step)
<1> DEFINE Upto(k, f) == f[0] = first /\ \A n \in 1 .. k : f[n] = step[<<n, f[n - 1]>>]
           S == {k \in 0 .. N : \E f \in [0 .. k -> T] : Upto(k, f)}
<1>1. 0 \in S
  <2> DEFINE f == [n \in 0 .. 0 |-> first]
  <2>1. f \in [0 .. 0 -> T] /\ f[0] = first OBVIOUS
  <2>2. 1 .. 0 = {} OBVIOUS
  <2>3. Upto(0, f) BY <2>1, <2>2
  <2> HIDE DEF f, Upto
  <2> QED BY <2>1, <2>3 DEF S
<1>2. ASSUME NEW k \in 1 .. N, k - 1 \in S PROVE k \in S
  <2>1. PICK g \in [0 .. k - 1 -> T] : Upto(k - 1, g) BY <1>2
  <2> DEFINE f == [n \in 0 .. k |-> IF n = k THEN step[<<k, g[k - 1]>>] ELSE g[n]]
  <2>2. g[k - 1] \in T /\ <<k, g[k - 1]>> \in (1 .. N) \X T BY <2>1
  <2>3. f \in [0 .. k -> T] BY <2>1, <2>2
  <2>4. \A n \in 0 .. k - 1 : f[n] = g[n] BY <2>1
  <2>5. f[k] = step[<<k, f[k - 1]>>]
    <3>1. f[k] = step[<<k, g[k - 1]>>] /\ k - 1 \in 0 .. k - 1 OBVIOUS
    <3>2. f[k - 1] = g[k - 1] BY <2>4, <3>1
    <3> QED BY <3>1, <3>2
  <2>6. ASSUME NEW n \in 1 .. k PROVE f[n] = step[<<n, f[n - 1]>>]
    <3>1. CASE n = k BY <2>5, <3>1
    <3>2. CASE n # k BY <2>1, <2>4, <3>2
    <3> QED BY <3>1, <3>2
  <2>7. f[0] = first BY <2>1, <2>4
  <2>8. Upto(k, f) BY <2>6, <2>7
  <2> HIDE DEF f
  <2> QED BY <2>3, <2>8
<1> HIDE DEF S
<1>3. N \in S BY <1>1, <1>2, StepByStep
<1>4. PICK f \in [0 .. N -> T] : Upto(N, f) BY <1>3 DEF S
<1> QED BY <1>4 DEF Recursive

(* A numbering of a set is extended by one more element. *)
LEMMA OneMore ==
    ASSUME NEW n \in Nat, NEW S, NEW h \in Bijection(1 .. n, S), NEW x, x \notin S
    PROVE  LET g == [i \in 1 .. n + 1 |-> IF i = n + 1 THEN x ELSE h[i]]
           IN g \in Bijection(1 .. n + 1, S \union {x})
<1> DEFINE g == [i \in 1 .. n + 1 |-> IF i = n + 1 THEN x ELSE h[i]]
<1>1. /\ h \in [1 .. n -> S]
      /\ \A i, j \in 1 .. n : h[i] = h[j] => i = j
      /\ \A s \in S : \E i \in 1 .. n : h[i] = s
  BY DEF Bijection, Injection, Surjection, IsInjective
<1>2. \A i \in 1 .. n : i \in 1 .. n + 1 /\ i # n + 1 /\ g[i] = h[i] OBVIOUS
<1>3. n + 1 \in 1 .. n + 1 /\ g[n + 1] = x OBVIOUS
<1>4. \A i \in 1 .. n + 1 : i = n + 1 \/ i \in 1 .. n OBVIOUS
<1>5. DOMAIN g = 1 .. n + 1 /\ g = [i \in 1 .. n + 1 |-> g[i]] OBVIOUS
<1> HIDE DEF g
<1>6. g \in [1 .. n + 1 -> S \union {x}] BY <1>1, <1>2, <1>3, <1>4, <1>5
<1>7. \A i, j \in 1 .. n + 1 : g[i] = g[j] => i = j BY <1>1, <1>2, <1>3, <1>4
<1>8. \A s \in S \union {x} : \E i \in 1 .. n + 1 : g[i] = s BY <1>1, <1>2, <1>3
<1>9. g \in Bijection(1 .. n + 1, S \union {x})
  BY <1>6, <1>7, <1>8 DEF Bijection, Injection, Surjection, IsInjective
<1> QED BY <1>9 DEF g

(* A numbered set has as many elements as numbers... *)
LEMMA Numbered ==
    ASSUME NEW n \in Nat, NEW S, Bijection(1 .. n, S) # {}
    PROVE  Cardinality(S) = n
<1>1. ExistsBijection(1 .. n, S) BY DEF ExistsBijection
<1>2. IsFiniteSet(1 .. n) /\ Cardinality(1 .. n) = n BY FS_Interval
<1> QED BY <1>1, <1>2, FS_Bijection

(* ... and so has the part of it that corresponds to some of the numbers. *)
LEMMA Counted ==
    ASSUME NEW n \in Nat, NEW S, NEW h \in Bijection(1 .. n, S),
           NEW P \in SUBSET (1 .. n), NEW Q \in SUBSET S,
           \A i \in 1 .. n : i \in P <=> h[i] \in Q
    PROVE  Cardinality(P) = Cardinality(Q)
<1>1. /\ h \in [1 .. n -> S]
      /\ \A i, j \in 1 .. n : h[i] = h[j] => i = j
      /\ \A s \in S : \E i \in 1 .. n : h[i] = s
  BY DEF Bijection, Injection, Surjection, IsInjective
<1> DEFINE g == [i \in P |-> h[i]]
<1>2. g \in [P -> Q] BY <1>1
<1>3. \A i, j \in P : g[i] = g[j] => i = j BY <1>1
<1>4. \A q \in Q : \E i \in P : g[i] = q BY <1>1
<1>5. g \in Bijection(P, Q)
  BY <1>2, <1>3, <1>4 DEF Bijection, Injection, Surjection, IsInjective
<1>6. ExistsBijection(P, Q) BY <1>5 DEF ExistsBijection
<1>7. IsFiniteSet(P)
  <2>1. IsFiniteSet(1 .. n) BY FS_Interval
  <2> QED BY <2>1, FS_Subset
<1> QED BY <1>6, <1>7, FS_Bijection

-----------------------------------------------------------------------------
Files == UNION Trees

Node == [name : {ManifestOf(f).name : f \in {g \in Files : IsManifest(g)}} \union STRING,
         path : {f.dir : f \in Files},
         language : Languages \union {Empty},
         type : {"Package", "External"}]

Edge == [from : Nat, to : Nat, type : DependencyType]

Kinds == \A n \in DOMAIN nodes :
            nodes[n].type = IF nodes[n].language = Empty THEN "External" ELSE "Package"

OneNodeEach == \A n, m \in DOMAIN nodes : nodes[n].name = nodes[m].name => n = m

Index ==
    /\ DOMAIN byName = NodeNames
    /\ \A name \in DOMAIN byName :
          byName[name] \in DOMAIN nodes /\ nodes[byName[name]].name = name

EdgesJoin == \A e \in DOMAIN edges :
                /\ {edges[e].from, edges[e].to} \subseteq DOMAIN nodes
                /\ nodes[edges[e].from].type = "Package"

GraphInv ==
    /\ nodes \in Seq(Node) /\ edges \in Seq(Edge)
    /\ Kinds /\ OneNodeEach /\ EdgesJoin
    /\ outcome # "loaded" => Index

(* The package whose dependencies are being added has its node. *)
AddingInv ==
    /\ tree \in Trees
    /\ pending \in Seq([name : STRING, type : DependencyType])
    /\ pending # <<>> =>
          /\ outcome = "walking"
          /\ adding.dir \in {f.dir : f \in Files}
          /\ adding.name \in DOMAIN byName
          /\ nodes[byName[adding.name]].type = "Package"

Found == DOMAIN distances

(* The edges that the search has looked at: those of a node that is no      *)
(* longer queued, and those of the head before scan.                        *)
LookedAt(e) ==
    /\ edges[e].from \in Found
    /\ \/ \A i \in DOMAIN queue : queue[i] # edges[e].from
       \/ queue # <<>> /\ edges[e].from = Head(queue) /\ e < scan

(* The queue is in the order of the distances, of which it holds two. *)
Searching ==
    /\ failed \in Found /\ Found \subseteq DOMAIN nodes
    /\ distances \in [Found -> Nat]
    /\ queue \in Seq(Found)
    /\ scan \in Nat \ {0}
    /\ \A n \in Found : distances[n] = 0 <=> n = failed
    /\ \A i, j \in DOMAIN queue : i < j => distances[queue[i]] <= distances[queue[j]]
    /\ queue # <<>> => \A n \in Found : distances[n] <= distances[Head(queue)] + 1
    /\ \A e \in DOMAIN edges : LookedAt(e) =>
          /\ edges[e].to \in Found
          /\ distances[edges[e].to] <= distances[edges[e].from] + 1
    /\ \A n \in Found \ {failed} : \E e \in DOMAIN edges :
          /\ edges[e].to = n
          /\ edges[e].from \in Found
          /\ distances[n] = distances[edges[e].from] + 1

SearchInv ==
    /\ phase \in {"idle", "search", "score", "reported", "generated"}
    /\ phase = "idle" => scan = 1
    /\ phase = "search" => Searching
    /\ DistancesShortest

Inv == GraphInv /\ AddingInv /\ SearchInv

-----------------------------------------------------------------------------
(* What a manifest gives is of the right kind, whatever parser read it. *)
LEMMA ManifestFacts ==
    ASSUME tree \in Trees, NEW f \in tree, IsManifest(f)
    PROVE  /\ Package(f) \in Node /\ Package(f).name = ManifestOf(f).name
           /\ Package(f).type = "Package" /\ Package(f).language # Empty
           /\ ManifestOf(f).deps \in Seq([name : STRING, type : DependencyType])
           /\ f.dir \in {g.dir : g \in Files}
<1>1. f \in Files BY DEF Files
<1>2. ManifestOf(f).language \in Languages /\ "" \notin Languages
      /\ ManifestOf(f).deps \in Seq([name : STRING, type : DependencyType])
  BY TreesAssumption
<1> QED BY <1>1, <1>2 DEF Package, Node, Empty

(* Adding a node: a name that is known keeps its node, another gets one at   *)
(* the end.                                                                  *)
LEMMA AddNodeFacts ==
    ASSUME nodes \in Seq(Node), Kinds, OneNodeEach, Index,
           NEW node \in Node, node.type = IF node.language = Empty THEN "External" ELSE "Package",
           AddNode(node)
    PROVE  /\ nodes' \in Seq(Node) /\ Kinds' /\ OneNodeEach' /\ Index'
           /\ DOMAIN nodes \subseteq DOMAIN nodes'
           /\ \A n \in DOMAIN nodes : nodes'[n] = nodes[n]
           /\ node.name \in DOMAIN byName'
           /\ \A name \in DOMAIN byName : name \in DOMAIN byName' /\ byName'[name] = byName[name]
           /\ node.name \notin DOMAIN byName => nodes'[byName'[node.name]] = node
<1>1. CASE node.name \in DOMAIN byName
  BY <1>1 DEF AddNode, Kinds, OneNodeEach, Index, NodeNames
<1>2. CASE node.name \notin DOMAIN byName
  <2> DEFINE k == Len(nodes) + 1
  <2>1. nodes' = Append(nodes, node) /\ byName' = With(byName, node.name, k)
    BY <1>2 DEF AddNode
  <2>2. DOMAIN nodes = 1 .. Len(nodes) /\ Len(nodes) \in Nat OBVIOUS
  <2>3. /\ nodes' \in Seq(Node) /\ DOMAIN nodes' = 1 .. k /\ nodes'[k] = node
        /\ \A n \in DOMAIN nodes : nodes'[n] = nodes[n]
    BY <2>1
  <2>4. DOMAIN nodes' = DOMAIN nodes \union {k} /\ k \notin DOMAIN nodes BY <2>2, <2>3
  <2>5. /\ DOMAIN byName' = DOMAIN byName \union {node.name} /\ byName'[node.name] = k
        /\ \A name \in DOMAIN byName : byName'[name] = byName[name]
    BY <1>2, <2>1 DEF With
  <2>6. \A n \in DOMAIN nodes : nodes[n].name # node.name BY <1>2 DEF Index, NodeNames
  <2>7. Kinds' BY <2>3, <2>4 DEF Kinds
  <2>8. OneNodeEach' BY <2>3, <2>4, <2>6 DEF OneNodeEach
  <2>9. NodeNames' = NodeNames \union {node.name} BY <2>3, <2>4 DEF NodeNames
  <2>10. Index' BY <2>3, <2>4, <2>5, <2>9 DEF Index
  <2> QED BY <2>3, <2>4, <2>5, <2>7, <2>8, <2>10
<1> QED BY <1>1, <1>2

(* The graph stays well formed when edges keep their nodes. *)
LEMMA EdgesKept ==
    ASSUME EdgesJoin, edges' = edges, DOMAIN nodes \subseteq DOMAIN nodes',
           \A n \in DOMAIN nodes : nodes[n].type = "Package" => nodes'[n].type = "Package"
    PROVE  EdgesJoin'
  BY DEF EdgesJoin

(* A file is looked at, and its package described. *)
LEMMA VisitKeeps ==
    ASSUME GraphInv, AddingInv, NEW f \in tree, VisitFile(f)
    PROVE  GraphInv' /\ AddingInv'
<1>1. /\ outcome = "walking" /\ pending = <<>> /\ UNCHANGED <<tree, outcome, edges>>
      /\ nodes \in Seq(Node) /\ edges \in Seq(Edge) /\ tree \in Trees
      /\ Kinds /\ OneNodeEach /\ EdgesJoin /\ Index
  BY DEF VisitFile, Walking, GraphInv, AddingInv
<1>2. CASE ~IsManifest(f)
  <2>1. UNCHANGED <<nodes, byName, adding, pending>> BY <1>2 DEF VisitFile
  <2> QED BY <1>1, <2>1
        DEF GraphInv, AddingInv, Kinds, OneNodeEach, EdgesJoin, Index, NodeNames
<1>3. CASE IsManifest(f)
  <2> DEFINE p == Package(f)
  <2>1. /\ DescribePackage(f)
        /\ adding' = [name |-> ManifestOf(f).name, dir |-> f.dir]
        /\ pending' = ManifestOf(f).deps
    BY <1>3 DEF VisitFile
  <2>2. /\ p \in Node /\ p.name = ManifestOf(f).name /\ p.type = "Package" /\ p.language # Empty
        /\ pending' \in Seq([name : STRING, type : DependencyType])
        /\ f.dir \in {g.dir : g \in Files}
    BY <1>1, <1>3, <2>1, ManifestFacts
  <2> HIDE DEF p
  <2>3. /\ nodes' \in Seq(Node) /\ Kinds' /\ OneNodeEach' /\ EdgesJoin' /\ Index'
        /\ p.name \in DOMAIN byName' /\ nodes'[byName'[p.name]].type = "Package"
    <3>1. CASE p.name \in DOMAIN byName
      <4> DEFINE k == byName[p.name]
      <4>1. nodes' = [nodes EXCEPT ![k] = p] /\ byName' = byName
        BY <2>1, <2>2, <3>1 DEF DescribePackage, p
      <4>2. k \in DOMAIN nodes /\ nodes[k].name = p.name BY <1>1, <3>1 DEF Index
      <4>3. /\ nodes' \in Seq(Node) /\ DOMAIN nodes' = DOMAIN nodes /\ nodes'[k] = p
            /\ \A n \in DOMAIN nodes \ {k} : nodes'[n] = nodes[n]
        BY <1>1, <2>2, <4>1, <4>2
      <4>4. \A n \in DOMAIN nodes : nodes'[n].name = nodes[n].name BY <4>2, <4>3
      <4>5. Kinds' BY <1>1, <2>2, <4>3 DEF Kinds
      <4>6. OneNodeEach' BY <1>1, <4>3, <4>4 DEF OneNodeEach
      <4>7. NodeNames' = NodeNames BY <4>3, <4>4 DEF NodeNames
      <4>8. Index' BY <1>1, <4>1, <4>3, <4>4, <4>7 DEF Index
      <4>9. EdgesJoin' BY <1>1, <2>2, <4>3, EdgesKept
      <4> QED BY <2>2, <3>1, <4>1, <4>3, <4>5, <4>6, <4>8, <4>9
    <3>2. CASE p.name \notin DOMAIN byName
      <4>1. AddNode(p) BY <2>1, <2>2, <3>2 DEF DescribePackage, p
      <4>2. p.type = IF p.language = Empty THEN "External" ELSE "Package" BY <2>2
      <4>3. /\ nodes' \in Seq(Node) /\ Kinds' /\ OneNodeEach' /\ Index'
            /\ DOMAIN nodes \subseteq DOMAIN nodes'
            /\ \A n \in DOMAIN nodes : nodes'[n] = nodes[n]
            /\ p.name \in DOMAIN byName' /\ nodes'[byName'[p.name]] = p
        BY <1>1, <2>2, <3>2, <4>1, <4>2, AddNodeFacts
      <4>4. EdgesJoin' BY <1>1, <4>3, EdgesKept
      <4> QED BY <2>2, <4>3, <4>4
    <3> QED BY <3>1, <3>2
  <2>4. GraphInv' BY <1>1, <2>3 DEF GraphInv
  <2>5. adding'.name = p.name /\ adding'.dir = f.dir BY <2>1, <2>2
  <2>6. AddingInv' BY <1>1, <2>2, <2>3, <2>5 DEF AddingInv
  <2> QED BY <2>4, <2>6
<1> QED BY <1>2, <1>3

(* A dependency is added, with a placeholder if its package is not known. *)
LEMMA AddDependencyKeeps ==
    ASSUME GraphInv, AddingInv, AddDependency PROVE GraphInv' /\ AddingInv'
<1> DEFINE dep == Head(pending)
           x == External(dep)
           k == byName[adding.name]
           e == [from |-> k, to |-> byName'[dep.name], type |-> dep.type]
<1>1. /\ outcome = "walking" /\ pending # <<>> /\ UNCHANGED <<tree, outcome, adding>>
      /\ AddNode(x) /\ edges' = Append(edges, e) /\ pending' = Tail(pending)
  BY DEF AddDependency
<1>2. /\ nodes \in Seq(Node) /\ edges \in Seq(Edge) /\ tree \in Trees
      /\ Kinds /\ OneNodeEach /\ EdgesJoin /\ Index
      /\ pending \in Seq([name : STRING, type : DependencyType])
      /\ adding.dir \in {f.dir : f \in Files} /\ adding.name \in DOMAIN byName
      /\ nodes[k].type = "Package"
  BY <1>1 DEF GraphInv, AddingInv
<1>3. dep.name \in STRING /\ dep.type \in DependencyType
      /\ pending' \in Seq([name : STRING, type : DependencyType])
  <2> DEFINE R == [name : STRING, type : DependencyType]
  <2>1. pending \in Seq(R) BY <1>2
  <2> HIDE DEF R
  <2>2. dep \in R /\ Tail(pending) \in Seq(R) BY <1>1, <2>1
  <2> QED BY <1>1, <2>2 DEF R
<1>4. x \in Node /\ x.name = dep.name /\ x.type = "External" /\ x.language = Empty
  BY <1>2, <1>3 DEF External, Node
<1> HIDE DEF dep, x
<1>5. /\ nodes' \in Seq(Node) /\ Kinds' /\ OneNodeEach' /\ Index'
      /\ DOMAIN nodes \subseteq DOMAIN nodes'
      /\ \A n \in DOMAIN nodes : nodes'[n] = nodes[n]
      /\ dep.name \in DOMAIN byName'
      /\ \A name \in DOMAIN byName : name \in DOMAIN byName' /\ byName'[name] = byName[name]
  BY <1>1, <1>2, <1>4, AddNodeFacts
<1>6. k \in DOMAIN nodes /\ byName'[dep.name] \in DOMAIN nodes' BY <1>2, <1>5 DEF Index
<1>7. DOMAIN nodes \subseteq Nat /\ DOMAIN nodes' \subseteq Nat BY <1>2, <1>5
<1>8. e \in Edge BY <1>3, <1>6, <1>7 DEF Edge
<1>9. /\ edges' \in Seq(Edge) /\ DOMAIN edges' = DOMAIN edges \union {Len(edges) + 1}
      /\ edges'[Len(edges) + 1] = e /\ \A d \in DOMAIN edges : edges'[d] = edges[d]
  BY <1>1, <1>2, <1>8
<1>10. e.from = k /\ e.to = byName'[dep.name] OBVIOUS
<1> HIDE DEF e
<1>11. EdgesJoin'
  <2>1. \A d \in DOMAIN edges : /\ {edges'[d].from, edges'[d].to} \subseteq DOMAIN nodes'
                                /\ nodes'[edges'[d].from].type = "Package"
    BY <1>2, <1>5, <1>9 DEF EdgesJoin
  <2>2. {e.from, e.to} \subseteq DOMAIN nodes' /\ nodes'[e.from].type = "Package"
    BY <1>2, <1>5, <1>6, <1>10
  <2> QED BY <1>9, <2>1, <2>2 DEF EdgesJoin
<1>12. GraphInv' BY <1>5, <1>9, <1>11 DEF GraphInv
<1>13. nodes'[byName'[adding.name]].type = "Package" BY <1>2, <1>5, <1>6
<1>14. AddingInv' BY <1>1, <1>2, <1>3, <1>5, <1>13 DEF AddingInv
<1> QED BY <1>12, <1>14

(* The walk, and the graph that is read back without its index. *)
LEMMA IngestKeeps ==
    ASSUME GraphInv, AddingInv, IngestNext PROVE GraphInv' /\ AddingInv'
<1>1. CASE \E f \in tree : VisitFile(f) BY <1>1, VisitKeeps
<1>2. CASE AddDependency BY <1>2, AddDependencyKeeps
<1>3. CASE (\E d \in Directories(tree) : EnterDirectory(d)) \/ LeaveDirectory \/ ReadFails
  <2>1. /\ UNCHANGED <<tree, adding, pending, nodes, edges, byName>>
        /\ outcome = "walking" /\ pending = <<>>
    BY <1>3 DEF EnterDirectory, LeaveDirectory, ReadFails, Walking, graphVars, walkVars
  <2> QED BY <2>1 DEF GraphInv, AddingInv, Kinds, OneNodeEach, EdgesJoin, Index, NodeNames
<1>4. CASE Reload
  <2>1. UNCHANGED <<tree, adding, pending, nodes, edges>> /\ outcome = "ok" /\ outcome' = "loaded"
    BY <1>4 DEF Reload, walkVars
  <2>2. pending = <<>> BY <2>1 DEF AddingInv
  <2> QED BY <2>1, <2>2 DEF GraphInv, AddingInv, Kinds, OneNodeEach, EdgesJoin
<1>5. CASE RebuildIndex
  <2>1. /\ UNCHANGED <<tree, adding, pending, nodes, edges>>
        /\ outcome = "loaded" /\ outcome' = "ok"
        /\ byName' = [name \in {nodes[n].name : n \in DOMAIN nodes} |->
                        CHOOSE n \in DOMAIN nodes :
                            /\ nodes[n].name = name
                            /\ \A m \in DOMAIN nodes : nodes[m].name = name => m <= n]
    BY <1>5 DEF RebuildIndex, walkVars
  <2>2. pending = <<>> BY <2>1 DEF AddingInv
  <2>3. NodeNames' = NodeNames BY <2>1 DEF NodeNames
  <2>4. ASSUME NEW name \in NodeNames
        PROVE  byName'[name] \in DOMAIN nodes /\ nodes[byName'[name]].name = name
    <3>1. PICK n \in DOMAIN nodes : nodes[n].name = name BY DEF NodeNames
    <3>2. \A m \in DOMAIN nodes : nodes[m].name = name => m = n
      BY <3>1 DEF GraphInv, OneNodeEach
    <3>3. n \in Nat BY <3>1 DEF GraphInv
    <3>4. \A m \in DOMAIN nodes : nodes[m].name = name => m <= n BY <3>2, <3>3
    <3>5. byName'[name] = CHOOSE k \in DOMAIN nodes :
                            /\ nodes[k].name = name
                            /\ \A m \in DOMAIN nodes : nodes[m].name = name => m <= k
      BY <2>1 DEF NodeNames
    <3> QED BY <3>1, <3>4, <3>5
  <2>5. DOMAIN byName' = NodeNames BY <2>1 DEF NodeNames
  <2>6. Index' BY <2>1, <2>3, <2>4, <2>5 DEF Index
  <2> QED BY <2>1, <2>2, <2>6 DEF GraphInv, AddingInv, Kinds, OneNodeEach, EdgesJoin
<1> QED BY <1>1, <1>2, <1>3, <1>4, <1>5 DEF IngestNext

-----------------------------------------------------------------------------
(* The search begins with the failing node, at distance 0. *)
LEMMA DiagnoseKeeps == ASSUME GraphInv, SearchInv, Diagnose PROVE SearchInv'
<1>1. /\ phase = "idle" /\ scan = 1 /\ UNCHANGED <<nodes, edges, scan>>
      /\ nodes \in Seq(Node) /\ edges \in Seq(Edge)
  BY DEF Diagnose, ingestVars, graphVars, SearchInv, GraphInv
<1>2. CASE failed' \in DOMAIN nodes
  <2>1. /\ phase' = "search" /\ distances' = [n \in {failed'} |-> 0] /\ queue' = <<failed'>>
    BY <1>2 DEF Diagnose
  <2>2. /\ Found' = {failed'} /\ distances'[failed'] = 0
        /\ DOMAIN queue' = {1} /\ queue'[1] = failed' /\ Head(queue') = failed'
        /\ queue' \in Seq({failed'})
    BY <2>1 DEF Found
  <2>3. distances' \in [Found' -> Nat] BY <2>1, <2>2
  <2>4. \A e \in DOMAIN edges : ~LookedAt(e)' BY <1>1, <2>2 DEF LookedAt
  <2>5. Searching' BY <1>1, <1>2, <2>2, <2>3, <2>4 DEF Searching
  <2> QED BY <2>1, <2>5 DEF SearchInv, DistancesShortest
<1>3. CASE failed' \notin DOMAIN nodes
  <2>1. phase' \in {"score", "reported"} BY <1>3 DEF Diagnose
  <2> QED BY <1>1, <1>3, <2>1 DEF SearchInv, DistancesShortest
<1> QED BY <1>2, <1>3

(* What is known of the head of the queue, and of the edge that is looked at. *)
LEMMA HeadFacts ==
    ASSUME GraphInv, Searching, queue # <<>>
    PROVE  /\ queue \in Seq(Found) /\ Len(queue) \in Nat \ {0} /\ DOMAIN queue = 1 .. Len(queue)
           /\ Head(queue) = queue[1] /\ Head(queue) \in Found
           /\ \A n \in Found : distances[n] \in Nat
           /\ \A i \in DOMAIN queue : queue[i] \in Found
           /\ Found \subseteq DOMAIN nodes /\ nodes \in Seq(Node)
           /\ DOMAIN edges = 1 .. Len(edges) /\ Len(edges) \in Nat
           /\ \A e \in DOMAIN edges : edges[e].from \in DOMAIN nodes /\ edges[e].to \in DOMAIN nodes
           /\ scan \in Nat
<1>1. queue \in Seq(Found) BY DEF Searching
<1>2. Len(queue) \in Nat \ {0} /\ DOMAIN queue = 1 .. Len(queue) /\ Head(queue) = queue[1]
      /\ \A i \in DOMAIN queue : queue[i] \in Found
  BY <1>1
<1>3. edges \in Seq(Edge) BY DEF GraphInv
<1>4. DOMAIN edges = 1 .. Len(edges) /\ Len(edges) \in Nat BY <1>3
<1> QED BY <1>1, <1>2, <1>4 DEF Searching, GraphInv, EdgesJoin

(* A node that is found for the first time goes to the end of the queue. *)
LEMMA FindNodeKeeps ==
    ASSUME GraphInv, SearchInv, NEW e \in DOMAIN edges, FindNode(e) PROVE SearchInv'
<1> DEFINE h == Head(queue)
           x == edges[e].to
           k == distances[h] + 1
<1>1. /\ phase = "search" /\ phase' = phase /\ queue # <<>> /\ scan = e /\ scan' = e + 1
      /\ edges[e].from = h /\ x \notin Found
      /\ distances' = With(distances, x, k) /\ queue' = Append(queue, x)
      /\ UNCHANGED <<nodes, edges, failed>>
  BY DEF FindNode, LooksAt, Found, ingestVars, graphVars
<1>2. Searching BY <1>1 DEF SearchInv
<1>3. /\ queue \in Seq(Found) /\ Len(queue) \in Nat \ {0} /\ DOMAIN queue = 1 .. Len(queue)
      /\ h = queue[1] /\ h \in Found
      /\ \A n \in Found : distances[n] \in Nat
      /\ \A i \in DOMAIN queue : queue[i] \in Found
      /\ Found \subseteq DOMAIN nodes /\ x \in DOMAIN nodes
      /\ e \in Nat /\ scan \in Nat /\ DOMAIN edges \subseteq Nat
  BY <1>1, <1>2, HeadFacts
<1>4. /\ Found' = Found \union {x} /\ distances'[x] = k
      /\ \A n \in Found : distances'[n] = distances[n]
  BY <1>1 DEF With, Found
<1>5. k \in Nat /\ k > 0 /\ k = distances[h] + 1 BY <1>3
<1> DEFINE last == Len(queue) + 1
<1>6. /\ queue' \in Seq(Found') /\ DOMAIN queue' = DOMAIN queue \union {last}
      /\ queue'[last] = x /\ \A i \in DOMAIN queue : queue'[i] = queue[i] /\ i < last
      /\ queue' # <<>> /\ Head(queue') = h
  <2>1. queue \in Seq(Found') /\ x \in Found' BY <1>3, <1>4
  <2>2. queue' \in Seq(Found') BY <1>1, <2>1
  <2>3. Len(queue') = last /\ DOMAIN queue' = 1 .. last /\ queue'[last] = x
        /\ \A i \in 1 .. Len(queue) : queue'[i] = queue[i]
    BY <1>1, <2>1
  <2>4. 1 .. last = (1 .. Len(queue)) \union {last} BY <1>3
  <2>5. \A i \in 1 .. Len(queue) : i < last BY <1>3
  <2>6. queue' # <<>> /\ Head(queue') = queue'[1] /\ 1 \in 1 .. Len(queue) BY <1>3, <2>2, <2>3
  <2> QED BY <1>3, <2>2, <2>3, <2>4, <2>5, <2>6
<1> HIDE DEF h, x, k, last
<1>7. distances' \in [Found' -> Nat]
  <2>1. distances' = [n \in Found' |-> distances'[n]] BY <1>1 DEF With, Found
  <2> QED BY <1>3, <1>4, <1>5, <2>1
<1>8. \A n \in Found' : distances'[n] = 0 <=> n = failed
  BY <1>1, <1>2, <1>4, <1>5 DEF Searching
<1>9. \A n \in Found : distances[n] <= k BY <1>1, <1>2, <1>5 DEF Searching, h
<1>10. \A i, j \in DOMAIN queue' : i < j => distances'[queue'[i]] <= distances'[queue'[j]]
  <2> SUFFICES ASSUME NEW i \in DOMAIN queue', NEW j \in DOMAIN queue', i < j
               PROVE  distances'[queue'[i]] <= distances'[queue'[j]]
    OBVIOUS
  <2>1. last \in Nat /\ \A m \in DOMAIN queue : m \in Nat BY <1>3 DEF last
  <2>2. i \in DOMAIN queue BY <1>6, <2>1
  <2>3. distances'[queue'[i]] = distances[queue[i]] /\ queue[i] \in Found BY <1>3, <1>4, <1>6, <2>2
  <2>4. CASE j = last BY <1>4, <1>6, <1>9, <2>3, <2>4
  <2>5. CASE j \in DOMAIN queue
    <3>1. distances'[queue'[j]] = distances[queue[j]] BY <1>3, <1>4, <1>6, <2>5
    <3> QED BY <1>2, <2>2, <2>3, <2>5, <3>1 DEF Searching
  <2> QED BY <1>6, <2>4, <2>5
<1>11. \A n \in Found' : distances'[n] <= distances'[Head(queue')] + 1
  <2>1. distances'[Head(queue')] + 1 = k BY <1>3, <1>4, <1>5, <1>6
  <2> QED BY <1>4, <1>5, <1>9, <2>1
<1>12. \A d \in DOMAIN edges : LookedAt(d)' => LookedAt(d) \/ d = e
  <2> SUFFICES ASSUME NEW d \in DOMAIN edges, LookedAt(d)', d # e PROVE LookedAt(d) OBVIOUS
  <2>1. edges[d].from \in Found'
        /\ \/ \A i \in DOMAIN queue' : queue'[i] # edges[d].from
           \/ edges[d].from = h /\ d < e + 1
    BY <1>1, <1>6 DEF LookedAt
  <2>2. CASE \A i \in DOMAIN queue' : queue'[i] # edges[d].from
    <3>1. edges[d].from # x /\ \A i \in DOMAIN queue : queue[i] # edges[d].from BY <1>6, <2>2
    <3> QED BY <1>4, <2>1, <3>1 DEF LookedAt
  <2>3. CASE edges[d].from = h /\ d < e + 1
    <3>1. d < scan BY <1>1, <1>3, <2>3
    <3> QED BY <1>1, <1>3, <2>3, <3>1 DEF LookedAt, h
  <2> QED BY <2>1, <2>2, <2>3
<1>13. \A d \in DOMAIN edges : LookedAt(d)' =>
          /\ edges[d].to \in Found'
          /\ distances'[edges[d].to] <= distances'[edges[d].from] + 1
  <2> SUFFICES ASSUME NEW d \in DOMAIN edges, LookedAt(d)'
               PROVE  /\ edges[d].to \in Found'
                      /\ distances'[edges[d].to] <= distances'[edges[d].from] + 1
    OBVIOUS
  <2>1. CASE d = e
    <3>1. edges[d].to = x /\ edges[d].from = h BY <1>1, <2>1 DEF x
    <3>2. distances'[h] = distances[h] BY <1>3, <1>4
    <3> QED BY <1>4, <1>5, <3>1, <3>2
  <2>2. CASE LookedAt(d)
    <3>1. /\ edges[d].to \in Found /\ edges[d].from \in Found
          /\ distances[edges[d].to] <= distances[edges[d].from] + 1
      BY <1>2, <2>2 DEF Searching, LookedAt
    <3> QED BY <1>4, <3>1
  <2> QED BY <1>12, <2>1, <2>2
<1>14. \A n \in Found' \ {failed} : \E d \in DOMAIN edges :
          /\ edges[d].to = n /\ edges[d].from \in Found'
          /\ distances'[n] = distances'[edges[d].from] + 1
  <2> TAKE n \in Found' \ {failed}
  <2>1. CASE n = x
    <3>1. edges[e].to = x /\ edges[e].from = h BY <1>1 DEF x
    <3>2. distances'[n] = distances'[edges[e].from] + 1 BY <1>3, <1>4, <1>5, <2>1, <3>1
    <3> QED BY <1>3, <1>4, <2>1, <3>1, <3>2
  <2>2. CASE n \in Found
    <3>1. PICK d \in DOMAIN edges : /\ edges[d].to = n /\ edges[d].from \in Found
                                    /\ distances[n] = distances[edges[d].from] + 1
      BY <1>2, <2>2 DEF Searching
    <3>2. distances'[n] = distances'[edges[d].from] + 1 BY <1>4, <2>2, <3>1
    <3> QED BY <1>4, <3>1, <3>2
  <2> QED BY <1>4, <2>1, <2>2
<1>15. failed \in Found' /\ Found' \subseteq DOMAIN nodes /\ scan' \in Nat \ {0}
  BY <1>1, <1>2, <1>3, <1>4 DEF Searching
<1>16. Searching' BY <1>1, <1>6, <1>7, <1>8, <1>10, <1>11, <1>13, <1>14, <1>15 DEF Searching
<1> QED BY <1>1, <1>16 DEF SearchInv, DistancesShortest

(* An edge that leads to a node that was found, or begins elsewhere. *)
LEMMA PassEdgeKeeps ==
    ASSUME GraphInv, SearchInv, NEW e \in DOMAIN edges, PassEdge(e) PROVE SearchInv'
<1>1. /\ phase = "search" /\ phase' = phase /\ queue # <<>> /\ scan = e /\ scan' = e + 1
      /\ edges[e].from = Head(queue) => edges[e].to \in Found
      /\ UNCHANGED <<nodes, edges, failed, distances, queue>>
  BY DEF PassEdge, LooksAt, Found, ingestVars, graphVars
<1>2. Searching BY <1>1 DEF SearchInv
<1>3. e \in Nat /\ DOMAIN edges \subseteq Nat /\ Head(queue) \in Found
  BY <1>1, <1>2, HeadFacts
<1>4. Found' = Found BY <1>1 DEF Found
<1>5. \A d \in DOMAIN edges : LookedAt(d)' => LookedAt(d) \/ (d = e /\ edges[d].from = Head(queue))
  BY <1>1, <1>3, <1>4 DEF LookedAt
<1>6. edges[e].from = Head(queue) => distances[edges[e].to] <= distances[edges[e].from] + 1
  BY <1>1, <1>2 DEF Searching
<1>7. \A d \in DOMAIN edges : LookedAt(d)' =>
          /\ edges[d].to \in Found
          /\ distances[edges[d].to] <= distances[edges[d].from] + 1
  BY <1>1, <1>2, <1>5, <1>6 DEF Searching
<1>8. scan' \in Nat \ {0} BY <1>1, <1>3
<1>9. Searching' BY <1>1, <1>2, <1>4, <1>7, <1>8 DEF Searching
<1> QED BY <1>1, <1>9 DEF SearchInv, DistancesShortest

(* All edges of the head were looked at, and the next node is the head. *)
LEMMA NextNodeKeeps == ASSUME GraphInv, SearchInv, NextNode PROVE SearchInv'
<1> DEFINE t == Tail(queue)
<1>1. /\ phase = "search" /\ phase' = phase /\ queue # <<>> /\ scan > Len(edges) /\ scan' = 1
      /\ queue' = t /\ UNCHANGED <<nodes, edges, failed, distances>>
  BY DEF NextNode, ingestVars, graphVars
<1>2. Searching BY <1>1 DEF SearchInv
<1>3. /\ queue \in Seq(Found) /\ Len(queue) \in Nat \ {0} /\ DOMAIN queue = 1 .. Len(queue)
      /\ Head(queue) = queue[1] /\ \A n \in Found : distances[n] \in Nat
      /\ \A i \in DOMAIN queue : queue[i] \in Found
      /\ DOMAIN edges = 1 .. Len(edges) /\ Len(edges) \in Nat /\ scan \in Nat
  BY <1>1, <1>2, HeadFacts
<1>4. /\ t \in Seq(Found) /\ Len(t) = Len(queue) - 1 /\ DOMAIN t = 1 .. Len(queue) - 1
      /\ \A i \in DOMAIN t : t[i] = queue[i + 1] /\ i + 1 \in DOMAIN queue
  BY <1>1, <1>3
<1> HIDE DEF t
<1>5. Found' = Found BY <1>1 DEF Found
<1>6. \A i, j \in DOMAIN t : i < j => distances[t[i]] <= distances[t[j]]
  <2> SUFFICES ASSUME NEW i \in DOMAIN t, NEW j \in DOMAIN t, i < j
               PROVE  distances[t[i]] <= distances[t[j]]
    OBVIOUS
  <2>1. i + 1 < j + 1 BY <1>3, <1>4
  <2> QED BY <1>2, <1>4, <2>1 DEF Searching
<1>7. t # <<>> => \A n \in Found : distances[n] <= distances[Head(t)] + 1
  <2> SUFFICES ASSUME t # <<>>, NEW n \in Found PROVE distances[n] <= distances[Head(t)] + 1
    OBVIOUS
  <2>1. Head(t) = t[1] /\ 1 \in DOMAIN t BY <1>3, <1>4
  <2>2. Head(t) = queue[2] /\ 2 \in DOMAIN queue /\ 1 \in DOMAIN queue BY <1>3, <1>4, <2>1
  <2>3. distances[queue[1]] <= distances[queue[2]] BY <1>2, <2>2 DEF Searching
  <2>4. distances[n] <= distances[queue[1]] + 1 BY <1>1, <1>2, <1>3 DEF Searching
  <2>5. distances[n] \in Nat /\ distances[queue[1]] \in Nat /\ distances[queue[2]] \in Nat
    BY <1>3, <2>2
  <2> QED BY <2>2, <2>3, <2>4, <2>5
<1>8. \A d \in DOMAIN edges : LookedAt(d)' => LookedAt(d)
  <2> SUFFICES ASSUME NEW d \in DOMAIN edges, LookedAt(d)' PROVE LookedAt(d) OBVIOUS
  <2>1. d \in Nat /\ d < scan /\ ~(d < 1) BY <1>1, <1>3
  <2>2. edges[d].from \in Found /\ \A i \in DOMAIN t : t[i] # edges[d].from
    BY <1>1, <1>5, <2>1 DEF LookedAt
  <2>3. CASE edges[d].from = Head(queue) BY <1>1, <2>1, <2>2, <2>3 DEF LookedAt
  <2>4. CASE edges[d].from # Head(queue)
    <3>1. ASSUME NEW i \in DOMAIN queue PROVE queue[i] # edges[d].from
      <4>1. CASE i = 1 BY <1>3, <2>4, <4>1
      <4>2. CASE i # 1
        <5>1. i - 1 \in DOMAIN t /\ (i - 1) + 1 = i BY <1>3, <1>4, <3>1, <4>2
        <5> QED BY <1>4, <2>2, <5>1
      <4> QED BY <4>1, <4>2
    <3> QED BY <2>2, <3>1 DEF LookedAt
  <2> QED BY <2>3, <2>4
<1>9. Searching' BY <1>1, <1>2, <1>4, <1>5, <1>6, <1>7, <1>8 DEF Searching
<1> QED BY <1>1, <1>9 DEF SearchInv, DistancesShortest

(* When nothing is queued every edge of a node that was found was looked at. *)
LEMMA SearchEndKeeps == ASSUME SearchInv, SearchEnds PROVE SearchInv'
<1>1. /\ phase = "search" /\ phase' = "score" /\ queue = <<>>
      /\ UNCHANGED <<nodes, edges, failed, distances>>
  BY DEF SearchEnds, ingestVars, graphVars, searchVars
<1>2. Searching BY <1>1 DEF SearchInv
<1>3. \A e \in DOMAIN edges : edges[e].from \in Found => LookedAt(e) BY <1>1 DEF LookedAt
<1>4. DistancesShortest' BY <1>1, <1>2, <1>3 DEF DistancesShortest, Searching, Found
<1> QED BY <1>1, <1>4 DEF SearchInv

-----------------------------------------------------------------------------
(* Nothing was found before anything was read. *)
LEMMA InitInv == Init => Inv
<1> SUFFICES ASSUME Init PROVE Inv OBVIOUS
<1>1. /\ tree \in Trees /\ outcome = "walking" /\ pending = <<>>
      /\ nodes = <<>> /\ edges = <<>> /\ byName = <<>>
      /\ phase = "idle" /\ scan = 1
  BY DEF Init, IngestInit, GradientInit
<1>2. DOMAIN nodes = {} /\ DOMAIN edges = {} /\ DOMAIN byName = {} BY <1>1
<1>3. GraphInv BY <1>1, <1>2 DEF GraphInv, Kinds, OneNodeEach, EdgesJoin, Index, NodeNames
<1>4. AddingInv BY <1>1 DEF AddingInv
<1>5. SearchInv BY <1>1 DEF SearchInv, DistancesShortest
<1> QED BY <1>3, <1>4, <1>5 DEF Inv

(* Every step keeps the invariant; the graph is complete before the search. *)
LEMMA NextInv == Inv /\ [Next]_vars => Inv'
<1> SUFFICES ASSUME Inv, [Next]_vars PROVE Inv' OBVIOUS
<1>1. GraphInv /\ AddingInv /\ SearchInv BY DEF Inv
<1>2. CASE Ingests
  <2>1. GraphInv' /\ AddingInv' BY <1>1, <1>2, IngestKeeps DEF Ingests
  <2>2. phase = "idle" /\ phase' = "idle" /\ scan' = scan
    BY <1>2 DEF Ingests, gradientVars, searchVars
  <2> QED BY <1>1, <2>1, <2>2 DEF Inv, SearchInv, DistancesShortest
<1>3. ASSUME UNCHANGED ingestVars PROVE GraphInv' /\ AddingInv'
  BY <1>1, <1>3 DEF ingestVars, walkVars, graphVars, GraphInv, AddingInv, Kinds, OneNodeEach,
                    EdgesJoin, Index, NodeNames
<1>4. CASE Diagnoses
  <2>1. UNCHANGED ingestVars
    BY <1>4 DEF Diagnoses, GradientNext, Diagnose, FindNode, PassEdge, LooksAt, NextNode,
                SearchEnds, ReportCause
  <2>2. ASSUME ReportCause PROVE SearchInv'
    BY <2>2 DEF ReportCause, SearchInv, DistancesShortest
  <2>3. SearchInv'
    BY <1>1, <1>4, <2>2, DiagnoseKeeps, FindNodeKeeps, PassEdgeKeeps, NextNodeKeeps, SearchEndKeeps
    DEF Diagnoses, GradientNext
  <2> QED BY <1>3, <2>1, <2>3 DEF Inv
<1>5. CASE GeneratePatches
  <2>1. phase' = "generated" /\ UNCHANGED ingestVars BY <1>5 DEF GeneratePatches
  <2>2. SearchInv' BY <2>1 DEF SearchInv, DistancesShortest
  <2> QED BY <1>3, <2>1, <2>2 DEF Inv
<1>6. CASE Ended \/ UNCHANGED vars
  <2>1. UNCHANGED <<ingestVars, phase, failed, distances, queue, scan>>
    BY <1>6 DEF Ended, vars, gradientVars, searchVars
  <2>2. UNCHANGED <<nodes, edges>> BY <2>1 DEF ingestVars, graphVars
  <2>3. Searching => Searching' BY <2>1, <2>2 DEF Searching, Found, LookedAt
  <2>4. SearchInv' BY <1>1, <2>1, <2>2, <2>3 DEF SearchInv, DistancesShortest
  <2> QED BY <1>3, <2>1, <2>4 DEF Inv
<1> QED BY <1>2, <1>4, <1>5, <1>6 DEF Next

(* The invariant holds in every reachable state. *)
THEOREM InvHolds == Spec => []Inv
  BY InitInv, NextInv, PTL DEF Spec

(* Nodes, edges and index agree at every moment of a discovery, whatever the *)
(* tree and the order of its listing, and after a reload.                    *)
THEOREM GraphIsWellFormed == Spec => []GraphWellFormed
<1>1. Inv => GraphWellFormed
  BY DEF Inv, GraphInv, Kinds, OneNodeEach, EdgesJoin, Index, GraphWellFormed
<1> QED BY <1>1, InvHolds, PTL

(* The distances after the search are the shortest, on any graph. *)
THEOREM DistancesAreShortest == Spec => []DistancesShortest
  BY InvHolds, PTL DEF Inv, SearchInv

-----------------------------------------------------------------------------
(* What the search has found is the shortest distances. *)
Settled ==
    /\ failed \in Found /\ Found \subseteq DOMAIN nodes
    /\ distances \in [Found -> Nat]
    /\ \A n \in Found : distances[n] = 0 <=> n = failed
    /\ \A e \in DOMAIN edges : edges[e].from \in Found =>
          /\ edges[e].to \in Found
          /\ distances[edges[e].to] <= distances[edges[e].from] + 1
    /\ \A n \in Found \ {failed} : \E e \in DOMAIN edges :
          /\ edges[e].to = n
          /\ edges[e].from \in Found
          /\ distances[n] = distances[edges[e].from] + 1

(* No distance is greater than the number of nodes: on the way to a node    *)
(* there is a node at each smaller distance.                                *)
LEMMA DistancesAreBounded ==
    ASSUME Settled, nodes \in Seq(Node), NEW n \in Found
    PROVE  distances[n] <= Len(nodes)
<1> DEFINE D == distances[n]
           Reached == {d \in 0 .. D : \E m \in Found : distances[m] = D - d}
<1>1. D \in Nat /\ Len(nodes) \in Nat /\ DOMAIN nodes = 1 .. Len(nodes) BY DEF Settled
<1>2. 0 \in Reached BY <1>1
<1>3. ASSUME NEW d \in 1 .. D, d - 1 \in Reached PROVE d \in Reached
  <2>1. PICK m \in Found : distances[m] = D - (d - 1) BY <1>3
  <2>2. distances[m] # 0 BY <1>1, <2>1
  <2>3. m # failed BY <2>2 DEF Settled
  <2>4. PICK e \in DOMAIN edges :
          edges[e].from \in Found /\ distances[m] = distances[edges[e].from] + 1
    BY <2>3 DEF Settled
  <2>5. distances[edges[e].from] \in Nat BY <2>4 DEF Settled
  <2>6. distances[edges[e].from] = D - d BY <1>1, <2>1, <2>4, <2>5
  <2> QED BY <2>4, <2>6
<1> HIDE DEF D
<1>4. 0 .. D \subseteq Reached
  <2> HIDE DEF Reached
  <2> QED BY <1>1, <1>2, <1>3, StepByStep
<1>5. \A d \in 0 .. D : \E m \in Found : distances[m] = d
  <2> TAKE d \in 0 .. D
  <2>0. D - d \in 0 .. D BY <1>1
  <2>1. D - d \in Reached BY <1>4, <2>0
  <2>2. PICK m \in Found : distances[m] = D - (D - d) BY <2>1
  <2> QED BY <1>1, <2>2
<1> DEFINE at == [d \in 0 .. D |-> CHOOSE m \in Found : distances[m] = d]
<1>6. \A d \in 0 .. D : at[d] \in Found /\ distances[at[d]] = d BY <1>5
<1> HIDE DEF at
<1>7. at \in [0 .. D -> 1 .. Len(nodes)] BY <1>1, <1>6 DEF Settled, at
<1>8. at \in Injection(0 .. D, 1 .. Len(nodes)) BY <1>6, <1>7 DEF Injection, IsInjective
<1>9. IsFiniteSet(1 .. Len(nodes)) /\ Cardinality(1 .. Len(nodes)) = Len(nodes)
  BY <1>1, FS_Interval
<1>10. Cardinality(0 .. D) <= Len(nodes) BY <1>8, <1>9, FS_Injection
<1>11. Cardinality(0 .. D) = D + 1
  <2>1. 0 \in Int /\ D \in Int /\ ~(0 > D) /\ D - 0 + 1 = D + 1 BY <1>1
  <2> QED BY <2>1, FS_Interval
<1> QED BY <1>1, <1>10, <1>11 DEF D

(* The layers around the failing node are the nodes up to a distance. *)
LEMMA LayersAreDistances ==
    ASSUME Settled, nodes \in Seq(Node)
    PROVE  \A k \in 0 .. Len(nodes) : Within[k] = {n \in Found : distances[n] <= k}
<1> DEFINE Next1(S) == S \union {edges[e].to : e \in {d \in DOMAIN edges : edges[d].from \in S}}
           IsLayer(L) == L = [k \in 0 .. Len(nodes) |->
                               IF k = 0 THEN {failed} \intersect DOMAIN nodes
                               ELSE L[k - 1] \union
                                    {edges[e].to : e \in {d \in DOMAIN edges :
                                                             edges[d].from \in L[k - 1]}}]
           Upto(k) == {n \in Found : distances[n] <= k}
           layers == [k \in 0 .. Len(nodes) |-> Upto(k)]
<1>1. Len(nodes) \in Nat OBVIOUS
<1>2. Upto(0) = {failed} \intersect DOMAIN nodes BY DEF Settled
<1>3. ASSUME NEW k \in 1 .. Len(nodes) PROVE Upto(k) = Next1(Upto(k - 1))
  <2>0. k \in Nat /\ k - 1 \in Nat BY <1>1
  <2>1. ASSUME NEW n \in Upto(k) PROVE n \in Next1(Upto(k - 1))
    <3>1. CASE distances[n] <= k - 1 BY <3>1
    <3>2. CASE ~(distances[n] <= k - 1)
      <4>1. n \in Found /\ distances[n] \in Nat /\ distances[n] # 0 BY <2>0, <3>2 DEF Settled
      <4>2. PICK e \in DOMAIN edges :
              /\ edges[e].to = n /\ edges[e].from \in Found
              /\ distances[n] = distances[edges[e].from] + 1
        BY <4>1 DEF Settled
      <4>3. distances[edges[e].from] \in Nat BY <4>2 DEF Settled
      <4>4. distances[edges[e].from] <= k - 1 BY <2>0, <4>1, <4>2, <4>3
      <4> QED BY <4>2, <4>4
    <3> QED BY <3>1, <3>2
  <2>2. ASSUME NEW n \in Next1(Upto(k - 1)) PROVE n \in Upto(k)
    <3>1. CASE n \in Upto(k - 1)
      <4>1. n \in Found /\ distances[n] \in Nat /\ distances[n] <= k - 1 BY <3>1 DEF Settled
      <4> QED BY <2>0, <4>1
    <3>2. CASE n \notin Upto(k - 1)
      <4>1. PICK e \in DOMAIN edges : edges[e].from \in Upto(k - 1) /\ edges[e].to = n
        BY <2>2, <3>2
      <4>2. /\ n \in Found /\ distances[n] <= distances[edges[e].from] + 1
            /\ distances[edges[e].from] <= k - 1
            /\ distances[n] \in Nat /\ distances[edges[e].from] \in Nat
        BY <4>1 DEF Settled
      <4> QED BY <2>0, <4>2
    <3> QED BY <3>1, <3>2
  <2> QED BY <2>1, <2>2
<1>4. IsLayer(layers)
  <2> HIDE DEF Upto
  <2>1. \A k \in 0 .. Len(nodes) : layers[k] = Upto(k) OBVIOUS
  <2>2. \A k \in 1 .. Len(nodes) : k - 1 \in 0 .. Len(nodes) BY <1>1
  <2>3. \A k \in 0 .. Len(nodes) :
          layers[k] = IF k = 0 THEN {failed} \intersect DOMAIN nodes ELSE Next1(layers[k - 1])
    <3> TAKE k \in 0 .. Len(nodes)
    <3>1. CASE k = 0 BY <1>2, <2>1, <3>1
    <3>2. CASE k # 0
      <4>1. k \in 1 .. Len(nodes) BY <1>1, <3>2
      <4>2. layers[k] = Upto(k) /\ layers[k - 1] = Upto(k - 1) BY <2>1, <2>2, <4>1
      <4>3. layers[k] = Next1(layers[k - 1]) BY <1>3, <4>1, <4>2
      <4> QED BY <3>2, <4>3
    <3> QED BY <3>1, <3>2
  <2> QED BY <2>3
<1>5. IsLayer(Within)
  <2> HIDE DEF layers
  <2>1. \E L : IsLayer(L) BY <1>4
  <2> QED BY <2>1 DEF Within
<1>6. 0 .. Len(nodes) \subseteq {k \in 0 .. Len(nodes) : Within[k] = Upto(k)}
  <2> DEFINE S == {k \in 0 .. Len(nodes) : Within[k] = Upto(k)}
  <2> HIDE DEF Upto
  <2>1. 0 \in S BY <1>1, <1>2, <1>5
  <2>2. ASSUME NEW k \in 1 .. Len(nodes), k - 1 \in S PROVE k \in S
    <3>1. k \in 0 .. Len(nodes) /\ k # 0 BY <1>1
    <3>2. Within[k] = Next1(Within[k - 1]) BY <1>5, <3>1
    <3>3. Within[k - 1] = Upto(k - 1) BY <2>2
    <3>4. Within[k] = Next1(Upto(k - 1)) BY <3>2, <3>3
    <3>5. Within[k] = Upto(k) BY <1>3, <3>4
    <3> QED BY <3>1, <3>5
  <2> HIDE DEF S
  <2>3. 0 .. Len(nodes) \subseteq S BY <1>1, <2>1, <2>2, StepByStep
  <2> QED BY <2>3 DEF S
<1> QED BY <1>6

(* So the nodes the failure depends on are those found, and the number of   *)
(* steps to one is its distance.                                            *)
LEMMA UpstreamIsFound ==
    ASSUME Settled, nodes \in Seq(Node)
    PROVE  Upstream = Found /\ \A n \in Found : Steps(n) = distances[n]
<1>1. Len(nodes) \in Nat /\ \A n \in Found : distances[n] \in 0 .. Len(nodes)
  <2>1. Len(nodes) \in Nat OBVIOUS
  <2>2. \A n \in Found : distances[n] \in Nat BY DEF Settled
  <2>3. \A n \in Found : distances[n] <= Len(nodes) BY DistancesAreBounded
  <2> QED BY <2>1, <2>2, <2>3
<1>2. Upstream = Found
  <2>1. Len(nodes) \in 0 .. Len(nodes) BY <1>1
  <2>2. Upstream = {n \in Found : distances[n] <= Len(nodes)}
    BY <2>1, LayersAreDistances DEF Upstream
  <2>3. \A n \in Found : distances[n] <= Len(nodes) BY DistancesAreBounded
  <2> QED BY <2>2, <2>3
<1>3. ASSUME NEW n \in Found PROVE Steps(n) = distances[n]
  <2> DEFINE P(k) == n \in Within[k] /\ \A j \in 0 .. k - 1 : n \notin Within[j]
  <2>1. ASSUME NEW k \in 0 .. Len(nodes) PROVE P(k) <=> k = distances[n]
    <3>1. \A j \in 0 .. Len(nodes) : n \in Within[j] <=> distances[n] <= j
      BY LayersAreDistances
    <3>2. \A j \in 0 .. k - 1 : j \in 0 .. Len(nodes) BY <1>1
    <3>3. P(k) <=> distances[n] <= k /\ \A j \in 0 .. k - 1 : ~(distances[n] <= j)
      BY <3>1, <3>2
    <3>4. distances[n] \in Nat BY <1>1
    <3>5. (\A j \in 0 .. k - 1 : ~(distances[n] <= j)) <=> ~(distances[n] <= k - 1) BY <3>4
    <3> QED BY <3>3, <3>4, <3>5
  <2>2. Steps(n) = CHOOSE k \in 0 .. Len(nodes) : P(k) BY DEF Steps
  <2> HIDE DEF P
  <2> QED BY <1>1, <2>1, <2>2
<1> QED BY <1>2, <1>3

(* A failure that is no node has nothing around it. *)
LEMMA NothingUpstream ==
    ASSUME failed \notin DOMAIN nodes, nodes \in Seq(Node)
    PROVE  Upstream = {}
<1> DEFINE IsLayer(L) == L = [k \in 0 .. Len(nodes) |->
                               IF k = 0 THEN {failed} \intersect DOMAIN nodes
                               ELSE L[k - 1] \union
                                    {edges[e].to : e \in {d \in DOMAIN edges :
                                                             edges[d].from \in L[k - 1]}}]
           layers == [k \in 0 .. Len(nodes) |-> {}]
<1>1. Len(nodes) \in Nat OBVIOUS
<1>2. \A k \in 0 .. Len(nodes) :
        layers[k] = IF k = 0 THEN {failed} \intersect DOMAIN nodes
                    ELSE layers[k - 1] \union
                         {edges[e].to : e \in {d \in DOMAIN edges : edges[d].from \in layers[k - 1]}}
  <2> TAKE k \in 0 .. Len(nodes)
  <2>1. CASE k = 0 BY <2>1
  <2>2. CASE k # 0
    <3>1. k - 1 \in 0 .. Len(nodes) BY <1>1, <2>2
    <3>2. layers[k - 1] = {} BY <3>1
    <3> QED BY <2>2, <3>2
  <2> QED BY <2>1, <2>2
<1>3. IsLayer(layers) BY <1>2
<1>4. IsLayer(Within)
  <2> HIDE DEF layers
  <2>1. \E L : IsLayer(L) BY <1>3
  <2> QED BY <2>1 DEF Within
<1> DEFINE S == {k \in 0 .. Len(nodes) : Within[k] = {}}
<1>5. 0 \in S BY <1>1, <1>4
<1>6. ASSUME NEW k \in 1 .. Len(nodes), k - 1 \in S PROVE k \in S
  <2>1. k \in 0 .. Len(nodes) /\ k # 0 BY <1>1
  <2>2. Within[k] = Within[k - 1] \union
            {edges[e].to : e \in {d \in DOMAIN edges : edges[d].from \in Within[k - 1]}}
    BY <1>4, <2>1
  <2> QED BY <1>6, <2>1, <2>2
<1> HIDE DEF S
<1>7. 0 .. Len(nodes) \subseteq S BY <1>1, <1>5, <1>6, StepByStep
<1>8. Len(nodes) \in S BY <1>1, <1>7
<1> QED BY <1>8 DEF S, Upstream

(* The square of a norm is a number. *)
LEMMA NormIsNat == ASSUME NEW v \in Vectors PROVE SquaredNorm(v) \in Nat
<1>1. /\ v \in Seq(Int \union {NaN, PosInf, NegInf}) /\ MaxFloat \in Nat
  BY VectorsAssumption
<1>2. \A i \in 1 .. Len(v) : Sanitize(v[i]) \in Nat BY <1>1 DEF Sanitize
<1> DEFINE term == [i \in 1 .. Len(v) |-> Sanitize(v[i]) * Sanitize(v[i])]
           IsSum(s) == s = [n \in 0 .. Len(v) |->
                              IF n = 0 THEN 0
                              ELSE s[n - 1] + Sanitize(v[n]) * Sanitize(v[n])]
           step == [p \in (1 .. Len(v)) \X Nat |-> p[2] + term[p[1]]]
           Sum == CHOOSE s : IsSum(s)
<1>3. \A x, y \in Nat : x * y \in Nat OBVIOUS
<1>4. term \in [1 .. Len(v) -> Nat] /\ Len(v) \in Nat BY <1>1, <1>2, <1>3
<1>5. \E s : IsSum(s)
  <2>1. step \in [(1 .. Len(v)) \X Nat -> Nat] BY <1>4
  <2>2. \A n \in 1 .. Len(v), x \in Nat : step[<<n, x>>] = x + Sanitize(v[n]) * Sanitize(v[n])
    OBVIOUS
  <2> HIDE DEF step, term
  <2>3. PICK s : Recursive(s, Len(v), Nat, 0, step) BY <1>4, <2>1, PrimitiveRecursion
  <2>4. \A n \in 1 .. Len(v) : s[n - 1] \in Nat BY <1>4, <2>3 DEF Recursive
  <2>6. \A n \in 1 .. Len(v) : s[n] = s[n - 1] + Sanitize(v[n]) * Sanitize(v[n])
    BY <2>2, <2>3, <2>4 DEF Recursive
  <2>5. IsSum(s) BY <1>4, <2>3, <2>6 DEF Recursive
  <2> QED BY <2>5
<1>6. IsSum(Sum) BY <1>5
<1> HIDE DEF Sum
<1>7. 0 .. Len(v) \subseteq {n \in 0 .. Len(v) : Sum[n] \in Nat}
  <2> DEFINE S == {n \in 0 .. Len(v) : Sum[n] \in Nat}
  <2>1. 0 \in S BY <1>4, <1>6
  <2>2. ASSUME NEW n \in 1 .. Len(v), n - 1 \in S PROVE n \in S
    <3>1. Sum[n] = Sum[n - 1] + term[n] BY <1>4, <1>6
    <3>2. term[n] \in Nat BY <1>4
    <3> QED BY <2>2, <3>1, <3>2, <1>4
  <2> HIDE DEF S
  <2>3. 0 .. Len(v) \subseteq S BY <1>4, <2>1, <2>2, StepByStep
  <2> QED BY <2>3 DEF S
<1>8. Sum[Len(v)] \in Nat BY <1>4, <1>7
<1>9. SquaredNorm(v) = IF \E i \in DOMAIN v : Sanitize(v[i]) = MaxFloat
                       THEN MaxFloat * MaxFloat ELSE Sum[Len(v)]
  BY DEF SquaredNorm, Sum
<1> QED BY <1>1, <1>3, <1>8, <1>9

IsScore(a) == a.change \in Nat /\ a.over \in Nat \ {0}

(* Scores are compared as fractions are: of any two one is at least the     *)
(* other, and the comparison is transitive.                                 *)
LEMMA ScoresAreOrdered ==
    ASSUME NEW a, NEW b, NEW c, IsScore(a), IsScore(b), IsScore(c)
    PROVE  /\ AtLeast(a, b) \/ AtLeast(b, a)
           /\ AtLeast(a, b) /\ AtLeast(b, c) => AtLeast(a, c)
<1>1. \A x, y \in Nat : x * y \in Nat OBVIOUS
<1>2. AtLeast(a, b) \/ AtLeast(b, a)
  <2>1. a.change * b.over \in Nat /\ b.change * a.over \in Nat BY <1>1 DEF IsScore
  <2> QED BY <2>1 DEF AtLeast
<1>3. ASSUME AtLeast(a, b), AtLeast(b, c) PROVE AtLeast(a, c)
  <2>1. ASSUME NEW p \in Nat, NEW q \in Nat \ {0}, NEW r \in Nat, NEW s \in Nat \ {0},
               NEW t \in Nat, NEW u \in Nat \ {0},
               p * s >= r * q, r * u >= t * s
        PROVE  p * u >= t * q
    <3>1. \A x, y, z \in Nat : x >= y => x * z >= y * z OBVIOUS
    <3>2. p * s \in Nat /\ r * q \in Nat /\ r * u \in Nat /\ t * s \in Nat
          /\ p * u \in Nat /\ t * q \in Nat BY <1>1
    <3>3. (p * s) * u >= (r * q) * u BY <2>1, <3>1, <3>2
    <3>4. (r * u) * q >= (t * s) * q BY <2>1, <3>1, <3>2
    <3>5. (r * q) * u = (r * u) * q OBVIOUS
    <3>6. (p * s) * u = (p * u) * s /\ (t * s) * q = (t * q) * s OBVIOUS
    <3>7. \A x, y \in Nat : x * s >= y * s => x >= y
      <4> TAKE x, y \in Nat
      <4>1. ASSUME x < y PROVE x * s < y * s
        <5>1. y = x + (y - x) /\ y - x \in Nat \ {0} BY <4>1
        <5>2. y * s = x * s + (y - x) * s OBVIOUS
        <5>3. (y - x) * s > 0 BY <5>1
        <5>4. x * s \in Nat /\ y * s \in Nat /\ (y - x) * s \in Nat BY <1>1, <5>1
        <5> QED BY <5>2, <5>3, <5>4
      <4>2. x * s \in Nat /\ y * s \in Nat BY <1>1
      <4> QED BY <4>1, <4>2
    <3>8. (p * u) * s >= (t * q) * s
      <4>1. \A x, y, z \in Nat : x >= y /\ y >= z => x >= z OBVIOUS
      <4>2. (p * s) * u \in Nat /\ (r * q) * u \in Nat /\ (t * s) * q \in Nat BY <1>1, <3>2
      <4> QED BY <3>3, <3>4, <3>5, <3>6, <4>1, <4>2
    <3> QED BY <3>2, <3>7, <3>8
  <2> QED BY <1>3, <2>1 DEF IsScore, AtLeast
<1> QED BY <1>2, <1>3

(* Of finitely many scores one is at least all others. *)
LEMMA OneIsStrongest ==
    ASSUME NEW S, IsFiniteSet(S), S # {}, NEW scores, \A n \in S : IsScore(scores[n])
    PROVE  \E n \in S : \A m \in S : AtLeast(scores[n], scores[m])
<1> DEFINE Greatest(T, n) == \A m \in T : AtLeast(scores[n], scores[m])
           None == {T \in SUBSET S : T # {} /\ \A n \in T : ~Greatest(T, n)}
           Sizes == {Cardinality(T) : T \in None}
<1>1. SUFFICES ASSUME None # {} PROVE FALSE OBVIOUS
<1>2. \A T \in SUBSET S : IsFiniteSet(T) /\ Cardinality(T) \in Nat
  BY FS_Subset, FS_CardinalityType
<1>3. Sizes \in SUBSET Nat /\ Sizes # {} BY <1>1, <1>2
<1>4. PICK T \in None : \A U \in None : Cardinality(T) <= Cardinality(U)
  <2>1. PICK k \in Sizes : \A j \in Sizes : k <= j
    <3> HIDE DEF Sizes
    <3> QED BY <1>3, LeastNumber
  <2> QED BY <2>1
<1>5. PICK x \in T : TRUE BY <1>4
<1> DEFINE U == T \ {x}
<1>6. Cardinality(U) = Cardinality(T) - 1 BY <1>2, <1>4, <1>5, FS_RemoveElement
<1>7. U \notin None
  <2>1. T \in SUBSET S /\ U \in SUBSET S BY <1>4
  <2>2. ~(Cardinality(T) <= Cardinality(U)) BY <1>2, <1>6, <2>1
  <2> HIDE DEF None, U
  <2> QED BY <1>4, <2>2
<1>8. IsScore(scores[x]) /\ \A m \in T : IsScore(scores[m]) BY <1>4, <1>5
<1>9. CASE U = {}
  <2>1. T = {x} BY <1>5, <1>9
  <2>2. Greatest(T, x) BY <1>8, <2>1, ScoresAreOrdered
  <2> QED BY <1>4, <1>5, <2>2
<1>10. CASE U # {}
  <2>1. PICK y \in U : Greatest(U, y) BY <1>4, <1>7, <1>10
  <2>2. y \in T /\ IsScore(scores[y]) BY <1>8, <2>1
  <2>3. CASE AtLeast(scores[x], scores[y])
    <3>1. ASSUME NEW m \in T PROVE AtLeast(scores[x], scores[m])
      <4>1. CASE m = x BY <1>8, <4>1, ScoresAreOrdered
      <4>2. CASE m # x
        <5>1. AtLeast(scores[y], scores[m]) BY <2>1, <4>2
        <5> QED BY <1>8, <2>2, <2>3, <5>1, ScoresAreOrdered
      <4> QED BY <4>1, <4>2
    <3> QED BY <1>4, <1>5, <3>1
  <2>4. CASE ~AtLeast(scores[x], scores[y])
    <3>1. AtLeast(scores[y], scores[x]) BY <1>8, <2>2, <2>4, ScoresAreOrdered
    <3>2. Greatest(T, y) BY <2>1, <3>1
    <3> QED BY <1>4, <2>2, <3>2
  <2> QED BY <2>3, <2>4
<1> QED BY <1>9, <1>10

(* The scores of changed nodes are fractions; only a node that was found    *)
(* and has changed counts for more than 0.                                  *)
LEMMA ScoreFacts ==
    ASSUME NEW n, NEW v \in Vectors, distances \in [Found -> Nat]
    PROVE  /\ IsScore(Score(n, v))
           /\ Score(n, v).change > 0 <=> n \in Found /\ SquaredNorm(v) > 0
           /\ n \in Found => /\ Score(n, v).change = SquaredNorm(v)
                             /\ Score(n, v).over = (distances[n] + 1) * (distances[n] + 1)
<1>1. SquaredNorm(v) \in Nat BY NormIsNat
<1>2. CASE n \in Found
  <2>1. distances[n] + 1 \in Nat \ {0} BY <1>2
  <2>2. \A x \in Nat \ {0} : x * x \in Nat \ {0} OBVIOUS
  <2>3. (distances[n] + 1) * (distances[n] + 1) \in Nat \ {0} BY <2>1, <2>2
  <2> QED BY <1>1, <1>2, <2>3 DEF Score, IsScore, Found
<1>3. CASE n \notin Found BY <1>3 DEF Score, IsScore, Found
<1> QED BY <1>2, <1>3

(* The choice that is made among the scores. *)
Strongest(changed, change) ==
    {n \in changed :
        /\ Score(n, change[n]).change > 0
        /\ \A m \in changed : AtLeast(Score(n, change[n]), Score(m, change[m]))}

(* It is the choice that is to be made among the nodes upstream. *)
LEMMA ChoiceIsStrongest ==
    ASSUME nodes \in Seq(Node),
           IF failed \in DOMAIN nodes THEN Settled ELSE distances = <<>>,
           NEW changed \in SUBSET Ids, NEW change \in [changed -> Vectors],
           NEW c \in IF Strongest(changed, change) = {} THEN {NoNode}
                     ELSE Strongest(changed, change)
    PROVE  LET up == {n \in changed \intersect Upstream : SquaredNorm(change[n]) > 0}
           IN IF up = {} THEN c = NoNode
              ELSE /\ c \in up
                   /\ \A n \in up :
                        SquaredNorm(change[c]) * (Steps(n) + 1) * (Steps(n) + 1)
                          >= SquaredNorm(change[n]) * (Steps(c) + 1) * (Steps(c) + 1)
<1> DEFINE up == {n \in changed \intersect Upstream : SquaredNorm(change[n]) > 0}
           scores == [n \in changed |-> Score(n, change[n])]
<1>1. distances \in [Found -> Nat] /\ Upstream = Found
  <2>1. CASE failed \in DOMAIN nodes BY <2>1, UpstreamIsFound DEF Settled
  <2>2. CASE failed \notin DOMAIN nodes
    <3>1. Upstream = {} /\ distances = <<>> BY <2>2, NothingUpstream
    <3>2. Found = {} BY <3>1 DEF Found
    <3> QED BY <3>1, <3>2 DEF Found
  <2> QED BY <2>1, <2>2
<1>2. \A n \in changed :
        /\ IsScore(Score(n, change[n]))
        /\ Score(n, change[n]).change > 0 <=> n \in up
  BY <1>1, ScoreFacts
<1>3. ASSUME up # {} PROVE Strongest(changed, change) # {}
  <2>1. IsFiniteSet(changed)
    <3>1. Len(nodes) + 1 \in Int /\ 1 \in Int OBVIOUS
    <3>2. IsFiniteSet(Ids) BY <3>1, FS_Interval DEF Ids
    <3> QED BY <3>2, FS_Subset
  <2>2. changed # {} BY <1>3
  <2>3. \A n \in changed : IsScore(scores[n]) BY <1>2
  <2>4. PICK n \in changed : \A m \in changed : AtLeast(scores[n], scores[m])
    <3> HIDE DEF scores
    <3> QED BY <2>1, <2>2, <2>3, OneIsStrongest
  <2>5. PICK u \in up : TRUE BY <1>3
  <2> DEFINE a == Score(n, change[n])
             b == Score(u, change[u])
  <2>6. a.change * b.over >= b.change * a.over BY <2>4, <2>5 DEF AtLeast
  <2>7. IsScore(a) /\ IsScore(b) /\ b.change > 0 BY <1>2, <2>5
  <2>8. a.change # 0
    <3>1. ASSUME NEW x \in Nat \ {0}, NEW y \in Nat \ {0}, NEW z \in Nat, 0 * z >= x * y
          PROVE  FALSE
      <4>1. x * y > 0 BY <3>1
      <4> QED BY <3>1, <4>1
    <3> HIDE DEF a, b
    <3> QED BY <2>6, <2>7, <3>1 DEF IsScore
  <2>9. a.change > 0 BY <2>7, <2>8 DEF IsScore
  <2> QED BY <2>4, <2>9 DEF Strongest
<1>4. CASE up = {}
  <2>1. Strongest(changed, change) = {} BY <1>2, <1>4 DEF Strongest
  <2> QED BY <1>4, <2>1
<1>5. CASE up # {}
  <2>1. c \in Strongest(changed, change) BY <1>3, <1>5
  <2>2. /\ c \in changed /\ Score(c, change[c]).change > 0
        /\ \A n \in changed : AtLeast(Score(c, change[c]), Score(n, change[n]))
    BY <2>1 DEF Strongest
  <2>3. c \in up BY <1>2, <2>2
  <2>4. failed \in DOMAIN nodes BY <2>3, NothingUpstream
  <2>5. \A n \in up : n \in Found /\ Steps(n) = distances[n] /\ distances[n] \in Nat
    BY <1>1, <2>4, UpstreamIsFound
  <2>6. ASSUME NEW n \in up
        PROVE  SquaredNorm(change[c]) * (Steps(n) + 1) * (Steps(n) + 1)
                 >= SquaredNorm(change[n]) * (Steps(c) + 1) * (Steps(c) + 1)
    <3>1. AtLeast(Score(c, change[c]), Score(n, change[n])) BY <2>2
    <3>2. \A m \in up : /\ Score(m, change[m]).change = SquaredNorm(change[m])
                        /\ Score(m, change[m]).over = (Steps(m) + 1) * (Steps(m) + 1)
                        /\ Steps(m) \in Nat
                        /\ SquaredNorm(change[m]) \in Nat
      BY <1>1, <2>5, ScoreFacts, NormIsNat
    <3>3. SquaredNorm(change[c]) * ((Steps(n) + 1) * (Steps(n) + 1))
            >= SquaredNorm(change[n]) * ((Steps(c) + 1) * (Steps(c) + 1))
      BY <2>3, <3>1, <3>2 DEF AtLeast
    <3>4. \A x, y \in Nat : x * ((y + 1) * (y + 1)) = x * (y + 1) * (y + 1) OBVIOUS
    <3> QED BY <2>3, <3>2, <3>3, <3>4
  <2> QED BY <1>5, <2>3, <2>6
<1> QED BY <1>4, <1>5

(* What the report says, and that nothing is reported before it. *)
CauseInv ==
    /\ phase = "idle" => distances = <<>>
    /\ phase \in {"idle", "search", "score"} => deltas = <<>> /\ cause = NoNode
    /\ phase = "search" => failed \in DOMAIN nodes
    /\ phase = "score" => IF failed \in DOMAIN nodes THEN Settled ELSE distances = <<>>
    /\ RootCauseIsStrongest

(* Nothing is reported before the failure is looked at. *)
LEMMA CauseInit == Init => CauseInv
  BY DEF Init, GradientInit, CauseInv, RootCauseIsStrongest

(* The report names the cause when the distances are settled. *)
LEMMA CauseStep == Inv /\ CauseInv /\ [Next]_vars => CauseInv'
<1> SUFFICES ASSUME Inv, CauseInv, [Next]_vars PROVE CauseInv' OBVIOUS
<1>1. nodes \in Seq(Node) /\ SearchInv BY DEF Inv, GraphInv
<1>2. CASE Ingests \/ UNCHANGED vars \/ Ended
  <2>1. UNCHANGED gradientVars /\ (phase = "idle" \/ UNCHANGED ingestVars)
    BY <1>2 DEF Ingests, vars, Ended
  <2>2. CASE phase = "idle"
    BY <2>1, <2>2 DEF CauseInv, gradientVars, searchVars, RootCauseIsStrongest
  <2>3. CASE UNCHANGED ingestVars
    <3>1. UNCHANGED <<nodes, edges, phase, failed, deltas, distances, cause>>
      BY <2>1, <2>3 DEF gradientVars, searchVars, ingestVars, graphVars
    <3>2. Upstream' = Upstream /\ \A n : Steps(n)' = Steps(n)
      BY <3>1 DEF Upstream, Steps, Within
    <3>3. RootCauseIsStrongest' BY <3>1, <3>2 DEF CauseInv, RootCauseIsStrongest
    <3>4. Settled' <=> Settled BY <3>1 DEF Settled, Found
    <3> QED BY <3>1, <3>3, <3>4 DEF CauseInv
  <2> QED BY <2>1, <2>2, <2>3
<1>3. CASE GeneratePatches
  BY <1>3 DEF GeneratePatches, CauseInv, RootCauseIsStrongest
<1>4. CASE Diagnose
  <2>1. phase = "idle" /\ UNCHANGED <<nodes, edges, deltas, cause>>
    BY <1>4 DEF Diagnose, ingestVars, graphVars
  <2>2. deltas' = <<>> /\ cause' = NoNode /\ distances = <<>> BY <2>1 DEF CauseInv
  <2>3. CASE failed' \in DOMAIN nodes
    <3>1. phase' = "search" BY <1>4, <2>3 DEF Diagnose
    <3> QED BY <2>1, <2>2, <2>3, <3>1 DEF CauseInv, RootCauseIsStrongest
  <2>4. CASE failed' \notin DOMAIN nodes
    <3>1. phase' \in {"score", "reported"} /\ distances' = <<>>
      BY <1>4, <2>2, <2>4 DEF Diagnose
    <3>2. RootCauseIsStrongest' BY <2>2 DEF RootCauseIsStrongest
    <3> QED BY <2>1, <2>2, <2>4, <3>1, <3>2 DEF CauseInv
  <2> QED BY <2>3, <2>4
<1>5. CASE (\E e \in DOMAIN edges : FindNode(e) \/ PassEdge(e)) \/ NextNode
  <2>1. phase = "search" /\ phase' = "search" /\ UNCHANGED <<nodes, failed, deltas, cause>>
    BY <1>5 DEF FindNode, PassEdge, LooksAt, NextNode, ingestVars, graphVars
  <2> QED BY <2>1 DEF CauseInv, RootCauseIsStrongest
<1>6. CASE SearchEnds
  <2>1. /\ phase = "search" /\ queue = <<>> /\ phase' = "score"
        /\ UNCHANGED <<nodes, edges, failed, deltas, distances, cause>>
    BY <1>6 DEF SearchEnds, ingestVars, graphVars, searchVars
  <2>2. Searching BY <1>1, <2>1 DEF SearchInv
  <2>3. Settled BY <2>1, <2>2 DEF Searching, Settled, LookedAt
  <2>4. Settled' BY <2>1, <2>3 DEF Settled, Found
  <2> QED BY <2>1, <2>4 DEF CauseInv, RootCauseIsStrongest
<1>7. CASE ReportCause
  <2>1. /\ phase = "score" /\ phase' = "reported"
        /\ UNCHANGED <<nodes, edges, failed, distances>>
    BY <1>7 DEF ReportCause, ingestVars, graphVars, searchVars
  <2>2. PICK changed \in SUBSET Ids :
          /\ deltas' \in [changed -> Vectors]
          /\ cause' \in IF Strongest(changed, deltas') = {} THEN {NoNode}
                        ELSE Strongest(changed, deltas')
    <3>1. PICK changed \in SUBSET Ids :
          /\ deltas' \in [changed -> Vectors]
          /\ LET scores == [n \in changed |-> Score(n, deltas'[n])]
                 strongest == {n \in changed :
                                 /\ scores[n].change > 0
                                 /\ \A m \in changed : AtLeast(scores[n], scores[m])}
             IN cause' \in IF strongest = {} THEN {NoNode} ELSE strongest
      BY <1>7 DEF ReportCause
    <3> DEFINE scores == [n \in changed |-> Score(n, deltas'[n])]
    <3>2. {n \in changed : /\ scores[n].change > 0
                           /\ \A m \in changed : AtLeast(scores[n], scores[m])}
            = Strongest(changed, deltas')
      BY DEF Strongest
    <3> QED BY <3>1, <3>2
  <2>3. IF failed \in DOMAIN nodes THEN Settled ELSE distances = <<>> BY <2>1 DEF CauseInv
  <2>4. PICK change, c : change = deltas' /\ c = cause' OBVIOUS
  <2>5. LET up == {n \in changed \intersect Upstream : SquaredNorm(change[n]) > 0}
        IN IF up = {} THEN c = NoNode
           ELSE /\ c \in up
                /\ \A n \in up :
                     SquaredNorm(change[c]) * (Steps(n) + 1) * (Steps(n) + 1)
                       >= SquaredNorm(change[n]) * (Steps(c) + 1) * (Steps(c) + 1)
    BY <1>1, <2>2, <2>3, <2>4, ChoiceIsStrongest
  <2>6. Upstream' = Upstream /\ \A n : Steps(n)' = Steps(n)
    BY <2>1 DEF Upstream, Steps, Within
  <2>7. DOMAIN change = changed BY <2>2, <2>4
  <2>8. RootCauseIsStrongest' BY <2>4, <2>5, <2>6, <2>7 DEF RootCauseIsStrongest
  <2> QED BY <2>1, <2>8 DEF CauseInv
<1> QED BY <1>2, <1>3, <1>4, <1>5, <1>6, <1>7 DEF Next, Diagnoses, GradientNext

(* When causes are scored the distances are those of the graph, and the      *)
(* cause that is reported stays the strongest.                               *)
THEOREM CauseHolds == Spec => []CauseInv
<1>1. Inv /\ CauseInv /\ [Next]_vars => CauseInv' BY CauseStep
<1> QED BY CauseInit, <1>1, InvHolds, PTL DEF Spec

(* On any graph, and for any changes, the reported cause has changed, lies   *)
(* upstream, and has the greatest change over distance.                      *)
THEOREM CauseIsStrongest == Spec => []RootCauseIsStrongest
<1>1. CauseInv => RootCauseIsStrongest BY DEF CauseInv
<1> QED BY <1>1, CauseHolds, PTL

-----------------------------------------------------------------------------
(* A line of what a command prints. *)
Line == [double : FileName \union {NoFile}, single : FileName \union {NoFile}]

(* Whatever the commands are, the text of a failure is made of lines. *)
LEMMA MessagesHaveLines == ASSUME NEW m \in Messages PROVE m.lines \in Seq(Line)
<1>1. PICK files : m \in Failures(files) BY DEF Messages
<1>2. \A c \in {"cargo", "setup", "pip3", "compileall"} :
        \A text \in Prints[c].fails \union Prints[c].succeeds : text.lines \in Seq(Line)
  BY PrintsAssumption DEF Line
<1>3. Commands(files) \in {<<"setup", "compileall">>, <<"pip3", "compileall">>, <<"cargo">>, <<>>}
  BY DEF Commands
<1>4. \A a, b : a.lines \in Seq(Line) /\ b.lines \in Seq(Line) => Joined(a, b).lines \in Seq(Line)
  BY DEF Joined
<1>5. Silence.lines \in Seq(Line) BY DEF Silence
<1>6. CASE Commands(files) = <<>> BY <1>1, <1>5, <1>6 DEF Failures
<1>7. CASE Commands(files) = <<"cargo">> BY <1>1, <1>2, <1>7 DEF Failures
<1>8. ASSUME NEW c \in {"setup", "pip3"}, Commands(files) = <<c, "compileall">>
      PROVE  m.lines \in Seq(Line)
  <2>1. Commands(files) # <<>> /\ Len(Commands(files)) # 1
        /\ Commands(files)[1] = c /\ Commands(files)[2] = "compileall" BY <1>8
  <2>2. PICK a \in Prints[c].fails \union Prints[c].succeeds,
             b \in Prints["compileall"].fails \union Prints["compileall"].succeeds :
               m = Joined(a, b)
    BY <1>1, <2>1 DEF Failures
  <2>3. a.lines \in Seq(Line) /\ b.lines \in Seq(Line) BY <1>2, <1>8
  <2> QED BY <1>4, <2>2, <2>3
<1> QED BY <1>3, <1>6, <1>7, <1>8

(* The first line that names a file, its names, and a patch that restores   *)
(* one of them.                                                             *)
FirstNamed(lines) ==
    CHOOSE n \in DOMAIN lines :
        /\ {lines[n].double, lines[n].single} # {NoFile}
        /\ \A m \in 1 .. n - 1 : {lines[m].double, lines[m].single} = {NoFile}

NamesOf(line) == {line.double, line.single} \ {NoFile}

Restores(patch, lines, unit) ==
    \E file \in NamesOf(lines[FirstNamed(lines)]) :
        /\ patch.path = unit \o file.names
        /\ file.form = "dotted" \/ unit = Top => patch.content = patch.path

(* The property, patch by patch, and in the next state. *)
LEMMA PatchesRestore ==
    PatchRestoresNamedFile
      <=> \A i \in DOMAIN patches : Restores(patches[i], message.lines, nodes[failed].path)
BY Zenon DEF PatchRestoresNamedFile, Restores, NamesOf, FirstNamed

(* The same of the patches that a step leaves. *)
LEMMA PatchesRestoreNext ==
    PatchRestoresNamedFile'
      <=> \A i \in DOMAIN patches' :
            Restores(patches'[i], message'.lines, nodes'[failed'].path)
BY Zenon DEF PatchRestoresNamedFile, Restores, NamesOf, FirstNamed

(* The name that is taken from the output is one of the first line that has *)
(* any.                                                                     *)
LEMMA FirstNameIsTaken ==
    ASSUME NEW lines \in Seq(Line), ExtractPyPath(lines) # NoFile
    PROVE  ExtractPyPath(lines) \in NamesOf(lines[FirstNamed(lines)]) \intersect FileName
<1> DEFINE Named(n) == lines[n].double # NoFile \/ lines[n].single # NoFile
           found == {n \in DOMAIN lines : Named(n)}
           First(n) == /\ {lines[n].double, lines[n].single} # {NoFile}
                       /\ \A m \in 1 .. n - 1 : {lines[m].double, lines[m].single} = {NoFile}
           Least(n) == \A m \in found : n <= m
<1>1. found # {} BY DEF ExtractPyPath
<1>2. DOMAIN lines = 1 .. Len(lines) /\ Len(lines) \in Nat OBVIOUS
<1>3. PICK k \in found : Least(k)
  <2>1. found \in SUBSET Nat BY <1>2
  <2> HIDE DEF found
  <2> QED BY <1>1, <2>1, LeastNumber
<1>4. \A n \in found : Least(n) <=> n = k
  <2>1. \A n \in found : n \in Nat BY <1>2
  <2> HIDE DEF found
  <2> QED BY <1>3, <2>1
<1>5. \A n : Named(n) <=> {lines[n].double, lines[n].single} # {NoFile} OBVIOUS
<1>6. \A n \in DOMAIN lines : First(n) <=> n = k
  <2> TAKE n \in DOMAIN lines
  <2>1. k \in Nat /\ n \in Nat BY <1>2
  <2>2. First(n) <=> Named(n) /\ \A m \in 1 .. n - 1 : ~Named(m) BY <1>5
  <2>3. \A m \in 1 .. n - 1 : m \in DOMAIN lines /\ m < n BY <1>2
  <2>4. ASSUME n = k PROVE First(n)
    <3>1. \A m \in 1 .. n - 1 : ~Named(m)
      <4> TAKE m \in 1 .. n - 1
      <4>1. m \in DOMAIN lines /\ ~(n <= m) BY <1>2
      <4>2. m \notin found
        <5> HIDE DEF found
        <5> QED BY <1>3, <2>4, <4>1
      <4> QED BY <4>1, <4>2
    <3> QED BY <1>3, <2>2, <2>4, <3>1
  <2>5. ASSUME First(n) PROVE n = k
    <3>1. n \in found BY <2>2, <2>5
    <3>2. k <= n
      <4> HIDE DEF found
      <4> QED BY <1>3, <3>1
    <3>3. ~(k \in 1 .. n - 1) BY <1>3, <2>2, <2>5
    <3>4. k \in 1 .. Len(lines) BY <1>2
    <3> QED BY <1>2, <2>1, <3>2, <3>3, <3>4
  <2> HIDE DEF First
  <2> QED BY <2>4, <2>5
<1> DEFINE line == lines[k]
<1>7. (CHOOSE n \in found : Least(n)) = k
  <2> HIDE DEF found, Least
  <2> QED BY <1>3, <1>4
<1>8. FirstNamed(lines) = k
  <2>1. k \in DOMAIN lines OBVIOUS
  <2>2. FirstNamed(lines) = CHOOSE n \in DOMAIN lines : First(n) BY DEF FirstNamed
  <2> HIDE DEF First, found
  <2> QED BY <1>6, <2>1, <2>2
<1>9. ExtractPyPath(lines) = IF line.double # NoFile THEN line.double ELSE line.single
  <2>1. ExtractPyPath(lines) =
          IF found = {} THEN NoFile
          ELSE LET l == lines[CHOOSE n \in found : Least(n)]
               IN IF l.double # NoFile THEN l.double ELSE l.single
    BY DEF ExtractPyPath
  <2> HIDE DEF found, Least
  <2> QED BY <1>1, <1>7, <2>1
<1>10. line.double \in FileName \union {NoFile} /\ line.single \in FileName \union {NoFile}
  <2>1. line \in Line OBVIOUS
  <2> QED BY <2>1 DEF Line
<1>11. ExtractPyPath(lines) \in NamesOf(line) \intersect FileName BY <1>3, <1>9, <1>10 DEF NamesOf
<1> HIDE DEF line
<1> QED BY <1>8, <1>11 DEF line

(* What is restored is the named file itself, when git and the overlay look *)
(* for it at the same place.                                                *)
LEMMA NamedFileIsRestored ==
    ASSUME NEW m, m.lines \in Seq(Line), NEW unit, NEW i \in DOMAIN Generate(m, unit)
    PROVE  Restores(Generate(m, unit)[i], m.lines, unit)
<1> DEFINE file == ExtractPyPath(m.lines)
           shown == Shown(Relative(file), unit)
           patch == [path |-> unit \o file.names, content |-> shown]
<1>1. Generate(m, unit) = IF MissingTool(m) \/ file = NoFile \/ shown \notin Committed
                          THEN <<>> ELSE <<patch>>
  BY DEF Generate
<1>2. /\ file # NoFile /\ shown \in Committed
      /\ Generate(m, unit) = <<patch>>
  <2> HIDE DEF file, shown, patch
  <2> QED BY <1>1
<1>3. Generate(m, unit)[i] = patch
  <2> HIDE DEF patch
  <2> QED BY <1>2
<1>4. file \in FileName /\ file \in NamesOf(m.lines[FirstNamed(m.lines)])
  BY <1>2, FirstNameIsTaken
<1> HIDE DEF file
<1>5. shown # <<>> BY <1>2, CommittedAssumption
<1>6. ASSUME file.form = "dotted" PROVE shown = unit \o file.names
  <2>1. Relative(file) = file BY <1>6 DEF Relative
  <2> QED BY <1>6, <2>1 DEF Shown
<1>7. ASSUME file.form # "dotted", unit = Top PROVE shown = unit \o file.names
  <2>1. /\ Relative(file).names = file.names
        /\ Relative(file).form = IF file.form = "inside" THEN "plain" ELSE file.form
    BY <1>4 DEF Relative, FileName
  <2>2. Relative(file).form = "plain"
    <3>1. file.form \in {"plain", "inside", "outside"} BY <1>4, <1>7 DEF FileName
    <3>2. CASE file.form = "outside" BY <1>5, <2>1, <3>2 DEF Shown
    <3> QED BY <2>1, <3>1, <3>2
  <2> QED BY <1>7, <2>1, <2>2 DEF Shown
<1>8. /\ patch.path = unit \o file.names
      /\ file.form = "dotted" \/ unit = Top => patch.content = patch.path
  BY <1>6, <1>7
<1> HIDE DEF patch
<1> QED BY <1>3, <1>4, <1>8 DEF Restores

(* The patches are those for the text of the failure. *)
PatchInv ==
    /\ phase # "generated" => patches = <<>>
    /\ PatchRestoresNamedFile

(* There are no patches at first. *)
LEMMA PatchInit == Init => PatchInv
<1> SUFFICES ASSUME Init PROVE PatchInv OBVIOUS
<1>1. patches = <<>> BY DEF Init
<1> QED BY <1>1, PatchesRestore DEF PatchInv

(* Patches come from the text of the failure and from nothing else. *)
LEMMA PatchStep == PatchInv /\ [Next]_vars => PatchInv'
<1> SUFFICES ASSUME PatchInv, [Next]_vars PROVE PatchInv' OBVIOUS
<1>1. CASE GeneratePatches
  <2>1. /\ phase' = "generated" /\ message' \in Messages
        /\ patches' = Generate(message', nodes[failed].path)
        /\ nodes' = nodes /\ failed' = failed
    BY <1>1 DEF GeneratePatches, ingestVars, graphVars
  <2>2. PICK m, unit : m = message' /\ unit = nodes[failed].path OBVIOUS
  <2>3. m.lines \in Seq(Line) BY <2>1, <2>2, MessagesHaveLines
  <2>4. \A i \in DOMAIN Generate(m, unit) : Restores(Generate(m, unit)[i], m.lines, unit)
    BY <2>3, NamedFileIsRestored
  <2>5. PatchRestoresNamedFile' BY <2>1, <2>2, <2>4, PatchesRestoreNext
  <2> QED BY <2>1, <2>5 DEF PatchInv
<1>2. CASE Ingests \/ Diagnoses
  <2>1. phase \in {"idle", "search", "score"} /\ phase' # "generated" /\ UNCHANGED patches
    BY <1>2 DEF Ingests, Diagnoses, gradientVars, GradientNext, Diagnose, FindNode, PassEdge,
                LooksAt, NextNode, SearchEnds, ReportCause
  <2>2. patches = <<>> /\ patches' = <<>> BY <2>1 DEF PatchInv
  <2>3. PatchRestoresNamedFile' BY <2>2, PatchesRestoreNext
  <2> QED BY <2>1, <2>2, <2>3 DEF PatchInv
<1>3. CASE Ended \/ UNCHANGED vars
  <2>1. UNCHANGED <<phase, nodes, failed, message, patches>>
    BY <1>3 DEF Ended, vars, ingestVars, graphVars, gradientVars
  <2>2. PatchRestoresNamedFile' BY <2>1, PatchesRestore, PatchesRestoreNext DEF PatchInv
  <2> QED BY <2>1, <2>2 DEF PatchInv
<1> QED BY <1>1, <1>2, <1>3 DEF Next

(* Whatever the commands print and the repository holds, a patch restores    *)
(* the file the output names first.                                          *)
THEOREM PatchRestores == Spec => []PatchRestoresNamedFile
<1>1. PatchInv => PatchRestoresNamedFile BY DEF PatchInv
<1> QED BY <1>1, PatchInit, PatchStep, PTL DEF Spec

-----------------------------------------------------------------------------
(* GoRequirements, line by line. *)
Inside(lines, i) == \E j \in 1 .. i - 1 : /\ OpensBlock(lines[j])
                                          /\ \A k \in j + 1 .. i - 1 : ~ClosesBlock(lines[k])
Entry(line) == ~Blank(line) /\ ~NamesModule(line) /\ ~OpensBlock(line) /\ ~ClosesBlock(line)
Single(line) == Entry(line) /\ Len(line) > 1 /\ line[1] = "require"
Requires1(lines, i) == Entry(lines[i]) /\ (Inside(lines, i) \/ Single(lines[i]))
NameAt(lines, i) == IF Inside(lines, i) THEN lines[i][1] ELSE lines[i][2]
RequiredUpto(lines, n) == {<<i, NameAt(lines, i)>> : i \in {k \in 1 .. n : Requires1(lines, k)}}

(* What a go.mod requires is what its lines require. *)
LEMMA RequirementsByLine ==
    ASSUME NEW lines \in Seq(Seq(STRING))
    PROVE  GoRequirements(lines) = RequiredUpto(lines, Len(lines))
<1>1. DOMAIN lines = 1 .. Len(lines) OBVIOUS
<1>2. GoRequirements(lines) =
        {<<i, lines[i][1]>> : i \in {k \in DOMAIN lines : Entry(lines[k]) /\ Inside(lines, k)}}
          \union {<<i, lines[i][2]>> : i \in {k \in DOMAIN lines :
                                               Single(lines[k]) /\ ~Inside(lines, k)}}
  BY DEF GoRequirements, Entry, Single, Inside
<1>3. ASSUME NEW r \in GoRequirements(lines) PROVE r \in RequiredUpto(lines, Len(lines))
  <2>1. CASE r \in {<<i, lines[i][1]>> :
                      i \in {k \in DOMAIN lines : Entry(lines[k]) /\ Inside(lines, k)}}
    <3>1. PICK i \in 1 .. Len(lines) : /\ Entry(lines[i]) /\ Inside(lines, i)
                                       /\ r = <<i, lines[i][1]>>
      BY <1>1, <2>1
    <3> QED BY <3>1 DEF RequiredUpto, Requires1, NameAt
  <2>2. CASE r \in {<<i, lines[i][2]>> :
                      i \in {k \in DOMAIN lines : Single(lines[k]) /\ ~Inside(lines, k)}}
    <3>1. PICK i \in 1 .. Len(lines) : /\ Single(lines[i]) /\ ~Inside(lines, i)
                                       /\ r = <<i, lines[i][2]>>
      BY <1>1, <2>2
    <3> QED BY <3>1 DEF RequiredUpto, Requires1, NameAt, Single
  <2> QED BY <1>2, <1>3, <2>1, <2>2
<1>4. ASSUME NEW r \in RequiredUpto(lines, Len(lines)) PROVE r \in GoRequirements(lines)
  <2>1. PICK i \in 1 .. Len(lines) : Requires1(lines, i) /\ r = <<i, NameAt(lines, i)>>
    BY <1>4 DEF RequiredUpto
  <2>2. CASE Inside(lines, i)
    <3>1. r = <<i, lines[i][1]>> /\ Entry(lines[i]) BY <2>1, <2>2 DEF NameAt, Requires1
    <3> QED BY <1>1, <1>2, <2>2, <3>1
  <2>3. CASE ~Inside(lines, i)
    <3>1. r = <<i, lines[i][2]>> /\ Single(lines[i]) BY <2>1, <2>3 DEF NameAt, Requires1
    <3> QED BY <1>1, <1>2, <2>3, <3>1
  <2> QED BY <2>2, <2>3
<1> QED BY <1>3, <1>4

(* A line is inside a block if the one before opens it, or is inside and    *)
(* does not close it.                                                       *)
LEMMA InsideByLine ==
    ASSUME NEW lines, NEW n \in Nat \ {0}
    PROVE  /\ ~Inside(lines, 1)
           /\ Inside(lines, n + 1)
                <=> (OpensBlock(lines[n]) \/ (Inside(lines, n) /\ ~ClosesBlock(lines[n])))
<1>1. ~Inside(lines, 1) BY DEF Inside
<1>2. ASSUME Inside(lines, n + 1)
      PROVE  OpensBlock(lines[n]) \/ (Inside(lines, n) /\ ~ClosesBlock(lines[n]))
  <2>1. PICK j \in 1 .. n : OpensBlock(lines[j]) /\ \A k \in j + 1 .. n : ~ClosesBlock(lines[k])
    BY <1>2 DEF Inside
  <2>2. CASE j = n BY <2>1, <2>2
  <2>3. CASE j # n
    <3>1. j \in 1 .. n - 1 /\ n \in j + 1 .. n BY <2>3
    <3>2. \A k \in j + 1 .. n - 1 : k \in j + 1 .. n OBVIOUS
    <3>3. Inside(lines, n) BY <2>1, <3>1, <3>2 DEF Inside
    <3> QED BY <2>1, <3>1, <3>3
  <2> QED BY <2>2, <2>3
<1>3. ASSUME OpensBlock(lines[n]) PROVE Inside(lines, n + 1)
  <2>1. n \in 1 .. (n + 1) - 1 /\ n + 1 .. (n + 1) - 1 = {} OBVIOUS
  <2> QED BY <1>3, <2>1 DEF Inside
<1>4. ASSUME Inside(lines, n), ~ClosesBlock(lines[n]) PROVE Inside(lines, n + 1)
  <2>1. PICK j \in 1 .. n - 1 :
          OpensBlock(lines[j]) /\ \A k \in j + 1 .. n - 1 : ~ClosesBlock(lines[k])
    BY <1>4 DEF Inside
  <2>2. j \in 1 .. (n + 1) - 1 /\ \A k \in j + 1 .. (n + 1) - 1 : k \in j + 1 .. n - 1 \/ k = n
    OBVIOUS
  <2> QED BY <1>4, <2>1, <2>2 DEF Inside
<1> QED BY <1>1, <1>2, <1>3, <1>4

(* The state of the reader of a go.mod. *)
GoState == [name : STRING \union {NoName}, inRequire : BOOLEAN, deps : Seq(STRING)]

(* What a line does: it opens or closes a block, or names what is required. *)
LEMMA GoLineReads ==
    ASSUME NEW lines \in Seq(Seq(STRING)), NEW n \in 1 .. Len(lines), NEW go \in GoState
    PROVE  /\ GoLine(go, lines[n]) \in GoState
           /\ (go.inRequire <=> Inside(lines, n)) =>
                 /\ GoLine(go, lines[n]).inRequire <=> Inside(lines, n + 1)
                 /\ GoLine(go, lines[n]).deps =
                       IF Requires1(lines, n) THEN Append(go.deps, NameAt(lines, n)) ELSE go.deps
<1> DEFINE line == lines[n]
           next == GoLine(go, line)
<1>1. line \in Seq(STRING) /\ n \in Nat \ {0} OBVIOUS
<1>2. Inside(lines, n + 1) <=> (OpensBlock(line) \/ (Inside(lines, n) /\ ~ClosesBlock(line)))
  BY <1>1, InsideByLine
<1>3. /\ go.name \in STRING \union {NoName} /\ go.inRequire \in BOOLEAN /\ go.deps \in Seq(STRING)
      /\ go = [name |-> go.name, inRequire |-> go.inRequire, deps |-> go.deps]
  BY DEF GoState
<1>4. /\ Blank(line) => ~OpensBlock(line) /\ ~ClosesBlock(line)
      /\ NamesModule(line) => ~OpensBlock(line) /\ ~ClosesBlock(line)
      /\ OpensBlock(line) => ~ClosesBlock(line)
      /\ ~Blank(line) => line # <<>> /\ line[1] \in STRING
      /\ Len(line) > 1 => line[2] \in STRING
  <2> HIDE DEF line
  <2>1. ClosesBlock(line) => Len(line) = 1 /\ line[1] = ")" BY <1>1 DEF ClosesBlock
  <2>2. OpensBlock(line) => Len(line) > 1 /\ line[1] = "require" BY DEF OpensBlock
  <2>3. Blank(line) => Len(line) = 0 \/ line[1] = "//" BY <1>1 DEF Blank
  <2>4. NamesModule(line) => Len(line) > 1 /\ line[1] = "module" BY DEF NamesModule
  <2>5. ~Blank(line) => line # <<>> /\ line[1] \in STRING BY <1>1 DEF Blank
  <2>6. Len(line) > 1 => line[2] \in STRING BY <1>1
  <2>7. Len(line) \in Nat BY <1>1
  <2> QED BY <2>1, <2>2, <2>3, <2>4, <2>5, <2>6, <2>7
<1>5. Requires1(lines, n) <=> Entry(line) /\ (Inside(lines, n) \/ Single(line)) BY DEF Requires1
<1>6. NameAt(lines, n) = IF Inside(lines, n) THEN line[1] ELSE line[2] BY DEF NameAt
<1> HIDE DEF line
<1>7. CASE Blank(line)
  <2>1. next = go BY <1>7 DEF GoLine
  <2> QED BY <1>2, <1>4, <1>5, <1>7, <2>1 DEF Entry, line
<1>8. CASE ~Blank(line) /\ NamesModule(line)
  <2>1. next = [go EXCEPT !.name = line[2]] BY <1>8 DEF GoLine
  <2>2. line[2] \in STRING BY <1>4, <1>8 DEF NamesModule
  <2>3. next \in GoState /\ next.inRequire = go.inRequire /\ next.deps = go.deps
    BY <1>3, <2>1, <2>2 DEF GoState
  <2> QED BY <1>2, <1>4, <1>5, <1>8, <2>3 DEF Entry, line
<1>9. CASE ~Blank(line) /\ ~NamesModule(line) /\ (OpensBlock(line) \/ ClosesBlock(line))
  <2>1. next = [go EXCEPT !.inRequire = OpensBlock(line)] BY <1>9 DEF GoLine
  <2>2. OpensBlock(line) \in BOOLEAN BY DEF OpensBlock
  <2>3. next \in GoState /\ next.inRequire = OpensBlock(line) /\ next.deps = go.deps
    BY <1>3, <2>1, <2>2 DEF GoState
  <2> QED BY <1>2, <1>4, <1>5, <1>9, <2>3 DEF Entry, line
<1>10. CASE Entry(line)
  <2>1. ~Blank(line) /\ ~NamesModule(line) /\ ~OpensBlock(line) /\ ~ClosesBlock(line)
    BY <1>10 DEF Entry
  <2>2. next = IF go.inRequire THEN [go EXCEPT !.deps = Append(@, line[1])]
               ELSE IF Len(line) > 1 /\ line[1] = "require"
                    THEN [go EXCEPT !.deps = Append(@, line[2])] ELSE go
    BY <2>1 DEF GoLine
  <2>3. CASE go.inRequire
    <3>1. next = [go EXCEPT !.deps = Append(@, line[1])] BY <2>2, <2>3
    <3>2. next \in GoState /\ next.inRequire = go.inRequire /\ next.deps = Append(go.deps, line[1])
      <4>1. line[1] \in STRING BY <1>4, <2>1
      <4>2. Append(go.deps, line[1]) \in Seq(STRING) BY <1>3, <4>1
      <4>3. next = [name |-> go.name, inRequire |-> go.inRequire, deps |-> Append(go.deps, line[1])]
        BY <1>3, <3>1
      <4> QED BY <1>3, <4>2, <4>3 DEF GoState
    <3> QED BY <1>2, <1>5, <1>6, <1>10, <2>1, <2>3, <3>2 DEF line
  <2>4. CASE ~go.inRequire /\ Single(line)
    <3>1. next = [go EXCEPT !.deps = Append(@, line[2])] BY <2>2, <2>4 DEF Single
    <3>2. next \in GoState /\ next.inRequire = go.inRequire /\ next.deps = Append(go.deps, line[2])
      <4>1. line[2] \in STRING BY <1>4, <2>4 DEF Single
      <4>2. Append(go.deps, line[2]) \in Seq(STRING) BY <1>3, <4>1
      <4>3. next = [name |-> go.name, inRequire |-> go.inRequire, deps |-> Append(go.deps, line[2])]
        BY <1>3, <3>1
      <4> QED BY <1>3, <4>2, <4>3 DEF GoState
    <3> QED BY <1>2, <1>5, <1>6, <1>10, <2>1, <2>4, <3>2 DEF line
  <2>5. CASE ~go.inRequire /\ ~Single(line)
    <3>1. next = go BY <1>10, <2>2, <2>5 DEF Single
    <3> QED BY <1>2, <1>5, <2>1, <2>5, <3>1 DEF line
  <2> QED BY <2>3, <2>4, <2>5
<1> QED BY <1>7, <1>8, <1>9, <1>10 DEF Entry

(* The dependencies that were read, and the places they were read at. *)
Listed(g, deps, S) ==
    /\ g \in Bijection(1 .. Len(deps), S)
    /\ \A i \in 1 .. Len(deps) : g[i][2] = deps[i]

(* A go.mod gives the modules it requires, in their order, each once for    *)
(* each place that names it.                                                *)
LEMMA GoModReads ==
    ASSUME NEW lines \in Seq(Seq(STRING)), GoMod(lines) # NoManifest
    PROVE  \E deps \in Seq(STRING) : \E g :
              GoMod(lines).deps = Typed(deps, "Compile") /\ Listed(g, deps, GoRequirements(lines))
<1> DEFINE N == Len(lines)
           first == [name |-> NoName, inRequire |-> FALSE, deps |-> <<>>]
           IsRead(r) == r = [n \in 0 .. Len(lines) |->
                               IF n = 0 THEN [name |-> NoName, inRequire |-> FALSE, deps |-> <<>>]
                               ELSE GoLine(r[n - 1], lines[n])]
           step == [p \in (1 .. N) \X GoState |-> GoLine(p[2], lines[p[1]])]
           R == CHOOSE r : IsRead(r)
<1>1. N \in Nat /\ first \in GoState BY DEF GoState
<1>2. step \in [(1 .. N) \X GoState -> GoState] BY GoLineReads
<1>3. \A n \in 1 .. N, go \in GoState : step[<<n, go>>] = GoLine(go, lines[n]) OBVIOUS
<1>4. \E r : IsRead(r)
  <2> HIDE DEF step, first, N
  <2>1. \E g : Recursive(g, N, GoState, first, step)
    <3>1. N \in Nat BY <1>1
    <3>2. first \in GoState BY <1>1
    <3>3. step \in [(1 .. N) \X GoState -> GoState] BY <1>2
    <3> HIDE DEF IsRead
    <3> QED BY <3>1, <3>2, <3>3, PrimitiveRecursion
  <2>2. PICK r : Recursive(r, N, GoState, first, step) BY <2>1
  <2>3. r \in [0 .. N -> GoState] /\ r[0] = first BY <2>2 DEF Recursive
  <2>4. \A n \in 1 .. N : n - 1 \in 0 .. N /\ n # 0 BY <1>1
  <2>5. \A n \in 1 .. N : r[n - 1] \in GoState BY <2>3, <2>4
  <2>6. \A n \in 1 .. N : r[n] = GoLine(r[n - 1], lines[n]) BY <1>3, <2>2, <2>5 DEF Recursive
  <2>7. IsRead(r) BY <1>1, <2>3, <2>6 DEF first, N
  <2> QED BY <2>7
<1>5. IsRead(R) BY <1>4
<1> HIDE DEF R
<1>6. R[0] = first /\ \A n \in 1 .. N : R[n] = GoLine(R[n - 1], lines[n])
  <2>1. 0 \in 0 .. N /\ \A n \in 1 .. N : n \in 0 .. N /\ n # 0 BY <1>1
  <2>2. R[0] = first BY <1>5, <2>1
  <2>3. \A n \in 1 .. N : R[n] = GoLine(R[n - 1], lines[n]) BY <1>5, <2>1
  <2> QED BY <2>2, <2>3
<1> HIDE DEF first
<1> DEFINE Good(n) == /\ R[n] \in GoState
                      /\ R[n].inRequire <=> Inside(lines, n + 1)
                      /\ \E g : Listed(g, R[n].deps, RequiredUpto(lines, n))
           S == {n \in 0 .. N : Good(n)}
<1>7. 0 \in S
  <2>1. R[0] \in GoState /\ ~R[0].inRequire /\ R[0].deps = <<>> BY <1>1, <1>6 DEF first
  <2>2. ~Inside(lines, 0 + 1) BY InsideByLine
  <2>3. RequiredUpto(lines, 0) = {} BY DEF RequiredUpto
  <2>4. Listed(<<>>, <<>>, {}) BY DEF Listed, Bijection, Injection, Surjection, IsInjective
  <2>5. \E g : Listed(g, R[0].deps, RequiredUpto(lines, 0)) BY <2>1, <2>3, <2>4
  <2>6. Good(0) BY <2>1, <2>2, <2>5
  <2> HIDE DEF Good
  <2> QED BY <1>1, <2>6
<1>8. ASSUME NEW n \in 1 .. N, n - 1 \in S PROVE n \in S
  <2> DEFINE old == R[n - 1].deps
             new == R[n].deps
             P == RequiredUpto(lines, n - 1)
  <2>1. R[n - 1] \in GoState /\ (R[n - 1].inRequire <=> Inside(lines, n)) BY <1>8
  <2>2. PICK g : Listed(g, old, P) BY <1>8
  <2>3. /\ R[n] \in GoState
        /\ R[n].inRequire <=> Inside(lines, n + 1)
        /\ new = IF Requires1(lines, n) THEN Append(old, NameAt(lines, n)) ELSE old
    BY <1>6, <2>1, GoLineReads
  <2>4. n \in 0 .. N BY <1>1
  <2>5. \A k \in 1 .. n : k = n \/ k \in 1 .. n - 1 OBVIOUS
  <2>6. CASE ~Requires1(lines, n)
    <3>1. RequiredUpto(lines, n) = P BY <2>5, <2>6 DEF RequiredUpto
    <3>2. Listed(g, new, RequiredUpto(lines, n)) BY <2>2, <2>3, <2>6, <3>1
    <3>3. Good(n) BY <2>3, <3>2
    <3> HIDE DEF Good
    <3> QED BY <2>4, <3>3
  <2>7. CASE Requires1(lines, n)
    <3> DEFINE x == <<n, NameAt(lines, n)>>
               h == [i \in 1 .. Len(old) + 1 |-> IF i = Len(old) + 1 THEN x ELSE g[i]]
    <3>1. RequiredUpto(lines, n) = P \union {x} BY <2>5, <2>7 DEF RequiredUpto
    <3>2. x \notin P BY DEF RequiredUpto
    <3>3. /\ old \in Seq(STRING) /\ new = Append(old, NameAt(lines, n)) /\ Len(old) \in Nat
          /\ new \in Seq(STRING)
      <4>1. old \in Seq(STRING) /\ new \in Seq(STRING) BY <2>1, <2>3 DEF GoState
      <4>2. new = Append(old, NameAt(lines, n)) BY <2>3, <2>7
      <4> HIDE DEF old, new
      <4> QED BY <4>1, <4>2
    <3>4. /\ Len(new) = Len(old) + 1 /\ new[Len(old) + 1] = NameAt(lines, n)
          /\ \A i \in 1 .. Len(old) : new[i] = old[i]
      BY <3>3
    <3>5. h \in Bijection(1 .. Len(new), RequiredUpto(lines, n))
      <4>1. g \in Bijection(1 .. Len(old), P) BY <2>2 DEF Listed
      <4> HIDE DEF x, old, new, P
      <4>2. h \in Bijection(1 .. Len(old) + 1, P \union {x}) BY <3>2, <3>3, <4>1, OneMore
      <4> QED BY <3>1, <3>4, <4>2
    <3>6. \A i \in 1 .. Len(new) : h[i][2] = new[i]
      <4>1. \A i \in 1 .. Len(old) : g[i][2] = old[i] BY <2>2 DEF Listed
      <4>2. x[2] = NameAt(lines, n) OBVIOUS
      <4> HIDE DEF x, old, new
      <4>3. TAKE i \in 1 .. Len(new)
      <4>4. CASE i = Len(old) + 1 BY <3>3, <3>4, <4>2, <4>4
      <4>5. CASE i # Len(old) + 1
        <5>1. i \in 1 .. Len(old) /\ i \in 1 .. Len(old) + 1 BY <3>3, <3>4, <4>5
        <5>2. h[i] = g[i] BY <4>5, <5>1
        <5> QED BY <3>4, <4>1, <5>1, <5>2
      <4> QED BY <4>4, <4>5
    <3> HIDE DEF h
    <3>7. Listed(h, new, RequiredUpto(lines, n)) BY <3>5, <3>6 DEF Listed
    <3>8. Good(n) BY <2>3, <3>7
    <3> HIDE DEF Good
    <3> QED BY <2>4, <3>8
  <2> QED BY <2>6, <2>7
<1>9. N \in S
  <2> HIDE DEF S
  <2>1. 0 .. N \subseteq S BY <1>1, <1>7, <1>8, StepByStep
  <2> QED BY <1>1, <2>1
<1>10. GoMod(lines) = Manifest(R[N].name, "go", Typed(R[N].deps, "Compile"))
  BY DEF GoMod, R
<1>11. GoMod(lines).deps = Typed(R[N].deps, "Compile") BY <1>10 DEF Manifest
<1>12. R[N].deps \in Seq(STRING) BY <1>9 DEF GoState
<1>13. PICK g : Listed(g, R[N].deps, GoRequirements(lines)) BY <1>9, RequirementsByLine
<1> HIDE DEF N
<1> QED BY <1>11, <1>12, <1>13

(* The dependencies of a manifest, and the places it declares them at. *)
Places(g, f) ==
    /\ g \in Bijection(1 .. Len(ManifestOf(f).deps), Declares(f))
    /\ \A i \in 1 .. Len(ManifestOf(f).deps) :
          g[i][2] = ManifestOf(f).deps[i].name /\ g[i][3] = ManifestOf(f).deps[i].type

(* A manifest gives its dependencies each once for each place. *)
LEMMA PlacesOf ==
    ASSUME tree \in Trees, NEW f \in tree, IsManifest(f)
    PROVE  \E g : Places(g, f)
<1> DEFINE deps == ManifestOf(f).deps
<1>1. deps \in Seq([name : STRING, type : DependencyType]) BY ManifestFacts
<1>2. Len(deps) \in Nat /\ DOMAIN deps = 1 .. Len(deps)
  <2> HIDE DEF deps
  <2> QED BY <1>1
<1>3. CASE f.name # "go.mod"
  <2> DEFINE at(i) == <<i, deps[i].name, deps[i].type>>
             g == [i \in 1 .. Len(deps) |-> at(i)]
  <2>1. Declares(f) = {at(i) : i \in 1 .. Len(deps)} BY <1>2, <1>3 DEF Declares
  <2> HIDE DEF deps
  <2>2. \A i \in 1 .. Len(deps) : g[i] = at(i) OBVIOUS
  <2>3. \A i, j \in 1 .. Len(deps) : g[i] = g[j] => i = j OBVIOUS
  <2>4. g \in [1 .. Len(deps) -> Declares(f)] BY <2>1
  <2>5. \A d \in Declares(f) : \E i \in 1 .. Len(deps) : g[i] = d BY <2>1
  <2>6. g \in Bijection(1 .. Len(deps), Declares(f))
    BY <2>3, <2>4, <2>5 DEF Bijection, Injection, Surjection, IsInjective
  <2>7. \A i \in 1 .. Len(deps) : g[i][2] = deps[i].name /\ g[i][3] = deps[i].type OBVIOUS
  <2> HIDE DEF g
  <2>8. Places(g, f) BY <2>6, <2>7 DEF Places, deps
  <2> QED BY <2>8
<1>4. CASE f.name = "go.mod"
  <2> DEFINE lines == f.content
             S == GoRequirements(lines)
  <2>1. lines \in Seq(Seq(STRING)) BY <1>4, TreesAssumption
  <2>2. ManifestOf(f) = GoMod(lines) /\ GoMod(lines) # NoManifest
    <3>1. Parsed(f) # NoManifest BY DEF IsManifest, ManifestOf
    <3>2. f.content # Broken BY <3>1 DEF Parsed
    <3> QED BY <1>4, <3>1, <3>2 DEF Parsed, ManifestOf
  <2> HIDE DEF lines
  <2>3. PICK names \in Seq(STRING) :
          \E g : GoMod(lines).deps = Typed(names, "Compile") /\ Listed(g, names, S)
    BY <2>1, <2>2, GoModReads
  <2>4. PICK h : GoMod(lines).deps = Typed(names, "Compile") /\ Listed(h, names, S)
    BY <2>3
  <2>5. /\ Len(names) \in Nat /\ DOMAIN names = 1 .. Len(names)
        /\ deps = Typed(names, "Compile")
    BY <2>2, <2>4
  <2>6. Len(deps) = Len(names)
    <3>1. DOMAIN deps = 1 .. Len(names) BY <2>5 DEF Typed
    <3> QED BY <1>2, <2>5, <3>1
  <2>7. \A i \in 1 .. Len(names) : deps[i].name = names[i] /\ deps[i].type = "Compile"
    BY <2>5 DEF Typed
  <2> DEFINE whole(d) == <<d[1], d[2], "Compile">>
             g == [i \in 1 .. Len(names) |-> whole(h[i])]
  <2>8. Declares(f) = {whole(d) : d \in S} BY <1>4 DEF Declares, lines
  <2>9. /\ h \in [1 .. Len(names) -> S]
        /\ \A i, j \in 1 .. Len(names) : h[i] = h[j] => i = j
        /\ \A d \in S : \E i \in 1 .. Len(names) : h[i] = d
        /\ \A i \in 1 .. Len(names) : h[i][2] = names[i]
    BY <2>4 DEF Listed, Bijection, Injection, Surjection, IsInjective
  <2>10. \A d \in S : d = <<d[1], d[2]>> BY <2>1, RequirementsByLine DEF RequiredUpto
  <2> HIDE DEF S, deps
  <2>11. \A i, j \in 1 .. Len(names) : g[i] = g[j] => i = j
    <3> SUFFICES ASSUME NEW i \in 1 .. Len(names), NEW j \in 1 .. Len(names), g[i] = g[j]
                 PROVE  i = j
      OBVIOUS
    <3>1. h[i] \in S /\ h[j] \in S BY <2>9
    <3>2. h[i][1] = h[j][1] /\ h[i][2] = h[j][2] OBVIOUS
    <3>3. h[i] = h[j] BY <2>10, <3>1, <3>2
    <3> QED BY <2>9, <3>3
  <2>12. g \in [1 .. Len(names) -> Declares(f)] BY <2>8, <2>9
  <2>13. \A d \in Declares(f) : \E i \in 1 .. Len(names) : g[i] = d BY <2>8, <2>9
  <2>14. g \in Bijection(1 .. Len(names), Declares(f))
    BY <2>11, <2>12, <2>13 DEF Bijection, Injection, Surjection, IsInjective
  <2>15. \A i \in 1 .. Len(names) : g[i][2] = deps[i].name /\ g[i][3] = deps[i].type
    BY <2>7, <2>9
  <2> HIDE DEF g
  <2>16. Places(g, f) BY <2>6, <2>14, <2>15 DEF Places, deps
  <2> QED BY <2>16
<1> QED BY <1>3, <1>4

-----------------------------------------------------------------------------
(* The package of a file, and the dependency that a declaration is of. *)
NameOf(f) == ManifestOf(f).name
Dep(p) == ManifestOf(p[1]).deps[p[2]]

(* The declarations that were added: all of the manifests read, but of the  *)
(* file f whose dependencies are being added the first n.                   *)
Added(f, n) ==
    {p \in visited \X Nat :
        /\ IsManifest(p[1]) /\ p[2] \in 1 .. Len(ManifestOf(p[1]).deps)
        /\ p[1] = f /\ pending # <<>> => p[2] <= n}

(* What is pending are the dependencies of f after the first n. *)
InHand(f, n) ==
    pending # <<>> =>
        /\ f \in Read /\ adding.name = NameOf(f)
        /\ Len(ManifestOf(f).deps) = n + Len(pending)
        /\ \A i \in 1 .. Len(pending) : pending[i] = ManifestOf(f).deps[n + i]

(* Each edge stands for a declaration, each declaration for an edge. *)
EdgeEach(h, f, n) ==
    /\ h \in Bijection(1 .. Len(edges), Added(f, n))
    /\ \A e \in 1 .. Len(edges) :
          /\ nodes[edges[e].from].name = NameOf(h[e][1])
          /\ nodes[edges[e].to].name = Dep(h[e]).name
          /\ edges[e].type = Dep(h[e]).type

(* The nodes are the packages and the dependencies added. *)
Named(f, n) == NodeNames = {NameOf(g) : g \in Read} \union {Dep(p).name : p \in Added(f, n)}

(* A node is a package exactly if a manifest that was read has its name. *)
Described ==
    \A n \in DOMAIN nodes :
        IF nodes[n].name \in {NameOf(f) : f \in Read} THEN nodes[n] \in {Package(f) : f \in Read}
        ELSE nodes[n].type = "External"

(* The graph is that of the declarations added so far. *)
Progress(f, n, h) == n \in Nat /\ InHand(f, n) /\ EdgeEach(h, f, n) /\ Named(f, n)

GraphSoFar == Described /\ visited \subseteq tree /\ \E f, n, h : Progress(f, n, h)

(* Where nothing of it changes, the graph stays what was read. *)
LEMMA GraphSoFarStays ==
    ASSUME GraphSoFar, UNCHANGED <<tree, visited, pending, adding, nodes, edges>>
    PROVE  GraphSoFar'
<1>1. PICK f, n, h : Progress(f, n, h) BY DEF GraphSoFar
<1>2. Read' = Read /\ NodeNames' = NodeNames BY DEF Read, NodeNames
<1>3. Added(f, n)' = Added(f, n) BY DEF Added
<1>4. Progress(f, n, h)' BY <1>1, <1>2, <1>3 DEF Progress, InHand, EdgeEach, Named
<1>5. Described' BY <1>2 DEF GraphSoFar, Described
<1> QED BY <1>4, <1>5 DEF GraphSoFar

(* A manifest that is read adds its package, and nothing is declared yet. *)
LEMMA VisitGraphSoFar ==
    ASSUME GraphInv, AddingInv, GraphSoFar, NEW f \in tree, VisitFile(f)
    PROVE  GraphSoFar'
<1>1. /\ pending = <<>> /\ UNCHANGED <<tree, edges>> /\ visited' = visited \union {f}
      /\ outcome = "walking" /\ f \notin visited
      /\ nodes \in Seq(Node) /\ edges \in Seq(Edge) /\ tree \in Trees /\ EdgesJoin /\ Index
  BY DEF VisitFile, Walking, GraphInv, AddingInv
<1>2. PICK f0, n0, h : Progress(f0, n0, h) BY DEF GraphSoFar
<1>3. visited' \subseteq tree' BY <1>1 DEF GraphSoFar
<1>4. CASE ~IsManifest(f)
  <2>1. UNCHANGED <<nodes, byName, adding, pending>> BY <1>4 DEF VisitFile
  <2>2. Read' = Read BY <1>1, <1>4 DEF Read
  <2>3. NodeNames' = NodeNames BY <2>1 DEF NodeNames
  <2>4. Added(f0, n0)' = Added(f0, n0) BY <1>1, <1>4, <2>1 DEF Added
  <2>5. Progress(f0, n0, h)'
    BY <1>1, <1>2, <2>1, <2>2, <2>3, <2>4 DEF Progress, InHand, EdgeEach, Named
  <2>6. Described' BY <2>1, <2>2 DEF GraphSoFar, Described
  <2> QED BY <1>3, <2>5, <2>6 DEF GraphSoFar
<1>5. CASE IsManifest(f)
  <2> DEFINE p == Package(f)
             deps == ManifestOf(f).deps
  <2>1. /\ DescribePackage(f)
        /\ adding' = [name |-> ManifestOf(f).name, dir |-> f.dir]
        /\ pending' = deps
    BY <1>5 DEF VisitFile
  <2>2. p \in Node /\ p.name = NameOf(f) /\ deps \in Seq([name : STRING, type : DependencyType])
    BY <1>1, <1>5, ManifestFacts DEF NameOf
  <2>3. Read' = Read \union {f} BY <1>1, <1>5 DEF Read
  <2> HIDE DEF p
  <2>4. /\ DOMAIN nodes \subseteq DOMAIN nodes' /\ NodeNames' = NodeNames \union {NameOf(f)}
        /\ \A n \in DOMAIN nodes : nodes'[n].name = nodes[n].name
        /\ \A n \in DOMAIN nodes' :
              nodes'[n] = p \/ (n \in DOMAIN nodes /\ nodes'[n] = nodes[n]
                                /\ nodes[n].name # NameOf(f))
    <3>1. CASE NameOf(f) \in DOMAIN byName
      <4> DEFINE k == byName[NameOf(f)]
      <4>1. nodes' = [nodes EXCEPT ![k] = p] BY <2>1, <3>1 DEF DescribePackage, p, NameOf
      <4>2. k \in DOMAIN nodes /\ nodes[k].name = NameOf(f) BY <1>1, <3>1 DEF Index
      <4>3. /\ DOMAIN nodes' = DOMAIN nodes /\ nodes'[k] = p
            /\ \A n \in DOMAIN nodes \ {k} : nodes'[n] = nodes[n]
        BY <4>1, <4>2
      <4>4. \A n \in DOMAIN nodes : nodes[n].name = NameOf(f) => n = k
        BY <4>2 DEF GraphInv, OneNodeEach
      <4>5. \A n \in DOMAIN nodes : nodes'[n].name = nodes[n].name BY <2>2, <4>2, <4>3
      <4>6. NodeNames' = NodeNames /\ NameOf(f) \in NodeNames BY <4>2, <4>3, <4>5 DEF NodeNames
      <4> QED BY <4>2, <4>3, <4>4, <4>5, <4>6
    <3>2. CASE NameOf(f) \notin DOMAIN byName
      <4> DEFINE k == Len(nodes) + 1
      <4>1. nodes' = Append(nodes, p)
        BY <2>1, <2>2, <3>2 DEF DescribePackage, AddNode, p, NameOf
      <4>2. /\ DOMAIN nodes' = DOMAIN nodes \union {k} /\ nodes'[k] = p
            /\ \A n \in DOMAIN nodes : nodes'[n] = nodes[n]
        BY <1>1, <2>2, <4>1
      <4>3. NodeNames' = NodeNames \union {NameOf(f)} BY <2>2, <4>2 DEF NodeNames
      <4>4. \A n \in DOMAIN nodes : nodes[n].name # NameOf(f) BY <1>1, <3>2 DEF Index, NodeNames
      <4> QED BY <4>2, <4>3, <4>4
    <3> QED BY <3>1, <3>2
  <2>5. Added(f, 0)' = Added(f0, n0)
    <3>1. pending = <<>> /\ pending' = deps /\ Len(deps) \in Nat BY <1>1, <2>1, <2>2
    <3>2. ASSUME NEW q \in Added(f, 0)' PROVE q \in Added(f0, n0)
      <4>1. /\ q \in (visited \union {f}) \X Nat /\ IsManifest(q[1])
            /\ q[2] \in 1 .. Len(ManifestOf(q[1]).deps)
            /\ q[1] = f /\ deps # <<>> => q[2] <= 0
        BY <1>1, <3>1, <3>2 DEF Added
      <4>2. q[1] # f
        <5>1. ASSUME q[1] = f PROVE FALSE
          <6>1. q[2] \in 1 .. Len(deps) BY <4>1, <5>1
          <6>2. deps # <<>> BY <2>2, <6>1
          <6> HIDE DEF deps
          <6> QED BY <3>1, <4>1, <5>1, <6>1, <6>2
        <5> QED BY <5>1
      <4> QED BY <3>1, <4>1, <4>2 DEF Added
    <3>3. ASSUME NEW q \in Added(f0, n0) PROVE q \in Added(f, 0)'
      <4>1. /\ q \in visited \X Nat /\ IsManifest(q[1])
            /\ q[2] \in 1 .. Len(ManifestOf(q[1]).deps)
        BY <3>3 DEF Added
      <4>2. q[1] # f BY <1>1, <4>1
      <4> QED BY <1>1, <4>1, <4>2 DEF Added
    <3> QED BY <3>2, <3>3
  <2>6. InHand(f, 0)'
    <3>1. adding'.name = NameOf(f) BY <2>1 DEF NameOf
    <3>2. Len(deps) = 0 + Len(deps) /\ \A i \in 1 .. Len(deps) : deps[i] = deps[0 + i]
      <4> HIDE DEF deps
      <4> QED BY <2>2
    <3> QED BY <2>1, <2>3, <3>1, <3>2 DEF InHand
  <2>7. EdgeEach(h, f, 0)'
    <3>1. /\ h \in Bijection(1 .. Len(edges'), Added(f, 0)')
          /\ EdgeEach(h, f0, n0)
      BY <1>1, <1>2, <2>5 DEF Progress, EdgeEach
    <3>2. ASSUME NEW e \in 1 .. Len(edges)
          PROVE  edges[e].from \in DOMAIN nodes /\ edges[e].to \in DOMAIN nodes
      BY <1>1, <3>2 DEF EdgesJoin
    <3>3. ASSUME NEW e \in 1 .. Len(edges)
          PROVE /\ nodes'[edges[e].from].name = NameOf(h[e][1])
                /\ nodes'[edges[e].to].name = Dep(h[e]).name
                /\ edges[e].type = Dep(h[e]).type
      BY <2>4, <3>1, <3>2, <3>3 DEF EdgeEach
    <3> QED BY <1>1, <3>1, <3>3 DEF EdgeEach
  <2>8. Named(f, 0)'
    <3>1. {NameOf(g) : g \in Read'} = {NameOf(g) : g \in Read} \union {NameOf(f)} BY <2>3
    <3>2. NodeNames = {NameOf(g) : g \in Read} \union {Dep(q).name : q \in Added(f0, n0)}
      BY <1>2 DEF Progress, Named
    <3> QED BY <2>4, <2>5, <3>1, <3>2 DEF Named
  <2>9. Described'
    <3> SUFFICES ASSUME NEW n \in DOMAIN nodes'
                 PROVE  IF nodes'[n].name \in {NameOf(g) : g \in Read'}
                        THEN nodes'[n] \in {Package(g) : g \in Read'}
                        ELSE nodes'[n].type = "External"
      BY DEF Described
    <3>1. CASE nodes'[n] = p BY <2>2, <2>3, <3>1 DEF p
    <3>2. CASE n \in DOMAIN nodes /\ nodes'[n] = nodes[n] /\ nodes[n].name # NameOf(f)
      <4>1. nodes'[n].name \in {NameOf(g) : g \in Read'}
              <=> nodes[n].name \in {NameOf(g) : g \in Read}
        BY <2>3, <3>2
      <4> QED BY <2>3, <3>2, <4>1 DEF GraphSoFar, Described
    <3> QED BY <2>4, <3>1, <3>2
  <2>10. Progress(f, 0, h)' BY <2>6, <2>7, <2>8 DEF Progress
  <2> QED BY <1>3, <2>9, <2>10 DEF GraphSoFar
<1> QED BY <1>4, <1>5

(* A dependency that is added gives an edge, and a node if its name has     *)
(* none.                                                                    *)
LEMMA AddGraphSoFar ==
    ASSUME GraphInv, AddingInv, GraphSoFar, AddDependency
    PROVE  GraphSoFar'
<1> DEFINE dep == Head(pending)
           x == External(dep)
           k == byName[adding.name]
           m == Len(edges) + 1
           e == [from |-> k, to |-> byName'[dep.name], type |-> dep.type]
<1>1. /\ pending # <<>> /\ UNCHANGED <<tree, visited, adding>>
      /\ AddNode(x) /\ edges' = Append(edges, e) /\ pending' = Tail(pending)
  BY DEF AddDependency
<1>2. /\ nodes \in Seq(Node) /\ edges \in Seq(Edge) /\ tree \in Trees
      /\ Kinds /\ OneNodeEach /\ EdgesJoin /\ Index
      /\ pending \in Seq([name : STRING, type : DependencyType])
      /\ adding.dir \in {g.dir : g \in Files} /\ adding.name \in DOMAIN byName
  BY <1>1 DEF GraphInv, AddingInv, AddDependency
<1>3. /\ dep = pending[1] /\ dep \in [name : STRING, type : DependencyType]
      /\ Len(pending) \in Nat \ {0} /\ Len(pending') = Len(pending) - 1
      /\ \A i \in 1 .. Len(pending') : pending'[i] = pending[i + 1]
      /\ pending' \in Seq([name : STRING, type : DependencyType])
  <2> DEFINE R == [name : STRING, type : DependencyType]
  <2>1. pending \in Seq(R) BY <1>2
  <2> HIDE DEF R
  <2>2. /\ dep = pending[1] /\ dep \in R /\ Len(pending) \in Nat \ {0}
        /\ Tail(pending) \in Seq(R) /\ Len(Tail(pending)) = Len(pending) - 1
        /\ \A i \in 1 .. Len(Tail(pending)) : Tail(pending)[i] = pending[i + 1]
    BY <1>1, <2>1
  <2> QED BY <1>1, <2>2 DEF R
<1>4. /\ x \in Node /\ x.name = dep.name /\ x.type = "External" /\ x.language = Empty
      /\ dep.type \in DependencyType
  BY <1>2, <1>3 DEF External, Node
<1>5. k \in DOMAIN nodes /\ nodes[k].name = adding.name BY <1>2 DEF Index
<1> HIDE DEF dep, x
<1>6. /\ nodes' \in Seq(Node) /\ Index'
      /\ DOMAIN nodes \subseteq DOMAIN nodes'
      /\ \A n \in DOMAIN nodes : nodes'[n] = nodes[n]
      /\ dep.name \in DOMAIN byName'
  BY <1>1, <1>2, <1>4, AddNodeFacts
<1>7. byName'[dep.name] \in DOMAIN nodes' /\ nodes'[byName'[dep.name]].name = dep.name
  BY <1>6 DEF Index
<1>8. /\ NodeNames' = NodeNames \union {dep.name}
      /\ \A n \in DOMAIN nodes' : n \in DOMAIN nodes \/ nodes'[n] = x
  <2>1. CASE dep.name \in DOMAIN byName
    <3>1. nodes' = nodes BY <1>1, <1>4, <2>1 DEF AddNode
    <3>2. dep.name \in NodeNames BY <1>2, <2>1 DEF Index
    <3> QED BY <3>1, <3>2 DEF NodeNames
  <2>2. CASE dep.name \notin DOMAIN byName
    <3>1. nodes' = Append(nodes, x) BY <1>1, <1>4, <2>2 DEF AddNode
    <3>2. DOMAIN nodes' = DOMAIN nodes \union {Len(nodes) + 1} /\ nodes'[Len(nodes) + 1] = x
      BY <1>2, <1>4, <3>1
    <3> QED BY <1>4, <1>6, <3>2 DEF NodeNames
  <2> QED BY <2>1, <2>2
<1>9. DOMAIN nodes \subseteq Nat /\ DOMAIN nodes' \subseteq Nat BY <1>2, <1>6
<1>10. e \in Edge /\ e.from = k /\ e.to = byName'[dep.name] /\ e.type = dep.type
  BY <1>4, <1>5, <1>7, <1>9 DEF Edge
<1> HIDE DEF e
<1>11. /\ Len(edges) \in Nat /\ Len(edges') = m /\ edges'[m] = e
       /\ \A d \in 1 .. Len(edges) : edges'[d] = edges[d]
  BY <1>1, <1>2, <1>10
<1>12. PICK f, n, h : Progress(f, n, h) BY DEF GraphSoFar
<1> DEFINE deps == ManifestOf(f).deps
           p == <<f, n + 1>>
<1>13. /\ n \in Nat /\ f \in Read /\ adding.name = NameOf(f)
       /\ Len(deps) = n + Len(pending)
       /\ \A i \in 1 .. Len(pending) : pending[i] = deps[n + i]
  BY <1>1, <1>12 DEF Progress, InHand
<1> DEFINE l == Len(pending)
<1>25. n \in Nat /\ l \in Nat \ {0} /\ Len(pending') = l - 1 /\ Len(deps) = n + l BY <1>3, <1>13
<1>14. dep = Dep(p) /\ n + 1 \in 1 .. Len(deps)
  <2>1. 1 \in 1 .. Len(pending) BY <1>3
  <2>2. dep = deps[n + 1] BY <1>3, <1>13, <2>1
  <2> QED BY <1>3, <1>13, <2>2 DEF Dep
<1>15. Read' = Read BY <1>1 DEF Read
<1>16. InHand(f, n + 1)'
  <2>1. Len(deps) = (n + 1) + Len(pending') BY <1>3, <1>13
  <2>2. ASSUME NEW i \in 1 .. Len(pending') PROVE pending'[i] = deps[(n + 1) + i]
    <3>1. i + 1 \in 1 .. l /\ n + (i + 1) = (n + 1) + i
      <4> HIDE DEF l, deps
      <4> QED BY <1>25
    <3> HIDE DEF deps
    <3> QED BY <1>3, <1>13, <3>1
  <2> QED BY <1>1, <1>13, <1>15, <2>1, <2>2 DEF InHand
<1>17. /\ p \notin Added(f, n) /\ Added(f, n + 1)' = Added(f, n) \union {p}
  <2>1. f \in visited /\ IsManifest(f) BY <1>13 DEF Read
  <2>2. p \notin Added(f, n) BY <1>1, <1>13 DEF Added
  <2>3. ASSUME NEW q \in Added(f, n + 1)', q # p PROVE q \in Added(f, n)
    <3>1. /\ q \in visited \X Nat /\ IsManifest(q[1])
          /\ q[2] \in 1 .. Len(ManifestOf(q[1]).deps)
          /\ q[1] = f /\ pending' # <<>> => q[2] <= n + 1
      BY <1>1, <2>3 DEF Added
    <3>2. ASSUME q[1] = f PROVE q[2] <= n
      <4>1. q[2] # n + 1 BY <2>3, <3>1, <3>2
      <4>2. CASE pending' = <<>>
        <5>1. Len(pending') = 0 BY <4>2
        <5>2. Len(deps) = n + 1
          <6> HIDE DEF l, deps
          <6> QED BY <1>25, <5>1
        <5>3. q[2] \in 1 .. Len(deps) BY <3>1, <3>2
        <5> HIDE DEF deps
        <5> QED BY <1>13, <4>1, <5>2, <5>3
      <4>3. CASE pending' # <<>> BY <1>13, <3>1, <3>2, <4>1, <4>3
      <4> QED BY <4>2, <4>3
    <3> QED BY <3>1, <3>2 DEF Added
  <2>4. ASSUME NEW q \in Added(f, n) PROVE q \in Added(f, n + 1)'
    BY <1>1, <1>13, <2>4 DEF Added
  <2>5. p \in Added(f, n + 1)' BY <1>1, <1>13, <1>14, <2>1 DEF Added
  <2> QED BY <2>2, <2>3, <2>4, <2>5
<1>26. PICK g : g = [i \in 1 .. Len(edges) + 1 |-> IF i = Len(edges) + 1 THEN p ELSE h[i]]
  OBVIOUS
<1>18. EdgeEach(h, f, n) BY <1>12 DEF Progress
<1>19. g \in Bijection(1 .. Len(edges'), Added(f, n + 1)')
  <2>1. h \in Bijection(1 .. Len(edges), Added(f, n)) BY <1>18 DEF EdgeEach
  <2> HIDE DEF p
  <2>2. g \in Bijection(1 .. Len(edges) + 1, Added(f, n) \union {p})
    BY <1>11, <1>17, <1>26, <2>1, OneMore
  <2> QED BY <1>11, <1>17, <2>2
<1>20. /\ g[m] = p /\ \A d \in 1 .. Len(edges) : g[d] = h[d]
       /\ \A d \in 1 .. Len(edges') : d = m \/ d \in 1 .. Len(edges)
       /\ Len(edges') \in Nat
  <2> HIDE DEF p
  <2> QED BY <1>11, <1>26
<1> HIDE DEF m, deps
<1>21. EdgeEach(g, f, n + 1)'
  <2>1. ASSUME NEW d \in 1 .. Len(edges')
        PROVE  /\ nodes'[edges'[d].from].name = NameOf(g[d][1])
               /\ nodes'[edges'[d].to].name = Dep(g[d]).name
               /\ edges'[d].type = Dep(g[d]).type
    <3>1. CASE d = m
      <4>1. g[d][1] = f BY <1>20, <3>1
      <4>2. nodes'[k].name = NameOf(f) BY <1>5, <1>6, <1>13
      <4> QED BY <1>7, <1>10, <1>11, <1>14, <1>20, <3>1, <4>1, <4>2
    <3>2. CASE d \in 1 .. Len(edges)
      <4>1. edges[d].from \in DOMAIN nodes /\ edges[d].to \in DOMAIN nodes
        BY <1>2, <3>2 DEF EdgesJoin
      <4> QED BY <1>6, <1>11, <1>18, <1>20, <3>2, <4>1 DEF EdgeEach
    <3> QED BY <1>20, <3>1, <3>2
  <2> QED BY <1>19, <2>1 DEF EdgeEach
<1>22. Named(f, n + 1)'
  <2>1. NodeNames = {NameOf(q) : q \in Read} \union {Dep(q).name : q \in Added(f, n)}
    BY <1>12 DEF Progress, Named
  <2>2. {Dep(q).name : q \in Added(f, n + 1)'} = {Dep(q).name : q \in Added(f, n)} \union {dep.name}
    BY <1>14, <1>17
  <2> QED BY <1>8, <1>15, <2>1, <2>2 DEF Named
<1>23. Described'
  <2> SUFFICES ASSUME NEW i \in DOMAIN nodes'
               PROVE  IF nodes'[i].name \in {NameOf(q) : q \in Read}
                      THEN nodes'[i] \in {Package(q) : q \in Read}
                      ELSE nodes'[i].type = "External"
    BY <1>15 DEF Described
  <2>1. CASE i \in DOMAIN nodes BY <1>6, <2>1 DEF GraphSoFar, Described
  <2>2. CASE i \notin DOMAIN nodes
    <3>1. nodes'[i] = x BY <1>8, <2>2
    <3>2. nodes'[i].name \notin NodeNames
      <4>1. dep.name \notin DOMAIN byName
        <5>1. ASSUME dep.name \in DOMAIN byName PROVE FALSE
          <6>1. nodes' = nodes BY <1>1, <1>4, <5>1 DEF AddNode
          <6> QED BY <2>2, <6>1
        <5> QED BY <5>1
      <4> QED BY <1>2, <1>4, <3>1, <4>1 DEF Index
    <3>3. nodes'[i].name \notin {NameOf(q) : q \in Read}
      BY <1>12, <3>2 DEF Progress, Named
    <3> QED BY <1>4, <3>1, <3>3
  <2> QED BY <2>1, <2>2
<1>24. Progress(f, n + 1, g)' BY <1>13, <1>16, <1>21, <1>22 DEF Progress
<1>27. visited' \subseteq tree' BY <1>1 DEF GraphSoFar
<1> QED BY <1>23, <1>24, <1>27 DEF GraphSoFar

-----------------------------------------------------------------------------
(* A directory that the walk does not pass over. *)
Clean(d) == \A i \in 2 .. Len(d) : ~Skipped(d[i])

(* All that is in a directory was looked at. *)
Closed(d) == SubdirsOf(d) \subseteq entered /\ FilesOf(d) \subseteq visited

(* The walk: what is read or was read is in no hidden directory, and is read *)
(* to its end when it is no longer open.                                     *)
WalkInv ==
    /\ open \in Seq(entered) /\ open # <<>>
    /\ entered \subseteq Directories(tree)
    /\ \A i \in DOMAIN open : Clean(open[i])
    /\ \A f \in tree : Prefix(f.dir, 1) \in entered
    /\ visited \subseteq {f \in tree : Visible(f)}
    /\ outcome \in {"walking", "err", "ok", "loaded"}
    /\ outcome = "walking" =>
          \A d \in entered : Clean(d) => Closed(d) \/ \E i \in DOMAIN open : open[i] = d
    /\ outcome \in {"ok", "loaded"} => \A d \in entered : Clean(d) => Closed(d)

(* The beginning of a path. *)
LEMMA PrefixFacts ==
    ASSUME NEW dir \in Seq(STRING), NEW n \in 0 .. Len(dir)
    PROVE  /\ Prefix(dir, n) \in Seq(STRING) /\ Len(Prefix(dir, n)) = n
           /\ \A i \in 1 .. n : Prefix(dir, n)[i] = dir[i]
           /\ \A m \in 0 .. n : Prefix(Prefix(dir, n), m) = Prefix(dir, m)
           /\ Prefix(dir, Len(dir)) = dir
<1>1. \A m \in 0 .. Len(dir) :
         Prefix(dir, m) = [i \in 1 .. m |-> dir[i]] /\ Prefix(dir, m) \in Seq(STRING)
         /\ Len(Prefix(dir, m)) = m
  BY DEF Prefix
<1>2. \A i \in 1 .. n : Prefix(dir, n)[i] = dir[i] BY <1>1
<1>3. ASSUME NEW m \in 0 .. n PROVE Prefix(Prefix(dir, n), m) = Prefix(dir, m)
  <2>1. Prefix(Prefix(dir, n), m) = [i \in 1 .. m |-> Prefix(dir, n)[i]]
    BY <1>1 DEF Prefix
  <2>2. \A i \in 1 .. m : i \in 1 .. n OBVIOUS
  <2>3. m \in 0 .. Len(dir) OBVIOUS
  <2>4. \A i \in 1 .. m : Prefix(dir, n)[i] = dir[i] BY <1>2, <2>2
  <2> QED BY <1>1, <2>1, <2>3, <2>4
<1>4. Prefix(dir, Len(dir)) = dir BY DEF Prefix
<1> QED BY <1>1, <1>2, <1>3, <1>4

(* Directories lie on the way to files. *)
LEMMA DirectoryFacts ==
    ASSUME tree \in Trees
    PROVE  /\ \A f \in tree : f.dir \in Seq(STRING) /\ f.dir # <<>>
           /\ \A f, g \in tree : Prefix(f.dir, 1) = Prefix(g.dir, 1)
           /\ \A f \in tree : \A n \in 1 .. Len(f.dir) : Prefix(f.dir, n) \in Directories(tree)
           /\ \A d \in Directories(tree) : d \in Seq(STRING) /\ Len(d) >= 1
<1>1. \A f, g \in tree : f.dir \in Seq(STRING) /\ f.dir # <<>> /\ f.dir[1] = g.dir[1]
  BY TreesAssumption
<1>2. \A f \in tree : \A n \in 1 .. Len(f.dir) : Prefix(f.dir, n) \in Directories(tree)
  BY DEF Directories
<1>3. \A f, g \in tree : Prefix(f.dir, 1) = Prefix(g.dir, 1)
  <2>1. \A f \in tree : /\ Prefix(f.dir, 1) \in Seq(STRING) /\ Len(Prefix(f.dir, 1)) = 1
                        /\ Prefix(f.dir, 1)[1] = f.dir[1]
    <3> TAKE f \in tree
    <3>1. 1 \in 0 .. Len(f.dir) /\ f.dir \in Seq(STRING) BY <1>1
    <3>2. /\ Prefix(f.dir, 1) \in Seq(STRING) /\ Len(Prefix(f.dir, 1)) = 1
          /\ \A i \in 1 .. 1 : Prefix(f.dir, 1)[i] = f.dir[i]
      BY <3>1, PrefixFacts
    <3> QED BY <3>2
  <2> TAKE f, g \in tree
  <2> DEFINE s == Prefix(f.dir, 1)
             t == Prefix(g.dir, 1)
  <2>2. s \in Seq(STRING) /\ t \in Seq(STRING) /\ Len(s) = 1 /\ Len(t) = 1 /\ s[1] = t[1]
    BY <1>1, <2>1
  <2> HIDE DEF s, t
  <2>3. \A i \in 1 .. Len(s) : s[i] = t[i] BY <2>2
  <2>4. s = t BY <2>2, <2>3, SeqEqual
  <2> QED BY <2>4 DEF s, t
<1>4. ASSUME NEW d \in Directories(tree) PROVE d \in Seq(STRING) /\ Len(d) >= 1
  <2>1. PICK f \in tree : \E n \in 1 .. Len(f.dir) : d = Prefix(f.dir, n) BY DEF Directories
  <2>3. PICK n \in 1 .. Len(f.dir) : d = Prefix(f.dir, n) BY <2>1
  <2>2. n \in 0 .. Len(f.dir) /\ n >= 1 /\ f.dir \in Seq(STRING) BY <1>1
  <2> QED BY <2>2, <2>3, PrefixFacts
<1> QED BY <1>1, <1>2, <1>3, <1>4

(* A directory is clean if the one it is in is, and its own name. *)
LEMMA CleanBelow ==
    ASSUME NEW d \in Seq(STRING), NEW n \in Nat, Len(d) = n + 1, n >= 1
    PROVE  Clean(d) <=> (Clean(Prefix(d, n)) /\ ~Skipped(d[Len(d)]))
<1>1. Len(Prefix(d, n)) = n /\ \A i \in 1 .. n : Prefix(d, n)[i] = d[i]
  BY PrefixFacts
<1>2. \A i \in 2 .. Len(d) : i = Len(d) \/ i \in 2 .. n OBVIOUS
<1>3. Len(d) \in 2 .. Len(d) /\ \A i \in 2 .. n : i \in 2 .. Len(d) /\ i \in 1 .. n OBVIOUS
<1> QED BY <1>1, <1>2, <1>3 DEF Clean

(* What was looked at stays looked at. *)
LEMMA ClosedStays ==
    ASSUME UNCHANGED tree, entered \subseteq entered', visited \subseteq visited',
           NEW d, Closed(d)
    PROVE  Closed(d)'
<1>1. SubdirsOf(d)' = SubdirsOf(d) /\ FilesOf(d)' = FilesOf(d) BY DEF SubdirsOf, FilesOf
<1> QED BY <1>1 DEF Closed

(* The directory being read is one of those on the way to the files. *)
LEMMA HereFacts ==
    ASSUME WalkInv, tree \in Trees
    PROVE  /\ Len(open) \in Nat \ {0} /\ DOMAIN open = 1 .. Len(open) /\ Len(open) \in DOMAIN open
           /\ Here \in entered /\ Clean(Here) /\ Here \in Directories(tree)
           /\ Here \in Seq(STRING) /\ Len(Here) >= 1
<1>1. Len(open) \in Nat \ {0} /\ DOMAIN open = 1 .. Len(open) /\ Here \in entered
  BY DEF WalkInv, Here
<1>2. Clean(Here) BY <1>1 DEF WalkInv, Here
<1>3. Here \in Directories(tree) BY <1>1 DEF WalkInv
<1> QED BY <1>1, <1>2, <1>3, DirectoryFacts

(* A directory that is found is read if its name is not skipped. *)
LEMMA EnterWalk ==
    ASSUME WalkInv, tree \in Trees, NEW d, EnterDirectory(d)
    PROVE  WalkInv'
<1>1. /\ outcome = "walking" /\ UNCHANGED <<tree, outcome, visited>>
      /\ d \in SubdirsOf(Here) /\ entered' = entered \union {d}
      /\ open' = IF Skipped(d[Len(d)]) THEN open ELSE Append(open, d)
  BY DEF EnterDirectory, Walking
<1>2. /\ Len(open) \in Nat \ {0} /\ DOMAIN open = 1 .. Len(open) /\ Clean(Here)
      /\ Here \in Seq(STRING) /\ Len(Here) >= 1
  BY HereFacts
<1>3. d \in Directories(tree) /\ Len(d) = Len(Here) + 1 /\ Prefix(d, Len(Here)) = Here
  BY <1>1 DEF SubdirsOf
<1>4. Clean(d) <=> ~Skipped(d[Len(d)])
  <2>1. d \in Seq(STRING) BY <1>3, DirectoryFacts
  <2>2. Len(Here) \in Nat BY <1>2
  <2> QED BY <1>2, <1>3, <2>1, <2>2, CleanBelow
<1>5. open \in Seq(entered) BY DEF WalkInv
<1>6. /\ open' \in Seq(entered') /\ open' # <<>>
      /\ \A i \in DOMAIN open : i \in DOMAIN open' /\ open'[i] = open[i]
      /\ \A i \in DOMAIN open' : (open'[i] = d /\ ~Skipped(d[Len(d)])) \/ i \in DOMAIN open
      /\ ~Skipped(d[Len(d)]) => \E i \in DOMAIN open' : open'[i] = d
  <2>1. open \in Seq(entered') BY <1>1, <1>5
  <2>2. CASE Skipped(d[Len(d)]) BY <1>1, <1>2, <2>1, <2>2
  <2>3. CASE ~Skipped(d[Len(d)])
    <3>1. open' = Append(open, d) /\ d \in entered' BY <1>1, <2>3
    <3>2. /\ open' \in Seq(entered') /\ DOMAIN open' = 1 .. Len(open) + 1
          /\ open'[Len(open) + 1] = d
          /\ \A i \in 1 .. Len(open) : open'[i] = open[i]
      BY <2>1, <3>1
    <3>3. /\ open' # <<>> /\ Len(open) + 1 \in DOMAIN open'
          /\ \A i \in DOMAIN open' : i = Len(open) + 1 \/ i \in 1 .. Len(open)
          /\ \A i \in 1 .. Len(open) : i \in DOMAIN open'
      BY <1>2, <3>2
    <3> QED BY <1>2, <2>3, <3>2, <3>3
  <2> QED BY <2>2, <2>3
<1>7. entered' \subseteq Directories(tree)' BY <1>1, <1>3 DEF WalkInv, Directories
<1>8. \A i \in DOMAIN open' : Clean(open'[i]) BY <1>4, <1>6 DEF WalkInv
<1>9. /\ visited' \subseteq {f \in tree' : Visible(f)}
      /\ \A f \in tree' : Prefix(f.dir, 1) \in entered'
  BY <1>1 DEF WalkInv
<1>10. ASSUME NEW x \in entered', Clean(x)
       PROVE  Closed(x)' \/ \E i \in DOMAIN open' : open'[i] = x
  <2>1. CASE x = d BY <1>4, <1>6, <1>10, <2>1
  <2>2. CASE x \in entered
    <3>1. Closed(x) \/ \E i \in DOMAIN open : open[i] = x BY <1>1, <1>10, <2>2 DEF WalkInv
    <3>2. CASE Closed(x) BY <1>1, <3>2, ClosedStays
    <3>3. CASE \E i \in DOMAIN open : open[i] = x BY <1>6, <3>3
    <3> QED BY <3>1, <3>2, <3>3
  <2> QED BY <1>1, <2>1, <2>2
<1> HIDE DEF WalkInv
<1> QED BY <1>1, <1>6, <1>7, <1>8, <1>9, <1>10 DEF WalkInv

(* A file that is looked at lies in a directory that is open. *)
LEMMA VisitWalk ==
    ASSUME WalkInv, tree \in Trees, NEW f, VisitFile(f)
    PROVE  WalkInv'
<1>1. /\ outcome = "walking" /\ UNCHANGED <<tree, outcome, open, entered>>
      /\ f \in FilesOf(Here) /\ visited' = visited \union {f}
  BY DEF VisitFile, Walking
<1>2. Clean(Here) BY HereFacts
<1>3. f \in tree /\ f.dir = Here BY <1>1 DEF FilesOf
<1>4. Visible(f) BY <1>2, <1>3 DEF Visible, Clean
<1>5. visited' \subseteq {g \in tree' : Visible(g)} BY <1>1, <1>3, <1>4 DEF WalkInv
<1>6. \A d \in entered : Clean(d) => Closed(d)' \/ \E i \in DOMAIN open' : open'[i] = d
  <2> TAKE d \in entered
  <2> HAVE Clean(d)
  <2>1. CASE Closed(d) BY <1>1, <2>1, ClosedStays
  <2>2. CASE \E i \in DOMAIN open : open[i] = d BY <1>1, <2>2
  <2> QED BY <1>1, <2>1, <2>2 DEF WalkInv
<1>7. /\ open' \in Seq(entered') /\ open' # <<>> /\ entered' \subseteq Directories(tree)'
      /\ \A i \in DOMAIN open' : Clean(open'[i])
      /\ \A g \in tree' : Prefix(g.dir, 1) \in entered'
  BY <1>1 DEF WalkInv, Directories
<1> QED BY <1>1, <1>5, <1>6, <1>7 DEF WalkInv

(* A directory is left when all that is in it was looked at. *)
LEMMA LeaveWalk ==
    ASSUME WalkInv, tree \in Trees, LeaveDirectory
    PROVE  WalkInv'
<1>1. /\ outcome = "walking" /\ UNCHANGED <<tree, entered, visited>> /\ Closed(Here)
      /\ IF Len(open) = 1 THEN outcome' = "ok" /\ UNCHANGED open
         ELSE open' = Prefix(open, Len(open) - 1) /\ UNCHANGED outcome
  BY DEF LeaveDirectory, Walking, Closed
<1>2. Len(open) \in Nat \ {0} /\ DOMAIN open = 1 .. Len(open) BY HereFacts
<1>3. \A d : Closed(d)' <=> Closed(d) BY <1>1 DEF Closed, SubdirsOf, FilesOf
<1>4. /\ entered' \subseteq Directories(tree)'
      /\ \A g \in tree' : Prefix(g.dir, 1) \in entered'
      /\ visited' \subseteq {f \in tree' : Visible(f)}
  BY <1>1 DEF WalkInv, Directories
<1>5. \A d \in entered : Clean(d) => Closed(d) \/ \E i \in DOMAIN open : open[i] = d
  BY <1>1 DEF WalkInv
<1>6. CASE Len(open) = 1
  <2>1. \A i \in DOMAIN open : open[i] = Here BY <1>2, <1>6 DEF Here
  <2>2. \A d \in entered : Clean(d) => Closed(d) BY <1>1, <1>5, <2>1
  <2>3. outcome' = "ok" /\ open' = open BY <1>1, <1>6
  <2>4. open' \in Seq(entered') /\ open' # <<>> /\ \A i \in DOMAIN open' : Clean(open'[i])
    BY <1>1, <2>3 DEF WalkInv
  <2>5. \A d \in entered' : Clean(d) => Closed(d)' BY <1>1, <1>3, <2>2
  <2> QED BY <1>4, <2>3, <2>4, <2>5 DEF WalkInv
<1>7. CASE Len(open) # 1
  <2> DEFINE n == Len(open) - 1
  <2>1. open' = Prefix(open, n) /\ outcome' = outcome /\ n \in Nat \ {0} BY <1>1, <1>2, <1>7
  <2>2. open \in Seq(entered') BY <1>1 DEF WalkInv
  <2>3. /\ open' \in Seq(entered') /\ DOMAIN open' = 1 .. n
        /\ \A i \in 1 .. n : open'[i] = open[i]
    BY <2>1, <2>2, <1>2 DEF Prefix
  <2>4. open' # <<>> /\ \A i \in 1 .. n : i \in DOMAIN open
    <3>1. 1 \in DOMAIN open'
      <4> HIDE DEF n
      <4>1. n \in Nat \ {0} /\ DOMAIN open' = 1 .. n BY <2>1, <2>3
      <4> QED BY <4>1
    <3>2. open' # <<>> BY <3>1
    <3> QED BY <3>2, <1>2
  <2>5. \A i \in DOMAIN open : open[i] = Here \/ i \in 1 .. n BY <1>2 DEF Here
  <2>6. \A i \in DOMAIN open' : Clean(open'[i]) BY <2>3, <2>4 DEF WalkInv
  <2> HIDE DEF n
  <2>7. ASSUME NEW d \in entered, Clean(d)
        PROVE  Closed(d) \/ \E i \in DOMAIN open' : open'[i] = d
    <3>1. CASE \E i \in DOMAIN open : open[i] = d
      <4>1. PICK i \in DOMAIN open : open[i] = d BY <3>1
      <4> QED BY <1>1, <2>3, <2>5, <4>1
    <3> QED BY <1>5, <2>7, <3>1
  <2>8. \A d \in entered' : Clean(d) => Closed(d)' \/ \E i \in DOMAIN open' : open'[i] = d
    BY <1>1, <1>3, <2>7
  <2> QED BY <1>1, <1>4, <2>1, <2>3, <2>4, <2>6, <2>8 DEF WalkInv
<1> QED BY <1>6, <1>7

(* Other steps leave the walk, or end it. *)
LEMMA OtherWalk ==
    ASSUME WalkInv, UNCHANGED <<tree, open, entered, visited>>,
           \/ outcome' = outcome
           \/ outcome = "walking" /\ outcome' = "err"
           \/ {outcome, outcome'} \subseteq {"ok", "loaded"}
    PROVE  WalkInv'
<1>1. \A d : Closed(d)' <=> Closed(d) BY DEF Closed, SubdirsOf, FilesOf
<1>2. /\ open' \in Seq(entered') /\ open' # <<>> /\ entered' \subseteq Directories(tree)'
      /\ \A i \in DOMAIN open' : Clean(open'[i])
      /\ \A g \in tree' : Prefix(g.dir, 1) \in entered'
      /\ visited' \subseteq {f \in tree' : Visible(f)}
  BY DEF WalkInv, Directories
<1>3. outcome' \in {"walking", "err", "ok", "loaded"} BY DEF WalkInv
<1>4. outcome' = "walking" =>
          \A d \in entered' : Clean(d) => Closed(d)' \/ \E i \in DOMAIN open' : open'[i] = d
  BY <1>1 DEF WalkInv
<1>5. outcome' \in {"ok", "loaded"} => \A d \in entered' : Clean(d) => Closed(d)'
  BY <1>1 DEF WalkInv
<1> QED BY <1>2, <1>3, <1>4, <1>5 DEF WalkInv

(* The walk begins at the root, of which nothing was looked at. *)
LEMMA InitWalk == ASSUME IngestInit PROVE WalkInv
<1>1. /\ tree \in Trees /\ outcome = "walking" /\ visited = {} BY DEF IngestInit
<1>2. PICK f \in tree : open = <<Prefix(f.dir, 1)>> /\ entered = {Prefix(f.dir, 1)}
  BY DEF IngestInit
<1> DEFINE d == Prefix(f.dir, 1)
<1>3. 1 \in 1 .. Len(f.dir) /\ 1 \in 0 .. Len(f.dir) /\ f.dir \in Seq(STRING)
  BY <1>1, DirectoryFacts
<1>4. d \in Directories(tree) BY <1>1, <1>3, DirectoryFacts
<1>5. Len(d) = 1 BY <1>3, PrefixFacts
<1>6. Clean(d) BY <1>5 DEF Clean
<1>7. \A g \in tree : Prefix(g.dir, 1) \in entered BY <1>1, <1>2, DirectoryFacts
<1> HIDE DEF d
<1>8. open \in Seq(entered) /\ open # <<>> /\ DOMAIN open = {1} /\ open[1] = d
  BY <1>2 DEF d
<1>9. entered = {d} BY <1>2 DEF d
<1> QED BY <1>1, <1>4, <1>6, <1>7, <1>8, <1>9 DEF WalkInv

(* A walk that came to its end has looked at all that is visible. *)
LEMMA WalkIsComplete ==
    ASSUME WalkInv, tree \in Trees, outcome = "ok"
    PROVE  visited = {f \in tree : Visible(f)}
<1>1. SUFFICES ASSUME NEW f \in tree, Visible(f) PROVE f \in visited
  BY DEF WalkInv
<1>2. \A d \in entered : Clean(d) => Closed(d) BY DEF WalkInv
<1> DEFINE N == Len(f.dir)
           S == {n \in 0 .. N : n = 0 \/ Prefix(f.dir, n) \in entered}
<1>3. f.dir \in Seq(STRING) /\ N \in Nat \ {0} BY DirectoryFacts
<1>4. \A n \in 1 .. N : Prefix(f.dir, n) \in Directories(tree) BY DirectoryFacts
<1>5. \A n \in 0 .. N : /\ Prefix(f.dir, n) \in Seq(STRING) /\ Len(Prefix(f.dir, n)) = n
                        /\ \A i \in 1 .. n : Prefix(f.dir, n)[i] = f.dir[i]
  BY <1>3, PrefixFacts
<1>6. \A n \in 0 .. N : Clean(Prefix(f.dir, n))
  <2> TAKE n \in 0 .. N
  <2>1. \A i \in 2 .. n : i \in 1 .. n /\ i \in 2 .. N BY <1>3
  <2> HIDE DEF N
  <2> QED BY <1>1, <1>5, <2>1 DEF Clean, Visible, N
<1>7. ASSUME NEW n \in 1 .. N, n - 1 \in S PROVE n \in S
  <2>1. CASE n = 1 BY <1>1, <1>3, <2>1 DEF WalkInv
  <2>2. CASE n # 1
    <3> DEFINE d == Prefix(f.dir, n)
               up == Prefix(f.dir, n - 1)
    <3>1. n - 1 \in 0 .. N /\ n \in 0 .. N /\ n - 1 \in 0 .. n /\ n - 1 # 0 BY <1>3, <2>2
    <3>2. up \in entered BY <1>7, <3>1
    <3>3. Closed(up) BY <1>2, <1>6, <3>1, <3>2
    <3>4. Len(d) = n /\ Len(up) = n - 1 /\ d \in Directories(tree) BY <1>4, <1>5, <3>1
    <3>5. Prefix(d, n - 1) = up BY <1>3, <3>1, PrefixFacts
    <3> HIDE DEF d, up
    <3>6. d \in SubdirsOf(up) BY <3>1, <3>4, <3>5 DEF SubdirsOf
    <3>7. d \in entered BY <3>3, <3>6 DEF Closed
    <3> QED BY <3>1, <3>7 DEF d
  <2> QED BY <2>1, <2>2
<1>8. N \in S
  <2>1. 0 \in S BY <1>3
  <2> HIDE DEF S
  <2>2. 0 .. N \subseteq S BY <1>3, <1>7, <2>1, StepByStep
  <2> QED BY <1>3, <2>2
<1>9. Prefix(f.dir, N) = f.dir
  <2>1. N \in 0 .. Len(f.dir) BY <1>3
  <2> QED BY <1>3, <2>1, PrefixFacts
<1>10. f.dir \in entered BY <1>3, <1>8, <1>9
<1>11. Clean(f.dir) BY <1>1 DEF Clean, Visible
<1> QED BY <1>2, <1>10, <1>11 DEF Closed, FilesOf

(* At first nothing was read. *)
LEMMA ManifestsInit == Init => GraphSoFar /\ WalkInv
<1> SUFFICES ASSUME Init PROVE GraphSoFar /\ WalkInv OBVIOUS
<1>1. IngestInit BY DEF Init
<1>2. /\ visited = {} /\ pending = <<>> /\ nodes = <<>> /\ edges = <<>> BY <1>1 DEF IngestInit
<1>3. DOMAIN nodes = {} /\ Len(edges) = 0 /\ 1 .. Len(edges) = {} BY <1>2
<1>4. Read = {} /\ NodeNames = {} BY <1>2, <1>3 DEF Read, NodeNames
<1>5. \A f, n : Added(f, n) = {} BY <1>2 DEF Added
<1>6. <<>> \in Bijection(1 .. Len(edges), {})
  BY <1>3 DEF Bijection, Injection, Surjection, IsInjective
<1>7. Progress(NoNode, 0, <<>>)
  BY <1>2, <1>3, <1>4, <1>5, <1>6 DEF Progress, InHand, EdgeEach, Named
<1>8. GraphSoFar BY <1>2, <1>3, <1>7 DEF GraphSoFar, Described
<1> QED BY <1>1, <1>8, InitWalk

(* Every step keeps both: the walk is independent of what the graph holds. *)
LEMMA ManifestsStep ==
    ASSUME Inv, GraphSoFar, WalkInv, [Next]_vars
    PROVE  GraphSoFar' /\ WalkInv'
<1>1. GraphInv /\ AddingInv /\ tree \in Trees BY DEF Inv, AddingInv
<1>2. ASSUME UNCHANGED ingestVars PROVE GraphSoFar' /\ WalkInv'
  BY <1>2, GraphSoFarStays, OtherWalk DEF ingestVars, walkVars, graphVars
<1>3. CASE IngestNext
  <2>1. CASE \E d \in Directories(tree) : EnterDirectory(d)
    <3>1. PICK d \in Directories(tree) : EnterDirectory(d) BY <2>1
    <3>2. UNCHANGED <<tree, visited, pending, adding, nodes, edges>>
      BY <3>1 DEF EnterDirectory, graphVars
    <3> QED BY <1>1, <3>1, <3>2, GraphSoFarStays, EnterWalk
  <2>2. CASE \E f \in tree : VisitFile(f) BY <1>1, <2>2, VisitGraphSoFar, VisitWalk
  <2>3. CASE AddDependency
    <3>1. UNCHANGED <<tree, outcome, open, entered, visited>> BY <2>3 DEF AddDependency
    <3> QED BY <1>1, <2>3, <3>1, AddGraphSoFar, OtherWalk
  <2>4. CASE LeaveDirectory
    <3>1. UNCHANGED <<tree, visited, pending, adding, nodes, edges>>
      BY <2>4 DEF LeaveDirectory, graphVars
    <3> QED BY <1>1, <2>4, <3>1, GraphSoFarStays, LeaveWalk
  <2>5. CASE ReadFails
    <3>1. /\ UNCHANGED <<tree, open, entered, visited, adding, pending, nodes, edges>>
          /\ outcome = "walking" /\ outcome' = "err"
      BY <2>5 DEF ReadFails, Walking, walkVars, graphVars
    <3> QED BY <3>1, GraphSoFarStays, OtherWalk
  <2>6. CASE Reload \/ RebuildIndex
    <3>1. /\ UNCHANGED <<tree, open, entered, visited, adding, pending, nodes, edges>>
          /\ {outcome, outcome'} \subseteq {"ok", "loaded"}
      BY <2>6 DEF Reload, RebuildIndex, walkVars
    <3> QED BY <3>1, GraphSoFarStays, OtherWalk
  <2> QED BY <1>3, <2>1, <2>2, <2>3, <2>4, <2>5, <2>6 DEF IngestNext
<1>4. CASE Diagnoses
  <2>1. UNCHANGED ingestVars
    BY <1>4 DEF Diagnoses, GradientNext, Diagnose, FindNode, PassEdge, LooksAt, NextNode,
                SearchEnds, ReportCause
  <2> QED BY <1>2, <2>1
<1>5. CASE GeneratePatches \/ Ended \/ UNCHANGED vars
  <2>1. UNCHANGED ingestVars BY <1>5 DEF GeneratePatches, Ended, vars
  <2> QED BY <1>2, <2>1
<1> QED BY <1>3, <1>4, <1>5 DEF Next, Ingests

(* The graph is at every moment that of the declarations added so far, and   *)
(* the walk passes over nothing that is visible.                             *)
THEOREM ManifestsHold == Spec => [](GraphSoFar /\ WalkInv)
<1>1. Inv /\ (GraphSoFar /\ WalkInv) /\ [Next]_vars => (GraphSoFar /\ WalkInv)'
  BY ManifestsStep
<1> QED BY ManifestsInit, <1>1, InvHolds, PTL DEF Spec

-----------------------------------------------------------------------------
(* Where nothing is pending the edges are the declarations of the manifests  *)
(* that were read.                                                           *)
LEMMA EdgesAreDeclared ==
    ASSUME Inv, GraphSoFar, pending = <<>>
    PROVE  LET declared == UNION {{<<f, d[1], Package(f).name, d[2], d[3]>> : d \in Declares(f)} :
                                     f \in Read}
               joins(e) == <<nodes[edges[e].from].name, nodes[edges[e].to].name, edges[e].type>>
           IN /\ NodeNames = {NameOf(f) : f \in Read} \union {d[4] : d \in declared}
              /\ \E h \in Bijection(1 .. Len(edges), declared) :
                    \A e \in 1 .. Len(edges) : joins(e) = <<h[e][3], h[e][4], h[e][5]>>
<1> DEFINE tuple(f, d) == <<f, d[1], Package(f).name, d[2], d[3]>>
           declared == UNION {{tuple(f, d) : d \in Declares(f)} : f \in Read}
           joins(e) == <<nodes[edges[e].from].name, nodes[edges[e].to].name, edges[e].type>>
           N == Len(edges)
<1>1. PICK f0, n0, k : Progress(f0, n0, k) BY DEF GraphSoFar
<1> DEFINE A == Added(f0, n0)
<1>2. EdgeEach(k, f0, n0) /\ Named(f0, n0) BY <1>1 DEF Progress
<1>3. \A p : p \in A <=> /\ p \in Read \X Nat /\ p[2] \in 1 .. Len(ManifestOf(p[1]).deps)
  BY DEF Added, Read
<1>4. \A f \in Read : /\ \E g : Places(g, f)
                      /\ Package(f).name = NameOf(f)
                      /\ Len(ManifestOf(f).deps) \in Nat
  <2> TAKE f \in Read
  <2>1. tree \in Trees /\ f \in tree /\ IsManifest(f) BY DEF Inv, AddingInv, GraphSoFar, Read
  <2>2. ManifestOf(f).deps \in Seq([name : STRING, type : DependencyType]) BY <2>1, ManifestFacts
  <2> QED BY <2>1, <2>2, PlacesOf, ManifestFacts DEF NameOf
<1> DEFINE G(f) == CHOOSE g : Places(g, f)
           at(p) == tuple(p[1], G(p[1])[p[2]])
           h == [e \in 1 .. N |-> at(k[e])]
<1>5. ASSUME NEW f \in Read
      PROVE  /\ G(f) \in [1 .. Len(ManifestOf(f).deps) -> Declares(f)]
             /\ \A i, j \in 1 .. Len(ManifestOf(f).deps) : G(f)[i] = G(f)[j] => i = j
             /\ \A d \in Declares(f) : \E i \in 1 .. Len(ManifestOf(f).deps) : G(f)[i] = d
             /\ \A i \in 1 .. Len(ManifestOf(f).deps) :
                   /\ G(f)[i][2] = ManifestOf(f).deps[i].name
                   /\ G(f)[i][3] = ManifestOf(f).deps[i].type
             /\ \A d \in Declares(f) : d = <<d[1], d[2], d[3]>>
  <2>1. Places(G(f), f) BY <1>4
  <2>2. \A d \in Declares(f) : d = <<d[1], d[2], d[3]>> BY DEF Declares
  <2> HIDE DEF G
  <2> QED BY <2>1, <2>2 DEF Places, Bijection, Injection, Surjection, IsInjective
<1> HIDE DEF G
<1>6. /\ k \in [1 .. N -> A]
      /\ \A i, j \in 1 .. N : k[i] = k[j] => i = j
      /\ \A p \in A : \E i \in 1 .. N : k[i] = p
  BY <1>2 DEF EdgeEach, Bijection, Injection, Surjection, IsInjective
<1>7. \A p \in A : /\ p[1] \in Read /\ p[2] \in 1 .. Len(ManifestOf(p[1]).deps)
                   /\ p = <<p[1], p[2]>>
  BY <1>3
<1>8. ASSUME NEW p \in A
      PROVE  /\ at(p) \in declared /\ at(p)[1] = p[1] /\ at(p)[3] = NameOf(p[1])
             /\ at(p)[4] = Dep(p).name /\ at(p)[5] = Dep(p).type
             /\ <<at(p)[2], at(p)[4], at(p)[5]>> = G(p[1])[p[2]]
  <2> DEFINE f == p[1]
             d == G(f)[p[2]]
  <2>1. f \in Read /\ p[2] \in 1 .. Len(ManifestOf(f).deps) BY <1>7
  <2>2. d \in Declares(f) /\ d[2] = Dep(p).name /\ d[3] = Dep(p).type /\ d = <<d[1], d[2], d[3]>>
    BY <1>5, <2>1 DEF Dep
  <2>3. at(p) = tuple(f, d) OBVIOUS
  <2>4. Package(f).name = NameOf(f) BY <1>4, <2>1
  <2> HIDE DEF d, at
  <2>5. at(p) \in declared BY <2>1, <2>2, <2>3
  <2> QED BY <2>2, <2>3, <2>4, <2>5 DEF d
<1>9. ASSUME NEW p \in A, NEW q \in A, at(p) = at(q) PROVE p = q
  <2>1. p[1] = q[1] /\ G(p[1])[p[2]] = G(q[1])[q[2]] BY <1>8, <1>9
  <2>2. p[2] = q[2] BY <1>5, <1>7, <2>1
  <2> QED BY <1>7, <2>1, <2>2
<1>10. ASSUME NEW d \in declared PROVE \E p \in A : at(p) = d
  <2>1. PICK f \in Read : d \in {tuple(f, c) : c \in Declares(f)} OBVIOUS
  <2>2. PICK c \in Declares(f) : d = tuple(f, c) BY <2>1
  <2>3. PICK i \in 1 .. Len(ManifestOf(f).deps) : G(f)[i] = c BY <1>5
  <2>4. <<f, i>> \in A
    <3> HIDE DEF A
    <3>1. i \in Nat OBVIOUS
    <3> QED BY <1>3, <3>1
  <2>5. at(<<f, i>>) = d BY <2>2, <2>3
  <2> QED BY <2>4, <2>5
<1> HIDE DEF at, declared, A, N
<1>11. h \in [1 .. N -> declared] BY <1>6, <1>8
<1>12. \A i, j \in 1 .. N : h[i] = h[j] => i = j BY <1>6, <1>9
<1>13. \A d \in declared : \E i \in 1 .. N : h[i] = d BY <1>6, <1>10
<1>14. h \in Bijection(1 .. N, declared)
  BY <1>11, <1>12, <1>13 DEF Bijection, Injection, Surjection, IsInjective
<1>15. ASSUME NEW e \in 1 .. N PROVE joins(e) = <<h[e][3], h[e][4], h[e][5]>>
  <2>1. k[e] \in A /\ h[e] = at(k[e]) BY <1>6
  <2>2. h[e][3] = NameOf(k[e][1]) /\ h[e][4] = Dep(k[e]).name /\ h[e][5] = Dep(k[e]).type
    BY <1>8, <2>1
  <2> QED BY <1>2, <2>2 DEF EdgeEach, N
<1>16. {d[4] : d \in declared} = {Dep(p).name : p \in A}
  <2>1. \A d \in declared : \E p \in A : d[4] = Dep(p).name BY <1>8, <1>10
  <2>2. \A p \in A : \E d \in declared : d[4] = Dep(p).name BY <1>8
  <2> QED BY <2>1, <2>2
<1>17. NodeNames = {NameOf(f) : f \in Read} \union {d[4] : d \in declared}
  BY <1>2, <1>16 DEF Named, A
<1> HIDE DEF h
<1>18. \E g \in Bijection(1 .. N, declared) :
          \A e \in 1 .. N : joins(e) = <<g[e][3], g[e][4], g[e][5]>>
  BY <1>14, <1>15
<1> QED BY <1>17, <1>18 DEF declared, N

(* The graph is that of the manifests: what the invariant says of it, in    *)
(* numbers.                                                                 *)
LEMMA GraphInNumbers ==
    ASSUME Inv, GraphSoFar, WalkInv
    PROVE  GraphOfManifests
<1> SUFFICES ASSUME pending = <<>> PROVE GraphOfManifests BY DEF GraphOfManifests
<1> DEFINE packages == {Package(f) : f \in Read}
           declared == UNION {{<<f, d[1], Package(f).name, d[2], d[3]>> : d \in Declares(f)} :
                                 f \in Read}
           joins(e) == <<nodes[edges[e].from].name, nodes[edges[e].to].name, edges[e].type>>
           same(e) == {o \in DOMAIN edges : joins(o) = joins(e)}
           like(e) == {d \in declared : <<d[3], d[4], d[5]>> = joins(e)}
<1>1. /\ NodeNames = {NameOf(f) : f \in Read} \union {d[4] : d \in declared}
      /\ \E h \in Bijection(1 .. Len(edges), declared) :
            \A e \in 1 .. Len(edges) : joins(e) = <<h[e][3], h[e][4], h[e][5]>>
  BY EdgesAreDeclared
<1>2. tree \in Trees /\ edges \in Seq(Edge) BY DEF Inv, AddingInv, GraphInv
<1>3. Len(edges) \in Nat /\ DOMAIN edges = 1 .. Len(edges) BY <1>2
<1>4. {p.name : p \in packages} = {NameOf(f) : f \in Read}
  <2>1. \A f : Package(f).name = NameOf(f) BY DEF Package, NameOf
  <2> QED BY <2>1
<1>5. \A n \in DOMAIN nodes :
         IF nodes[n].name \in {p.name : p \in packages} THEN nodes[n] \in packages
         ELSE nodes[n].type = "External"
  BY <1>4 DEF GraphSoFar, Described
<1>6. outcome = "ok" => Read = {f \in tree : IsManifest(f) /\ Visible(f)}
  BY <1>2, WalkIsComplete DEF Read
<1> HIDE DEF declared, packages
<1>7. PICK h \in Bijection(1 .. Len(edges), declared) :
         \A e \in 1 .. Len(edges) : joins(e) = <<h[e][3], h[e][4], h[e][5]>>
  BY <1>1
<1>8. h \in [1 .. Len(edges) -> declared] BY DEF Bijection, Injection
<1>9. ASSUME NEW e \in DOMAIN edges PROVE Cardinality(same(e)) = Cardinality(like(e))
  <2>1. \A i \in 1 .. Len(edges) : i \in same(e) <=> h[i] \in like(e) BY <1>3, <1>7, <1>8
  <2>2. same(e) \subseteq 1 .. Len(edges) /\ like(e) \subseteq declared BY <1>3
  <2> DEFINE P == same(e)
             Q == like(e)
             N == Len(edges)
  <2>3. P \subseteq 1 .. Len(edges) /\ Q \subseteq declared BY <2>2
  <2>4. \A i \in 1 .. Len(edges) : i \in P <=> h[i] \in Q BY <2>1
  <2>5. h \in Bijection(1 .. N, declared) /\ N \in Nat BY <1>3, <1>7
  <2> HIDE DEF P, Q, N
  <2>6. Cardinality(P) = Cardinality(Q)
    <3>1. P \in SUBSET (1 .. N) BY <2>3 DEF N
    <3>2. Q \in SUBSET declared BY <2>3
    <3>3. \A i \in 1 .. N : i \in P <=> h[i] \in Q BY <2>4 DEF N
    <3>4. h \in Bijection(1 .. N, declared) BY <2>5
    <3>5. N \in Nat BY <2>5
    <3> QED BY <3>1, <3>2, <3>3, <3>4, <3>5, Counted
  <2> QED BY <2>6 DEF P, Q
<1>10. Len(edges) = Cardinality(declared) BY <1>3, <1>7, Numbered
<1> QED BY <1>1, <1>4, <1>5, <1>6, <1>9, <1>10 DEF GraphOfManifests, declared, packages

(* The graph that discover builds is that of the manifests it read, on any   *)
(* tree and in any order of its listing, and at the end of all the visible.  *)
THEOREM GraphIsOfManifests == Spec => []GraphOfManifests
<1>1. Inv /\ GraphSoFar /\ WalkInv => GraphOfManifests BY GraphInNumbers
<1> QED BY <1>1, InvHolds, ManifestsHold, PTL

-----------------------------------------------------------------------------
(* THE END OF THE SEARCH                                                    *)
(* The place in the list of edges, which is its begin between two nodes. *)
ScanInRange ==
    phase = "search" => /\ scan \in 1 .. Len(edges) + 1
                        /\ queue = <<>> => scan = 1

Unfound == DOMAIN nodes \ Found

(* Each node that is queued, or may be found yet, costs a look at every edge *)
(* and a step to the next node; those of the head before scan were made.     *)
NodesLeft == Len(queue) + Cardinality(Unfound)

SearchStepsLeft == (Len(edges) + 1) * NodesLeft + 1 - scan

(* The lengths and the count are numbers. *)
LEMMA SearchNumbers ==
    ASSUME Inv, phase = "search"
    PROVE  /\ queue \in Seq(Found) /\ Len(queue) \in Nat /\ Len(edges) \in Nat
           /\ Len(nodes) \in Nat /\ DOMAIN nodes = 1 .. Len(nodes)
           /\ DOMAIN edges = 1 .. Len(edges)
           /\ IsFiniteSet(Unfound) /\ Cardinality(Unfound) \in Nat
           /\ NodesLeft \in Nat
<1>1. /\ queue \in Seq(Found) /\ nodes \in Seq(Node) /\ edges \in Seq(Edge)
  BY DEF Inv, SearchInv, Searching, GraphInv
<1>2. /\ Len(queue) \in Nat /\ Len(nodes) \in Nat /\ DOMAIN nodes = 1 .. Len(nodes)
      /\ Len(edges) \in Nat /\ DOMAIN edges = 1 .. Len(edges)
  BY <1>1
<1>3. IsFiniteSet(DOMAIN nodes) BY <1>2, FS_Interval
<1>4. Unfound \in SUBSET (DOMAIN nodes) BY DEF Unfound
<1>5. IsFiniteSet(Unfound) /\ Cardinality(Unfound) \in Nat
  BY <1>3, <1>4, FS_Subset, FS_CardinalityType
<1> QED BY <1>1, <1>2, <1>5 DEF NodesLeft

(* scan runs through the edges once for each node. *)
LEMMA StepScanInRange ==
    ASSUME Inv, ScanInRange, [Next]_vars
    PROVE  ScanInRange'
<1> SUFFICES ASSUME phase' = "search"
             PROVE  scan' \in 1 .. Len(edges') + 1 /\ (queue' = <<>> => scan' = 1)
  BY DEF ScanInRange
<1>1. edges \in Seq(Edge) /\ SearchInv BY DEF Inv, GraphInv
<1>2. Len(edges) \in Nat /\ DOMAIN edges = 1 .. Len(edges) BY <1>1
<1>3. CASE Diagnose
  <2>1. edges' = edges /\ scan' = scan /\ scan = 1
    BY <1>1, <1>3 DEF Diagnose, ingestVars, graphVars, SearchInv
  <2> QED BY <1>2, <2>1
<1>4. ASSUME NEW e \in DOMAIN edges, FindNode(e) \/ PassEdge(e)
      PROVE  scan' \in 1 .. Len(edges') + 1 /\ (queue' = <<>> => scan' = 1)
  <2>1. edges' = edges /\ scan' = e + 1 /\ queue # <<>> /\ phase = "search"
    BY <1>4 DEF FindNode, PassEdge, LooksAt, ingestVars, graphVars
  <2>2. queue' # <<>>
    <3>1. CASE PassEdge(e) BY <2>1, <3>1 DEF PassEdge
    <3>2. CASE FindNode(e)
      <4>1. PICK x : x = edges[e].to /\ queue' = Append(queue, x) BY <3>2 DEF FindNode
      <4>2. queue \in Seq(Found \union {x})
        <5>1. queue \in Seq(Found) BY <2>1, SearchNumbers
        <5> QED BY <5>1
      <4>3. x \in Found \union {x} OBVIOUS
      <4>4. Append(queue, x) # <<>> BY <4>2, <4>3, AppendProperties
      <4> QED BY <4>1, <4>4
    <3> QED BY <1>4, <3>1, <3>2
  <2> QED BY <1>2, <2>1, <2>2
<1>5. CASE NextNode
  BY <1>2, <1>5 DEF NextNode, ingestVars, graphVars
<1>6. CASE UNCHANGED <<phase, edges, scan, queue>>
  BY <1>6 DEF ScanInRange
<1>7. CASE Ingests
  BY <1>7 DEF Ingests, gradientVars
<1>8. CASE SearchEnds \/ ReportCause \/ GeneratePatches
  BY <1>8 DEF SearchEnds, ReportCause, GeneratePatches
<1>9. CASE Ended \/ UNCHANGED vars
  <2>1. UNCHANGED <<phase, edges, scan, queue>>
    BY <1>9 DEF Ended, vars, gradientVars, searchVars, ingestVars, graphVars
  <2> QED BY <1>6, <2>1
<1> QED BY <1>3, <1>4, <1>5, <1>7, <1>8, <1>9 DEF Next, Diagnoses, GradientNext

(* A number of whole rounds, of which a part of one is done. *)
LEMMA Rounds ==
    ASSUME NEW k \in Nat, NEW n \in Nat \ {0}
    PROVE  k * n >= k /\ k * (n - 1) = k * n - k
  OBVIOUS

(* What is left is a number. *)
LEMMA SearchLeftIsNat ==
    ASSUME Inv, ScanInRange, phase = "search"
    PROVE  SearchStepsLeft \in Nat
<1>1. PICK k \in Nat : k = Len(edges) + 1 BY SearchNumbers
<1>2. PICK n \in Nat : n = NodesLeft BY SearchNumbers
<1>3. SearchStepsLeft = k * n + 1 - scan BY <1>1, <1>2 DEF SearchStepsLeft
<1>4. scan \in 1 .. k BY <1>1 DEF ScanInRange
<1>5. CASE queue = <<>>
  <2>1. scan = 1 BY <1>5 DEF ScanInRange
  <2>2. k * n \in Nat BY <1>1, <1>2
  <2> QED BY <1>3, <2>1, <2>2
<1>6. CASE queue # <<>>
  <2>1. Len(queue) \in Nat \ {0}
    <3>1. queue \in Seq(Found) BY SearchNumbers
    <3> QED BY <1>6, <3>1, EmptySeq
  <2>2. n # 0 BY <1>2, <2>1, SearchNumbers DEF NodesLeft
  <2>3. k * n >= k /\ k * n \in Nat BY <1>1, <1>2, <2>2, Rounds
  <2> QED BY <1>3, <1>4, <2>3
<1> QED BY <1>5, <1>6

(* A node found, an edge passed, a node done: one step less each. *)
LEMMA SearchStepCounts ==
    ASSUME Inv, ScanInRange, phase = "search", phase' = "search", Next
    PROVE  \/ UNCHANGED vars
           \/ SearchStepsLeft' < SearchStepsLeft /\ SearchStepsLeft' \in Int
<1> DEFINE Fewer == SearchStepsLeft' < SearchStepsLeft /\ SearchStepsLeft' \in Int
<1>1. PICK k \in Nat : k = Len(edges) + 1 BY SearchNumbers
<1>2. PICK n \in Nat : n = NodesLeft BY SearchNumbers
<1>3. SearchStepsLeft = k * n + 1 - scan BY <1>1, <1>2 DEF SearchStepsLeft
<1>4. scan \in 1 .. k /\ queue \in Seq(Found) BY <1>1, SearchNumbers DEF ScanInRange
<1>5. k * n \in Nat BY <1>1, <1>2
<1>6. ASSUME NEW e \in DOMAIN edges, FindNode(e) PROVE Fewer
  <2>1. /\ edges' = edges /\ nodes' = nodes /\ scan' = scan + 1
        /\ edges[e].to \notin Found
        /\ queue' = Append(queue, edges[e].to)
        /\ Found' = Found \union {edges[e].to}
    BY <1>6 DEF FindNode, LooksAt, ingestVars, graphVars, Found, With
  <2>2. edges[e].to \in Unfound
    <3>1. edges[e].to \in DOMAIN nodes BY DEF Inv, GraphInv, EdgesJoin
    <3> QED BY <2>1, <3>1 DEF Unfound
  <2>3. Unfound' = Unfound \ {edges[e].to} BY <2>1 DEF Unfound
  <2>4. Cardinality(Unfound') = Cardinality(Unfound) - 1
    BY <2>2, <2>3, SearchNumbers, FS_RemoveElement
  <2>5. Len(queue') = Len(queue) + 1 BY <1>4, <2>1
  <2>6. NodesLeft' = n BY <1>2, <2>4, <2>5, SearchNumbers DEF NodesLeft
  <2>7. SearchStepsLeft' = k * n + 1 - (scan + 1)
    BY <1>1, <2>1, <2>6 DEF SearchStepsLeft
  <2> QED BY <1>3, <1>4, <1>5, <2>7
<1>7. ASSUME NEW e \in DOMAIN edges, PassEdge(e) PROVE Fewer
  <2>1. edges' = edges /\ scan' = scan + 1 /\ UNCHANGED <<nodes, distances, queue>>
    BY <1>7 DEF PassEdge, LooksAt, ingestVars, graphVars
  <2>2. NodesLeft' = n BY <1>2, <2>1 DEF NodesLeft, Unfound, Found
  <2>3. SearchStepsLeft' = k * n + 1 - (scan + 1)
    BY <1>1, <2>1, <2>2 DEF SearchStepsLeft
  <2> QED BY <1>3, <1>4, <1>5, <2>3
<1>8. CASE NextNode
  <2>1. /\ edges' = edges /\ scan' = 1 /\ UNCHANGED <<nodes, distances>>
        /\ queue # <<>> /\ queue' = Tail(queue) /\ scan > Len(edges)
    BY <1>8 DEF NextNode, ingestVars, graphVars
  <2>2. Len(queue') = Len(queue) - 1 /\ Len(queue) \in Nat \ {0}
    <3>1. Len(queue) \in Nat \ {0} BY <1>4, <2>1, EmptySeq
    <3>2. Len(Tail(queue)) = Len(queue) - 1 BY <1>4, <2>1, HeadTailProperties
    <3> QED BY <2>1, <3>1, <3>2
  <2>3. Cardinality(Unfound') = Cardinality(Unfound) BY <2>1 DEF Unfound, Found
  <2>4. NodesLeft' = n - 1 /\ n # 0
    BY <1>2, <2>2, <2>3, SearchNumbers DEF NodesLeft
  <2>5. SearchStepsLeft' = k * (n - 1) + 1 - 1
    BY <1>1, <2>1, <2>4 DEF SearchStepsLeft
  <2>6. k * (n - 1) = k * n - k BY <1>1, <1>2, <2>4, Rounds
  <2> QED BY <1>3, <1>4, <1>5, <2>5, <2>6
<1>9. ~(Ingests \/ Diagnose \/ SearchEnds \/ ReportCause \/ GeneratePatches)
  BY DEF Ingests, Diagnose, SearchEnds, ReportCause, GeneratePatches
<1> QED BY <1>6, <1>7, <1>8, <1>9 DEF Next, Diagnoses, GradientNext, Ended

(* At its begin the search has every edge ahead for each node of the graph. *)
SearchBounded == phase = "search" => SearchStepsLeft <= (Len(edges) + 1) * Len(nodes)

(* A search begins with one node queued and all others to be found. *)
LEMMA DiagnoseBounds ==
    ASSUME Inv, Diagnose, phase' = "search", Inv'
    PROVE  SearchBounded'
<1>1. /\ failed' \in DOMAIN nodes /\ distances' = [n \in {failed'} |-> 0]
      /\ queue' = <<failed'>> /\ UNCHANGED <<nodes, edges, scan>> /\ scan = 1
  BY DEF Diagnose, ingestVars, graphVars, Inv, SearchInv
<1>2. /\ Unfound' = DOMAIN nodes \ {failed'} BY <1>1 DEF Unfound, Found
<1>3. nodes \in Seq(Node) /\ edges \in Seq(Edge) BY DEF Inv, GraphInv
<1>4. Len(nodes) \in Nat /\ DOMAIN nodes = 1 .. Len(nodes) /\ Len(edges) \in Nat BY <1>3
<1>5. IsFiniteSet(DOMAIN nodes) /\ Cardinality(DOMAIN nodes) = Len(nodes)
  <2>1. IsFiniteSet(1 .. Len(nodes))
        /\ Cardinality(1 .. Len(nodes)) = IF 1 > Len(nodes) THEN 0 ELSE Len(nodes) - 1 + 1
    <3>1. 1 \in Int /\ Len(nodes) \in Int BY <1>4
    <3> QED BY ONLY <3>1, FS_Interval
  <2> QED BY <1>4, <2>1
<1>6. Cardinality(Unfound') = Len(nodes) - 1
  BY <1>1, <1>2, <1>5, FS_RemoveElement
<1>7. Len(queue') = 1 BY <1>1
<1>8. NodesLeft' = Len(nodes) BY <1>4, <1>6, <1>7 DEF NodesLeft
<1>9. SearchStepsLeft' = (Len(edges) + 1) * Len(nodes) + 1 - 1
  BY <1>1, <1>8 DEF SearchStepsLeft
<1>10. (Len(edges) + 1) * Len(nodes) \in Nat BY <1>4
<1> QED BY <1>1, <1>9, <1>10 DEF SearchBounded

(* No step of the search is lost, whatever cycles the graph has. *)
SearchComesToAnEnd ==
    [][phase = "search" => phase' = "score" \/ SearchStepsLeft' < SearchStepsLeft]_vars

(* On any graph, cyclic ones included, the search looks at each edge at most *)
(* once for each node and then ends.                                         *)
THEOREM SearchRunsInBoundedSteps ==
    Spec => /\ [](phase = "search" =>
                    SearchStepsLeft \in 0 .. (Len(edges) + 1) * Len(nodes))
            /\ SearchComesToAnEnd
<1> DEFINE A == phase = "search" => phase' = "score" \/ SearchStepsLeft' < SearchStepsLeft
           Q == Inv /\ ScanInRange /\ SearchBounded
<1>1. Init => ScanInRange /\ SearchBounded
  BY DEF Init, GradientInit, ScanInRange, SearchBounded
<1>2. Inv /\ ScanInRange /\ [Next]_vars => [A]_vars
  <2> SUFFICES ASSUME Inv, ScanInRange, Next, phase = "search", phase' # "score"
               PROVE  SearchStepsLeft' < SearchStepsLeft \/ UNCHANGED vars
    OBVIOUS
  <2>1. phase' = "search" \/ UNCHANGED vars
    BY DEF Next, Diagnoses, GradientNext, Ingests, Diagnose, FindNode, PassEdge, LooksAt,
           NextNode, SearchEnds, ReportCause, GeneratePatches, Ended
  <2> QED BY <2>1, SearchStepCounts
<1>3. Q /\ [Next]_vars => Q'
  <2> SUFFICES ASSUME Q, [Next]_vars PROVE Q' OBVIOUS
  <2>1. Inv' /\ ScanInRange' BY NextInv, StepScanInRange
  <2>2. SearchBounded'
    <3> SUFFICES ASSUME phase' = "search" PROVE SearchBounded' BY DEF SearchBounded
    <3>1. CASE UNCHANGED vars
      <4>1. UNCHANGED <<phase, nodes, edges, scan, queue, distances>>
        BY <3>1 DEF vars, ingestVars, graphVars, gradientVars, searchVars
      <4> QED BY <4>1 DEF SearchBounded, SearchStepsLeft, NodesLeft, Unfound, Found
    <3>2. CASE Next /\ phase = "search" /\ ~UNCHANGED vars
      <4>1. SearchStepsLeft' < SearchStepsLeft /\ SearchStepsLeft' \in Int
        BY <3>2, SearchStepCounts
      <4>2. UNCHANGED <<nodes, edges>>
        BY <3>2 DEF Next, Diagnoses, GradientNext, Ingests, Diagnose, FindNode, PassEdge,
                LooksAt, NextNode, SearchEnds, ReportCause, GeneratePatches, Ended,
                ingestVars, graphVars
      <4>3. SearchStepsLeft \in Nat BY <3>2, SearchLeftIsNat
      <4>4. (Len(edges) + 1) * Len(nodes) \in Nat BY <3>2, SearchNumbers
      <4>5. SearchStepsLeft <= (Len(edges) + 1) * Len(nodes) BY <3>2 DEF SearchBounded
      <4> QED BY <4>1, <4>2, <4>3, <4>4, <4>5 DEF SearchBounded
    <3>3. CASE Next /\ phase # "search"
      <4>1. Diagnose
        BY <3>3 DEF Next, Diagnoses, GradientNext, Ingests, gradientVars, FindNode, PassEdge,
                LooksAt, NextNode, SearchEnds, ReportCause, GeneratePatches, Ended, vars
      <4> QED BY <2>1, <4>1, DiagnoseBounds
    <3> QED BY <3>1, <3>2, <3>3
  <2> QED BY <2>1, <2>2
<1>4. Q => (phase = "search" => SearchStepsLeft \in 0 .. (Len(edges) + 1) * Len(nodes))
  BY SearchLeftIsNat, SearchNumbers DEF SearchBounded
<1>5. Spec => []Q
  BY <1>1, <1>3, InitInv, PTL DEF Spec
<1>6. Q => Inv /\ ScanInRange OBVIOUS
<1> QED BY <1>2, <1>4, <1>5, <1>6, PTL DEF Spec, SearchComesToAnEnd
============================================================================
