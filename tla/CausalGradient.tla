---------------------------- MODULE CausalGradient ----------------------------
(***************************************************************************)
(* `CausalGradientAnalyzer::diagnose` of diagnostics/causal_gradient.rs on *)
(* the graph that discover returned: the distances from the failing node   *)
(* along the dependencies, breadth first, and the changed node with the    *)
(* greatest change over distance.  Scores are compared by their squares,   *)
(* which are fractions of whole numbers.                                   *)
(***************************************************************************)
EXTENDS GraphIngestion

CONSTANTS
    Vectors,                \* feature vectors of whole numbers and of
    NaN, PosInf, NegInf,    \*   these values,
    MaxFloat,               \*   f64::MAX, greater than any norm of the others
    MaxChanged,             \* bound: nodes with a change
    NoNode

ASSUME VectorsAssumption ==
    /\ Vectors \subseteq Seq(Int \union {NaN, PosInf, NegInf})
    /\ MaxFloat \in Nat

VARIABLES
    phase,      \* of the analysis: "idle", "search", "score", "reported"
    failed,     \* failure.node_id
    deltas,     \* the change of each changed node
    distances,  \* from the failing node, of the nodes found so far
    queue,      \* nodes found whose dependencies are still to be looked at
    scan,       \* the next edge to look at, for the head of the queue
    cause       \* CausalReport.root_cause_node

searchVars == <<distances, queue, scan>>
gradientVars == <<phase, failed, deltas, searchVars, cause>>

GradientInit ==
    /\ phase = "idle"
    /\ failed = NoNode
    /\ deltas = <<>>
    /\ distances = <<>> /\ queue = <<>> /\ scan = 1
    /\ cause = NoNode

(* The nodes, and an id that is none. *)
Ids == 1 .. Len(nodes) + 1

-----------------------------------------------------------------------------
(* A failure of a node, of none, or of one that is not in the graph.  Without *)
(* a node of the graph there is no search.                                    *)
Diagnose ==
    /\ phase = "idle" /\ outcome = "ok"
    /\ failed' \in Ids \union {NoNode}
    /\ IF failed' \in DOMAIN nodes
       THEN phase' = "search" /\ distances' = [n \in {failed'} |-> 0] /\ queue' = <<failed'>>
       ELSE /\ phase' = IF failed' = NoNode THEN "score" ELSE "reported"
            /\ UNCHANGED <<distances, queue>>
    /\ UNCHANGED <<ingestVars, deltas, scan, cause>>

(* The dependencies of the head of the queue, in the order of the edges. *)
LooksAt(e) ==
    /\ phase = "search"
    /\ queue # <<>>
    /\ scan = e
    /\ scan' = e + 1
    /\ UNCHANGED <<ingestVars, phase, failed, deltas, cause>>

(* A node found for the first time is a step farther than the head... *)
FindNode(e) ==
    /\ LooksAt(e)
    /\ edges[e].from = Head(queue)
    /\ edges[e].to \notin DOMAIN distances
    /\ distances' = With(distances, edges[e].to, distances[Head(queue)] + 1)
    /\ queue' = Append(queue, edges[e].to)

(* ... a node that was found keeps its distance, other edges do not count. *)
PassEdge(e) ==
    /\ LooksAt(e)
    /\ edges[e].from = Head(queue) => edges[e].to \in DOMAIN distances
    /\ UNCHANGED <<distances, queue>>

(* A search that goes on with the node found last. *)
NextNewest ==
    /\ phase = "search"
    /\ queue # <<>>
    /\ scan > Len(edges)
    /\ queue' = IF Len(queue) = 1 THEN <<>>
                ELSE <<queue[Len(queue)]>> \o SubSeq(queue, 2, Len(queue) - 1)
    /\ scan' = 1
    /\ UNCHANGED <<ingestVars, phase, failed, deltas, distances, cause>>

NextNode ==
    /\ phase = "search"
    /\ queue # <<>>
    /\ scan > Len(edges)
    /\ queue' = Tail(queue)
    /\ scan' = 1
    /\ UNCHANGED <<ingestVars, phase, failed, deltas, distances, cause>>

SearchEnds ==
    /\ phase = "search"
    /\ queue = <<>>
    /\ phase' = "score"
    /\ UNCHANGED <<ingestVars, failed, deltas, searchVars, cause>>

-----------------------------------------------------------------------------
Sanitize(v) ==
    IF v \in {NaN, PosInf} THEN MaxFloat
    ELSE IF v = NegInf THEN 0
    ELSE IF v < 0 THEN 0 ELSE v

(* The square of the norm; a sum that overflows counts as f64::MAX. *)
SquaredNorm(vector) ==
    LET Sum[n \in 0 .. Len(vector)] ==
            IF n = 0 THEN 0 ELSE Sum[n - 1] + Sanitize(vector[n]) * Sanitize(vector[n])
    IN IF \E i \in DOMAIN vector : Sanitize(vector[i]) = MaxFloat
       THEN MaxFloat * MaxFloat ELSE Sum[Len(vector)]

(* A score that pays no heed to the distance. *)
ScoreByChange(n, delta) ==
    [change |-> IF n \in DOMAIN distances THEN SquaredNorm(delta) ELSE 0, over |-> 1]

(* The square of a score, 0 for a node that is no dependency of the failure. *)
Score(n, delta) ==
    IF n \in DOMAIN distances
    THEN [change |-> SquaredNorm(delta),
          over |-> (distances[n] + 1) * (distances[n] + 1)]
    ELSE [change |-> 0, over |-> 1]

AtLeast(a, b) == a.change * b.over >= b.change * a.over

(* The changes, of any nodes, are looked at for the first time.  max_by over *)
(* a HashMap: one of the greatest, which must not be 0.                      *)
ReportCause ==
    /\ phase = "score"
    /\ \E changed \in SUBSET Ids :
          /\ Cardinality(changed) <= MaxChanged
          /\ deltas' \in [changed -> Vectors]
          /\ LET scores == [n \in changed |-> Score(n, deltas'[n])]
                 strongest == {n \in changed :
                                 /\ scores[n].change > 0
                                 /\ \A m \in changed : AtLeast(scores[n], scores[m])}
             IN cause' \in IF strongest = {} THEN {NoNode} ELSE strongest
    /\ phase' = "reported"
    /\ UNCHANGED <<ingestVars, failed, searchVars>>

GradientNext ==
    \/ Diagnose
    \/ \E e \in DOMAIN edges : FindNode(e) \/ PassEdge(e)
    \/ NextNode
    \/ SearchEnds
    \/ ReportCause

-----------------------------------------------------------------------------
(* "Compute the shortest graph distance from failure_id to every other      *)
(* node" (causal_gradient.rs:146): after the search the failing node is at  *)
(* distance 0, an edge from a node that was found leads to one that was     *)
(* found and is at most a step farther, and each other node that was found  *)
(* is one step farther than some node that depends on it.  With repeated    *)
(* edges, cycles and self-dependencies too, no distance is too short then,  *)
(* none too long, and no dependency is missed.                              *)
DistancesShortest ==
    phase = "score" /\ failed \in DOMAIN nodes =>
        /\ failed \in DOMAIN distances
        /\ \A n \in DOMAIN distances : distances[n] = 0 <=> n = failed
        /\ \A e \in DOMAIN edges : edges[e].from \in DOMAIN distances =>
              /\ edges[e].to \in DOMAIN distances
              /\ distances[edges[e].to] <= distances[edges[e].from] + 1
        /\ \A n \in DOMAIN distances \ {failed} : \E e \in DOMAIN edges :
              /\ edges[e].to = n
              /\ edges[e].from \in DOMAIN distances
              /\ distances[n] = distances[edges[e].from] + 1

(* The nodes from which k edges at most lead on from the failing node. *)
Within ==
    LET Layer[k \in 0 .. Len(nodes)] ==
            IF k = 0 THEN {failed} \intersect DOMAIN nodes
            ELSE Layer[k - 1] \union
                 {edges[e].to : e \in {d \in DOMAIN edges : edges[d].from \in Layer[k - 1]}}
    IN Layer

Upstream == Within[Len(nodes)]
Steps(n) == CHOOSE k \in 0 .. Len(nodes) :
                n \in Within[k] /\ \A j \in 0 .. k - 1 : n \notin Within[j]

(* "The score balances the magnitude of structural change with the graph    *)
(* distance to the failing compilation unit" (causal_gradient.rs:6): the    *)
(* reported node is one the failing one depends on, through however many    *)
(* others, or that one itself, and no other changed one of these has more   *)
(* change for its distance; none is reported only if none of them changed.  *)
RootCauseIsStrongest ==
    phase = "reported" =>
        LET changed == {n \in DOMAIN deltas \intersect Upstream : SquaredNorm(deltas[n]) > 0}
        IN IF changed = {} THEN cause = NoNode
           ELSE /\ cause \in changed
                /\ \A n \in changed :
                      SquaredNorm(deltas[cause]) * (Steps(n) + 1) * (Steps(n) + 1)
                        >= SquaredNorm(deltas[n]) * (Steps(cause) + 1) * (Steps(cause) + 1)
=============================================================================
