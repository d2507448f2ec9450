----------------------------- MODULE KahnBands -----------------------------
(***************************************************************************)
(* Kahn's algorithm, as the repository runs it three times:                *)
(*   - `WavefrontScheduler::bands` (wavefront.rs) counts every dependency  *)
(*     of a unit, also one that is not in the list of units;               *)
(*   - `build_bands` (main.rs) counts those that are in the list;          *)
(*   - `topological_order` (ingestion.rs) works on graph nodes, where an   *)
(*     edge leads to a node, and gives up if some node is left over.       *)
(* A unit may name a dependency twice and may depend on itself, so edges   *)
(* have identities.  One step handles one unit or one edge.                *)
(***************************************************************************)
EXTENDS Naturals, Sequences, FiniteSets

CONSTANTS
    Units,      \* the ids in the list of units
    Edges,      \* the entries of all dependency lists together
    Outside     \* ids a unit may depend on that are not in the list

ASSUME UnitsAssumption == IsFiniteSet(Units) /\ IsFiniteSet(Edges)
ASSUME OutsideAssumption == Outside \intersect Units = {}

VARIABLES
    from, to,     \* an edge's unit, and the id that unit depends on
    buildable,    \* TRUE: only dependencies in the list count (build_bands)
    remaining,    \* dependencies of each unit not handled yet
    queue,        \* the VecDeque of units whose count is zero
    left,         \* the units of the queue that belong to this band
    pending,      \* the dependents' entries of the popped unit, to be handled
    band,         \* the band being collected
    bands,        \* the bands completed
    order,        \* the units in the order they were popped
    pc            \* "level": head of the while loop; "units": in it; "done"

graphVars == <<from, to, buildable>>
vars == <<graphVars, remaining, queue, left, pending, band, bands, order, pc>>

Image(s) == {s[i] : i \in 1 .. Len(s)}

Orders(S) == {s \in [1 .. Cardinality(S) -> S] : Image(s) = S}

(* The dependencies that enter the counts. *)
Counted == IF buildable THEN {e \in Edges : to[e] \in Units} ELSE Edges

DependencyCount(u) == Cardinality({e \in Counted : from[e] = u})

(* Counting each distinct dependency once. *)
DistinctCount(u) == Cardinality({to[e] : e \in {d \in Counted : from[d] = u}})

(* The initial counts. *)
InitialCount(u) == DependencyCount(u)

Init ==
    /\ from \in [Edges -> Units]
    /\ to \in [Edges -> Units \union Outside]
    /\ buildable \in BOOLEAN
    /\ remaining = [u \in Units |-> InitialCount(u)]
    /\ queue \in Orders({u \in Units : remaining[u] = 0})
    /\ left = 0
    /\ pending = {}
    /\ band = <<>>
    /\ bands = <<>>
    /\ order = <<>>
    /\ pc = "level"

(* A band takes the units queued at this point, and no unit queued later. *)
StartLevel ==
    /\ pc = "level"
    /\ queue # <<>>
    /\ left' = Len(queue)
    /\ band' = <<>>
    /\ pc' = "units"
    /\ UNCHANGED <<graphVars, remaining, queue, pending, bands, order>>

PopUnit ==
    /\ pc = "units"
    /\ pending = {}
    /\ left > 0
    /\ queue' = Tail(queue)
    /\ left' = left - 1
    /\ band' = Append(band, Head(queue))
    /\ order' = Append(order, Head(queue))
    /\ pending' = {e \in Counted : to[e] = Head(queue)}
    /\ UNCHANGED <<graphVars, remaining, bands, pc>>

(* A unit queued each time one of its dependencies is handled. *)
QueueAlways(e) ==
    /\ pc = "units"
    /\ e \in pending
    /\ pending' = pending \ {e}
    /\ remaining' = [remaining EXCEPT ![from[e]] = @ - 1]
    /\ queue' = Append(queue, from[e])
    /\ UNCHANGED <<graphVars, left, band, bands, order, pc>>

(* A unit put in front of the queue. *)
QueueFront(e) ==
    /\ pc = "units"
    /\ e \in pending
    /\ pending' = pending \ {e}
    /\ remaining' = [remaining EXCEPT ![from[e]] = @ - 1]
    /\ queue' = IF remaining[from[e]] = 1 THEN <<from[e]>> \o queue ELSE queue
    /\ UNCHANGED <<graphVars, left, band, bands, order, pc>>

(* One dependent of the popped unit: its count drops, and at zero it joins *)
(* the back of the queue.                                                  *)
HandleDependent(e) ==
    /\ pc = "units"
    /\ e \in pending
    /\ pending' = pending \ {e}
    /\ remaining' = [remaining EXCEPT ![from[e]] = @ - 1]
    /\ queue' = IF remaining[from[e]] = 1 THEN Append(queue, from[e]) ELSE queue
    /\ UNCHANGED <<graphVars, left, band, bands, order, pc>>

EndLevel ==
    /\ pc = "units"
    /\ pending = {}
    /\ left = 0
    /\ bands' = Append(bands, band)
    /\ pc' = "level"
    /\ UNCHANGED <<graphVars, remaining, queue, left, pending, band, order>>

(* A loop that ends only when every unit has been placed. *)
FinishWhenAllPlaced ==
    /\ pc = "level"
    /\ Image(order) = Units
    /\ pc' = "done"
    /\ UNCHANGED <<graphVars, remaining, queue, left, pending, band, bands, order>>

Finish ==
    /\ pc = "level"
    /\ queue = <<>>
    /\ pc' = "done"
    /\ UNCHANGED <<graphVars, remaining, queue, left, pending, band, bands, order>>

Done == pc = "done" /\ UNCHANGED vars

Next ==
    \/ StartLevel
    \/ PopUnit
    \/ \E e \in Edges : HandleDependent(e)
    \/ EndLevel
    \/ Finish
    \/ Done

(* A sequential function that is not interrupted. *)
Spec == Init /\ [][Next]_vars /\ WF_vars(Next)

(* An order given up when it is shorter than the list of edges. *)
OrderCompleteByEdges == Len(order) >= Cardinality(Edges)

(* topological_order: Some(order) if it holds every node, otherwise None. *)
OrderComplete == Len(order) = Cardinality(Units)

-----------------------------------------------------------------------------
(* The values the variables take; in particular a count never goes below    *)
(* zero, where `*count -= 1` on a usize would panic or wrap.                *)
TypeOK ==
    /\ from \in [Edges -> Units]
    /\ to \in [Edges -> Units \union Outside]
    /\ buildable \in BOOLEAN
    /\ remaining \in [Units -> 0 .. Cardinality(Edges)]
    /\ queue \in Seq(Units)
    /\ left \in 0 .. Len(queue)
    /\ pending \subseteq Edges
    /\ band \in Seq(Units)
    /\ bands \in Seq(Seq(Units))
    /\ order \in Seq(Units)
    /\ pc \in {"level", "units", "done"}

(* The count of a unit is the number of its dependency entries not handled *)
(* yet, and the unit is queued or popped once exactly when it is zero.     *)
CountsMatchGraph ==
    LET popped == Image(order)
        handled == {e \in Counted : to[e] \in popped /\ e \notin pending}
    IN  \A u \in Units :
          /\ remaining[u] = Cardinality({e \in Counted \ handled : from[e] = u})
          /\ Cardinality({i \in 1 .. Len(order \o queue) : (order \o queue)[i] = u})
             = IF remaining[u] = 0 THEN 1 ELSE 0

PlacedBefore(k) == UNION {Image(bands[j]) : j \in 1 .. k - 1}

Ready(u, placed) == \A e \in Counted : from[e] = u => to[e] \in placed

(* "Each band contains units whose remaining dependencies have all been      *)
(* satisfied by previous bands" (wavefront.rs:73), and all of them: band k   *)
(* holds exactly the units not placed before it that have every dependency   *)
(* in an earlier band.  At the end no unit is left that could still be run.  *)
BandsAreFrontiers ==
    /\ \A k \in 1 .. Len(bands) :
          Image(bands[k]) =
              {u \in Units \ PlacedBefore(k) : Ready(u, PlacedBefore(k))}
    /\ pc = "done" =>
          LET placed == PlacedBefore(Len(bands) + 1)
          IN  \A u \in Units \ placed : ~Ready(u, placed)

(* A set of units each of which waits for another one of the set or for an  *)
(* id outside the list: a cycle, or what hangs on a dangling dependency.    *)
Knot(S) ==
    /\ S # {}
    /\ \A u \in S : \E e \in Counted : from[e] = u /\ to[e] \in S \union Outside

(* The order is complete exactly when the graph has no such set, and then   *)
(* every dependency stands before its dependents.                           *)
CompleteIffNoKnot ==
    pc = "done" =>
        /\ OrderComplete <=> \A S \in SUBSET Units : ~Knot(S)
        /\ \A e \in Counted : \A i \in 1 .. Len(order) :
              order[i] = from[e] => \E j \in 1 .. i - 1 : order[j] = to[e]

(* The computation ends on every graph, cyclic ones included. *)
Terminates == <>(pc = "done")
=============================================================================
