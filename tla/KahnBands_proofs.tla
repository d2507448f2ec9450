-------------------------- MODULE KahnBands_proofs --------------------------
(* Proofs about the level computation, on any finite multigraph: cycles,    *)
(* repeated entries, self-dependencies and ids outside the list included.   *)
EXTENDS KahnBands, TLAPS, FiniteSetTheorems, SequenceTheorems, WellFoundedInduction

Inj(s) == \A i, j \in 1 .. Len(s) : s[i] = s[j] => i = j

(* The entries that still hold their unit back. *)
Open == {e \in Counted : to[e] \notin Image(order) \/ e \in pending}

OpenOf(u) == {e \in Open : from[e] = u}

(* The units of the bands that are complete, and those they leave ready. *)
Placed == PlacedBefore(Len(bands) + 1)

Frontier(placed) == {u \in Units \ placed : Ready(u, placed)}

(* The part of the queue that belongs to the band being collected. *)
Front == {queue[i] : i \in 1 .. left}

Types ==
    /\ from \in [Edges -> Units]
    /\ to \in [Edges -> Units \union Outside]
    /\ remaining \in [Units -> Nat]
    /\ queue \in Seq(Units)
    /\ left \in 0 .. Len(queue)
    /\ band \in Seq(Units)
    /\ bands \in Seq(Seq(Units))
    /\ order \in Seq(Units)
    /\ pc \in {"level", "units", "done"}
    /\ buildable \in BOOLEAN

(* The counts, and what is queued or popped. *)
CountInv ==
    /\ pending \subseteq {e \in Counted : to[e] \in Image(order)}
    /\ \A u \in Units : remaining[u] = Cardinality(OpenOf(u))
    /\ Inj(order) /\ Inj(queue) /\ Image(order) \intersect Image(queue) = {}
    /\ Image(order) \union Image(queue) = {u \in Units : remaining[u] = 0}

(* Dependencies are popped before their dependents. *)
OrderInv ==
    \A e \in Counted : \A i \in 1 .. Len(order) :
        order[i] = from[e] => \E j \in 1 .. i - 1 : order[j] = to[e]

BandInv ==
    /\ \A k \in 1 .. Len(bands) : Image(bands[k]) = Frontier(PlacedBefore(k))
    /\ pc = "units" => /\ Image(order) = Placed \union Image(band)
                       /\ Image(band) \union Front = Frontier(Placed)
    /\ pc # "units" => Image(order) = Placed /\ pending = {}
    /\ pc = "done" => queue = <<>>

Inv == Types /\ CountInv /\ OrderInv /\ BandInv

-----------------------------------------------------------------------------
(* Sequences as queues. *)
LEMMA AppendFacts ==
    ASSUME NEW S, NEW s \in Seq(S), NEW x \in S
    PROVE  /\ Append(s, x) \in Seq(S) /\ Len(Append(s, x)) = Len(s) + 1
           /\ Image(Append(s, x)) = Image(s) \union {x}
           /\ Inj(s) /\ x \notin Image(s) => Inj(Append(s, x))
           /\ \A i \in 1 .. Len(s) : Append(s, x)[i] = s[i]
           /\ Append(s, x)[Len(s) + 1] = x
<1> DEFINE t == Append(s, x)
<1>1. /\ t \in Seq(S) /\ Len(t) = Len(s) + 1 /\ Len(s) \in Nat
      /\ \A i \in 1 .. Len(s) : t[i] = s[i]
      /\ t[Len(s) + 1] = x
  OBVIOUS
<1> HIDE DEF t
<1>2. Image(t) = Image(s) \union {x}
  <2>1. \A i \in 1 .. Len(t) : t[i] \in Image(s) \union {x}
    <3> TAKE i \in 1 .. Len(t)
    <3>1. i \in 1 .. Len(s) \/ i = Len(s) + 1 BY <1>1
    <3> QED BY <1>1, <3>1 DEF Image
  <2>2. \A i \in 1 .. Len(s) : s[i] \in Image(t)
    <3> TAKE i \in 1 .. Len(s)
    <3>1. i \in 1 .. Len(t) /\ t[i] = s[i] BY <1>1
    <3> QED BY <3>1 DEF Image
  <2>3. x \in Image(t)
    <3>1. Len(s) + 1 \in 1 .. Len(t) BY <1>1
    <3> QED BY <1>1, <3>1 DEF Image
  <2> QED BY <2>1, <2>2, <2>3 DEF Image
<1>3. ASSUME Inj(s), x \notin Image(s), NEW i \in 1 .. Len(t), NEW j \in 1 .. Len(t), t[i] = t[j]
      PROVE  i = j
  <2>1. /\ i \in 1 .. Len(s) \/ i = Len(s) + 1
        /\ j \in 1 .. Len(s) \/ j = Len(s) + 1
    BY <1>1
  <2>2. \A k \in 1 .. Len(s) : s[k] # x BY <1>3 DEF Image
  <2> QED BY <1>1, <1>3, <2>1, <2>2 DEF Inj
<1>4. Inj(s) /\ x \notin Image(s) => Inj(t) BY <1>3 DEF Inj
<1> QED BY <1>1, <1>2, <1>4 DEF t

(* Taking the head off a sequence. *)
LEMMA TailFacts ==
    ASSUME NEW S, NEW s \in Seq(S), s # <<>>
    PROVE  /\ Head(s) \in S /\ Tail(s) \in Seq(S) /\ Len(s) \in Nat \ {0}
           /\ Len(Tail(s)) = Len(s) - 1 /\ Head(s) = s[1]
           /\ \A i \in 1 .. Len(s) - 1 : Tail(s)[i] = s[i + 1]
           /\ Image(s) = {Head(s)} \union Image(Tail(s))
           /\ Inj(s) => Head(s) \notin Image(Tail(s)) /\ Inj(Tail(s))
<1> DEFINE t == Tail(s)
<1>1. /\ Head(s) \in S /\ t \in Seq(S) /\ Len(s) \in Nat \ {0}
      /\ Len(t) = Len(s) - 1 /\ Head(s) = s[1]
      /\ \A i \in 1 .. Len(s) - 1 : t[i] = s[i + 1]
  BY HeadTailProperties
<1> HIDE DEF t
<1>2. Image(s) = {Head(s)} \union Image(t)
  <2>1. \A i \in 1 .. Len(s) : s[i] \in {Head(s)} \union Image(t)
    <3> TAKE i \in 1 .. Len(s)
    <3>1. CASE i = 1 BY <1>1, <3>1
    <3>2. CASE i # 1
      <4>1. i - 1 \in 1 .. Len(t) /\ t[i - 1] = s[i] BY <1>1, <3>2
      <4> QED BY <4>1 DEF Image
    <3> QED BY <3>1, <3>2
  <2>2. \A i \in 1 .. Len(t) : t[i] \in Image(s)
    <3> TAKE i \in 1 .. Len(t)
    <3>1. i + 1 \in 1 .. Len(s) /\ t[i] = s[i + 1] BY <1>1
    <3> QED BY <3>1 DEF Image
  <2>3. Head(s) \in Image(s) BY <1>1 DEF Image
  <2> QED BY <2>1, <2>2, <2>3 DEF Image
<1>3. ASSUME Inj(s) PROVE Head(s) \notin Image(t) /\ Inj(t)
  <2>1. \A i \in 1 .. Len(t) : i + 1 \in 1 .. Len(s) /\ t[i] = s[i + 1] /\ i + 1 # 1
    BY <1>1
  <2>2. \A i \in 1 .. Len(t) : t[i] # Head(s)
    BY <1>1, <1>3, <2>1 DEF Inj
  <2>3. Inj(t)
    <3> SUFFICES ASSUME NEW i \in 1 .. Len(t), NEW j \in 1 .. Len(t), t[i] = t[j] PROVE i = j
      BY DEF Inj
    <3>1. i + 1 = j + 1 BY <1>3, <2>1 DEF Inj
    <3> QED BY <3>1
  <2> QED BY <2>2, <2>3 DEF Image
<1> QED BY <1>1, <1>2, <1>3 DEF t

(* A function on 1 .. n is a sequence. *)
LEMMA FunctionIsSeq ==
    ASSUME NEW S, NEW n \in Nat, NEW f \in [1 .. n -> S]
    PROVE  f \in Seq(S) /\ Len(f) = n
  OBVIOUS

(* A count is zero when nothing holds the unit back. *)
LEMMA OpenFinite ==
    ASSUME Types, NEW u \in Units
    PROVE  /\ Counted \subseteq Edges /\ OpenOf(u) \subseteq Counted
           /\ IsFiniteSet(OpenOf(u)) /\ Cardinality(OpenOf(u)) \in Nat
           /\ Cardinality(OpenOf(u)) <= Cardinality(Edges)
           /\ (Cardinality(OpenOf(u)) = 0 <=> OpenOf(u) = {})
<1>1. Counted \subseteq Edges BY DEF Counted
<1>2. OpenOf(u) \subseteq Counted BY DEF Open, OpenOf
<1>3. OpenOf(u) \in SUBSET Edges BY <1>1, <1>2
<1>4. IsFiniteSet(OpenOf(u)) /\ Cardinality(OpenOf(u)) <= Cardinality(Edges)
  BY <1>3, UnitsAssumption, FS_Subset
<1>5. Cardinality(OpenOf(u)) \in Nat BY <1>4, FS_CardinalityType
<1>6. Cardinality(OpenOf(u)) = 0 <=> OpenOf(u) = {} BY <1>4, FS_EmptySet
<1> QED BY <1>1, <1>2, <1>4, <1>5, <1>6

(* Between two units a count is zero exactly if the unit is ready. *)
LEMMA ReadyWhenZero ==
    ASSUME Types, CountInv, pending = {}, NEW u \in Units
    PROVE  remaining[u] = 0 <=> Ready(u, Image(order))
<1>1. remaining[u] = Cardinality(OpenOf(u)) BY DEF CountInv
<1>2. remaining[u] = 0 <=> OpenOf(u) = {} BY <1>1, OpenFinite
<1>3. OpenOf(u) = {} <=> Ready(u, Image(order)) BY DEF OpenOf, Open, Ready
<1> QED BY <1>2, <1>3

(* Between two bands the queue is the next one. *)
LEMMA QueueIsFrontier ==
    ASSUME Types, CountInv, BandInv, pc # "units"
    PROVE  Image(queue) = Frontier(Placed)
<1>1. Image(order) = Placed /\ pending = {} BY DEF BandInv
<1>2. Image(queue) \subseteq Units /\ Image(order) \subseteq Units BY DEF Types, Image
<1>3. \A u \in Units : u \in Image(queue) <=> remaining[u] = 0 /\ u \notin Image(order)
  BY <1>2 DEF CountInv
<1>4. \A u \in Units : remaining[u] = 0 <=> Ready(u, Placed) BY <1>1, ReadyWhenZero
<1> QED BY <1>1, <1>2, <1>3, <1>4 DEF Frontier

-----------------------------------------------------------------------------
(* Before the first band nothing is placed. *)
LEMMA NothingPlaced == ASSUME bands = <<>> PROVE Placed = {}
<1>1. Len(bands) = 0 BY EmptySeq
<1> QED BY <1>1 DEF Placed, PlacedBefore

(* The invariant holds when the counts have been made. *)
LEMMA InitInv == Init => Inv
<1> SUFFICES ASSUME Init PROVE Inv OBVIOUS
<1> USE DEF Init
<1> DEFINE Z == {u \in Units : remaining[u] = 0}
<1>1. Image(<<>>) = {} /\ Inj(<<>>) /\ Len(<<>>) = 0 BY DEF Image, Inj
<1>2. IsFiniteSet(Z) /\ Cardinality(Z) \in Nat
  BY UnitsAssumption, FS_Subset, FS_CardinalityType
<1>3. /\ queue \in [1 .. Cardinality(Z) -> Z] /\ Image(queue) = Z
  BY DEF Orders
<1>4. queue \in Seq(Z) /\ Len(queue) = Cardinality(Z)
  BY <1>2, <1>3, FunctionIsSeq
<1>5. Inj(queue)
  <2> DEFINE n == Cardinality(Z)
  <2>1. IsFiniteSet(1 .. n) /\ Cardinality(1 .. n) = n BY <1>2, FS_Interval
  <2>2. \A z \in Z : \E i \in 1 .. n : queue[i] = z BY <1>3, <1>4 DEF Image
  <2>3. queue \in Surjection(1 .. n, Z) BY <1>3, <2>2 DEF Surjection
  <2>4. queue \in Injection(1 .. n, Z) BY <2>1, <2>3, FS_SurjSameCardinalityImpliesInj
  <2>5. DOMAIN queue = 1 .. n BY <1>3
  <2> QED BY <1>4, <2>4, <2>5 DEF Injection, IsInjective, Inj
<1>6. Counted \subseteq Edges BY DEF Counted
<1>7. \A u \in Units : remaining[u] \in Nat /\ OpenOf(u) = {e \in Counted : from[e] = u}
  <2>1. Open = Counted BY <1>1 DEF Open
  <2>2. \A u \in Units : /\ IsFiniteSet({e \in Counted : from[e] = u})
                         /\ Cardinality({e \in Counted : from[e] = u}) \in Nat
    BY <1>6, UnitsAssumption, FS_Subset, FS_CardinalityType
  <2> QED BY <2>1, <2>2 DEF OpenOf, InitialCount, DependencyCount
<1>8. Types
  <2>1. queue \in Seq(Units) BY <1>4, SeqMonotonic
  <2>2. 0 \in 0 .. Len(queue) BY <1>2, <1>4
  <2>3. <<>> \in Seq(Units) /\ <<>> \in Seq(Seq(Units)) BY EmptySeq
  <2> QED BY <1>7, <2>1, <2>2, <2>3 DEF Types
<1>9. CountInv BY <1>1, <1>3, <1>5, <1>7 DEF CountInv, InitialCount, DependencyCount
<1>10. OrderInv BY <1>1 DEF OrderInv
<1>11. BandInv
  <2>1. Placed = {} BY NothingPlaced
  <2>2. Len(bands) = 0 BY <1>1
  <2> QED BY <1>1, <2>1, <2>2 DEF BandInv
<1> QED BY <1>8, <1>9, <1>10, <1>11 DEF Inv

(* Steps that leave the graph and the bands alone, and those that end one. *)
LEMMA GraphKept ==
    ASSUME UNCHANGED graphVars
    PROVE  /\ Counted' = Counted
           /\ \A u, P : Ready(u, P)' <=> Ready(u, P)
           /\ \A P : Frontier(P)' = Frontier(P)
  BY DEF graphVars, Counted, Ready, Frontier

(* Steps that leave the graph and the bands alone keep what bands say. *)
LEMMA BandsKept ==
    ASSUME UNCHANGED graphVars, UNCHANGED bands
    PROVE  /\ Placed' = Placed /\ \A k : PlacedBefore(k)' = PlacedBefore(k)
           /\ BandInv => \A k \in 1 .. Len(bands') :
                            Image(bands'[k]) = Frontier(PlacedBefore(k))'
  BY GraphKept DEF Placed, PlacedBefore, Frontier, BandInv, graphVars

(* Counts stay right when the queue holds the same units. *)
LEMMA CountKept ==
    ASSUME CountInv, OrderInv, UNCHANGED <<graphVars, remaining, pending, order>>,
           Image(queue') = Image(queue), Inj(queue')
    PROVE  CountInv' /\ OrderInv'
<1>1. Counted' = Counted /\ from' = from /\ to' = to BY GraphKept DEF graphVars
<1>2. Open' = Open BY <1>1 DEF Open
<1>3. \A u \in Units : OpenOf(u)' = OpenOf(u) BY <1>1, <1>2 DEF OpenOf
<1>4. CountInv' BY <1>1, <1>3 DEF CountInv
<1>5. OrderInv' BY <1>1 DEF OrderInv
<1> QED BY <1>4, <1>5

(* The queue becomes the next band. *)
LEMMA StartKeeps == ASSUME Inv, StartLevel PROVE Inv'
<1>1. /\ pc = "level" /\ UNCHANGED <<graphVars, remaining, queue, pending, bands, order>>
      /\ left' = Len(queue) /\ band' = <<>> /\ pc' = "units"
      /\ Types /\ CountInv /\ OrderInv /\ BandInv
  BY DEF StartLevel, Inv
<1>2. Len(queue) \in Nat BY <1>1 DEF Types
<1>3. Types' BY <1>1, <1>2 DEF Types, graphVars
<1>4. CountInv' /\ OrderInv' BY <1>1, CountKept DEF CountInv
<1>5. Image(queue) = Frontier(Placed) BY <1>1, QueueIsFrontier
<1>6. Front' = Image(queue) BY <1>1 DEF Front, Image
<1>7. Image(band') = {} BY <1>1 DEF Image
<1>8. Placed' = Placed /\ Frontier(Placed)' = Frontier(Placed)
  BY <1>1, BandsKept, GraphKept DEF Frontier
<1>9. BandInv'
  <2>1. Image(order') = Placed' \union Image(band') BY <1>1, <1>7, <1>8 DEF BandInv
  <2>2. Image(band') \union Front' = Frontier(Placed)' BY <1>5, <1>6, <1>7, <1>8
  <2> QED BY <1>1, <2>1, <2>2, BandsKept DEF BandInv
<1> QED BY <1>3, <1>4, <1>9 DEF Inv

(* A unit leaves the queue; what it holds back becomes pending. *)
LEMMA PopKeeps == ASSUME Inv, PopUnit PROVE Inv'
<1>1. /\ pc = "units" /\ pending = {} /\ left > 0
      /\ queue' = Tail(queue) /\ left' = left - 1
      /\ band' = Append(band, Head(queue)) /\ order' = Append(order, Head(queue))
      /\ pending' = {e \in Counted : to[e] = Head(queue)}
      /\ UNCHANGED <<graphVars, remaining, bands, pc>>
      /\ Types /\ CountInv /\ OrderInv /\ BandInv
  BY DEF PopUnit, Inv
<1> DEFINE h == Head(queue)
<1>2. left \in Nat /\ left <= Len(queue) /\ Len(queue) \in Nat /\ Len(queue) # 0 /\ queue # <<>>
  BY <1>1, EmptySeq DEF Types
<1>3. /\ h \in Units /\ Tail(queue) \in Seq(Units) /\ h = queue[1]
      /\ Len(Tail(queue)) = Len(queue) - 1
      /\ \A i \in 1 .. Len(queue) - 1 : Tail(queue)[i] = queue[i + 1]
      /\ Image(queue) = {h} \union Image(Tail(queue))
      /\ h \notin Image(Tail(queue)) /\ Inj(Tail(queue))
  BY <1>1, <1>2, TailFacts DEF Types, CountInv
<1>4. /\ order' \in Seq(Units) /\ Len(order') = Len(order) + 1 /\ Len(order) \in Nat
      /\ Image(order') = Image(order) \union {h} /\ order'[Len(order) + 1] = h
      /\ \A i \in 1 .. Len(order) : order'[i] = order[i]
      /\ Inj(order')
  <2>1. h \notin Image(order) BY <1>1, <1>3 DEF CountInv
  <2>2. order \in Seq(Units) /\ Inj(order) BY <1>1 DEF Types, CountInv
  <2> QED BY <1>1, <1>3, <2>1, <2>2, AppendFacts
<1>5. band' \in Seq(Units) /\ Image(band') = Image(band) \union {h}
  BY <1>1, <1>3, AppendFacts DEF Types
<1>6. Counted' = Counted /\ from' = from /\ to' = to BY <1>1, GraphKept DEF graphVars
<1>7. Types' BY <1>1, <1>2, <1>3, <1>4, <1>5 DEF Types, graphVars
<1>8. Open' = Open
  <2>1. h \notin Image(order) BY <1>1, <1>3 DEF CountInv
  <2>2. \A e \in Counted :
           to[e] \notin Image(order) <=> to[e] \notin Image(order') \/ e \in pending'
    BY <1>1, <1>4, <2>1
  <2>3. pending' \subseteq Counted BY <1>1
  <2> QED BY <1>1, <1>6, <2>2, <2>3 DEF Open
<1>9. CountInv'
  <2>1. \A u \in Units : OpenOf(u)' = OpenOf(u) BY <1>6, <1>8 DEF OpenOf
  <2>2. pending' \subseteq {e \in Counted' : to'[e] \in Image(order')} BY <1>1, <1>4, <1>6
  <2>3. \A u \in Units : remaining'[u] = Cardinality(OpenOf(u)') BY <1>1, <2>1 DEF CountInv
  <2>4. Inj(order') /\ Inj(queue') BY <1>1, <1>3, <1>4
  <2>5. /\ Image(order') \intersect Image(queue') = {}
        /\ Image(order') \union Image(queue') = Image(order) \union Image(queue)
    BY <1>1, <1>3, <1>4 DEF CountInv
  <2>6. Image(order') \union Image(queue') = {u \in Units : remaining'[u] = 0}
    BY <1>1, <2>5 DEF CountInv
  <2> QED BY <2>2, <2>3, <2>4, <2>5, <2>6 DEF CountInv
<1>10. OrderInv'
  <2> SUFFICES ASSUME NEW e \in Counted, NEW i \in 1 .. Len(order'), order'[i] = from[e]
               PROVE  \E j \in 1 .. i - 1 : order'[j] = to[e]
    BY <1>6 DEF OrderInv
  <2>1. CASE i \in 1 .. Len(order)
    <3>1. PICK j \in 1 .. i - 1 : order[j] = to[e] BY <1>1, <1>4, <2>1 DEF OrderInv
    <3>2. j \in 1 .. Len(order) BY <1>4, <2>1, <3>1
    <3> QED BY <1>4, <3>1, <3>2
  <2>2. CASE i = Len(order) + 1
    <3>1. from[e] = h BY <1>4, <2>2
    <3>2. remaining[h] = 0 BY <1>1, <1>3 DEF CountInv
    <3>3. Ready(h, Image(order)) BY <1>1, <1>3, <3>2, ReadyWhenZero
    <3>4. PICK j \in 1 .. Len(order) : order[j] = to[e] BY <3>1, <3>3 DEF Ready, Image
    <3> QED BY <1>4, <2>2, <3>4
  <2> QED BY <1>4, <2>1, <2>2
<1>11. Front = {h} \union Front'
  <2>1. Front' = {Tail(queue)[i] : i \in 1 .. left - 1} BY <1>1 DEF Front
  <2>2. \A i \in 1 .. left - 1 : Tail(queue)[i] = queue[i + 1] /\ i + 1 \in 1 .. left
    BY <1>2, <1>3
  <2>3. \A i \in 1 .. left : i = 1 \/ (i - 1 \in 1 .. left - 1 /\ queue[i] = Tail(queue)[i - 1])
    BY <1>2, <1>3
  <2>4. 1 \in 1 .. left BY <1>1, <1>2
  <2>5. Front' \subseteq Front BY <2>1, <2>2 DEF Front
  <2>6. h \in Front BY <1>3, <2>4 DEF Front
  <2>7. \A i \in 1 .. left : queue[i] \in {h} \union Front'
    <3> TAKE i \in 1 .. left
    <3>1. CASE i = 1 BY <1>3, <3>1
    <3>2. CASE i # 1
      <4>1. i - 1 \in 1 .. left - 1 /\ queue[i] = Tail(queue)[i - 1] BY <2>3, <3>2
      <4>2. Tail(queue)[i - 1] \in Front' BY <2>1, <4>1
      <4> QED BY <4>1, <4>2
    <3> QED BY <3>1, <3>2
  <2>8. Front \subseteq {h} \union Front' BY <2>7 DEF Front
  <2> QED BY <2>5, <2>6, <2>8
<1>12. BandInv'
  <2>1. Placed' = Placed /\ Frontier(Placed)' = Frontier(Placed)
    BY <1>1, BandsKept, GraphKept DEF Frontier
  <2>2. Image(order') = Placed' \union Image(band') BY <1>1, <1>4, <1>5, <2>1 DEF BandInv
  <2>3. Image(band') \union Front' = Frontier(Placed)'
    BY <1>1, <1>5, <1>11, <2>1 DEF BandInv
  <2> QED BY <1>1, <2>2, <2>3, BandsKept DEF BandInv
<1> QED BY <1>7, <1>9, <1>10, <1>12 DEF Inv

(* One entry less holds its unit back; the last one queues it. *)
LEMMA HandleKeeps == ASSUME Inv, NEW e \in Edges, HandleDependent(e) PROVE Inv'
<1>1. /\ pc = "units" /\ e \in pending /\ pending' = pending \ {e}
      /\ remaining' = [remaining EXCEPT ![from[e]] = @ - 1]
      /\ queue' = IF remaining[from[e]] = 1 THEN Append(queue, from[e]) ELSE queue
      /\ UNCHANGED <<graphVars, left, band, bands, order, pc>>
      /\ Types /\ CountInv /\ OrderInv /\ BandInv
  BY DEF HandleDependent, Inv
<1>0. PICK v \in Units : v = from[e] BY <1>1 DEF Types
<1>2. v = from[e] /\ e \in Counted /\ to[e] \in Image(order) /\ e \in Open /\ e \in OpenOf(v)
  BY <1>0, <1>1 DEF Types, CountInv, Open, OpenOf
<1>3. Counted' = Counted /\ from' = from /\ to' = to BY <1>1, GraphKept DEF graphVars
<1>4. Open' = Open \ {e} BY <1>1, <1>2, <1>3 DEF Open
<1>5. \A u \in Units : OpenOf(u)' = OpenOf(u) \ {e} BY <1>3, <1>4 DEF OpenOf
<1>6. \A u \in Units \ {v} : OpenOf(u)' = OpenOf(u)
  <2>1. \A u \in Units \ {v} : e \notin OpenOf(u) BY <1>2 DEF OpenOf
  <2> QED BY <1>5, <2>1
<1>7. Cardinality(OpenOf(v)') = Cardinality(OpenOf(v)) - 1
  <2>1. IsFiniteSet(OpenOf(v)) BY <1>1, <1>2, OpenFinite
  <2> QED BY <1>2, <1>5, <2>1, FS_RemoveElement
<1>8. remaining[v] \in Nat \ {0}
  <2>1. remaining[v] = Cardinality(OpenOf(v)) BY <1>1, <1>2 DEF CountInv
  <2>2. OpenOf(v) # {} BY <1>2
  <2> QED BY <1>1, <1>2, <2>1, <2>2, OpenFinite
<1>9. /\ remaining'[v] = remaining[v] - 1 /\ remaining' \in [Units -> Nat]
      /\ \A u \in Units \ {v} : remaining'[u] = remaining[u]
  BY <1>1, <1>2, <1>8 DEF Types
<1>10. \A u \in Units : remaining'[u] = Cardinality(OpenOf(u)')
  <2>1. \A u \in Units : remaining[u] = Cardinality(OpenOf(u)) BY <1>1 DEF CountInv
  <2> QED BY <1>2, <1>6, <1>7, <1>9, <2>1
<1>11. v \notin Image(queue) /\ v \notin Image(order) BY <1>1, <1>8 DEF CountInv
<1>12. /\ queue' \in Seq(Units) /\ Len(queue') >= Len(queue) /\ Inj(queue')
       /\ Image(queue') = Image(queue) \union (IF remaining[v] = 1 THEN {v} ELSE {})
       /\ \A i \in 1 .. Len(queue) : queue'[i] = queue[i]
       /\ Len(queue) \in Nat /\ Len(queue') \in Nat
  <2>1. queue \in Seq(Units) /\ Inj(queue) BY <1>1 DEF Types, CountInv
  <2>2. CASE remaining[v] = 1
    <3>1. queue' = Append(queue, v) BY <1>1, <1>2, <2>2
    <3>2. /\ queue' \in Seq(Units) /\ Len(queue') = Len(queue) + 1
          /\ Image(queue') = Image(queue) \union {v} /\ Inj(queue')
          /\ \A i \in 1 .. Len(queue) : queue'[i] = queue[i]
      BY <1>11, <2>1, <3>1, AppendFacts
    <3> QED BY <2>1, <2>2, <3>2
  <2>3. CASE remaining[v] # 1 BY <1>1, <1>2, <2>1, <2>3
  <2> QED BY <2>2, <2>3
<1>13. Types'
  <2>1. left' \in 0 .. Len(queue') BY <1>1, <1>12 DEF Types
  <2> QED BY <1>1, <1>9, <1>12, <2>1 DEF Types, graphVars
<1>14. CountInv'
  <2>1. pending' \subseteq {d \in Counted' : to'[d] \in Image(order')}
    BY <1>1, <1>3 DEF CountInv
  <2>2. Inj(order') /\ Inj(queue') BY <1>1, <1>12 DEF CountInv
  <2>3. Image(order') \intersect Image(queue') = {} BY <1>1, <1>11, <1>12 DEF CountInv
  <2>4. \A u \in Units : remaining'[u] = 0 <=> remaining[u] = 0 \/ (u = v /\ remaining[v] = 1)
    BY <1>8, <1>9
  <2>5. Image(order') \union Image(queue') = {u \in Units : remaining'[u] = 0}
    BY <1>1, <1>2, <1>12, <2>4 DEF CountInv
  <2> QED BY <1>10, <2>1, <2>2, <2>3, <2>5 DEF CountInv
<1>15. OrderInv' BY <1>1, <1>3 DEF OrderInv
<1>16. Front' = Front
  <2>1. 1 .. left \subseteq 1 .. Len(queue) BY <1>1 DEF Types
  <2> QED BY <1>1, <1>12, <2>1 DEF Front
<1>17. BandInv'
  <2>1. Placed' = Placed /\ Frontier(Placed)' = Frontier(Placed)
    BY <1>1, BandsKept, GraphKept DEF Frontier
  <2>2. Image(order') = Placed' \union Image(band') BY <1>1, <2>1 DEF BandInv
  <2>3. Image(band') \union Front' = Frontier(Placed)' BY <1>1, <1>16, <2>1 DEF BandInv
  <2> QED BY <1>1, <2>2, <2>3, BandsKept DEF BandInv
<1> QED BY <1>13, <1>14, <1>15, <1>17 DEF Inv

(* The band is complete when its part of the queue is used up. *)
LEMMA EndKeeps == ASSUME Inv, EndLevel PROVE Inv'
<1>1. /\ pc = "units" /\ pending = {} /\ left = 0
      /\ bands' = Append(bands, band) /\ pc' = "level"
      /\ UNCHANGED <<graphVars, remaining, queue, left, pending, band, order>>
      /\ Types /\ CountInv /\ OrderInv /\ BandInv
  BY DEF EndLevel, Inv
<1>2. /\ bands' \in Seq(Seq(Units)) /\ Len(bands') = Len(bands) + 1 /\ Len(bands) \in Nat
      /\ bands'[Len(bands) + 1] = band
      /\ \A i \in 1 .. Len(bands) : bands'[i] = bands[i]
  BY <1>1, AppendFacts DEF Types
<1>3. Types' BY <1>1, <1>2 DEF Types, graphVars
<1>4. CountInv' /\ OrderInv' BY <1>1, CountKept DEF CountInv
<1>5. Front = {} BY <1>1 DEF Front
<1>6. Image(band) = Frontier(Placed) /\ Image(order) = Placed \union Image(band)
  BY <1>1, <1>5 DEF BandInv
<1>7. \A k \in 1 .. Len(bands) + 1 : PlacedBefore(k)' = PlacedBefore(k)
  <2> TAKE k \in 1 .. Len(bands) + 1
  <2>1. \A j \in 1 .. k - 1 : bands'[j] = bands[j] BY <1>2
  <2> QED BY <2>1 DEF PlacedBefore
<1>8. Placed' = Placed \union Image(band)
  <2>1. Placed' = UNION {Image(bands'[j]) : j \in 1 .. Len(bands) + 1}
    BY <1>2 DEF Placed, PlacedBefore
  <2>2. Placed = UNION {Image(bands[j]) : j \in 1 .. Len(bands)}
    BY <1>2 DEF Placed, PlacedBefore
  <2>3. \A j \in 1 .. Len(bands) + 1 : j \in 1 .. Len(bands) \/ j = Len(bands) + 1 BY <1>2
  <2>4. Len(bands) + 1 \in 1 .. Len(bands) + 1
        /\ \A j \in 1 .. Len(bands) : j \in 1 .. Len(bands) + 1
    BY <1>2
  <2> QED BY <1>2, <2>1, <2>2, <2>3, <2>4
<1>9. BandInv'
  <2>1. \A k \in 1 .. Len(bands') : Image(bands'[k]) = Frontier(PlacedBefore(k))'
    <3> TAKE k \in 1 .. Len(bands')
    <3>1. PlacedBefore(k)' = PlacedBefore(k) BY <1>2, <1>7
    <3>2. Frontier(PlacedBefore(k))' = Frontier(PlacedBefore(k))
      BY <1>1, <3>1, GraphKept DEF Frontier
    <3>3. CASE k \in 1 .. Len(bands) BY <1>1, <1>2, <3>2, <3>3 DEF BandInv
    <3>4. CASE k = Len(bands) + 1 BY <1>2, <1>6, <3>2, <3>4 DEF Placed
    <3> QED BY <1>2, <3>3, <3>4
  <2>2. Image(order') = Placed' BY <1>1, <1>6, <1>8
  <2> QED BY <1>1, <2>1, <2>2 DEF BandInv
<1> QED BY <1>3, <1>4, <1>9 DEF Inv

(* The end of the loop, and stuttering. *)
LEMMA FinishKeeps == ASSUME Inv, Finish \/ UNCHANGED vars PROVE Inv'
<1>1. /\ UNCHANGED <<graphVars, remaining, queue, left, pending, band, bands, order>>
      /\ pc' = pc \/ (pc = "level" /\ pc' = "done" /\ queue = <<>>)
      /\ Types /\ CountInv /\ OrderInv /\ BandInv
  BY DEF Finish, vars, Inv
<1>2. Types' BY <1>1 DEF Types, graphVars
<1>3. CountInv' /\ OrderInv' BY <1>1, CountKept DEF CountInv
<1>4. Front' = Front /\ Placed' = Placed /\ Frontier(Placed)' = Frontier(Placed)
  BY <1>1, BandsKept, GraphKept DEF Front, Frontier
<1>5. BandInv' BY <1>1, <1>4, BandsKept DEF BandInv
<1> QED BY <1>2, <1>3, <1>5 DEF Inv

(* The invariant holds in every reachable state. *)
THEOREM InvHolds == Spec => []Inv
<1>1. Inv /\ [Next]_vars => Inv'
  BY StartKeeps, PopKeeps, HandleKeeps, EndKeeps, FinishKeeps DEF Next, Done
<1> QED BY InitInv, <1>1, PTL DEF Spec

-----------------------------------------------------------------------------
(* Every count stays in range, in particular above zero when it is lowered. *)
THEOREM KahnTypeCorrect == Spec => []TypeOK
<1>1. Inv => TypeOK
  <2> SUFFICES ASSUME Inv PROVE TypeOK OBVIOUS
  <2>1. Types /\ CountInv BY DEF Inv
  <2>2. \A u \in Units : remaining[u] \in 0 .. Cardinality(Edges)
    <3> TAKE u \in Units
    <3>1. remaining[u] = Cardinality(OpenOf(u)) BY <2>1 DEF CountInv
    <3>2. Cardinality(Edges) \in Nat BY UnitsAssumption, FS_CardinalityType
    <3> QED BY <2>1, <3>1, <3>2, OpenFinite
  <2>3. remaining \in [Units -> 0 .. Cardinality(Edges)] BY <2>1, <2>2 DEF Types
  <2>4. pending \subseteq Edges BY <2>1 DEF CountInv, Counted
  <2> QED BY <2>1, <2>3, <2>4 DEF Types, TypeOK
<1> QED BY <1>1, InvHolds, PTL

(* A unit's count is the number of entries not handled yet, and the unit is *)
(* queued or popped once exactly when it is zero.                           *)
THEOREM CountsAreRight == Spec => []CountsMatchGraph
<1>1. Inv => CountsMatchGraph
  <2> SUFFICES ASSUME Inv, NEW u \in Units
      PROVE  LET popped == Image(order)
                 handled == {e \in Counted : to[e] \in popped /\ e \notin pending}
             IN  /\ remaining[u] = Cardinality({e \in Counted \ handled : from[e] = u})
                 /\ Cardinality({i \in 1 .. Len(order \o queue) : (order \o queue)[i] = u})
                    = IF remaining[u] = 0 THEN 1 ELSE 0
    BY DEF CountsMatchGraph
  <2> DEFINE handled == {e \in Counted : to[e] \in Image(order) /\ e \notin pending}
             line == order \o queue
             places == {i \in 1 .. Len(line) : line[i] = u}
  <2>1. Types /\ CountInv BY DEF Inv
  <2>2. {e \in Counted \ handled : from[e] = u} = OpenOf(u) BY DEF OpenOf, Open
  <2>3. remaining[u] = Cardinality({e \in Counted \ handled : from[e] = u})
    BY <2>1, <2>2 DEF CountInv
  <2>4. /\ Len(line) = Len(order) + Len(queue) /\ Len(order) \in Nat /\ Len(queue) \in Nat
        /\ \A i \in 1 .. Len(order) + Len(queue) :
              line[i] = IF i <= Len(order) THEN order[i] ELSE queue[i - Len(order)]
    BY <2>1, ConcatProperties DEF Types
  <2> HIDE DEF line
  <2>5. u \in Image(order) \union Image(queue) <=> remaining[u] = 0 BY <2>1 DEF CountInv
  <2>6. \A i, j \in places : i = j
    <3> SUFFICES ASSUME NEW i \in places, NEW j \in places PROVE i = j OBVIOUS
    <3>1. \A k \in places :
             \/ k \in 1 .. Len(order) /\ order[k] = u
             \/ k - Len(order) \in 1 .. Len(queue) /\ queue[k - Len(order)] = u
      <4> TAKE k \in places
      <4>1. k \in 1 .. Len(order) + Len(queue) /\ line[k] = u BY <2>4
      <4>2. CASE k <= Len(order) BY <2>4, <4>1, <4>2
      <4>3. CASE ~(k <= Len(order)) BY <2>4, <4>1, <4>3
      <4> QED BY <4>2, <4>3
    <3>2. u \in Image(order) => u \notin Image(queue) BY <2>1 DEF CountInv
    <3>3. CASE u \in Image(order)
      <4>1. \A k \in 1 .. Len(queue) : queue[k] # u BY <3>2, <3>3 DEF Image
      <4>2. /\ i \in 1 .. Len(order) /\ order[i] = u
            /\ j \in 1 .. Len(order) /\ order[j] = u
        BY <3>1, <4>1
      <4> QED BY <2>1, <4>2 DEF CountInv, Inj
    <3>4. CASE u \notin Image(order)
      <4>1. \A k \in 1 .. Len(order) : order[k] # u BY <3>4 DEF Image
      <4>2. /\ i - Len(order) \in 1 .. Len(queue) /\ queue[i - Len(order)] = u
            /\ j - Len(order) \in 1 .. Len(queue) /\ queue[j - Len(order)] = u
        BY <3>1, <4>1
      <4>3. i - Len(order) = j - Len(order) BY <2>1, <4>2 DEF CountInv, Inj
      <4>4. i \in Nat /\ j \in Nat BY <2>4
      <4> QED BY <2>4, <4>3, <4>4
    <3> QED BY <3>3, <3>4
  <2>7. remaining[u] = 0 => places # {}
    <3> HAVE remaining[u] = 0
    <3>1. CASE u \in Image(order)
      <4>1. PICK i \in 1 .. Len(order) : order[i] = u BY <3>1 DEF Image
      <4>2. i \in places BY <2>4, <4>1
      <4> QED BY <4>2
    <3>2. CASE u \in Image(queue)
      <4>1. PICK i \in 1 .. Len(queue) : queue[i] = u BY <3>2 DEF Image
      <4>2. i + Len(order) \in 1 .. Len(line) /\ ~(i + Len(order) <= Len(order))
            /\ (i + Len(order)) - Len(order) = i
        BY <2>4, <4>1
      <4>3. i + Len(order) \in places BY <2>4, <4>1, <4>2
      <4> QED BY <4>3
    <3> QED BY <2>5, <3>1, <3>2
  <2>8. remaining[u] # 0 => places = {}
    <3> SUFFICES ASSUME NEW i \in places PROVE u \in Image(order) \union Image(queue) BY <2>5
    <3>1. \/ i \in 1 .. Len(order) /\ order[i] = u
          \/ i - Len(order) \in 1 .. Len(queue) /\ queue[i - Len(order)] = u
      BY <2>4
    <3> QED BY <3>1 DEF Image
  <2>9. Cardinality(places) = IF remaining[u] = 0 THEN 1 ELSE 0
    <3>1. CASE remaining[u] = 0
      <4>1. PICK i : i \in places BY <2>7, <3>1
      <4>2. places = {i} BY <2>6, <4>1
      <4>3. Cardinality({i}) = 1 BY FS_Singleton
      <4> QED BY <3>1, <4>2, <4>3
    <3>2. CASE remaining[u] # 0
      <4>1. Cardinality({}) = 0 BY FS_EmptySet
      <4> QED BY <2>8, <3>2, <4>1
    <3> QED BY <3>1, <3>2
  <2> QED BY <2>3, <2>9 DEF line
<1> QED BY <1>1, InvHolds, PTL

(* Each band holds exactly the units that are ready after the bands before *)
(* it, and at the end no unit is ready that is in no band.                 *)
THEOREM BandsAreRight == Spec => []BandsAreFrontiers
<1>1. Inv => BandsAreFrontiers
  <2> SUFFICES ASSUME Inv PROVE BandsAreFrontiers OBVIOUS
  <2>1. Types /\ CountInv /\ BandInv BY DEF Inv
  <2>2. ASSUME pc = "done", NEW u \in Units \ Placed PROVE ~Ready(u, Placed)
    <3>1. Image(queue) = Frontier(Placed) BY <2>1, <2>2, QueueIsFrontier
    <3>2. Image(queue) = {}
      <4>1. queue = <<>> BY <2>1, <2>2 DEF BandInv
      <4> QED BY <4>1 DEF Image
    <3> QED BY <2>2, <3>1, <3>2 DEF Frontier
  <2> QED BY <2>1, <2>2 DEF BandsAreFrontiers, BandInv, Frontier, Placed
<1> QED BY <1>1, InvHolds, PTL

(* The order is complete exactly when no set of units holds itself back. *)
THEOREM CompleteUnlessKnot == Spec => []CompleteIffNoKnot
<1>1. Inv => CompleteIffNoKnot
  <2> SUFFICES ASSUME Inv, pc = "done" PROVE OrderComplete <=> \A S \in SUBSET Units : ~Knot(S)
    BY DEF CompleteIffNoKnot, Inv, OrderInv
  <2>1. Types /\ CountInv /\ OrderInv /\ BandInv BY DEF Inv
  <2>2. OrderComplete <=> Image(order) = Units
    <3> DEFINE n == Len(order)
    <3>1. n \in Nat /\ order \in [1 .. n -> Units] BY <2>1, LenProperties DEF Types
    <3>2. DOMAIN order = 1 .. n BY <3>1
    <3>3. order \in Injection(1 .. n, Units)
      BY <2>1, <3>1, <3>2 DEF CountInv, Inj, Injection, IsInjective
    <3>4. Cardinality(1 .. n) = n BY <3>1, FS_Interval
    <3>5. n = Cardinality(Units) <=> order \in Surjection(1 .. n, Units)
      BY <3>3, <3>4, UnitsAssumption, FS_Injection
    <3>6. order \in Surjection(1 .. n, Units) <=> Image(order) = Units
      BY <3>1 DEF Surjection, Image
    <3> QED BY <3>5, <3>6 DEF OrderComplete
  <2>3. ASSUME Image(order) = Units, NEW S \in SUBSET Units, Knot(S) PROVE FALSE
    <3> DEFINE T == {i \in 1 .. Len(order) : order[i] \in S}
    <3>1. T \subseteq Nat BY <2>1 DEF Types
    <3>2. T # {}
      <4>1. PICK u \in S : u \in Image(order) BY <2>3 DEF Knot
      <4> QED BY <4>1 DEF Image
    <3>3. PICK i \in T : \A j \in T : ~(<<j, i>> \in OpToRel(<, Nat))
      BY <3>1, <3>2, NatLessThanWellFounded, WFMin
    <3>4. \A j \in T : ~(j < i) BY <3>1, <3>3 DEF OpToRel
    <3>5. PICK e \in Counted : from[e] = order[i] /\ to[e] \in S \union Outside
      BY <2>3, <3>3 DEF Knot
    <3>6. PICK j \in 1 .. i - 1 : order[j] = to[e] BY <2>1, <3>5 DEF OrderInv
    <3>7. j \in 1 .. Len(order) /\ j < i BY <2>1, <3>1, <3>6 DEF Types
    <3>8. to[e] \in Units BY <2>1, <3>6, <3>7 DEF Types
    <3>9. to[e] \in S BY <3>5, <3>8, OutsideAssumption
    <3> QED BY <3>4, <3>6, <3>7, <3>9
  <2>4. ASSUME Image(order) # Units PROVE \E S \in SUBSET Units : Knot(S)
    <3> DEFINE S == Units \ Image(order)
    <3>1. Image(order) = Placed BY <2>1 DEF BandInv
    <3>2. S # {}
      <4>1. Image(order) \subseteq Units BY <2>1 DEF Types, Image
      <4> QED BY <2>4, <4>1
    <3>3. Image(queue) = Frontier(Placed) BY <2>1, QueueIsFrontier
    <3>4. Image(queue) = {}
      <4>1. queue = <<>> BY <2>1 DEF BandInv
      <4> QED BY <4>1 DEF Image
    <3>5. \A u \in S : ~Ready(u, Image(order)) BY <3>1, <3>3, <3>4 DEF Frontier
    <3>6. \A e \in Counted : to[e] \in Units \union Outside BY <2>1 DEF Types, Counted
    <3>7. \A u \in S : \E e \in Counted : from[e] = u /\ to[e] \in S \union Outside
      BY <3>5, <3>6 DEF Ready
    <3>8. Knot(S) BY <3>2, <3>7 DEF Knot
    <3> QED BY <3>8
  <2> QED BY <2>2, <2>3, <2>4
<1> QED BY <1>1, InvHolds, PTL

-----------------------------------------------------------------------------
(* TERMINATION                                                              *)
(* A band that was begun has a unit to pop or has popped one. *)
BandNotEmpty == pc = "units" => left > 0 \/ band # <<>>

(* A band is begun with a queue that is not empty. *)
LEMMA StepBandNotEmpty ==
    ASSUME Inv, BandNotEmpty, [Next]_vars
    PROVE  BandNotEmpty'
<1> USE DEF Inv, Types, BandNotEmpty
<1>1. CASE StartLevel
  <2>1. Len(queue) # 0 /\ Len(queue) \in Nat BY <1>1 DEF StartLevel
  <2> QED BY <1>1, <2>1 DEF StartLevel
<1>2. CASE PopUnit
  <2>1. Head(queue) \in Units
    <3>1. queue # <<>> BY <1>2 DEF PopUnit
    <3> QED BY <3>1, TailFacts
  <2>2. band \in Seq(Units) OBVIOUS
  <2>3. Append(band, Head(queue)) # <<>>
    <3> HIDE DEF Inv, Types, BandNotEmpty
    <3> QED BY <2>1, <2>2, AppendProperties
  <2>4. band' # <<>> BY <1>2, <2>3 DEF PopUnit
  <2> QED BY <2>4
<1>3. ASSUME NEW e \in Edges, HandleDependent(e) PROVE BandNotEmpty'
  BY <1>3 DEF HandleDependent
<1>4. CASE EndLevel BY <1>4 DEF EndLevel
<1>5. CASE Finish BY <1>5 DEF Finish
<1>6. CASE UNCHANGED vars BY <1>6 DEF vars
<1> QED BY <1>1, <1>2, <1>3, <1>4, <1>5, <1>6 DEF Next, Done

(* The most steps that are left: the units not popped, each with the head and *)
(* the end of a band, the entries not handled, and where the loop is.         *)
Unpopped == Units \ Image(order)

LoopStepsLeft ==
    IF pc = "done" THEN 0
    ELSE IF pc = "level" THEN 2
    ELSE IF band = <<>> THEN 1 ELSE 3

StepsLeft == 3 * Cardinality(Unpopped) + Cardinality(Open) + LoopStepsLeft

(* It is a number. *)
LEMMA StepsLeftIsNat ==
    /\ IsFiniteSet(Unpopped) /\ Cardinality(Unpopped) \in Nat
    /\ IsFiniteSet(Open) /\ Cardinality(Open) \in Nat
    /\ LoopStepsLeft \in Nat
    /\ StepsLeft \in Nat
<1>1. Unpopped \in SUBSET Units BY DEF Unpopped
<1>2. Open \in SUBSET Edges BY DEF Open, Counted
<1>3. IsFiniteSet(Unpopped) /\ IsFiniteSet(Open)
  BY <1>1, <1>2, FS_Subset, UnitsAssumption
<1>4. Cardinality(Unpopped) \in Nat /\ Cardinality(Open) \in Nat
  BY <1>3, FS_CardinalityType
<1>5. LoopStepsLeft \in Nat BY DEF LoopStepsLeft
<1> QED BY <1>3, <1>4, <1>5 DEF StepsLeft

(* Each step takes at least one away. *)
LEMMA StepsRunOut ==
    ASSUME Inv, BandNotEmpty, Next
    PROVE  StepsLeft' < StepsLeft \/ Done
<1> DEFINE N == Cardinality(Unpopped)
           O == Cardinality(Open)
           P == LoopStepsLeft
<1>1. N \in Nat /\ O \in Nat /\ P \in Nat BY StepsLeftIsNat
<1>2. StepsLeft = 3 * N + O + P BY DEF StepsLeft
<1>3. StepsLeft' = 3 * N' + O' + P' BY DEF StepsLeft
<1>4. UNCHANGED order => N' = N BY DEF Unpopped
<1>5. UNCHANGED <<graphVars, order, pending>> => O' = O
  BY DEF Open, Counted, graphVars
<1> USE DEF Inv, Types
<1>6. CASE StartLevel
  <2>1. N' = N /\ O' = O BY <1>4, <1>5, <1>6 DEF StartLevel
  <2>2. P = 2 /\ P' = 1 BY <1>6 DEF StartLevel, LoopStepsLeft
  <2> HIDE DEF N, O, P
  <2> QED BY <1>1, <1>2, <1>3, <2>1, <2>2
<1>7. CASE PopUnit
  <2> DEFINE h == Head(queue)
  <2>1. queue # <<>> BY <1>7 DEF PopUnit
  <2>2. h \in Units /\ h \in Image(queue) BY <2>1, TailFacts
  <2>3. h \notin Image(order) BY <2>2 DEF CountInv
  <2>4. order' = Append(order, h) /\ Image(order)' = Image(order) \union {h}
    <3>1. order' = Append(order, h) BY <1>7 DEF PopUnit
    <3>2. Image(Append(order, h)) = Image(order) \union {h} BY <2>2, AppendFacts
    <3> QED BY <3>1, <3>2
  <2>5. Unpopped' = Unpopped \ {h} /\ h \in Unpopped
    BY <2>2, <2>3, <2>4 DEF Unpopped
  <2>6. N' = N - 1 BY <2>5, StepsLeftIsNat, FS_RemoveElement
  <2>7. Open' = Open
    <3>1. pending = {} /\ pending' = {e \in Counted : to[e] = h} /\ Counted' = Counted
          /\ to' = to
      BY <1>7 DEF PopUnit, graphVars, Counted
    <3> HIDE DEF h
    <3> QED BY <2>3, <2>4, <3>1 DEF Open
  <2>8. O' = O BY <2>7
  <2>9. (P = 1 \/ P = 3) /\ (P' = 1 \/ P' = 3) BY <1>7 DEF PopUnit, LoopStepsLeft
  <2> HIDE DEF N, O, P
  <2> QED BY <1>1, <1>2, <1>3, <2>6, <2>8, <2>9
<1>8. ASSUME NEW e \in Edges, HandleDependent(e) PROVE StepsLeft' < StepsLeft
  <2>1. e \in Open /\ Open' = Open \ {e}
    <3>1. /\ pending' = pending \ {e} /\ e \in pending
          /\ order' = order /\ to' = to /\ Counted' = Counted
      BY <1>8 DEF HandleDependent, graphVars, Counted
    <3>2. e \in Counted /\ to[e] \in Image(order) BY <3>1 DEF CountInv
    <3> QED BY <3>1, <3>2 DEF Open
  <2>2. O' = O - 1 BY <2>1, StepsLeftIsNat, FS_RemoveElement
  <2>3. N' = N BY <1>4, <1>8 DEF HandleDependent
  <2>4. P' = P BY <1>8 DEF HandleDependent, LoopStepsLeft
  <2> HIDE DEF N, O, P
  <2> QED BY <1>1, <1>2, <1>3, <2>2, <2>3, <2>4
<1>9. CASE EndLevel
  <2>1. N' = N /\ O' = O BY <1>4, <1>5, <1>9 DEF EndLevel
  <2>2. P = 3 /\ P' = 2 BY <1>9 DEF EndLevel, LoopStepsLeft, BandNotEmpty
  <2> HIDE DEF N, O, P
  <2> QED BY <1>1, <1>2, <1>3, <2>1, <2>2
<1>10. CASE Finish
  <2>1. N' = N /\ O' = O BY <1>4, <1>5, <1>10 DEF Finish
  <2>2. P = 2 /\ P' = 0 BY <1>10 DEF Finish, LoopStepsLeft
  <2> HIDE DEF N, O, P
  <2> QED BY <1>1, <1>2, <1>3, <2>1, <2>2
<1> QED BY <1>6, <1>7, <1>8, <1>9, <1>10 DEF Next

(* Every step brings the end nearer, on any graph, cyclic ones included. *)
LevelsComeToAnEnd == [][StepsLeft' < StepsLeft]_vars

(* The levels take at most three steps for each unit, one for each entry and *)
(* two more.                                                                 *)
THEOREM KahnRunsInBoundedSteps ==
    Spec => /\ StepsLeft <= 3 * Cardinality(Units) + Cardinality(Edges) + 2
            /\ [](StepsLeft \in Nat)
            /\ LevelsComeToAnEnd
<1>1. Init => BandNotEmpty BY DEF Init, BandNotEmpty
<1>2. Init => StepsLeft <= 3 * Cardinality(Units) + Cardinality(Edges) + 2
  <2> SUFFICES ASSUME Init
               PROVE  StepsLeft <= 3 * Cardinality(Units) + Cardinality(Edges) + 2
    OBVIOUS
  <2>1. LoopStepsLeft = 2 BY DEF Init, LoopStepsLeft
  <2>2. /\ Unpopped \in SUBSET Units /\ Open \in SUBSET Edges
    BY DEF Unpopped, Open, Counted
  <2>3. /\ Cardinality(Unpopped) <= Cardinality(Units)
        /\ Cardinality(Open) <= Cardinality(Edges)
    BY <2>2, FS_Subset, UnitsAssumption
  <2>4. Cardinality(Units) \in Nat /\ Cardinality(Edges) \in Nat
    BY FS_CardinalityType, UnitsAssumption
  <2>5. Cardinality(Unpopped) \in Nat /\ Cardinality(Open) \in Nat
    BY StepsLeftIsNat
  <2> QED BY <2>1, <2>3, <2>4, <2>5 DEF StepsLeft
<1>3. Inv /\ BandNotEmpty /\ [Next]_vars => BandNotEmpty' BY StepBandNotEmpty
<1>4. Inv /\ BandNotEmpty /\ [Next]_vars => [StepsLeft' < StepsLeft]_vars
  BY StepsRunOut DEF Done
<1>5. StepsLeft \in Nat BY StepsLeftIsNat
<1> QED BY <1>1, <1>2, <1>3, <1>4, <1>5, InvHolds, PTL DEF Spec, LevelsComeToAnEnd
============================================================================
